----------------------------- MODULE Conversations -----------------------------
(***************************************************************************)
(* Conversations as training data (qorl.sft.dataset).  The two splits of a *)
(* source are read conversation by conversation and message by message;    *)
(* then, split by split, every reply of the assistant becomes a request    *)
(* that is rendered, and skipped or rejected with its conversation; and    *)
(* the accepted requests of the split are packed into rows.                *)
(*                                                                         *)
(* A message has a role; of an assistant, its calls (IDs), those among     *)
(* them whose tool is unknown, whose arguments are not valid, and that     *)
(* evaluate a candidate; of a tool, the call it answers and whether the    *)
(* answer says that the action was not valid.  A request is a conversation *)
(* of the source and the index of its reply.                               *)
(***************************************************************************)
EXTENDS FiniteSetsExt, SequencesExt, Integers

CONSTANTS Headings,       \* a conversation may have: its ID and its task
          Messages,       \* it may consist of
          Selected,       \* of each role: the tasks of the experiment
          Manifests,      \* of a source: the tasks of each role
          Renderings,     \* of a request: <<tokens, has targets>>
          ContextLength,
          MaxConversations, MaxMessages  \* bounds: of a source

ROLES == <<"train", "validation">>

ASSUME SourceAssumption ==
    /\ \A m \in Messages : m.faulty \cup m.candidates \subseteq m.calls
    /\ Renderings \subseteq Nat \X BOOLEAN /\ ContextLength \in Nat

VARIABLES source,    \* the conversations that have been read
          manifest,  \* of the source
          split,     \* the index of the role that is read, then rendered and packed
          record,    \* the conversation that is read
          pending, calls, skipped, evaluated,  \* of validate_conversation
          rendered,  \* of the conversations rendered so far
          unpacked,  \* the requests that are still to be packed, shuffled
          rows,      \* of each role
          preparing  \* "load", "read", "render", "shuffle", "pack", "prepared", "failed"

reading == <<record, pending, calls, skipped, evaluated>>
packing == <<unpacked, rows>>
conversationVars == <<source, manifest, split, reading, rendered, packing, preparing>>

NoRecord == [id |-> 0, task |-> 0, messages |-> <<>>]

ConversationInit ==
    /\ source = <<>> /\ manifest \in Manifests /\ split = 1
    /\ record = NoRecord
    /\ pending = {} /\ calls = {} /\ skipped = {} /\ evaluated = <<>>
    /\ rendered = <<>> /\ unpacked = <<>>
    /\ rows = [r \in ToSet(ROLES) |-> <<>>] /\ preparing = "load"

MessagesRead ==
    Len(record.messages) + FoldSeq(LAMBDA c, sum : Len(c.messages) + sum, 0, source)

-----------------------------------------------------------------------------
(* load_source.                                                            *)

\* The split is of the tasks, seeds and expression of the experiment.
SameSelection == manifest[ROLES[split]] = Selected[ROLES[split]]

\* The next conversation of the split: what is read of it before its messages.
LoadRecord ==
    /\ preparing = "load" /\ Len(source) < MaxConversations
    /\ SameSelection
    /\ \E h \in Headings :
          IF /\ \A c \in ToSet(source) : c.id # h.id
             /\ h.task \in manifest[ROLES[split]]
          THEN record' = [id |-> h.id, task |-> h.task, messages |-> <<>>]
               /\ preparing' = "read"
          ELSE preparing' = "failed" /\ UNCHANGED record
    /\ pending' = {} /\ calls' = {} /\ skipped' = {} /\ evaluated' = <<>>
    /\ UNCHANGED <<source, manifest, split, rendered, packing>>

\* The split has no more of them, or is not the one that was selected.
EndSplit ==
    /\ preparing = "load"
    /\ IF ~SameSelection THEN preparing' = "failed" /\ UNCHANGED split
       ELSE IF split < Len(ROLES)
       THEN split' = split + 1 /\ UNCHANGED preparing
       ELSE split' = 1 /\ preparing' = "render"
    /\ UNCHANGED <<source, manifest, reading, rendered, packing>>

\* Mutant: other messages may come between a call and its answer.
BrokenAnswersOnly(m) ==
    \/ m.calls # {} /\ m.role # "assistant"
    \/ m.calls \cap calls # {} \/ m.unknown # {}
    \/ m.role = "tool" /\ m.answers \notin pending

Broken(m) ==
    \/ pending # {} /\ m.role # "tool"
    \/ m.calls # {} /\ m.role # "assistant"
    \/ m.calls \cap calls # {} \/ m.unknown # {}
    \/ m.role = "tool" /\ m.answers \notin pending

\* An answer may say of the candidate of an earlier reply that it was not valid.
SkippedBy(m, index) ==
    IF m.role = "tool" /\ m.refused /\ m.answers \in DOMAIN evaluated
    THEN {evaluated[m.answers]}
    ELSE IF m.faulty # {} THEN {index} ELSE {}

\* validate_conversation, one message.
ReadMessage ==
    /\ preparing = "read" /\ MessagesRead < MaxMessages
    /\ \E m \in Messages :
          LET index == Len(record.messages) + 1
          IN  /\ record' = [record EXCEPT !.messages = Append(@, m)]
              /\ IF Broken(m)
                 THEN preparing' = "failed" /\ UNCHANGED <<pending, calls, skipped, evaluated>>
                 ELSE /\ calls' = calls \cup m.calls
                      /\ pending' = (pending \cup m.calls)
                                    \ (IF m.role = "tool" THEN {m.answers} ELSE {})
                      /\ evaluated' = [c \in DOMAIN evaluated \cup m.candidates |->
                                          IF c \in m.candidates THEN index ELSE evaluated[c]]
                      /\ skipped' = skipped \cup SkippedBy(m, index)
                      /\ UNCHANGED preparing
    /\ UNCHANGED <<source, manifest, split, rendered, packing>>

EndRecord ==
    /\ preparing = "read" /\ record.messages # <<>>
    /\ source' = Append(source, [id |-> record.id, task |-> record.task,
                                 role |-> ROLES[split], messages |-> record.messages,
                                 skipped |-> skipped])
    /\ record' = NoRecord /\ preparing' = "load"
    /\ UNCHANGED <<manifest, split, pending, calls, skipped, evaluated, rendered, packing>>

-----------------------------------------------------------------------------
(* render_conversation.                                                    *)

Replies(c) == {i \in DOMAIN c.messages : c.messages[i].role = "assistant"}

\* render_request of every reply: its tokens, and whether it has any to learn.
RenderedRequests(c) == [Replies(c) -> Renderings]

\* The length of every reply counts, of a skipped one too.
Rejection(sizes, kept) ==
    IF kept = {} THEN "no_targets"
    ELSE IF \E i \in DOMAIN sizes : sizes[i][1] > ContextLength THEN "over_context"
    ELSE IF \E i \in kept : ~sizes[i][2] THEN "no_targets"
    ELSE "none"

RenderConversation ==
    /\ preparing = "render" /\ Len(rendered) < Len(source)
    /\ source[Len(rendered) + 1].role = ROLES[split]
    /\ LET c == source[Len(rendered) + 1]
           kept == Replies(c) \ c.skipped
       IN  \E sizes \in RenderedRequests(c) :
              rendered' = Append(rendered, [sizes |-> sizes, requests |-> kept,
                                            rejection |-> Rejection(sizes, kept)])
    /\ UNCHANGED <<source, manifest, split, reading, packing, preparing>>

Rendered ==
    /\ preparing = "render"
    /\ Len(rendered) < Len(source) => source[Len(rendered) + 1].role # ROLES[split]
    /\ preparing' = "shuffle"
    /\ UNCHANGED <<source, manifest, split, reading, rendered, packing>>

-----------------------------------------------------------------------------
(* pack_conversations.                                                     *)

\* A request is a row of one: its input tokens.
Length(r) == rendered[r[1]].sizes[r[2]][1]
RowLength(row) == FoldSeq(LAMBDA r, sum : Length(r) + sum, 0, row)
Accepted == {c \in DOMAIN rendered : /\ source[c].role = ROLES[split]
                                     /\ rendered[c].rejection = "none"}
AcceptedRequests == UNION {{<<c, i>> : i \in rendered[c].requests} : c \in Accepted}

\* Random(seed).shuffle.
Shuffle ==
    /\ preparing = "shuffle"
    /\ IF \E r \in AcceptedRequests : Length(r) > ContextLength
       THEN preparing' = "failed" /\ UNCHANGED unpacked
       ELSE preparing' = "pack" /\ unpacked' \in SetToSeqs(AcceptedRequests)
    /\ UNCHANGED <<source, manifest, split, reading, rendered, rows>>

\* The native packer takes what still fits into a row, and may leave a last row out.
FillRow ==
    /\ preparing = "pack"
    /\ \E n \in 1 .. Len(unpacked) :
          LET members == SubSeq(unpacked, 1, n)
          IN  /\ RowLength(members) <= ContextLength
              /\ rows' = [rows EXCEPT ![ROLES[split]] = Append(@, members)]
              /\ unpacked' = SubSeq(unpacked, n + 1, Len(unpacked))
    /\ UNCHANGED <<source, manifest, split, reading, rendered, preparing>>

AllPacked == unpacked = <<>>
BothSplits == \A r \in DOMAIN rows : rows[r] # <<>>

\* The packer is done with the split, or with both of them.
Packed ==
    /\ preparing = "pack"
    /\ IF ~AllPacked THEN preparing' = "failed" /\ UNCHANGED split
       ELSE IF split < Len(ROLES) THEN split' = split + 1 /\ preparing' = "render"
       ELSE preparing' = (IF BothSplits THEN "prepared" ELSE "failed") /\ UNCHANGED split
    /\ UNCHANGED <<source, manifest, reading, rendered, packing>>

ConversationNext ==
    \/ LoadRecord \/ EndSplit \/ ReadMessage \/ EndRecord
    \/ RenderConversation \/ Rendered \/ Shuffle \/ FillRow \/ Packed

ConversationSpec == ConversationInit /\ [][ConversationNext]_conversationVars

-----------------------------------------------------------------------------
\* A history that a policy could have had: every answer is to a call made before it
\* and not answered yet, and the calls of a reply are answered before anyone speaks.
Answers(messages, c) ==
    {j \in DOMAIN messages : messages[j].role = "tool" /\ messages[j].answers = c}

WellFormed(messages) ==
    \A i \in DOMAIN messages :
        /\ messages[i].role = "tool" =>
              \E j \in 1 .. i - 1 : messages[i].answers \in messages[j].calls
        /\ messages[i].calls # {} => messages[i].role = "assistant"
        /\ messages[i].unknown = {}
        /\ \A c \in messages[i].calls :
              /\ \A j \in DOMAIN messages : c \in messages[j].calls => j = i
              /\ Cardinality(Answers(messages, c)) <= 1
              /\ \A k \in i + 1 .. Len(messages) :
                    messages[k].role # "tool" =>
                        \E j \in Answers(messages, c) : i < j /\ j < k

\* The replies that a policy should not learn from.
Wrong(messages) ==
    {i \in DOMAIN messages :
        \/ messages[i].faulty # {}
        \/ \E c \in messages[i].candidates : \E j \in Answers(messages, c) : messages[j].refused}

\* What of a conversation is worth learning, given the sizes of its replies.
Learned(c) ==
    LET messages == source[c].messages
        good == Replies(source[c]) \ Wrong(messages)
        sizes == rendered[c].sizes
    IN  IF /\ \A i \in DOMAIN sizes : sizes[i][1] <= ContextLength
           /\ \A i \in good : sizes[i][2]
        THEN {<<c, i>> : i \in good} ELSE {}

(* What is packed is exactly what a policy may learn from: only histories  *)
(* that are whole are read, and only of the tasks selected for their       *)
(* split, each once; and of those whose every reply fits, every reply that *)
(* was not wrong is packed once, in a row that fits                        *)
(* (sft.dataset.validate_conversation, load_source, render_conversation,   *)
(* pack_conversations).                                                    *)
PackedIsWhatIsLearned ==
    /\ \A c \in DOMAIN source :
          /\ WellFormed(source[c].messages)
          /\ source[c].task \in Selected[source[c].role]
          /\ \A d \in DOMAIN source : source[d].id = source[c].id => d = c
    /\ preparing = "prepared" =>
          \A role \in DOMAIN rows :
             LET flat == FlattenSeq(rows[role])
             IN  /\ flat # <<>> /\ IsInjective(flat)
                 /\ ToSet(flat) = UNION {Learned(c) : c \in {d \in DOMAIN source :
                                                             source[d].role = role}}
                 /\ \A row \in ToSet(rows[role]) : RowLength(row) <= ContextLength
=============================================================================
