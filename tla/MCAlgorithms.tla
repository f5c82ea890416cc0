------------------------------ MODULE MCAlgorithms ------------------------------
(***************************************************************************)
(* Instances for TLC of the components that run by themselves: plan        *)
(* actions, task selections, conversations, the time of a drain, and the   *)
(* turns of a model client.  A behaviour is of one of them; the others     *)
(* stay as they are.                                                       *)
(***************************************************************************)
EXTENDS Plans, TaskSelection, Conversations, DrainTime, ModelClients

VARIABLE part

-----------------------------------------------------------------------------
(* Plans: a query of three relations in a chain, the middle one with two   *)
(* indexes.                                                                *)

Chain == {{1, 2}, {2, 3}}
SomeIndexes == <<{"a"}, {"b", "c"}, {}>>

\* Every tree of up to two joins on a path, those that name a relation twice included.
SomeTrees ==
    LET leaves == {<<r>> : r \in 1 .. 3}
        pairs == leaves \cup leaves \X leaves
    IN  pairs \cup pairs \X pairs

JoinTargets == {<<1, 2>>, <<3, 2>>, <<1, 3>>, <<3, 1, 2>>, <<2, 2>>}
SomeProposals ==
    [leading |-> Trees \cup {<<<<1>>, <<2>>>>, <<<<1>>, <<<<2>>, <<1>>>>>>},
     joins |-> [relations : JoinTargets, force : {AUTO, "hash", "nestloop"},
                forbid : {{}, {"hash"}, {"hash", "merge"}, {"nestloop"}, JoinMethod},
                memoize : {AUTO, "force", "forbid"}],
     scans |-> [relation : {2}, force : {AUTO} \cup ScanMethod,
                forbid : SUBSET ScanMethod, indexes : {{}, {"b"}}]
               \cup [relation : {1, 3}, force : {AUTO, "index"},
                     forbid : {{}, {"seq"}, {"seq", "bitmap"}}, indexes : {{}, {"b"}}],
     disabled |-> [relation : {1, 2}, indexes : {{}, {"a"}, {"b"}, {"b", "c"}}],
     rows |-> [relations : {<<1, 2>>, <<2, 1>>, <<1, 3>>}, mode : {"absolute", "multiply"},
               value : {-4, -3, 4, 13}],
     parallel |-> [relation : {1, 2}, workers : {0, 2, 3}, mode : {"soft", "hard"}],
     settings |-> [{"enable_hashjoin"} -> BOOLEAN] \cup [{"enable_memoize"} -> {FALSE}]
                  \cup [{"enable_indexscan"} -> {FALSE}]
                  \cup [{"seq_page_cost"} -> {6, 7}]
                  \cup [{"effective_cache_size"} -> {-1, 6}]]

\* Joins of every kind over every tree; the scan of relation 2 varies, and may
\* be parallel under a Gather above it or above the whole plan.
ScanOf(r) == [Node("SeqScan", <<>>) EXCEPT !.alias = r]
MiddleScans ==
    {ScanOf(2), [ScanOf(2) EXCEPT !.aware = TRUE]}
    \cup {[ScanOf(2) EXCEPT !.type = t, !.index = i] :
            t \in {"IndexScan", "IndexOnlyScan"}, i \in {"b", "c"}}
    \cup {[Node("BitmapHeapScan", <<[Node("BitmapIndexScan", <<>>) EXCEPT !.index = "b"]>>)
              EXCEPT !.alias = 2]}
Gathers(p) == {p} \cup {[Node("Gather", <<p>>) EXCEPT !.workers = w] : w \in {1, 2}}

JoinsOf(outer, inner) ==
    {Node("HashJoin", <<outer, Node("Hash", <<inner>>)>>),
     Node("MergeJoin", <<Node("Sort", <<outer>>), inner>>),
     Node("NestedLoop", <<outer, inner>>),
     Node("NestedLoop", <<outer, Node("Memoize", <<inner>>)>>)}
RECURSIVE PlansOf(_, _)
PlansOf(tree, middle) ==
    IF Len(tree) = 1 THEN {IF tree[1] = 2 THEN middle ELSE ScanOf(tree[1])}
    ELSE UNION {JoinsOf(o, i) : o \in PlansOf(tree[1], middle),
                                i \in PlansOf(tree[2], middle)}
SomePlans ==
    UNION {PlansOf(t, ScanOf(2)) : t \in Trees}
    \cup UNION {Gathers(p) : p \in UNION {PlansOf(<<<<1>>, <<<<2>>, <<3>>>>>>, m) :
                                 m \in MiddleScans}}
    \cup UNION {JoinsOf(g, ScanOf(3)) :
                  g \in UNION {Gathers(Node("NestedLoop", <<ScanOf(1), m>>)) : m \in MiddleScans}}
    \cup {Node("NestedLoop", <<g, Node("HashJoin", <<m, Node("Hash", <<ScanOf(3)>>)>>)>>) :
            g \in Gathers(ScanOf(1)), m \in MiddleScans}

-----------------------------------------------------------------------------
(* Selections: two benchmarks that share a text (of tasks 1 and 4) and a   *)
(* topology (of templates A and C).                                        *)

Task(id, benchmark, template, sql) ==
    [id |-> id, benchmark |-> benchmark, template |-> template, sql |-> sql]

SomeCatalog ==
    [job |-> {Task(1, "job", "A", 1), Task(2, "job", "A", 2), Task(3, "job", "B", 3)},
     ceb |-> {Task(4, "ceb", "C", 1), Task(5, "ceb", "C", 5), Task(6, "ceb", "D", 6)}]
SomeTopology == [A |-> "X", B |-> "Y", C |-> "X", D |-> "Z"]

Expression(role, benchmark, terms) == [role |-> role, benchmark |-> benchmark, terms |-> terms]
SomeExpressions ==
    {Expression("train", "job", <<<<"A", 1>>>>), Expression("train", "job", <<>>),
     Expression("train", "ceb", <<<<"C", 1>>, <<"D", 1>>>>),
     Expression("validation", "job", <<<<"B", 1>>>>),
     Expression("validation", "ceb", <<<<"D", 2>>>>),
     Expression("validation", "ceb", <<<<"D", 1>>>>),
     Expression("test", "job", <<<<"A", 2>>>>), Expression("test", "ceb", <<>>),
     Expression("test", "ceb", <<<<"C", 1>>>>),
     Expression("test", "job", <<<<"B", 1>>, <<"B", 1>>>>)}

SelectionOf(benchmark, ids) ==
    [benchmark |-> benchmark,
     tasks |-> [i \in DOMAIN ids |-> CHOOSE t \in SomeCatalog[benchmark] : t.id = ids[i]]]
SomeImports ==
    {[train |-> SelectionOf("job", <<1>>), validation |-> SelectionOf("job", <<3>>)],
     [train |-> SelectionOf("ceb", <<6>>), validation |-> SelectionOf("job", <<2>>)]}
SomeEarlier == {SelectionOf("job", <<1>>), SelectionOf("ceb", <<5, 6>>)}

-----------------------------------------------------------------------------
(* Conversations of replies without, with one and with two calls.          *)

Text(role) ==
    [role |-> role, calls |-> {}, unknown |-> {}, faulty |-> {}, candidates |-> {},
     answers |-> 0, refused |-> FALSE]
Calling(ids) == [Text("assistant") EXCEPT !.calls = ids]
AnswerTo(id, refused) == [Text("tool") EXCEPT !.answers = id, !.refused = refused]

SomeMessages ==
    {Text("user"), Text("assistant"), Calling({1}), [Calling({1, 2}) EXCEPT !.candidates = {2}],
     [Calling({2}) EXCEPT !.faulty = {2}, !.candidates = {2}],
     [Calling({1}) EXCEPT !.unknown = {1}], [Calling({1}) EXCEPT !.role = "user"],
     AnswerTo(1, FALSE), AnswerTo(2, TRUE), AnswerTo(2, FALSE)}
SomeHeadings == {[id |-> 1, task |-> 1], [id |-> 2, task |-> 1], [id |-> 2, task |-> 2]}
SomeSelected == [train |-> {1}, validation |-> {2}]
SomeManifests == {SomeSelected, [train |-> {1}, validation |-> {1}]}
\* One that is too long for the context, and one without targets.
SomeRenderings == {<<1, TRUE>>, <<2, TRUE>>, <<3, TRUE>>, <<1, FALSE>>}

-----------------------------------------------------------------------------
(* A drain in which statements are longest, by their default limit, by the *)
(* floor or the multiplier of a candidate's, and some in which turns are.  *)

SettingsOf(default, floor, multiplier, attempts, timeout, maximum, permits, inflight) ==
    [default_timeout |-> default, floor |-> floor, multiplier |-> multiplier, halves |-> 2,
     max_attempts |-> attempts, request_timeout |-> timeout, maximum_delay |-> maximum,
     permits |-> permits, max_inflight |-> inflight]
SomeSettings ==
    {SettingsOf(3, 1, 3, 1, 1, 1, 2, 2), SettingsOf(3, 1, 1, 1, 1, 1, 2, 2),
     SettingsOf(1, 4, 1, 1, 1, 1, 1, 2), SettingsOf(1, 1, 1, 2, 2, 1, 1, 2),
     SettingsOf(1, 1, 1, 2, 2, 2, 2, 2), SettingsOf(1, 1, 1, 2, 1, 1, 2, 3),
     SettingsOf(1, 1, 1, 2, 1, 1, 1, 3)}

-----------------------------------------------------------------------------
(* Clients of the three providers, some of them refused; servers of a      *)
(* model and of an adapter, with the right context and with another; and   *)
(* replies of every kind that a client tells apart.                        *)

Config(provider, inference, name, adapter, connection, tokens, length, preflight) ==
    [provider |-> provider, inference |-> inference, name |-> name, adapter |-> adapter,
     connection |-> connection, max_tokens |-> tokens, context_length |-> length,
     preflight |-> preflight]
SomeConfigs ==
    {Config("local", "local", "served", FALSE, "address", 2, n, p) : n \in {1, 8}, p \in BOOLEAN}
    \cup {Config("openai", "openai", n, a, c, t, l, FALSE) :
            n \in {ASTRA_MODEL_ID, "other"}, a \in BOOLEAN, c \in {"address", "credential"},
            t \in {2, 4}, l \in {9, 12}}
    \cup {Config("openrouter", "openrouter", OPENROUTER_MODEL_ID, FALSE, "credential", 2, l, FALSE) :
            l \in {7, 9, 12}}
    \cup {Config("openai", "local", ASTRA_MODEL_ID, FALSE, "credential", 2, 9, FALSE)}

Model(id, parent, length) == [id |-> id, parent |-> parent, length |-> length]
SomeServers ==
    {{Model("served", None, 8)}, {Model("served", None, 4)}, {Model("base", None, 8)},
     {Model("served", "base", 0), Model("base", None, 8)}}

ReplyOf(model, content, made, reasoning, details, finish, produced) ==
    [valid |-> TRUE, error |-> FALSE, role |-> "assistant", model |-> model,
     finish |-> finish, usage |-> "counted", content |-> content, calls |-> made,
     reasoning |-> reasoning, details |-> details, produced |-> produced]

Chat(content, made, reasoning, finish) ==
    ReplyOf("served", content, made, reasoning, None, finish,
            <<Item("assistant", content, made, reasoning)>>)
LocalReplies ==
    {Chat("text", None, None, "stop"), Chat(None, "call", "thought", "tool_calls"),
     Chat("", "call", "thought", "length"),
     [Chat("text", None, None, "stop") EXCEPT !.role = "user"]}

Astra(made, finish, items) == ReplyOf(ASTRA_MODEL_ID, "text", made, "thought", None, finish, items)
Sealed == Item("reasoning", None, None, "sealed")
AstraReplies ==
    {Astra("call", "tool_calls", <<Sealed, Item("function_call", None, "call", None)>>),
     Astra(None, "stop", <<Item("message", "text", None, None)>>),
     Astra(None, "max_output_tokens", <<Sealed>>), Astra(None, "failed", <<>>),
     Astra(None, "stop", <<Item("unsupported", None, None, None)>>),
     [Astra(None, "stop", <<>>) EXCEPT !.model = "other"]}

Router(content, made, reasoning, details, finish) ==
    ReplyOf(OPENROUTER_MODEL_ID, content, made, reasoning, details, finish,
            <<Item("assistant", content, made,
                   IF details \notin {None, "empty"} THEN details ELSE reasoning)>>)
Plain == Router("text", None, None, None, "stop")
RouterReplies ==
    {Plain, Router(None, "call", "thought", "blocks", "tool_calls"),
     Router(None, "call", "thought", "empty", "tool_calls"),
     Router("", None, None, None, "stop"), Router("", None, None, None, "length"),
     Router("text", None, None, None, "content_filter"),
     [Plain EXCEPT !.error = TRUE], [Plain EXCEPT !.usage = "absent"],
     [Plain EXCEPT !.usage = "invalid"], [Plain EXCEPT !.valid = FALSE]}

SomeReplies == [local |-> LocalReplies, openai |-> AstraReplies, openrouter |-> RouterReplies]

-----------------------------------------------------------------------------
\* What varies in the initial states of a component does so only in its own behaviours.
PartInit ==
    /\ part \in {"plans", "selection", "conversations", "drain", "turns"}
    /\ IF part = "plans" THEN Init
       ELSE /\ raw = <<>> /\ stage = "rejected" /\ plan = <<>> /\ dump = "absent"
            /\ verdict = "none"
    /\ SelectionInit
    /\ ConversationInit /\ (part = "conversations" \/ manifest = SomeSelected)
    /\ IF part = "drain" THEN DrainInit
       ELSE settings = SettingsOf(1, 1, 1, 1, 1, 1, 1, 1) /\ clock = 0 /\ episode = <<>>
    /\ IF part = "turns" THEN TurnInit
       ELSE /\ config = Config("local", "local", "served", FALSE, "address", 1, 1, FALSE)
            /\ server = {} /\ transcript = <<>> /\ body = <<>> /\ heard = <<>>
            /\ reply = <<>> /\ failures = <<>> /\ turns = 0 /\ talking = "done"

PartNext ==
    /\ \/ part = "plans" /\ Next
          /\ UNCHANGED <<selectionVars, conversationVars, drainVars, turnVars>>
       \/ part = "selection" /\ SelectionNext
          /\ UNCHANGED <<vars, conversationVars, drainVars, turnVars>>
       \/ part = "conversations" /\ ConversationNext
          /\ UNCHANGED <<vars, selectionVars, drainVars, turnVars>>
       \/ part = "drain" /\ DrainNext
          /\ UNCHANGED <<vars, selectionVars, conversationVars, turnVars>>
       \/ part = "turns" /\ TurnNext
          /\ UNCHANGED <<vars, selectionVars, conversationVars, drainVars>>
    /\ UNCHANGED part

PartSpec ==
    PartInit
    /\ [][PartNext]_<<vars, selectionVars, conversationVars, drainVars, turnVars, part>>
=============================================================================
