------------------------------ MODULE ModelClients ------------------------------
(***************************************************************************)
(* The model turns of one agent through one of the three clients of        *)
(* qorl.model.client: the local server, OpenAI's Responses and OpenRouter. *)
(* A turn is sent with the whole history, counted where the provider can   *)
(* count, and its reply is read, refused or kept as evidence.              *)
(*                                                                         *)
(* A message has the fields of qorl.model.schemas.Message; a reply those   *)
(* that a client looks at.  An item is what a provider receives, or has    *)
(* produced itself, for one message or for a part of it.  Texts, calls and *)
(* blocks are values of their own; None is a text that is missing, 0 a     *)
(* length and <<>> a continuation that is.                                 *)
(***************************************************************************)
EXTENDS SequencesExt, FiniteSetsExt, Integers

CONSTANTS ModelConfigs,    \* settings of the model and of its inference
          Servers,         \* models that a local server may advertise
          ServedReplies,   \* of each provider: what may come back
          ToolResult,      \* the content of a tool message
          AstraInput, AstraOutput, AstraContext,  \* ASTRA_*_LIMIT
          RouterOutput, RouterContext,            \* OPENROUTER_*_LIMIT
          MaxTurns         \* maximum_model_turns

None == "none"
ASTRA_MODEL_ID == "gpt-6-astra"
OPENROUTER_MODEL_ID == "qwen"

ASSUME ModelAssumption ==
    /\ MaxTurns \in Nat \ {0}
    /\ \A c \in ModelConfigs : {c.max_tokens, c.context_length} \subseteq Nat \ {0}

VARIABLES config,      \* of the client
          server,      \* the models advertised now
          transcript,  \* of the agent
          body,        \* of the request that is made
          heard,       \* history: the items the provider was sent last, and then produced
          reply,       \* <<the reply that is read>>
          failures,    \* replies retained as evidence of a failure
          turns,
          talking      \* "start", "ready", "counted", "replied", "act",
                       \* "budget", "truncated", "failed", "done"

turnVars ==
    <<config, server, transcript, body, heard, reply, failures, turns, talking>>

NewMessage(role, content) ==
    [role |-> role, content |-> content, calls |-> None, reasoning |-> None,
     continuation |-> <<>>]

TurnInit ==
    /\ config \in ModelConfigs /\ server \in Servers
    /\ transcript = <<NewMessage("system", "text"), NewMessage("user", "text")>>
    /\ body = <<>> /\ heard = <<>> /\ reply = <<>> /\ failures = <<>> /\ turns = 0
    /\ talking = "start"

-----------------------------------------------------------------------------
(* The clients' constructors and LocalModelClient.preflight.               *)

Connected(c) == c.connection \in {"address", "credential"}

HostedModel(c, name) ==
    c.name = name /\ ~c.adapter /\ c.connection = "credential"

LocalAccepts(c) ==
    /\ c.provider = "local" /\ c.inference = "local"
    /\ Connected(c) /\ c.max_tokens <= c.context_length

AstraAccepts(c) ==
    /\ c.provider = "openai" /\ c.inference = "openai" /\ HostedModel(c, ASTRA_MODEL_ID)
    /\ c.context_length <= AstraContext
    /\ c.max_tokens <= Min({c.context_length, AstraOutput})

RouterAccepts(c) ==
    /\ c.provider = "openrouter" /\ c.inference = "openrouter"
    /\ HostedModel(c, OPENROUTER_MODEL_ID)
    /\ c.context_length <= RouterContext
    /\ c.max_tokens <= Min({c.context_length, RouterOutput})

\* model_client: one of the three, or an error.
AcceptsConfig(c) == LocalAccepts(c) \/ AstraAccepts(c) \/ RouterAccepts(c)

\* What is served under the configured name, and the model whose context that has.
Served == {m \in server : m.id = config.name}
ContextModels ==
    UNION {IF m.parent = None THEN {m} ELSE {p \in server : p.id = m.parent} : m \in Served}

PreflightPasses ==
    /\ Served # {} /\ ContextModels # {}
    /\ \A m \in Served : m.length \in {0, config.context_length}
    /\ \A m \in ContextModels : m.length = config.context_length

\* A client is made; runs that start a server look at it first.
Connect ==
    /\ talking = "start"
    /\ talking' =
          IF /\ AcceptsConfig(config)
             /\ config.provider = "local" /\ config.preflight => PreflightPasses
          THEN "ready" ELSE "failed"
    /\ UNCHANGED <<config, server, transcript, body, heard, reply, failures, turns>>

\* Someone starts the local server again between two turns.
RestartServer ==
    /\ talking = "ready" /\ config.provider = "local"
    /\ server' \in Servers \ {server}
    /\ UNCHANGED <<config, transcript, body, heard, reply, failures, turns, talking>>

-----------------------------------------------------------------------------
(* request_body of the three clients.                                      *)

Item(role, content, calls, reasoning) ==
    [role |-> role, content |-> content, calls |-> calls, reasoning |-> reasoning]

\* What a provider produces: of a chat one item, from which the reply is read; Astra's
\* items are the reply, and it has a status instead of an error.
ASSUME ReplyAssumption ==
    /\ DOMAIN ServedReplies = {"local", "openai", "openrouter"}
    /\ \A p \in DOMAIN ServedReplies : \A r \in ServedReplies[p] :
          /\ r.produced \in Seq(ToSet(r.produced))
          /\ p = "openai" => ~r.error
          /\ p = "local" =>
                r.produced = <<Item("assistant", r.content, r.calls, r.reasoning)>>
          /\ p = "openrouter" =>
                r.produced = <<Item("assistant", r.content, r.calls,
                                    IF r.details \notin {None, "empty"} THEN r.details
                                    ELSE r.reasoning)>>

LocalItems(m) == <<Item(m.role, m.content, m.calls, m.reasoning)>>

\* Mutant: reasoning and calls are rebuilt from the message.
AstraItemsRebuilt(m) == <<Item(m.role, m.content, m.calls, m.reasoning)>>

\* What Astra has produced is sent as it came.
AstraItems(m) ==
    IF m.continuation # <<>> THEN m.continuation[1].output
    ELSE <<Item(m.role, m.content, None, None)>>

\* Blocks of reasoning if there are any, the text of it otherwise.
RouterItems(m) ==
    <<Item(m.role, m.content, m.calls,
           IF m.continuation = <<>> THEN None
           ELSE IF m.continuation[1].details \notin {None, "empty"}
                THEN m.continuation[1].details
           ELSE m.reasoning)>>

ItemsOf(m) ==
    CASE config.provider = "local" -> LocalItems(m)
      [] config.provider = "openai" -> AstraItems(m)
      [] OTHER -> RouterItems(m)

\* A history that this client can send: its own.
CanSend(m) ==
    IF config.provider = "local" THEN m.continuation = <<>>
    ELSE (m.role = "assistant") = (m.continuation # <<>>)
         /\ m.continuation # <<>> => m.continuation[1].model = config.name

RequestBody == FlattenSeq([i \in DOMAIN transcript |-> ItemsOf(transcript[i])])

\* What a server counts: each item, and its reasoning.
Tokens(items) ==
    Len(items) + Cardinality({i \in DOMAIN items : items[i].reasoning # None})

Fits(n) ==
    /\ config.provider = "openai" => n <= AstraInput
    /\ n + config.max_tokens <= config.context_length

\* Up to the generation: OpenRouter does not count before it.
Count ==
    /\ talking = "ready" /\ turns < MaxTurns
    /\ body' = RequestBody
    /\ turns' = turns + 1
    /\ talking' =
          IF \/ \E i \in DOMAIN transcript : ~CanSend(transcript[i])
             \/ /\ config.provider = "local"
                /\ \A m \in ContextModels : m.length # config.context_length
          THEN "failed"
          ELSE IF config.provider # "openrouter" /\ ~Fits(Tokens(body')) THEN "budget"
          ELSE "counted"
    /\ UNCHANGED <<config, server, transcript, heard, reply, failures>>

\* The provider's answer to the request.
Generate ==
    /\ talking = "counted"
    /\ \E r \in ServedReplies[config.provider] :
          /\ reply' = <<r>>
          /\ heard' = body \o r.produced
    /\ talking' = "replied"
    /\ UNCHANGED <<config, server, transcript, body, failures, turns>>

-----------------------------------------------------------------------------
(* The rest of generate.                                                   *)

Reply == reply[1]

AstraUsable(r) ==
    /\ r.model = config.name /\ r.finish \notin {"failed", "cancelled"}
    /\ ~\E i \in DOMAIN r.produced : r.produced[i].role = "unsupported"

RouterUsable(r) ==
    /\ r.usage # "invalid" /\ ~r.error /\ r.model = config.name
    /\ r.finish \in {"stop", "tool_calls", "length"}
    /\ r.usage = "counted" /\ Fits(Tokens(body))
    /\ r.finish = "length" \/ r.content \notin {None, ""} \/ r.reasoning # None
       \/ r.details \notin {None, "empty"} \/ r.calls # None

Usable(r) ==
    /\ r.valid /\ r.role = "assistant"
    /\ config.provider = "openai" => AstraUsable(r)
    /\ config.provider = "openrouter" => RouterUsable(r)

\* What the next turn sends back to a provider that has it so.
Continuation(r) ==
    CASE config.provider = "local" -> <<>>
      [] config.provider = "openai" -> <<[model |-> r.model, output |-> r.produced]>>
      [] OTHER -> <<[model |-> config.name, details |-> r.details]>>

Truncated(r) ==
    r.finish = IF config.provider = "openai" THEN "max_output_tokens" ELSE "length"

ReadReply ==
    /\ talking = "replied" /\ Usable(Reply)
    /\ transcript' =
          Append(transcript,
                 [role |-> "assistant", content |-> Reply.content, calls |-> Reply.calls,
                  reasoning |-> Reply.reasoning, continuation |-> Continuation(Reply)])
    /\ talking' = IF Truncated(Reply) THEN "truncated" ELSE "act"
    /\ UNCHANGED <<config, server, body, heard, reply, failures, turns>>

\* Only OpenRouter's replies, which cost even if they are of no use, are retained.
RefuseReply ==
    /\ talking = "replied" /\ ~Usable(Reply)
    /\ talking' = "failed"
    /\ failures' = IF config.provider = "openrouter" THEN Append(failures, reply) ELSE failures
    /\ UNCHANGED <<config, server, transcript, body, heard, reply, turns>>

\* The agent runs what was called, or asks for a call, and may be done.
Act ==
    /\ talking = "act"
    /\ transcript' =
          IF Reply.calls = None THEN Append(transcript, NewMessage("user", "text"))
          ELSE Append(transcript, NewMessage("tool", ToolResult))
    /\ reply' = <<>>
    /\ talking' \in IF Reply.calls = None THEN {"ready"} ELSE {"ready", "done"}
    /\ UNCHANGED <<config, server, body, heard, failures, turns>>

TurnNext ==
    Connect \/ RestartServer \/ Count \/ Generate \/ ReadReply \/ RefuseReply \/ Act

TurnSpec == TurnInit /\ [][TurnNext]_turnVars

-----------------------------------------------------------------------------
(* "Never trim history", "replay provider output items unchanged" and      *)
(* "reject unusable replies before tools run" (the clients' generate and   *)
(* request_body): each request continues, item for item, what the provider *)
(* was sent and has produced before; a completion is only asked for, where *)
(* it can be known, when the longest one still fits the context of the     *)
(* model that is served; tools run for a reply that fitted; and no reply   *)
(* that was paid for is lost.                                              *)
HistoryIsWhole ==
    /\ talking \in {"counted", "budget"} => IsPrefix(heard, body)
    /\ talking \in {"counted", "act"} /\ (talking = "act" \/ config.provider # "openrouter") =>
          /\ Tokens(body) + config.max_tokens <= config.context_length
          /\ config.provider = "local" =>
                \E m \in ContextModels : m.length = config.context_length
          /\ config.provider = "openai" => config.context_length <= AstraContext
    /\ talking = "act" =>
          /\ Last(transcript).calls = Reply.calls
          /\ config.provider # "local" => Reply.model = config.name /\ ~Reply.error
    /\ config.provider = "openrouter" /\ talking = "failed" /\ turns > 0 =>
          failures = <<reply>>

=============================================================================
