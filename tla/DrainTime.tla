------------------------------- MODULE DrainTime -------------------------------
(***************************************************************************)
(* The time that the launcher of a training run gives the environment      *)
(* service to drain (cancellation_timeout of qorl.rl.train), and the       *)
(* longest drain that the settings allow: at a cancellation each episode   *)
(* is in one statement, which its limit ends, or in one model turn, whose  *)
(* requests are retried and share the permits of a semaphore; between      *)
(* statements and turns it notices the cancellation and ends.              *)
(*                                                                         *)
(* All times are whole units.  An episode is "executing" a statement, or   *)
(* "waiting" for a permit, "sending" an attempt, "sleeping" before the     *)
(* next attempt, or "ended".                                               *)
(***************************************************************************)
EXTENDS FiniteSetsExt, Integers

CONSTANTS Settings,  \* that an experiment may have
          Grace      \* CANCELLATION_GRACE_SECONDS

ASSUME SettingsAssumption ==
    /\ Grace \in Nat \ {0}
    /\ \A s \in Settings :
          /\ {s.default_timeout, s.floor, s.multiplier, s.halves, s.max_attempts,
              s.request_timeout, s.permits, s.max_inflight} \subseteq Nat \ {0}
          /\ s.maximum_delay \in Nat

VARIABLES settings, clock,
          episode  \* of each episode: what it does, for how long it may, the attempts
                   \* of its request that have ended, the requests its turn has left

drainVars == <<settings, clock, episode>>

Quotient(n, d) == (n + d - 1) \div d

\* candidate_timeout_ms: a floor, and no cap; the multiplier is a number of halves.
CandidateTimeout(median) ==
    Max({settings.floor, Quotient(median * settings.multiplier, settings.halves)})

RequestTime ==
    settings.max_attempts * settings.request_timeout
    + (settings.max_attempts - 1) * settings.maximum_delay

\* Mutant: as if no request ever waited for a permit.
OneTurn == 1

QueuedTurns ==
    IF settings.permits >= settings.max_inflight THEN 1 ELSE settings.max_inflight

CancellationTimeout ==
    Max({settings.default_timeout, CandidateTimeout(settings.default_timeout),
         2 * QueuedTurns * RequestTime}) + Grace

Ended == [doing |-> "ended", left |-> 0, attempt |-> 0, requests |-> 0]

\* What an episode may be in when it is cancelled: the default query or a candidate,
\* whose limit follows from a median that the default's limit bounds, or a model turn.
Doing ==
    {[doing |-> "executing", left |-> n, attempt |-> 0, requests |-> 0] :
        n \in {settings.default_timeout}
              \cup {CandidateTimeout(m) : m \in 1 .. settings.default_timeout}}
    \cup {[doing |-> "waiting", left |-> 0, attempt |-> a, requests |-> n] :
             a \in 0 .. settings.max_attempts - 1, n \in 1 .. 2}
    \cup {[doing |-> "sending", left |-> settings.request_timeout, attempt |-> a,
           requests |-> n] : a \in 0 .. settings.max_attempts - 1, n \in 1 .. 2}

Sending(episodes) == {e \in DOMAIN episodes : episodes[e].doing = "sending"}

DrainInit ==
    /\ settings \in Settings
    /\ clock = 0
    /\ episode \in {d \in [1 .. settings.max_inflight -> Doing] :
                       Cardinality(Sending(d)) <= settings.permits}

Continue(e, state) ==
    episode' = [episode EXCEPT ![e] = state] /\ UNCHANGED <<settings, clock>>

\* agent, evaluator: check_cancelled after each statement.
StatementEnds(e) == episode[e].doing = "executing" /\ Continue(e, Ended)

Send(e) ==
    /\ episode[e].doing = "waiting"
    /\ Cardinality(Sending(episode)) < settings.permits
    /\ Continue(e, [episode[e] EXCEPT !.doing = "sending", !.left = settings.request_timeout])

\* LocalModelClient.generate: a request to the tokenizer, then one for the completion.
AttemptEnds(e) ==
    /\ episode[e].doing = "sending"
    /\ \/ Continue(e, IF episode[e].requests = 1 THEN Ended
                      ELSE [doing |-> "waiting", left |-> 0, attempt |-> 0, requests |-> 1])
       \/ Continue(e, Ended)  \* an error that is not retried, or was for the last time
       \/ /\ episode[e].attempt + 1 < settings.max_attempts
          /\ \E pause \in 0 .. settings.maximum_delay :
                Continue(e, [episode[e] EXCEPT !.doing = "sleeping", !.left = pause])

Resume(e) ==
    /\ episode[e].doing = "sleeping" /\ episode[e].left = 0
    /\ Continue(e, [episode[e] EXCEPT !.doing = "waiting", !.attempt = @ + 1])

\* Time passes when nobody has used up what he has, and no permit is left to take.
Tick ==
    /\ \E e \in DOMAIN episode : episode[e] # Ended
    /\ \A e \in DOMAIN episode :
          /\ episode[e].doing \in {"executing", "sending", "sleeping"} => episode[e].left > 0
          /\ episode[e].doing = "waiting" =>
                Cardinality(Sending(episode)) = settings.permits
    /\ clock' = clock + 1
    /\ episode' = [e \in DOMAIN episode |->
                      IF episode[e].left > 0 THEN [episode[e] EXCEPT !.left = @ - 1]
                      ELSE episode[e]]
    /\ UNCHANGED settings

DrainNext ==
    \/ Tick
    \/ \E e \in DOMAIN episode : StatementEnds(e) \/ Send(e) \/ AttemptEnds(e) \/ Resume(e)

DrainSpec == DrainInit /\ [][DrainNext]_drainVars

(* "Allow outstanding statements and queued, retried model turns to drain" *)
(* (rl.train.cancellation_timeout): whatever the episodes are in, and      *)
(* whatever the server does, they have ended when only the grace period is *)
(* left, so the launcher never gives up an acknowledgement that the        *)
(* service is still going to send.                                         *)
DrainFits ==
    (\E e \in DOMAIN episode : episode[e] # Ended) => clock <= CancellationTimeout - Grace
=============================================================================
