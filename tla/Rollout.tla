------------------------------- MODULE Rollout -------------------------------
(***************************************************************************)
(* One rollout from its first statement to its record: the evaluator       *)
(* (qorl.measure.validation, qorl.measure.rollout) driven by the agent's   *)
(* turn loop (qorl.agent.agent, qorl.agent.tool_runtime), which a cancel   *)
(* event may interrupt between any two statements.                         *)
(*                                                                         *)
(*   "new"        before start           "probing"    feedback executions  *)
(*   "baseline"   initial executions     "decided"    before finish        *)
(*   "agent"      a model turn           "pairing"    final pairs          *)
(*   "called"     after its first call   "timedout"   a pair timed out     *)
(*   "validating" EXPLAIN of an attempt  "ended"      record is built      *)
(*   "validated"  the attempt is issued                                    *)
(*                                                                         *)
(* Attempts are identified by their number.  A plan is abstracted to its   *)
(* timing-reuse key, which hashes the plan and the settings it runs under; *)
(* a timing to whether it was observed; a cutoff to the limit it comes     *)
(* from.                                                                   *)
(***************************************************************************)
EXTENDS Integers, Sequences, FiniteSetsExt

CONSTANTS MaxCandidates,      \* agent.candidate_attempts
          MaxTurns,           \* agent.maximum_model_turns
          InspectionTurns,    \* aliases times agent.inspection_turns_per_alias
          DefaultRuns,        \* default_warmups + default_measurements
          FeedbackWarmups,    \* candidate_feedback_warmups
          FeedbackRuns,       \* candidate_feedback_measurements, 0 to disable
          PairedRuns,         \* paired_warmups + paired_measurements
          PairedWarmups,      \* paired_warmups
          Keys,               \* timing-reuse keys of plans
          DefaultKey,         \* the key of the default plan
          NoKey               \* a candidate without a plan has none

ASSUME RolloutAssumption ==
    /\ {MaxCandidates, MaxTurns, DefaultRuns, PairedRuns} \subseteq Nat \ {0}
    /\ {InspectionTurns, FeedbackWarmups, FeedbackRuns, PairedWarmups} \subseteq Nat
    /\ PairedWarmups < PairedRuns
    /\ FeedbackRuns = 0 => FeedbackWarmups = 0
    /\ DefaultKey \in Keys /\ NoKey \notin Keys

VARIABLES phase,       \* where the rollout's thread is
          running,     \* a statement is in PostgreSQL
          cancelled,   \* the cancel event
          baseline,    \* evaluator.default
          candidates,  \* evaluator.candidates
          selection,   \* evaluator.selection
          keptDefault, \* evaluator.kept_default
          turn,        \* the model turn
          terminal,    \* the turn's first call ended the search
          chosen,      \* the candidate whose pairs are measured
          paired,      \* evaluator.paired
          counts,      \* evaluator.execution_counts
          final,       \* evaluator.final
          failure      \* what record(error) reports

searchVars == <<selection, keptDefault, turn, terminal>>
finalVars == <<chosen, paired, final>>
vars == <<phase, running, cancelled, baseline, candidates, searchVars, finalVars,
          counts, failure>>

Phases == {"new", "baseline", "agent", "called", "validating", "validated",
           "probing", "decided", "pairing", "timedout", "ended"}

Default == 0   \* the identifier "default"; attempts are numbered from 1
None == -1     \* no identifier

Ids == 1 .. MaxCandidates
Limits == {"absent", "default", "candidate"}
Statuses == {"absent", "collecting", "completed", "timed_out"}
Roles == {"default", "candidate"}
ProbeRuns == FeedbackWarmups + FeedbackRuns

NoFeedback == [status |-> "absent", source |-> None, samples |-> 0,
               timeout |-> "absent"]

\* unvalidated_candidate: an attempt before PostgreSQL has seen it.
Unvalidated == [valid |-> FALSE, satisfied |-> FALSE, key |-> NoKey,
                duplicate |-> None, timedOut |-> FALSE, timeout |-> "absent",
                feedback |-> NoFeedback, measured |-> FALSE]

NoOutcome == [kind |-> "none", id |-> None, key |-> NoKey, timeout |-> "absent"]

ExecutionFeedback ==
    [status : Statuses, source : Ids \cup {Default, None},
     samples : 0 .. ProbeRuns, timeout : Limits]
Candidate ==
    [valid : BOOLEAN, satisfied : BOOLEAN, key : Keys \cup {NoKey},
     duplicate : Ids \cup {Default, None}, timedOut : BOOLEAN, timeout : Limits,
     measured : BOOLEAN, feedback : ExecutionFeedback]

MeasurementPair ==
    [order : {<<"candidate", "default">>, <<"default", "candidate">>},
     done : SUBSET Roles]

TypeOK ==
    /\ phase \in Phases
    /\ {running, cancelled, keptDefault, terminal} \subseteq BOOLEAN
    /\ baseline \in [explained : BOOLEAN, samples : 0 .. DefaultRuns,
                     timed : BOOLEAN]
    /\ candidates \in Seq(Candidate) /\ Len(candidates) <= MaxCandidates
    /\ selection \in [status : {"pending", "rejected", "accepted", "failed"},
                      id : Ids \cup {None}]
    /\ turn \in 1 .. MaxTurns
    /\ chosen \in Ids \cup {None}
    /\ paired \in Seq(MeasurementPair) /\ Len(paired) <= PairedRuns
    /\ counts \in [initial : Nat, feedback : Nat, final : Nat]
    /\ failure \in {"none", "cancelled", "drift", "error"}

Init ==
    /\ phase = "new" /\ running = FALSE /\ cancelled = FALSE
    /\ baseline = [explained |-> FALSE, samples |-> 0, timed |-> FALSE]
    /\ candidates = <<>>
    /\ selection = [status |-> "pending", id |-> None]
    /\ keptDefault = FALSE
    /\ turn = 1 /\ terminal = FALSE
    /\ chosen = None /\ paired = <<>>
    /\ counts = [initial |-> 0, feedback |-> 0, final |-> 0]
    /\ final = NoOutcome
    /\ failure = "none"

-----------------------------------------------------------------------------
\* The limit of the candidate statements, derived once the default is timed.
Limit == IF baseline.timed THEN "candidate" ELSE "default"

Last == Len(candidates)
Probed == candidates[Last].feedback
Pair == paired[Len(paired)]

\* A pair is open until both of its roles are observed.
PairOpen == paired # <<>> /\ Pair.done # Roles
Role == IF Pair.done = {} THEN Pair.order[1] ELSE Pair.order[2]

\* All executions of a phase are done and their median is taken.
MedianDue ==
    \/ phase = "baseline" /\ ~running /\ baseline.samples = DefaultRuns
    \/ phase = "probing" /\ ~running /\ Probed.samples = ProbeRuns
    \/ phase = "pairing" /\ ~running /\ ~PairOpen /\ Len(paired) = PairedRuns

(* Errors.  check_cancelled stands before every statement and around every *)
(* turn and call, so a cancelled rollout does nothing else.                *)

Raise(error) ==
    /\ phase' = "ended"
    /\ running' = FALSE
    /\ failure' = error

RaiseCancelled ==
    /\ cancelled
    /\ phase # "ended" /\ ~running
    /\ Raise("cancelled")
    /\ UNCHANGED <<cancelled, baseline, candidates, searchVars, finalVars, counts>>

\* A statement fails, or times out where a timeout is no evidence; the model
\* fails; a median is not positive.
RaiseError ==
    /\ \/ running
       \/ phase = "agent"
       \/ MedianDue /\ ~cancelled
    /\ Raise("error")
    /\ UNCHANGED <<cancelled, baseline, candidates, searchVars, finalVars, counts>>

Cancel ==
    /\ ~cancelled
    /\ cancelled' = TRUE
    /\ UNCHANGED <<phase, running, baseline, candidates, searchVars, finalVars,
                   counts, failure>>

-----------------------------------------------------------------------------
(* Statements.                                                             *)

WantsStatement ==
    \/ phase \in {"new", "validating"}
    \/ phase = "baseline" /\ baseline.samples < DefaultRuns
    \/ phase = "probing" /\ Probed.samples < ProbeRuns
    \/ phase = "pairing" /\ PairOpen

BeginStatement ==
    /\ WantsStatement
    /\ ~running /\ ~cancelled
    /\ running' = TRUE
    /\ counts' = [counts EXCEPT
                    !.initial = IF phase = "baseline" THEN @ + 1 ELSE @,
                    !.feedback = IF phase = "probing" THEN @ + 1 ELSE @,
                    !.final = IF phase = "pairing" THEN @ + 1 ELSE @]
    /\ UNCHANGED <<phase, cancelled, baseline, candidates, searchVars, finalVars,
                   failure>>

\* start: the default plan is explained without being executed.
EndDefaultExplain ==
    /\ running /\ phase = "new"
    /\ running' = FALSE
    /\ baseline' = [baseline EXCEPT !.explained = TRUE]
    /\ phase' = "baseline"
    /\ UNCHANGED <<cancelled, candidates, searchVars, finalVars, counts, failure>>

\* An observation is kept before the plan is compared with the expected one.
EndDefaultRun ==
    /\ running /\ phase = "baseline"
    /\ baseline' = [baseline EXCEPT !.samples = @ + 1]
    /\ \/ running' = FALSE /\ UNCHANGED <<phase, failure>>
       \/ Raise("drift")
    /\ UNCHANGED <<cancelled, candidates, searchVars, finalVars, counts>>

FinishBaseline ==
    /\ phase = "baseline" /\ MedianDue /\ ~cancelled
    /\ baseline' = [baseline EXCEPT !.timed = TRUE]
    /\ phase' = "agent"
    /\ UNCHANGED <<running, cancelled, candidates, searchVars, finalVars, counts,
                   failure>>

-----------------------------------------------------------------------------
(* Selecting a candidate.                                                  *)

Eligible(c) == c.valid /\ (c.satisfied \/ c.timedOut)
EligibleIds == {i \in DOMAIN candidates : Eligible(candidates[i])}

\* select(id) returns i; it raises where no i qualifies.
Selects(id, i) ==
    \/ id # None /\ i = id /\ id \in EligibleIds
    \/ id = None /\ EligibleIds = {i}
    \/ id = None /\ EligibleIds = {} /\ i = None

Selectable(id) == \E i \in Ids \cup {None} : Selects(id, i)

Acceptable(id) == IF id = Default THEN candidates # <<>> ELSE Selectable(id)

\* Mutant: the identifier is recorded without being resolved.
AcceptUnchecked(id) ==
    /\ keptDefault' = (keptDefault \/ id = Default)
    /\ selection' = [status |-> "accepted",
                     id |-> IF id = Default THEN None ELSE id]

AcceptSelection(id) ==
    /\ Acceptable(id)
    /\ keptDefault' = (keptDefault \/ id = Default)
    /\ \E i \in Ids \cup {None} :
          /\ IF id = Default THEN i = None ELSE Selects(id, i)
          /\ selection' = [status |-> "accepted", id |-> i]

\* Mutant: an extra call after the terminal decision undoes it.
RejectAnything ==
    /\ selection' = [status |-> "rejected", id |-> None]
    /\ UNCHANGED keptDefault

RejectSelection ==
    /\ selection' = IF selection.status = "accepted" THEN selection
                    ELSE [status |-> "rejected", id |-> None]
    /\ UNCHANGED keptDefault

\* resolve_selection, after the last turn.
ResolveSelection ==
    \/ /\ selection.status = "rejected"
       /\ selection' = [selection EXCEPT !.status = "failed"]
       /\ UNCHANGED keptDefault
    \/ /\ selection.status = "pending" /\ ~keptDefault
       /\ IF Acceptable(None)
          THEN AcceptSelection(None)
          ELSE /\ selection' = [selection EXCEPT !.status = "failed"]
               /\ UNCHANGED keptDefault
    \/ /\ selection.status \in {"accepted", "failed"} \/ keptDefault
       /\ UNCHANGED <<selection, keptDefault>>

-----------------------------------------------------------------------------
(* Model turns.                                                            *)

\* Two turns per alias may inspect, as long as every attempt and a final
\* decision still have a turn of their own.
InspectionTurnLimit ==
    LET reserved == MaxCandidates + 1
    IN  Min({InspectionTurns, Max({0, MaxTurns - reserved})})

\* available_tool_names
Available(t) ==
    LET decide == IF candidates # <<>> THEN "finish" ELSE "keep_default"
        closed == t = MaxTurns \/ Len(candidates) = MaxCandidates
    IN  {decide}
        \cup (IF closed THEN {} ELSE {"evaluate"})
        \cup (IF closed \/ t > InspectionTurnLimit THEN {} ELSE {"inspect"})

EndSearch ==
    /\ phase' = "decided"
    /\ ResolveSelection
    /\ UNCHANGED <<turn, terminal>>

\* Mutant: a reply without a call does not use up its turn.
NextTurnUncounted ==
    /\ phase' = "agent"
    /\ UNCHANGED <<turn, selection, keptDefault, terminal>>

NextTurn ==
    IF turn = MaxTurns
    THEN EndSearch
    ELSE /\ phase' = "agent"
         /\ turn' = turn + 1
         /\ UNCHANGED <<selection, keptDefault, terminal>>

AgentTurn == phase = "agent" /\ ~cancelled
TurnUnchanged == UNCHANGED <<running, cancelled, baseline, finalVars, counts,
                             failure>>

\* The prompt exceeds the context budget, which is not checked for a cancel, or
\* the reply is truncated; a finish call in a truncated reply is not accepted.
ForcedStop ==
    /\ phase = "agent"
    /\ \/ EndSearch
       \/ /\ ~cancelled
          /\ phase' = "decided"
          /\ selection' = [status |-> "failed", id |-> None]
          /\ UNCHANGED <<keptDefault, turn, terminal>>
    /\ UNCHANGED candidates /\ TurnUnchanged

NoCall == AgentTurn /\ NextTurn /\ UNCHANGED candidates /\ TurnUnchanged

Called ==
    /\ phase' = "called"
    /\ UNCHANGED turn

\* An inspection, an unavailable or unknown tool, arguments that do not parse.
\* An unavailable finish counts as a rejected selection.
OtherCall ==
    /\ AgentTurn
    /\ Called
    /\ \/ UNCHANGED <<selection, keptDefault>>
       \/ "finish" \notin Available(turn) /\ RejectSelection
    /\ UNCHANGED <<candidates, terminal>> /\ TurnUnchanged

NoEligible == candidates # <<>> /\ EligibleIds = {}

\* finish with an identifier, with "default", without one, or with arguments
\* that do not parse.  Without an eligible candidate every finish is accepted.
FinishCall ==
    /\ AgentTurn /\ "finish" \in Available(turn)
    /\ Called
    /\ \/ /\ \E id \in Ids \cup {Default, None} : AcceptSelection(id)
          /\ terminal' = TRUE
       \/ /\ NoEligible
          /\ AcceptSelection(None)
          /\ terminal' = TRUE
       \/ /\ ~NoEligible
          /\ RejectSelection
          /\ UNCHANGED terminal
    /\ UNCHANGED candidates /\ TurnUnchanged

KeepDefault ==
    /\ AgentTurn /\ "keep_default" \in Available(turn)
    /\ ~keptDefault
    /\ Called
    /\ keptDefault' = TRUE
    /\ selection' = [status |-> "accepted", id |-> None]
    /\ terminal' = TRUE
    /\ UNCHANGED candidates /\ TurnUnchanged

\* Any further call of the reply is answered with an error.
ExtraFinish ==
    /\ phase = "called" /\ ~cancelled
    /\ RejectSelection
    /\ UNCHANGED <<phase, candidates, turn, terminal>> /\ TurnUnchanged

EndReply ==
    /\ phase = "called" /\ ~cancelled
    /\ IF terminal THEN EndSearch ELSE NextTurn
    /\ UNCHANGED candidates /\ TurnUnchanged

-----------------------------------------------------------------------------
(* Attempts.                                                               *)

\* A malformed call or an action that does not parse uses up an attempt.
RejectAttempt ==
    /\ AgentTurn /\ "evaluate" \in Available(turn)
    /\ Called
    /\ candidates' = Append(candidates, Unvalidated)
    /\ UNCHANGED <<selection, keptDefault, terminal>> /\ TurnUnchanged

SubmitCandidate ==
    /\ AgentTurn /\ "evaluate" \in Available(turn)
    /\ phase' = "validating"
    /\ UNCHANGED <<candidates, searchVars>> /\ TurnUnchanged

\* by_reuse_key: the first holder of a key.
Holders(k) == {i \in DOMAIN candidates :
                 candidates[i].satisfied /\ candidates[i].key = k}
DuplicateOf(k) == IF k = DefaultKey THEN Default
                  ELSE IF Holders(k) = {} THEN None
                  ELSE Min(Holders(k))

TimedOutPlanning == [Unvalidated EXCEPT !.valid = TRUE, !.timedOut = TRUE,
                                        !.timeout = Limit]
Planned(k, satisfied) ==
    [Unvalidated EXCEPT !.valid = TRUE, !.satisfied = satisfied, !.key = k,
                        !.duplicate = IF satisfied THEN DuplicateOf(k) ELSE None]

\* PostgreSQL plans the hinted query, or times out planning it; the plan obeys
\* the action or it does not.
EndValidation ==
    /\ running /\ phase = "validating"
    /\ running' = FALSE
    /\ phase' = "validated"
    /\ \/ candidates' = Append(candidates, TimedOutPlanning)
       \/ \E k \in Keys, satisfied \in BOOLEAN :
             candidates' = Append(candidates, Planned(k, satisfied))
    /\ UNCHANGED <<cancelled, baseline, searchVars, finalVars, counts, failure>>

\* The earlier attempts whose evidence the new one may refer to.
Sources(k) ==
    {i \in 1 .. Last - 1 :
        /\ candidates[i].key = k
        /\ candidates[i].feedback.status \in {"completed", "timed_out"}}

Reused(c, i) ==
    LET source == candidates[i]
    IN  [c EXCEPT !.timedOut = source.timedOut,
                  !.timeout = source.timeout,
                  !.feedback =
                     [source.feedback EXCEPT !.samples = 0,
                        !.source = IF @ = None THEN i ELSE @]]

StartFeedback ==
    /\ phase = "validated" /\ ~cancelled
    /\ LET c == candidates[Last]
           sources == Sources(c.key)
       IN  \/ /\ ~c.satisfied \/ FeedbackRuns = 0
              /\ phase' = "called"
              /\ UNCHANGED candidates
           \/ /\ c.satisfied /\ FeedbackRuns > 0
              /\ \/ /\ c.key = DefaultKey
                    /\ phase' = "called"
                    /\ candidates' = [candidates EXCEPT ![Last].feedback =
                          [NoFeedback EXCEPT !.status = "completed",
                                             !.source = Default]]
                 \/ /\ c.key # DefaultKey /\ sources # {}
                    /\ phase' = "called"
                    /\ candidates' =
                          [candidates EXCEPT ![Last] = Reused(c, Min(sources))]
                 \/ /\ c.key # DefaultKey /\ sources = {}
                    /\ phase' = "probing"
                    /\ candidates' = [candidates EXCEPT
                                        ![Last].feedback.status = "collecting"]
    /\ UNCHANGED <<running, cancelled, baseline, searchVars, finalVars, counts,
                   failure>>

\* Mutant: the timed-out attempt is left as it was.
ForgetTimeout(i) == [candidates EXCEPT ![i].measured = FALSE]

\* mark_timeout: the cutoff is evidence, not a completion time.
MarkTimeout(i) == [candidates EXCEPT ![i].timedOut = TRUE, ![i].timeout = Limit]

\* Mutant: the observation is dropped when the plan has drifted.
EndProbeDropsDrift ==
    /\ running /\ phase = "probing"
    /\ \/ /\ candidates' = [candidates EXCEPT ![Last].feedback.samples = @ + 1]
          /\ running' = FALSE /\ UNCHANGED <<phase, failure>>
       \/ ~cancelled /\ Raise("drift") /\ UNCHANGED candidates
    /\ UNCHANGED <<cancelled, baseline, searchVars, finalVars, counts>>

EndProbe ==
    /\ running /\ phase = "probing"
    /\ candidates' = [candidates EXCEPT ![Last].feedback.samples = @ + 1]
    /\ \/ running' = FALSE /\ UNCHANGED <<phase, failure>>
       \/ ~cancelled /\ Raise("drift")
    /\ UNCHANGED <<cancelled, baseline, searchVars, finalVars, counts>>

ProbeTimesOut ==
    /\ running /\ phase = "probing"
    /\ running' = FALSE
    /\ phase' = "called"
    /\ candidates' = [MarkTimeout(Last) EXCEPT
                        ![Last].feedback.status = "timed_out",
                        ![Last].feedback.timeout = Limit]
    /\ UNCHANGED <<cancelled, baseline, searchVars, finalVars, counts, failure>>

CompleteProbe ==
    /\ phase = "probing" /\ MedianDue /\ ~cancelled
    /\ candidates' = [candidates EXCEPT ![Last].feedback.status = "completed"]
    /\ phase' = "called"
    /\ UNCHANGED <<running, cancelled, baseline, searchVars, finalVars, counts,
                   failure>>

-----------------------------------------------------------------------------
(* finish: the outcome of the decision, and the pairs it needs.            *)

FinalUnchanged == UNCHANGED <<running, cancelled, baseline, keptDefault, turn,
                              terminal, counts, failure>>

Score(outcome) ==
    /\ final' = outcome
    /\ phase' = "ended"

Outcome(kind, i, timeout) ==
    [kind |-> kind, id |-> i, timeout |-> timeout,
     key |-> IF i = None THEN NoKey ELSE candidates[i].key]

\* timed_out reads the cutoff of an attempt that had timed out before.
TimeoutOf(c) == IF c.timedOut /\ c.timeout # "absent" THEN c.timeout ELSE Limit

Decided == phase = "decided" /\ ~cancelled
SelectionFailed == selection.status \in {"rejected", "failed"}

FinishWithoutCandidate ==
    /\ Decided
    /\ \/ /\ SelectionFailed
          /\ selection' = [selection EXCEPT !.status = "failed"]
          /\ Score(Outcome("selection_failed", None, "absent"))
       \/ /\ ~SelectionFailed /\ keptDefault
          /\ Score([Outcome("kept_default", None, "absent") EXCEPT
                      !.key = DefaultKey])
          /\ UNCHANGED selection
       \/ /\ ~SelectionFailed /\ ~keptDefault
          /\ Selects(selection.id, None)
          /\ Score(Outcome("no_valid_candidate", None, "absent"))
          /\ UNCHANGED selection
    /\ UNCHANGED <<candidates, chosen, paired>> /\ FinalUnchanged

FinishWithCandidate(i) ==
    /\ Decided
    /\ ~SelectionFailed /\ ~keptDefault
    /\ Selects(selection.id, i)
    /\ LET c == candidates[i]
       IN  \/ /\ c.timedOut
              /\ Score(Outcome("timed_out", i, TimeoutOf(c)))
              /\ UNCHANGED chosen
           \/ /\ ~c.timedOut /\ c.key = DefaultKey
              /\ Score(Outcome("default_duplicate", i, "absent"))
              /\ UNCHANGED chosen
           \/ /\ ~c.timedOut /\ c.key # DefaultKey
              /\ phase' = "pairing" /\ chosen' = i
              /\ UNCHANGED final
    /\ UNCHANGED <<candidates, paired, selection>> /\ FinalUnchanged

\* Warmup pairs run the candidate first, measured pairs in random order.
BeginPair ==
    /\ phase = "pairing" /\ ~running
    /\ ~PairOpen /\ Len(paired) < PairedRuns
    /\ \E order \in {<<"candidate", "default">>, <<"default", "candidate">>} :
          /\ Len(paired) < PairedWarmups => order[1] = "candidate"
          /\ paired' = Append(paired, [order |-> order, done |-> {}])
    /\ UNCHANGED <<phase, candidates, selection, chosen, final>> /\ FinalUnchanged

EndPairHalf ==
    /\ running /\ phase = "pairing"
    /\ paired' = [paired EXCEPT ![Len(paired)].done = @ \cup {Role}]
    /\ \/ running' = FALSE /\ UNCHANGED <<phase, failure>>
       \/ ~cancelled /\ Raise("drift")
    /\ UNCHANGED <<cancelled, baseline, candidates, searchVars, chosen, final,
                   counts>>

\* Only a timeout of the candidate is a scored decision.
PairTimesOut ==
    /\ running /\ phase = "pairing"
    /\ Role = "candidate"
    /\ running' = FALSE
    /\ phase' = "timedout"
    /\ candidates' = MarkTimeout(chosen)
    /\ UNCHANGED <<cancelled, baseline, searchVars, finalVars, counts, failure>>

ScoreTimeout ==
    /\ phase = "timedout" /\ ~cancelled
    /\ Score(Outcome("timed_out", chosen, Limit))
    /\ UNCHANGED <<candidates, selection, chosen, paired>> /\ FinalUnchanged

ScoreMeasured ==
    /\ phase = "pairing" /\ MedianDue /\ ~cancelled
    /\ Score(Outcome("measured", chosen, "absent"))
    /\ candidates' = [candidates EXCEPT ![chosen].measured = TRUE]
    /\ UNCHANGED <<selection, chosen, paired>> /\ FinalUnchanged

-----------------------------------------------------------------------------
Step ==
    \/ RaiseCancelled \/ RaiseError
    \/ BeginStatement \/ EndDefaultExplain \/ EndDefaultRun \/ FinishBaseline
    \/ ForcedStop \/ NoCall \/ OtherCall \/ FinishCall \/ KeepDefault
    \/ ExtraFinish \/ EndReply
    \/ RejectAttempt \/ SubmitCandidate \/ EndValidation \/ StartFeedback
    \/ EndProbe \/ ProbeTimesOut \/ CompleteProbe
    \/ FinishWithoutCandidate \/ (\E i \in Ids : FinishWithCandidate(i))
    \/ BeginPair \/ EndPairHalf \/ PairTimesOut \/ ScoreTimeout \/ ScoreMeasured

Next == Step \/ Cancel

Spec == Init /\ [][Next]_vars

\* The thread runs, statements and model requests end within their timeouts.
FairSpec == Spec /\ WF_vars(Step)

-----------------------------------------------------------------------------
Selected == candidates[final.id]

OutcomeValid ==
    /\ baseline.timed /\ baseline.samples = DefaultRuns
    /\ final.id # None =>
          final.id \in DOMAIN candidates /\ final.key = Selected.key
    /\ final.kind \in {"measured", "default_duplicate"} =>
          final.id # None /\ Selected.valid /\ Selected.satisfied
          /\ ~Selected.timedOut
    /\ final.kind \in {"kept_default", "default_duplicate"} =>
          final.key = DefaultKey
    /\ final.kind = "no_valid_candidate" => EligibleIds = {}
    /\ final.kind = "selection_failed" => selection.status = "failed"
    /\ final.kind = "measured" =>
          /\ final.key # DefaultKey
          /\ Len(paired) = PairedRuns
          /\ \A i \in DOMAIN paired : paired[i].done = Roles
    /\ final.kind = "timed_out" =>
          /\ final.id # None /\ Selected.timedOut
          /\ final.timeout = Selected.timeout /\ final.timeout # "absent"

FeedbackCoherent(feedback) ==
    /\ feedback.source # None => feedback.samples = 0
    /\ feedback.status = "timed_out" => feedback.timeout # "absent"
    /\ feedback.status = "completed" /\ feedback.source = None =>
          feedback.samples > FeedbackWarmups

RecordValid ==
    phase = "ended" =>
        /\ final = NoOutcome <=> failure # "none"
        /\ final # NoOutcome => OutcomeValid
        /\ \A i \in DOMAIN candidates : FeedbackCoherent(candidates[i].feedback)
        /\ \A i \in DOMAIN paired :
              paired[i].done # {} => paired[i].order[1] \in paired[i].done

(* The state is well typed, with at most the budget of attempts, and the   *)
(* record a rollout ends with satisfies the validators of its own schema,  *)
(* which would otherwise raise after hours of measurements have been made: *)
(* RolloutRecord.evidence_matches_outcome, and the coherence of feedback   *)
(* and of pairs, which every record is checked for.                        *)
RolloutInv == TypeOK /\ RecordValid

OutcomeFollowsDecision ==
    final # NoOutcome =>
        /\ final.kind = "kept_default" <=> keptDefault
        /\ final.kind = "selection_failed" <=> selection.status = "failed"
        /\ selection.status = "accepted" => final.id = selection.id

DecisionSelectable ==
    phase = "decided" /\ ~SelectionFailed /\ ~keptDefault
        => Selectable(selection.id)

\* An inspection leaves a turn for each remaining attempt and one for the decision, an
\* attempt leaves one for the decision, and every turn offers a way to decide.
TurnsLeftToDecide ==
    /\ phase = "agent" =>
          /\ Available(turn) \cap {"finish", "keep_default"} # {}
          /\ "inspect" \in Available(turn) =>
                MaxTurns - turn >= MaxCandidates - Len(candidates) + 1
    /\ phase \in {"validating", "validated", "probing"} => turn < MaxTurns

(* The turn budget lets the model use every attempt and still decide       *)
(* (interface.available_tool_names).  What is scored is what the agent     *)
(* decided: keeping the default, one candidate, or failing to decide       *)
(* (validation.resolve_selection, rollout.finish); and finish does not     *)
(* raise over a decision that the agent's calls had accepted or the forced *)
(* stop had resolved: select, which takes no step here where it raises,    *)
(* still finds what it found then.                                         *)
DecisionHolds == TurnsLeftToDecide /\ DecisionSelectable /\ OutcomeFollowsDecision

(* An extra call after the first terminal decision cannot undo it, and     *)
(* nothing later does (validation.reject_selection).                       *)
FirstDecisionStands ==
    [][selection.status = "accepted" => selection' = selection]_vars

\* Two mechanisms find earlier executions: by_reuse_key names the attempt that a new one
\* duplicates, the feedback search the attempt whose evidence it reuses.  They agree, the
\* evidence is at its source and not one more reference away, and it says the same of
\* both attempts.
ReuseFollowsDuplicate ==
    \A i \in DOMAIN candidates :
        LET c == candidates[i]
        IN  c.feedback.status # "absent" =>
              /\ c.feedback.source = c.duplicate
              /\ c.feedback.source \in Ids =>
                    LET origin == candidates[c.feedback.source]
                    IN  /\ origin.key = c.key /\ origin.feedback.source = None
                        /\ origin.feedback.status = c.feedback.status
                        /\ phase \in {"called", "agent"} =>
                              origin.timedOut = c.timedOut
                              /\ origin.timeout = c.timeout

\* No plan is executed for feedback twice, nor the default's ever.
ProbedOnce ==
    \A i, j \in DOMAIN candidates :
        /\ candidates[i].feedback.status # "absent"
        /\ candidates[i].feedback.source = None
        => /\ candidates[i].key # DefaultKey
           /\ /\ candidates[j].feedback.status # "absent"
              /\ candidates[j].feedback.source = None
              /\ candidates[i].key = candidates[j].key
              => i = j

\* What the feedback executions have left: the observations, each by its attempt and its
\* number, and the cutoffs.
Observations == {x \in (DOMAIN candidates) \X (1 .. ProbeRuns) :
                   x[2] <= candidates[x[1]].feedback.samples}
Cutoffs == {i \in DOMAIN candidates :
              /\ candidates[i].feedback.status = "timed_out"
              /\ candidates[i].feedback.source = None}
ProbesKept == Cardinality(Observations) + Cardinality(Cutoffs)

\* What the pairs have left, by pair and role, and the cutoff of the chosen candidate.
PairObservations == {x \in (DOMAIN paired) \X Roles : x[2] \in paired[x[1]].done}
PairsKept ==
    Cardinality(PairObservations)
    + (IF chosen # None /\ candidates[chosen].timedOut THEN 1 ELSE 0)

\* Every timed statement that was begun is in the evidence, as an observation or as a
\* cutoff, except the one that is running or whose error ended the rollout.
StatementsKept ==
    LET lost == (counts.initial - baseline.samples)
                + (counts.feedback - ProbesKept)
                + (counts.final - PairsKept)
    IN  /\ counts.initial >= baseline.samples
        /\ counts.feedback >= ProbesKept
        /\ counts.final >= PairsKept
        /\ lost <= IF running \/ failure = "error" THEN 1 ELSE 0

(* The evidence of the attempts tells one story: what is reused is named   *)
(* where it was found, no plan is executed for feedback twice, and neither *)
(* drift nor cancellation erases a completed execution                     *)
(* (rollout.evaluate, rollout.execute_pair).                               *)
EvidenceKept == ReuseFollowsDuplicate /\ ProbedOnce /\ StatementsKept

(* A rollout ends, whatever the model and PostgreSQL answer.               *)
RolloutEnds == <>(phase = "ended")
=============================================================================
