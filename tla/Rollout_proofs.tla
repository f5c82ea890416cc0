---------------------------- MODULE Rollout_proofs ----------------------------
(***************************************************************************)
(* What a rollout records, decides and keeps, for any budget of attempts,  *)
(* turns and executions and any number of plans.                           *)
(*                                                                         *)
(* What the runs check of a rollout is not inductive: RolloutInv is about  *)
(* the record at the end, DecisionHolds about what a decision leads to,    *)
(* and EvidenceKept about all attempts at once.  IInv adds                 *)
(*   Control   what has been done when the thread gets to a point;         *)
(*   Attempts  that an attempt whose evaluation is over has the evidence   *)
(*             its plan calls for, and only that one;                      *)
(*   Decision  that a decision once accepted can be scored, and that no    *)
(*             attempt is made after it;                                   *)
(*   Pairs     that only the decided candidate is executed in pairs, and   *)
(*             one pair at a time;                                         *)
(*   Reuse     that a duplicate names the first attempt with its plan, and *)
(*             has the evidence of that attempt;                           *)
(*   Counted   that a statement that was begun is running or kept.         *)
(* Reuse is the hard part: the first attempt with a plan must stay the     *)
(* first, and its evidence the same, while later attempts come to name it. *)
(***************************************************************************)
EXTENDS Rollout, FiniteSetTheorems, SequenceTheorems, WellFoundedInduction, TLAPS

-----------------------------------------------------------------------------
(* The inductive invariant.                                                *)

Searching == {"agent", "called", "validating", "validated", "probing"}

\* Where the thread is, and what it has done by then.
Control ==
    /\ running => WantsStatement
    /\ phase \in {"new", "baseline"} => candidates = <<>> /\ ~baseline.timed
    /\ phase \notin {"new", "baseline", "ended"} => baseline.timed
    /\ baseline.timed => baseline.samples = DefaultRuns
    /\ phase \in {"validated", "probing"} => candidates # <<>>
    /\ phase = "validating" => Len(candidates) < MaxCandidates
    /\ phase \in {"validating", "validated", "probing"} => turn < MaxTurns
    /\ phase # "ended" => failure = "none"
    /\ phase = "ended" => ~running

\* An attempt whose evaluation has ended has the evidence that its plan calls for.
AttemptStands(i) ==
    LET c == candidates[i]
    IN  /\ c.satisfied => c.valid /\ c.key \in Keys
        /\ c.timedOut => c.timeout # "absent"
        /\ FeedbackCoherent(c.feedback)
        /\ c.feedback.status # "absent" => c.satisfied /\ FeedbackRuns > 0
        /\ /\ i # Last \/ phase \notin {"validated", "probing", "ended"}
           /\ c.satisfied /\ FeedbackRuns > 0
           => c.feedback.status \in {"completed", "timed_out"}

Attempts ==
    /\ \A i \in DOMAIN candidates : AttemptStands(i)
    /\ phase = "validated" => Probed = NoFeedback
    /\ phase = "probing" => Probed.status = "collecting" /\ Probed.source = None

\* A decision has been accepted by the last call of the search, or resolved after it, and
\* can be finished.
Decision ==
    /\ selection.status = "accepted" =>
          phase \in {"called", "decided", "pairing", "timedout", "ended"}
    /\ selection.status = "accepted" /\ phase = "called" => terminal
    /\ keptDefault => selection = [status |-> "accepted", id |-> None]
    /\ phase \in {"called", "decided"} /\ selection.status = "accepted" /\ ~keptDefault =>
          IF selection.id = None THEN EligibleIds = {} ELSE selection.id \in EligibleIds
    /\ phase = "decided" => selection.status \in {"accepted", "failed"}

\* The candidate that is measured against the default, and its pairs.
Pairs ==
    /\ chosen # None =>
          phase \in {"pairing", "timedout", "ended"} /\ chosen \in DOMAIN candidates
    /\ paired # <<>> => chosen # None
    /\ phase \in {"pairing", "timedout"} =>
          /\ selection = [status |-> "accepted", id |-> chosen] /\ ~keptDefault
          /\ chosen # None
          /\ candidates[chosen].key # DefaultKey
    /\ phase = "pairing" =>
          /\ candidates[chosen].valid /\ candidates[chosen].satisfied
          /\ ~candidates[chosen].timedOut
    /\ phase = "timedout" =>
          candidates[chosen].timedOut /\ candidates[chosen].timeout = Limit
    /\ \A i \in DOMAIN paired :
          /\ i < Len(paired) => paired[i].done = Roles
          /\ paired[i].done # {} => paired[i].order[1] \in paired[i].done

\* A rollout is scored once, by what ends it.
Scored ==
    /\ RecordValid
    /\ OutcomeFollowsDecision
    /\ final # NoOutcome => phase = "ended"

\* The earlier attempts with the plan of attempt i.
Earlier(i) == {j \in 1 .. i - 1 :
                 candidates[j].satisfied /\ candidates[j].key = candidates[i].key}

\* A duplicate names the default, or the first attempt with its plan.
NamesFirst(i) ==
    LET c == candidates[i]
    IN  c.satisfied =>
          IF c.key = DefaultKey THEN c.duplicate = Default
          ELSE IF c.duplicate = None THEN Earlier(i) = {}
          ELSE c.duplicate \in Earlier(i) /\ \A j \in Earlier(i) : c.duplicate <= j

\* The evidence of an attempt is its own, or that of the attempt that it duplicates.
Refers(i) ==
    LET c == candidates[i]
    IN  c.feedback.status # "absent" =>
          /\ c.feedback.source = c.duplicate
          /\ c.duplicate \in Ids =>
                LET origin == candidates[c.duplicate]
                IN  /\ origin.feedback.status = c.feedback.status
                    /\ phase \in Searching =>
                          origin.timedOut = c.timedOut /\ origin.timeout = c.timeout

Reuse == \A i \in DOMAIN candidates : NamesFirst(i) /\ Refers(i)

Running(p) == IF running /\ phase = p THEN 1 ELSE 0

\* Every statement that was begun is running or kept; an error loses one.
Counted ==
    /\ phase # "ended" =>
          /\ counts.initial = baseline.samples + Running("baseline")
          /\ counts.feedback = ProbesKept + Running("probing")
          /\ counts.final = PairsKept + Running("pairing")
    /\ StatementsKept

IInv ==
    /\ TypeOK /\ Control /\ Attempts /\ Decision /\ Pairs /\ Scored /\ Reuse /\ Counted

-----------------------------------------------------------------------------
(* The operators of the model.                                             *)

\* The budgets are numbers, and attempts are numbered (RolloutEvaluator.__init__).
LEMMA Budgets ==
    /\ MaxCandidates \in Nat \ {0} /\ MaxTurns \in Nat \ {0}
    /\ DefaultRuns \in Nat \ {0} /\ PairedRuns \in Nat \ {0}
    /\ InspectionTurns \in Nat /\ FeedbackWarmups \in Nat /\ FeedbackRuns \in Nat
    /\ PairedWarmups \in Nat /\ ProbeRuns \in Nat
    /\ DefaultKey \in Keys /\ NoKey \notin Keys
    /\ Default \notin Ids /\ None \notin Ids /\ Default # None /\ Ids \subseteq Nat
    /\ FeedbackRuns > 0 => ProbeRuns > FeedbackWarmups
BY RolloutAssumption DEF ProbeRuns, Default, None, Ids

\* The first of a set of attempts is one of them (Min).
LEMMA First ==
    ASSUME NEW S \in SUBSET Nat, S # {}
    PROVE  Min(S) \in S /\ \A y \in S : Min(S) <= y
<1>0. S \subseteq Nat /\ S # {}
  OBVIOUS
<1>1. PICK x \in S : \A y \in S : ~(<<y, x>> \in OpToRel(<, Nat))
  BY <1>0, NatLessThanWellFounded, WFMin, Zenon
<1>2. \A y \in S : x <= y
  <2>1. \A y \in S : ~(y < x)
    BY <1>0, <1>1 DEF OpToRel
  <2> QED  BY <1>0, <2>1
<1>3. PICK m \in S : m = Min(S) /\ \A y \in S : m <= y
  BY <1>2 DEF Min
<1> QED  BY <1>3

\* The first and the last of two numbers (Min, Max).
LEMMA OfTwo ==
    ASSUME NEW m \in Int, NEW n \in Int
    PROVE  /\ Min({m, n}) = IF m <= n THEN m ELSE n
           /\ Max({m, n}) = IF m >= n THEN m ELSE n
<1>1. PICK x \in {m, n} : x = Min({m, n}) /\ x <= m /\ x <= n
  <2>1. \E w \in {m, n} : \A y \in {m, n} : w <= y
    OBVIOUS
  <2> QED  BY <2>1 DEF Min
<1>2. PICK z \in {m, n} : z = Max({m, n}) /\ z >= m /\ z >= n
  <2>1. \E z \in {m, n} : \A y \in {m, n} : z >= y
    OBVIOUS
  <2> QED  BY <2>1 DEF Max
<1> QED  BY <1>1, <1>2

\* What an attempt is.
LEMMA Fields ==
    ASSUME NEW c \in Candidate
    PROVE  /\ c.valid \in BOOLEAN /\ c.satisfied \in BOOLEAN /\ c.timedOut \in BOOLEAN
           /\ c.measured \in BOOLEAN
           /\ c.key \in Keys \cup {NoKey} /\ c.duplicate \in Ids \cup {Default, None}
           /\ c.timeout \in Limits
           /\ c.feedback \in ExecutionFeedback /\ c.feedback.status \in Statuses
           /\ c.feedback.source \in Ids \cup {Default, None}
           /\ c.feedback.samples \in 0 .. ProbeRuns /\ c.feedback.timeout \in Limits
BY DEF Candidate, ExecutionFeedback

\* An attempt before PostgreSQL has seen it (unvalidated_candidate), and after
\* (validate_candidate).
LEMMA Made ==
    /\ Unvalidated \in Candidate
    /\ TimedOutPlanning \in Candidate
    /\ \A k \in Keys, satisfied \in BOOLEAN :
          DuplicateOf(k) \in Ids \cup {Default, None} => Planned(k, satisfied) \in Candidate
<1>1. 0 \in 0 .. ProbeRuns
  BY Budgets
<1>2. NoFeedback \in ExecutionFeedback
  BY <1>1 DEF NoFeedback, ExecutionFeedback, Statuses, Limits
<1>3. Unvalidated \in Candidate
  BY <1>2 DEF Unvalidated, Candidate, Limits
<1>4. TimedOutPlanning \in Candidate
  BY <1>3 DEF TimedOutPlanning, Limit, Unvalidated, Candidate, Limits
<1>5. ASSUME NEW k \in Keys, NEW satisfied \in BOOLEAN,
             DuplicateOf(k) \in Ids \cup {Default, None}
      PROVE  Planned(k, satisfied) \in Candidate
  BY <1>2, <1>5 DEF Planned, Unvalidated, Candidate, Limits
<1> QED  BY <1>3, <1>4, <1>5

\* A list of attempts with one more.
LEMMA Appended ==
    ASSUME TypeOK, Len(candidates) < MaxCandidates, NEW c \in Candidate,
           candidates' = Append(candidates, c)
    PROVE  /\ candidates' \in Seq(Candidate) /\ Len(candidates') <= MaxCandidates
           /\ Last' = Last + 1 /\ candidates'[Last + 1] = c /\ Last \in Nat
           /\ DOMAIN candidates = 1 .. Last /\ DOMAIN candidates' = 1 .. Last + 1
           /\ \A i \in DOMAIN candidates : candidates'[i] = candidates[i]
<1>1. Len(candidates) \in Nat /\ MaxCandidates \in Nat
  BY Budgets DEF TypeOK
<1> QED  BY <1>1 DEF TypeOK, Last

\* A list of attempts with one of them replaced.
LEMMA Replaced ==
    ASSUME TypeOK, NEW i \in DOMAIN candidates, NEW c \in Candidate,
           candidates' = [candidates EXCEPT ![i] = c]
    PROVE  /\ candidates' \in Seq(Candidate) /\ Len(candidates') <= MaxCandidates
           /\ Last' = Last /\ DOMAIN candidates' = DOMAIN candidates
           /\ candidates'[i] = c
           /\ \A j \in DOMAIN candidates : j # i => candidates'[j] = candidates[j]
<1>1. DOMAIN candidates = 1 .. Len(candidates) /\ Len(candidates) \in Nat
  BY DEF TypeOK
<1> QED  BY <1>1, ExceptSeq DEF TypeOK, Last

\* What TypeOK says of the list of attempts.
LEMMA Listed ==
    ASSUME TypeOK
    PROVE  /\ Last \in Nat /\ DOMAIN candidates = 1 .. Last
           /\ \A i \in DOMAIN candidates : candidates[i] \in Candidate
           /\ DOMAIN paired = 1 .. Len(paired) /\ Len(paired) \in Nat
           /\ \A i \in DOMAIN paired : paired[i] \in MeasurementPair
BY ElementOfSeq DEF TypeOK, Last

\* The evidence is finite.
LEMMA Counts ==
    ASSUME TypeOK
    PROVE  /\ IsFiniteSet(Observations) /\ IsFiniteSet(Cutoffs)
           /\ IsFiniteSet(PairObservations)
           /\ Cardinality(Observations) \in Nat /\ Cardinality(Cutoffs) \in Nat
           /\ Cardinality(PairObservations) \in Nat
           /\ ProbesKept \in Nat /\ PairsKept \in Nat
<1>1. /\ IsFiniteSet(DOMAIN candidates) /\ IsFiniteSet(DOMAIN paired)
      /\ IsFiniteSet(1 .. ProbeRuns)
  BY Listed, Budgets, FS_Interval
<1>2. IsFiniteSet(Roles)
  <2>1. IsFiniteSet({"default"}) /\ Roles = {"default"} \cup {"candidate"}
    BY FS_Singleton DEF Roles
  <2> QED  BY <2>1, FS_AddElement
<1>3. /\ IsFiniteSet((DOMAIN candidates) \X (1 .. ProbeRuns))
      /\ IsFiniteSet((DOMAIN paired) \X Roles)
  BY <1>1, <1>2, FS_Product
<1>4. /\ IsFiniteSet(Observations) /\ IsFiniteSet(Cutoffs)
      /\ IsFiniteSet(PairObservations)
  <2>1. /\ Observations \subseteq (DOMAIN candidates) \X (1 .. ProbeRuns)
        /\ Cutoffs \subseteq DOMAIN candidates
        /\ PairObservations \subseteq (DOMAIN paired) \X Roles
    BY DEF Observations, Cutoffs, PairObservations
  <2> QED  BY <1>1, <1>3, <2>1, FS_Subset
<1>5. /\ Cardinality(Observations) \in Nat /\ Cardinality(Cutoffs) \in Nat
      /\ Cardinality(PairObservations) \in Nat
  BY <1>4, FS_CardinalityType
<1> QED  BY <1>4, <1>5 DEF ProbesKept, PairsKept

-----------------------------------------------------------------------------
(* The steps: the model's turns.                                           *)

Selection == [status : {"pending", "rejected", "accepted", "failed"}, id : Ids \cup {None}]

\* A rollout that has not begun has no evidence and no outcome.
LEMMA InitInv == Init => IInv
<1> SUFFICES ASSUME Init PROVE IInv
  OBVIOUS
<1>1. candidates = <<>> /\ DOMAIN candidates = {} /\ DOMAIN paired = {} /\ Len(candidates) = 0
      /\ Len(paired) = 0 /\ paired = <<>>
  BY DEF Init
<1>2. TypeOK
  <2>1. candidates \in Seq(Candidate) /\ paired \in Seq(MeasurementPair)
    BY <1>1, EmptySeq
  <2>2. 0 \in 0 .. DefaultRuns /\ 1 \in 1 .. MaxTurns
    BY Budgets
  <2>3. /\ baseline \in [explained : BOOLEAN, samples : 0 .. DefaultRuns, timed : BOOLEAN]
        /\ counts \in [initial : Nat, feedback : Nat, final : Nat]
        /\ selection \in Selection
    BY <2>2 DEF Init, Selection
  <2>4. {running, cancelled, keptDefault, terminal} \subseteq BOOLEAN
    BY DEF Init
  <2>5. /\ Len(candidates) <= MaxCandidates /\ Len(paired) <= PairedRuns
        /\ phase \in Phases /\ chosen \in Ids \cup {None} /\ turn \in 1 .. MaxTurns
        /\ failure \in {"none", "cancelled", "drift", "error"}
    BY <1>1, <2>2, Budgets DEF Init, Phases
  <2> QED  BY <2>1, <2>3, <2>4, <2>5 DEF TypeOK, Selection
<1>3. Observations = {} /\ Cutoffs = {} /\ PairObservations = {}
  BY <1>1 DEF Observations, Cutoffs, PairObservations
<1>4. ProbesKept = 0 /\ PairsKept = 0
  BY <1>3, FS_EmptySet DEF ProbesKept, PairsKept, Init
<1>5. Control
  BY <1>1 DEF Init, Control
<1>6. Attempts /\ Reuse
  BY <1>1 DEF Init, Attempts, Reuse
<1>7. Decision /\ Pairs /\ Scored
  BY <1>1 DEF Init, Decision, Pairs, Scored, RecordValid, OutcomeFollowsDecision
<1>8. Counted
  BY <1>4 DEF Init, Counted, StatementsKept, Running
<1> QED  BY <1>2, <1>5, <1>6, <1>7, <1>8 DEF IInv

\* A step of the search that tries nothing: it moves between turns, begins an attempt or
\* ends the search.
TurnStep ==
    /\ phase \in {"agent", "called"} /\ ~running
    /\ UNCHANGED <<running, cancelled, baseline, candidates, finalVars, counts, failure>>
    /\ phase' \in {"agent", "called", "decided", "validating"}
    /\ turn' \in 1 .. MaxTurns
    /\ phase' = "validating" => turn' < MaxTurns /\ Len(candidates) < MaxCandidates
    /\ selection' \in Selection /\ keptDefault' \in BOOLEAN /\ terminal' \in BOOLEAN

\* It leaves the evidence as it was.
LEMMA TurnKeeps ==
    ASSUME IInv, TurnStep
    PROVE  TypeOK' /\ Control' /\ Attempts' /\ Pairs' /\ Scored' /\ Reuse' /\ Counted'
<1> USE DEF TurnStep, finalVars
<1>1. TypeOK'
  BY DEF IInv, TypeOK, Phases, Selection
<1>2. Control'
  BY DEF IInv, Control
<1>3. Attempts'
  BY DEF IInv, Attempts, AttemptStands, Last
<1>4. Pairs'
  BY DEF IInv, Pairs
<1>5. Scored'
  BY DEF IInv, Scored, RecordValid, OutcomeFollowsDecision, NoOutcome
<1>6. Reuse'
  BY DEF IInv, Reuse, NamesFirst, Refers, Earlier, Searching
<1>7. Counted'
  <2>1. ProbesKept' = ProbesKept /\ PairsKept' = PairsKept
    BY DEF ProbesKept, PairsKept, Observations, Cutoffs, PairObservations
  <2> QED  BY <2>1 DEF IInv, Counted, StatementsKept, Running
<1> QED  BY <1>1, <1>2, <1>3, <1>4, <1>5, <1>6, <1>7

\* What is accepted can be finished (accept_selection).
LEMMA Accepts ==
    ASSUME TypeOK, ~keptDefault, NEW id \in Ids \cup {Default, None},
           AcceptSelection(id), UNCHANGED candidates
    PROVE  /\ selection' \in Selection /\ keptDefault' \in BOOLEAN
           /\ selection'.status = "accepted"
           /\ keptDefault' => selection' = [status |-> "accepted", id |-> None]
           /\ ~keptDefault' =>
                 IF selection'.id = None THEN EligibleIds' = {}
                 ELSE selection'.id \in EligibleIds'
<1>1. EligibleIds' = EligibleIds
  BY DEF EligibleIds, Eligible
<1>2. PICK i \in Ids \cup {None} :
         /\ IF id = Default THEN i = None ELSE Selects(id, i)
         /\ selection' = [status |-> "accepted", id |-> i]
  BY DEF AcceptSelection
<1>3. keptDefault' = (id = Default)
  BY DEF AcceptSelection
<1>4. selection' \in Selection /\ selection'.status = "accepted" /\ selection'.id = i
  BY <1>2 DEF Selection
<1>5. CASE id = Default
  BY <1>2, <1>3, <1>4, <1>5
<1>6. CASE id # Default
  <2>1. keptDefault' = FALSE /\ Selects(id, i)
    BY <1>2, <1>3, <1>6
  <2>2. IF i = None THEN EligibleIds = {} ELSE i \in EligibleIds
    <3>1. None \notin EligibleIds /\ None \notin 1 .. Last
      BY Listed, Budgets DEF EligibleIds, None
    <3> QED  BY <2>1, <3>1 DEF Selects
  <2> QED  BY <1>1, <1>4, <2>1, <2>2
<1> QED  BY <1>5, <1>6

\* The search ends with a decision that can be finished, or with none (resolve_selection).
LEMMA Resolved ==
    ASSUME TypeOK, Decision, phase \in {"agent", "called"}, ResolveSelection,
           UNCHANGED candidates, phase' = "decided"
    PROVE  Decision' /\ selection' \in Selection /\ keptDefault' \in BOOLEAN
<1>1. selection \in Selection /\ keptDefault \in BOOLEAN
  BY DEF TypeOK, Selection
<1>2. EligibleIds' = EligibleIds
  BY DEF EligibleIds, Eligible
<1>3. CASE selection.status = "rejected" /\ UNCHANGED keptDefault
           /\ selection' = [selection EXCEPT !.status = "failed"]
  BY <1>1, <1>3 DEF Decision, Selection
<1>4. CASE selection.status = "pending" /\ ~keptDefault /\ AcceptSelection(None)
  BY <1>4, Accepts DEF Decision
<1>5. CASE selection.status = "pending" /\ ~keptDefault /\ UNCHANGED keptDefault
           /\ selection' = [selection EXCEPT !.status = "failed"]
  BY <1>1, <1>5 DEF Decision, Selection
<1>6. CASE (selection.status \in {"accepted", "failed"} \/ keptDefault)
           /\ UNCHANGED <<selection, keptDefault>>
  BY <1>1, <1>2, <1>6 DEF Decision, Selection
<1> QED  BY <1>3, <1>4, <1>5, <1>6 DEF ResolveSelection

\* The last turn, and the turn after the last attempt, only decide (available_tool_names).
LEMMA MayEvaluate ==
    ASSUME TypeOK, "evaluate" \in Available(turn)
    PROVE  turn < MaxTurns /\ Len(candidates) < MaxCandidates
<1>1. turn # MaxTurns /\ Len(candidates) # MaxCandidates
  BY DEF Available
<1> QED  BY <1>1, Listed, Budgets DEF TypeOK, Last

\* The end of the search, and of a turn (QoAgentPolicy.search).
LEMMA Ends ==
    ASSUME IInv, phase \in {"agent", "called"}, EndSearch, UNCHANGED candidates, TurnUnchanged
    PROVE  IInv'
<1>1. ~running
  BY DEF IInv, Control, WantsStatement
<1>2. Decision' /\ selection' \in Selection /\ keptDefault' \in BOOLEAN
  BY Resolved DEF EndSearch, IInv
<1>3. TurnStep
  BY <1>1, <1>2 DEF TurnStep, EndSearch, TurnUnchanged, IInv, TypeOK
<1> QED  BY <1>2, <1>3, TurnKeeps DEF IInv

\* The search goes on to the next turn or ends, and nothing else changes.
LEMMA Moves ==
    ASSUME IInv, phase \in {"agent", "called"}, selection.status # "accepted", NextTurn,
           UNCHANGED candidates, TurnUnchanged
    PROVE  IInv'
<1>1. CASE turn = MaxTurns
  BY <1>1, Ends DEF NextTurn
<1>2. CASE turn # MaxTurns
  <2>1. ~running
    BY DEF IInv, Control, WantsStatement
  <2>2. turn' \in 1 .. MaxTurns
    BY <1>2, Budgets DEF NextTurn, IInv, TypeOK
  <2>3. TurnStep
    BY <1>2, <2>1, <2>2 DEF TurnStep, NextTurn, TurnUnchanged, IInv, TypeOK, Selection
  <2>4. Decision'
    BY <1>2 DEF NextTurn, IInv, Decision
  <2> QED  BY <2>3, <2>4, TurnKeeps DEF IInv
<1> QED  BY <1>1, <1>2

\* What a call does to the decision: nothing, a rejection, or a decision that can be
\* finished and ends the search (AgentEnvironment.execute).
LEMMA Calls ==
    ASSUME IInv, phase = "agent" \/ phase = "called", phase' = "called", UNCHANGED turn,
           UNCHANGED candidates, TurnUnchanged,
           \/ UNCHANGED <<selection, keptDefault, terminal>>
           \/ RejectSelection /\ UNCHANGED terminal
           \/ /\ phase = "agent" /\ terminal' = TRUE
              /\ \E id \in Ids \cup {Default, None} : AcceptSelection(id)
           \/ /\ phase = "agent" /\ terminal' = TRUE /\ keptDefault' = TRUE
              /\ selection' = [status |-> "accepted", id |-> None]
    PROVE  IInv'
<1>1. ~running /\ EligibleIds' = EligibleIds
  BY DEF IInv, Control, WantsStatement, EligibleIds, Eligible
<1>2. phase = "agent" => selection.status # "accepted" /\ ~keptDefault
  BY DEF IInv, Decision
<1>3. selection \in Selection /\ keptDefault \in BOOLEAN /\ terminal \in BOOLEAN
      /\ turn \in 1 .. MaxTurns
  BY DEF IInv, TypeOK, Selection
<1>4. CASE UNCHANGED <<selection, keptDefault, terminal>>
  <2>1. TurnStep
    BY <1>1, <1>3, <1>4 DEF TurnStep, TurnUnchanged
  <2>2. Decision'
    BY <1>1, <1>2, <1>4 DEF IInv, Decision
  <2> QED  BY <2>1, <2>2, TurnKeeps DEF IInv
<1>5. CASE RejectSelection /\ UNCHANGED terminal
  <2>1. selection' \in Selection
    BY <1>3, <1>5 DEF RejectSelection, Selection
  <2>2. TurnStep
    BY <1>1, <1>3, <1>5, <2>1 DEF TurnStep, TurnUnchanged, RejectSelection
  <2>3. Decision'
    BY <1>1, <1>2, <1>5 DEF IInv, Decision, RejectSelection
  <2> QED  BY <2>2, <2>3, TurnKeeps DEF IInv
<1>6. CASE /\ phase = "agent" /\ terminal' = TRUE
           /\ \E id \in Ids \cup {Default, None} : AcceptSelection(id)
  <2>1. PICK id \in Ids \cup {Default, None} : AcceptSelection(id)
    BY <1>6
  <2>2. /\ selection' \in Selection /\ keptDefault' \in BOOLEAN
        /\ selection'.status = "accepted"
        /\ keptDefault' => selection' = [status |-> "accepted", id |-> None]
        /\ ~keptDefault' =>
              IF selection'.id = None THEN EligibleIds' = {}
              ELSE selection'.id \in EligibleIds'
    BY <1>2, <1>6, <2>1, Accepts DEF IInv
  <2>3. TurnStep
    BY <1>1, <1>3, <1>6, <2>2 DEF TurnStep, TurnUnchanged
  <2>4. Decision'
    BY <1>6, <2>2 DEF Decision
  <2> QED  BY <2>3, <2>4, TurnKeeps DEF IInv
<1>7. CASE /\ phase = "agent" /\ terminal' = TRUE /\ keptDefault' = TRUE
           /\ selection' = [status |-> "accepted", id |-> None]
  <2>1. TurnStep
    BY <1>1, <1>3, <1>7 DEF TurnStep, TurnUnchanged, Selection
  <2>2. Decision'
    BY <1>7 DEF Decision
  <2> QED  BY <2>1, <2>2, TurnKeeps DEF IInv
<1> QED  BY <1>4, <1>5, <1>6, <1>7

\* The turns of the model.
LEMMA TurnInv ==
    ASSUME IInv,
           \/ ForcedStop \/ NoCall \/ OtherCall \/ FinishCall \/ KeepDefault
           \/ ExtraFinish \/ EndReply \/ SubmitCandidate
    PROVE  IInv'
<1>1. phase = "agent" => selection.status # "accepted" /\ ~keptDefault /\ ~running
  BY DEF IInv, Decision, Control, WantsStatement
<1>2. CASE ForcedStop
  <2>1. CASE EndSearch
    BY <1>2, <2>1, Ends DEF ForcedStop
  <2>2. CASE ~EndSearch
    <3>1. /\ phase = "agent" /\ phase' = "decided" /\ UNCHANGED <<keptDefault, turn, terminal>>
          /\ selection' = [status |-> "failed", id |-> None]
          /\ UNCHANGED candidates /\ TurnUnchanged
      BY <1>2, <2>2 DEF ForcedStop
    <3>2. TurnStep
      BY <1>1, <3>1 DEF TurnStep, TurnUnchanged, IInv, TypeOK, Selection
    <3>3. Decision'
      BY <1>1, <3>1 DEF Decision
    <3> QED  BY <3>2, <3>3, TurnKeeps DEF IInv
  <2> QED  BY <2>1, <2>2
<1>3. CASE NoCall
  BY <1>1, <1>3, Moves DEF NoCall, AgentTurn
<1>4. CASE OtherCall
  BY <1>4, Calls DEF OtherCall, AgentTurn, Called
<1>5. CASE FinishCall
  <2>1. None \in Ids \cup {Default, None}
    OBVIOUS
  <2> QED  BY <1>5, <2>1, Calls DEF FinishCall, AgentTurn, Called
<1>6. CASE KeepDefault
  BY <1>6, Calls DEF KeepDefault, AgentTurn, Called
<1>7. CASE ExtraFinish
  BY <1>7, Calls DEF ExtraFinish
<1>8. CASE EndReply
  <2>1. CASE terminal
    BY <1>8, <2>1, Ends DEF EndReply
  <2>2. CASE ~terminal
    <3>1. selection.status # "accepted"
      BY <1>8, <2>2 DEF EndReply, IInv, Decision
    <3> QED  BY <1>8, <2>2, <3>1, Moves DEF EndReply
  <2> QED  BY <2>1, <2>2
<1>9. CASE SubmitCandidate
  <2>1. /\ phase = "agent" /\ phase' = "validating" /\ turn' < MaxTurns
        /\ Len(candidates) < MaxCandidates
    BY <1>9, MayEvaluate DEF SubmitCandidate, AgentTurn, IInv, searchVars
  <2>2. TurnStep
    BY <1>1, <1>9, <2>1
    DEF TurnStep, TurnUnchanged, SubmitCandidate, searchVars, IInv, TypeOK, Selection
  <2>3. Decision'
    BY <1>1, <1>9, <2>1 DEF Decision, SubmitCandidate, searchVars
  <2> QED  BY <2>2, <2>3, TurnKeeps DEF IInv
<1> QED  BY <1>2, <1>3, <1>4, <1>5, <1>6, <1>7, <1>8, <1>9

-----------------------------------------------------------------------------
(* The steps: errors, and the executions of the default plan.              *)

\* What is kept is read off the candidates and the pairs alone.
LEMMA SameEvidence ==
    ASSUME UNCHANGED <<candidates, chosen, paired>>
    PROVE  ProbesKept' = ProbesKept /\ PairsKept' = PairsKept
BY DEF ProbesKept, PairsKept, Observations, Cutoffs, PairObservations

\* A cancellation is noticed later, by another step.
LEMMA CancelInv ==
    ASSUME IInv, UNCHANGED <<phase, running, baseline, candidates, searchVars, finalVars, counts,
                             failure>>,
           cancelled' \in BOOLEAN
    PROVE  IInv'
<1> USE DEF searchVars, finalVars
<1>1. TypeOK' /\ Control'
  BY DEF IInv, TypeOK, Control, WantsStatement, Probed, Last, PairOpen, Pair
<1>2. Attempts'
  BY DEF IInv, Attempts, AttemptStands, Last, Probed
<1>3. Decision'
  BY DEF IInv, Decision, EligibleIds, Eligible
<1>4. Pairs'
  BY DEF IInv, Pairs, Limit
<1>5. Scored'
  BY DEF IInv, Scored, RecordValid, OutcomeFollowsDecision, OutcomeValid, Selected, EligibleIds,
         Eligible
<1>6. Reuse'
  BY DEF IInv, Reuse, NamesFirst, Refers, Earlier
<1>7. Counted'
  BY SameEvidence DEF IInv, Counted, StatementsKept, Running
<1> QED  BY <1>1, <1>2, <1>3, <1>4, <1>5, <1>6, <1>7 DEF IInv

\* An error ends the rollout with the evidence that it has (RolloutEvaluator.record).
LEMMA ErrorInv ==
    ASSUME IInv, RaiseCancelled \/ RaiseError
    PROVE  IInv'
<1>1. /\ phase # "ended" /\ phase' = "ended" /\ running' = FALSE
      /\ failure' \in {"cancelled", "error"} /\ (failure' = "error" \/ ~running)
      /\ UNCHANGED <<cancelled, baseline, candidates, searchVars, finalVars, counts>>
  <2>1. CASE RaiseCancelled
    BY <2>1 DEF RaiseCancelled, Raise
  <2>2. CASE RaiseError
    BY <2>2 DEF RaiseError, Raise, MedianDue, IInv, Control
  <2> QED  BY <2>1, <2>2
<1> USE DEF searchVars, finalVars
<1>2. TypeOK'
  BY <1>1 DEF IInv, TypeOK, Phases
<1>3. Control'
  BY <1>1 DEF IInv, Control
<1>4. Attempts'
  BY <1>1 DEF IInv, Attempts, AttemptStands, Last
<1>5. Decision'
  BY <1>1 DEF IInv, Decision
<1>6. Pairs'
  BY <1>1 DEF IInv, Pairs
<1>7. Scored'
  <2>1. final = NoOutcome
    BY <1>1 DEF IInv, Scored
  <2>2. \A i \in DOMAIN candidates : FeedbackCoherent(candidates[i].feedback)
    BY DEF IInv, Attempts, AttemptStands
  <2>3. \A i \in DOMAIN paired : paired[i].done # {} => paired[i].order[1] \in paired[i].done
    BY DEF IInv, Pairs
  <2> QED  BY <1>1, <2>1, <2>2, <2>3 DEF Scored, RecordValid, OutcomeFollowsDecision
<1>8. Reuse'
  BY <1>1 DEF IInv, Reuse, NamesFirst, Refers, Earlier, Searching
<1>9. Counted'
  <2>1. ProbesKept' = ProbesKept /\ PairsKept' = PairsKept
    BY <1>1, SameEvidence
  <2> QED
    BY SMTT(30), <1>1, <2>1, Counts DEF IInv, TypeOK, Counted, StatementsKept, Running
<1> QED  BY <1>2, <1>3, <1>4, <1>5, <1>6, <1>7, <1>8, <1>9 DEF IInv

\* A statement that begins is counted (execute_pair, and before each timed execution).
LEMMA BeginInv == ASSUME IInv, BeginStatement PROVE IInv'
<1>1. /\ ~running /\ running' = TRUE /\ WantsStatement /\ phase # "ended"
      /\ UNCHANGED <<phase, cancelled, baseline, candidates, searchVars, finalVars, failure>>
      /\ counts' = [counts EXCEPT
                       !.initial = IF phase = "baseline" THEN @ + 1 ELSE @,
                       !.feedback = IF phase = "probing" THEN @ + 1 ELSE @,
                       !.final = IF phase = "pairing" THEN @ + 1 ELSE @]
  BY DEF BeginStatement, WantsStatement
<1> USE DEF searchVars, finalVars
<1>2. TypeOK'
  <2>1. counts \in [initial : Nat, feedback : Nat, final : Nat]
    BY DEF IInv, TypeOK
  <2>2. counts' \in [initial : Nat, feedback : Nat, final : Nat]
    <3> DEFINE a == IF phase = "baseline" THEN counts.initial + 1 ELSE counts.initial
               b == IF phase = "probing" THEN counts.feedback + 1 ELSE counts.feedback
               c == IF phase = "pairing" THEN counts.final + 1 ELSE counts.final
    <3>1. a \in Nat /\ b \in Nat /\ c \in Nat
      BY <2>1
    <3>2. counts' = [counts EXCEPT !.initial = a, !.feedback = b, !.final = c]
      BY <1>1
    <3> HIDE DEF a, b, c
    <3> QED  BY <2>1, <3>1, <3>2
  <2> QED  BY <1>1, <2>2 DEF IInv, TypeOK
<1>3. Control'
  BY <1>1 DEF IInv, Control, WantsStatement, Probed, Last, PairOpen, Pair
<1>4. Attempts'
  BY <1>1 DEF IInv, Attempts, AttemptStands, Last, Probed
<1>5. Decision'
  BY <1>1 DEF IInv, Decision, EligibleIds, Eligible
<1>6. Pairs'
  BY <1>1 DEF IInv, Pairs, Limit
<1>7. Scored'
  BY <1>1 DEF IInv, Scored, RecordValid, OutcomeFollowsDecision
<1>8. Reuse'
  BY <1>1 DEF IInv, Reuse, NamesFirst, Refers, Earlier
<1>9. Counted'
  <2>1. ProbesKept' = ProbesKept /\ PairsKept' = PairsKept
    BY <1>1, SameEvidence
  <2>2. /\ counts.initial \in Nat /\ counts.feedback \in Nat /\ counts.final \in Nat
        /\ baseline.samples \in Nat /\ ProbesKept \in Nat /\ PairsKept \in Nat
    BY Counts, Budgets DEF IInv, TypeOK
  <2>3. /\ counts.initial = baseline.samples /\ counts.feedback = ProbesKept
        /\ counts.final = PairsKept
    BY <1>1, <2>2 DEF IInv, Counted, Running
  <2>4. /\ counts'.initial = IF phase = "baseline" THEN counts.initial + 1 ELSE counts.initial
        /\ counts'.feedback = IF phase = "probing" THEN counts.feedback + 1 ELSE counts.feedback
        /\ counts'.final = IF phase = "pairing" THEN counts.final + 1 ELSE counts.final
    BY <1>1 DEF IInv, TypeOK
  <2> QED  BY <1>1, <2>1, <2>2, <2>3, <2>4 DEF Counted, StatementsKept, Running
<1> QED  BY <1>2, <1>3, <1>4, <1>5, <1>6, <1>7, <1>8, <1>9 DEF IInv

\* The default plan is explained, executed and timed before the search; what it has been
\* observed to take is kept when the plan drifts (RolloutEvaluator.start).
LEMMA DefaultInv ==
    ASSUME IInv, EndDefaultExplain \/ EndDefaultRun \/ FinishBaseline
    PROVE  IInv'
<1>1. /\ phase \in {"new", "baseline"} /\ phase' \in {"baseline", "agent", "ended"}
      /\ running' = FALSE
      /\ UNCHANGED <<cancelled, candidates, searchVars, finalVars, counts>>
      /\ failure' = IF phase' = "ended" THEN "drift" ELSE failure
      /\ phase' = "ended" => failure' = "drift"
  BY DEF EndDefaultExplain, EndDefaultRun, FinishBaseline, Raise, MedianDue
<1>2. /\ baseline' \in [explained : BOOLEAN, samples : 0 .. DefaultRuns, timed : BOOLEAN]
      /\ phase' = "agent" <=> baseline'.timed
      /\ baseline'.timed => baseline'.samples = DefaultRuns
      /\ baseline'.samples = counts.initial
  <2>0. /\ baseline \in [explained : BOOLEAN, samples : 0 .. DefaultRuns, timed : BOOLEAN]
        /\ ~baseline.timed /\ counts.initial = baseline.samples + Running("baseline")
        /\ DefaultRuns \in Nat
    BY <1>1, Budgets DEF IInv, TypeOK, Control, Counted
  <2>1. CASE EndDefaultExplain
    <3>1. phase = "new" /\ phase' = "baseline" /\ baseline' = [baseline EXCEPT !.explained = TRUE]
      BY <2>1 DEF EndDefaultExplain
    <3>2. counts.initial = baseline.samples
      BY <2>0, <3>1 DEF Running
    <3> QED  BY <2>0, <3>1, <3>2
  <2>2. CASE EndDefaultRun
    <3>1. baseline.samples < DefaultRuns
      BY <2>2 DEF EndDefaultRun, IInv, Control, WantsStatement
    <3>2. /\ phase' # "agent" /\ baseline.samples \in Nat
          /\ baseline' = [baseline EXCEPT !.samples = baseline.samples + 1]
          /\ counts.initial = baseline.samples + 1
      BY <2>0, <2>2 DEF EndDefaultRun, Running, Raise
    <3>3. baseline.samples + 1 \in 0 .. DefaultRuns
      BY <2>0, <3>1, <3>2
    <3> QED  BY <2>0, <3>2, <3>3
  <2>3. CASE FinishBaseline
    <3>1. /\ phase = "baseline" /\ ~running /\ phase' = "agent"
          /\ baseline.samples = DefaultRuns /\ baseline' = [baseline EXCEPT !.timed = TRUE]
      BY <2>3 DEF FinishBaseline, MedianDue
    <3>2. counts.initial = baseline.samples
      BY <2>0, <3>1 DEF Running
    <3> QED  BY <2>0, <3>1, <3>2
  <2> QED  BY <2>1, <2>2, <2>3
<1>3. /\ candidates = <<>> /\ DOMAIN candidates = {} /\ chosen = None /\ paired = <<>>
      /\ DOMAIN paired = {} /\ final = NoOutcome /\ failure = "none"
  BY <1>1 DEF IInv, Control, Pairs, Scored
<1>4. selection.status # "accepted" /\ ~keptDefault
  BY <1>1 DEF IInv, Decision
<1> USE DEF searchVars, finalVars
<1>5. TypeOK'
  BY <1>1, <1>2 DEF IInv, TypeOK, Phases
<1>6. Control'
  BY <1>1, <1>2, <1>3 DEF IInv, Control
<1>7. Attempts' /\ Reuse'
  BY <1>1, <1>3 DEF Attempts, Reuse
<1>8. Decision'
  BY <1>1, <1>4 DEF Decision
<1>9. Pairs'
  BY <1>1, <1>3 DEF Pairs
<1>10. Scored'
  BY <1>1, <1>3 DEF Scored, RecordValid, OutcomeFollowsDecision
<1>11. Counted'
  <2>1. ProbesKept' = ProbesKept /\ PairsKept' = PairsKept
    BY <1>1, SameEvidence
  <2>2. /\ counts.feedback \in Nat /\ counts.final \in Nat /\ counts.initial \in Nat
        /\ counts.feedback = ProbesKept /\ counts.final = PairsKept
    BY <1>1, Counts DEF IInv, TypeOK, Counted, Running
  <2> QED  BY <1>1, <1>2, <2>1, <2>2 DEF Counted, StatementsKept, Running
<1> QED  BY <1>5, <1>6, <1>7, <1>8, <1>9, <1>10, <1>11 DEF IInv

-----------------------------------------------------------------------------
(* The steps: attempts.                                                    *)

\* What PostgreSQL has said of an attempt is not said otherwise later.
LEMMA PlansStay ==
    ASSUME TypeOK,
           \A i \in DOMAIN candidates :
              /\ candidates'[i].satisfied = candidates[i].satisfied
              /\ candidates'[i].key = candidates[i].key
              /\ candidates'[i].duplicate = candidates[i].duplicate
    PROVE  \A i \in DOMAIN candidates :
              Earlier(i)' = Earlier(i) /\ (NamesFirst(i) => NamesFirst(i)')
<1> SUFFICES ASSUME NEW i \in DOMAIN candidates
             PROVE  Earlier(i)' = Earlier(i) /\ (NamesFirst(i) => NamesFirst(i)')
  OBVIOUS
<1>1. \A j \in 1 .. i - 1 : j \in DOMAIN candidates
  BY Listed
<1>2. Earlier(i)' = Earlier(i)
  BY <1>1 DEF Earlier
<1> QED  BY <1>2 DEF NamesFirst

\* A duplicate that is an attempt is an earlier one with the same plan.
LEMMA DuplicateIsEarlier ==
    ASSUME TypeOK, NEW i \in DOMAIN candidates, NamesFirst(i),
           candidates[i].satisfied, candidates[i].duplicate \in Ids
    PROVE  /\ candidates[i].duplicate \in DOMAIN candidates /\ candidates[i].duplicate < i
           /\ candidates[i].duplicate \in Nat
           /\ candidates[candidates[i].duplicate].satisfied
           /\ candidates[candidates[i].duplicate].key = candidates[i].key
           /\ candidates[i].key # DefaultKey
<1>1. candidates[i].duplicate \in Earlier(i) /\ candidates[i].key # DefaultKey
  BY Budgets DEF NamesFirst
<1> QED  BY <1>1, Listed DEF Earlier

\* Where no statement runs, all that were begun are kept.
LEMMA AllKept ==
    ASSUME TypeOK', running' = FALSE, counts'.initial = baseline'.samples,
           counts'.feedback = ProbesKept', counts'.final = PairsKept'
    PROVE  Counted'
<1>1. counts'.initial \in Nat /\ counts'.feedback \in Nat /\ counts'.final \in Nat
  BY DEF TypeOK
<1> QED  BY <1>1 DEF Counted, StatementsKept, Running

\* A new attempt, which has been planned or not.
LEMMA AppendInv ==
    ASSUME IInv, NEW c \in Candidate, candidates' = Append(candidates, c),
           Len(candidates) < MaxCandidates,
           phase \in {"agent", "validating"}, phase' \in {"called", "validated"},
           running' = FALSE, phase' = "validated" => turn < MaxTurns,
           UNCHANGED <<cancelled, baseline, searchVars, finalVars, counts, failure>>,
           c.feedback = NoFeedback,
           c.satisfied => c.valid /\ c.key \in Keys /\ phase' = "validated",
           c.timedOut => c.timeout # "absent",
           c.satisfied =>
              IF c.key = DefaultKey THEN c.duplicate = Default
              ELSE IF c.duplicate = None THEN Holders(c.key) = {}
              ELSE c.duplicate \in Holders(c.key)
                   /\ \A j \in Holders(c.key) : c.duplicate <= j
    PROVE  IInv'
<1> USE DEF searchVars, finalVars
<1>1. /\ candidates' \in Seq(Candidate) /\ Len(candidates') <= MaxCandidates
      /\ Last' = Last + 1 /\ candidates'[Last + 1] = c /\ Last \in Nat
      /\ DOMAIN candidates = 1 .. Last /\ DOMAIN candidates' = 1 .. Last + 1
      /\ \A i \in DOMAIN candidates : candidates'[i] = candidates[i]
  BY Appended DEF IInv
<1>0. PICK n \in Nat : n = Last + 1
  BY <1>1
<1>2. /\ NoFeedback.status = "absent" /\ NoFeedback.source = None /\ NoFeedback.samples = 0
      /\ NoFeedback.timeout = "absent"
  BY DEF NoFeedback
<1>3. /\ chosen = None /\ paired = <<>> /\ final = NoOutcome /\ failure = "none"
      /\ selection.status # "accepted" /\ ~keptDefault
  BY DEF IInv, Control, Pairs, Scored, Decision
<1>4. TypeOK'
  BY <1>1 DEF IInv, TypeOK, Phases
<1>5. Control'
  <2>1. candidates' # <<>>
    BY <1>1 DEF Last
  <2> QED  BY <1>3, <2>1 DEF IInv, Control
<1>6. Attempts'
  <2>1. ASSUME NEW i \in 1 .. Last PROVE AttemptStands(i)'
    BY <1>1 DEF IInv, Attempts, AttemptStands
  <2>2. AttemptStands(n)'
    BY <1>0, <1>1, <1>2 DEF AttemptStands, FeedbackCoherent
  <2>3. \A i \in 1 .. Last + 1 : i \in 1 .. Last \/ i = n
    BY <1>0, <1>1
  <2> QED  BY <1>1, <2>1, <2>2, <2>3 DEF Attempts, Probed
<1>7. Decision'
  BY <1>3 DEF Decision
<1>8. Pairs'
  BY <1>3 DEF Pairs
<1>9. Scored'
  BY <1>3 DEF Scored, RecordValid, OutcomeFollowsDecision
<1>10. Reuse'
  <2>1. ASSUME NEW i \in 1 .. Last PROVE NamesFirst(i)' /\ Refers(i)'
    <3>1. NamesFirst(i)'
      BY <1>1, PlansStay DEF IInv, Reuse
    <3>2. Refers(i)'
      <4> SUFFICES ASSUME candidates[i].feedback.status # "absent"
                   PROVE  Refers(i)'
        BY <1>1 DEF Refers
      <4>1. candidates[i].satisfied
        BY <1>1 DEF IInv, Attempts, AttemptStands
      <4>2. candidates[i].duplicate \in Ids => candidates[i].duplicate \in DOMAIN candidates
        BY <1>1, <4>1, DuplicateIsEarlier DEF IInv, Reuse
      <4>3. Refers(i)
        BY <1>1 DEF IInv, Reuse
      <4> QED  BY <1>1, <4>2, <4>3 DEF Refers, Searching
    <3> QED  BY <3>1, <3>2
  <2>2. NamesFirst(n)' /\ Refers(n)'
    <3>1. Earlier(n)' = Holders(c.key)
      BY <1>0, <1>1 DEF Earlier, Holders
    <3> QED  BY <1>0, <1>1, <1>2, <3>1 DEF NamesFirst, Refers
  <2>3. \A i \in 1 .. Last + 1 : i \in 1 .. Last \/ i = n
    BY <1>0, <1>1
  <2> QED  BY <1>1, <2>1, <2>2, <2>3 DEF Reuse
<1>11. Counted'
  <2>1. Observations' = Observations
    BY <1>1, <1>2, Budgets DEF Observations
  <2>2. Cutoffs' = Cutoffs
    BY <1>1, <1>2 DEF Cutoffs
  <2>3. PairsKept' = PairsKept
    BY <1>3 DEF PairsKept, PairObservations
  <2>4. ProbesKept' = ProbesKept
    BY <2>1, <2>2 DEF ProbesKept
  <2>5. /\ counts.initial = baseline.samples /\ counts.feedback = ProbesKept
        /\ counts.final = PairsKept
    BY Counts DEF IInv, TypeOK, Counted, Running
  <2> QED  BY <1>4, <2>3, <2>4, <2>5, AllKept
<1> QED  BY <1>4, <1>5, <1>6, <1>7, <1>8, <1>9, <1>10, <1>11 DEF IInv

\* An attempt names the first one with its plan (by_reuse_key).
LEMMA Duplicates ==
    ASSUME TypeOK, NEW k \in Keys
    PROVE  /\ DuplicateOf(k) \in Ids \cup {Default, None}
           /\ IF k = DefaultKey THEN DuplicateOf(k) = Default
              ELSE IF DuplicateOf(k) = None THEN Holders(k) = {}
              ELSE DuplicateOf(k) \in Holders(k)
                   /\ \A j \in Holders(k) : DuplicateOf(k) <= j
<1>1. Holders(k) \subseteq 1 .. Last /\ Last \in Nat /\ Last <= MaxCandidates
  BY Listed DEF Holders, TypeOK, Last
<1>2. Holders(k) \subseteq Ids /\ Holders(k) \in SUBSET Nat
  BY <1>1, Budgets DEF Ids
<1>3. Holders(k) # {} =>
         Min(Holders(k)) \in Holders(k) /\ \A j \in Holders(k) : Min(Holders(k)) <= j
  BY <1>2, First
<1> QED  BY <1>2, <1>3, Budgets DEF DuplicateOf

\* An attempt that is rejected, or whose plan has been made, joins the others
\* (RolloutEvaluator.evaluate).
LEMMA AttemptInv ==
    ASSUME IInv, RejectAttempt \/ EndValidation
    PROVE  IInv'
<1>1. /\ NoFeedback.status = "absent" /\ Limit # "absent"
      /\ Unvalidated \in Candidate /\ TimedOutPlanning \in Candidate
  BY Made DEF NoFeedback, Limit
<1>2. CASE RejectAttempt
  <2>1. /\ phase = "agent" /\ phase' = "called" /\ Len(candidates) < MaxCandidates
        /\ candidates' = Append(candidates, Unvalidated)
        /\ UNCHANGED <<running, cancelled, baseline, searchVars, finalVars, counts, failure>>
    BY <1>2, MayEvaluate
    DEF RejectAttempt, AgentTurn, Called, TurnUnchanged, searchVars, IInv
  <2>2. running' = FALSE
    BY <2>1 DEF IInv, TypeOK, Control, WantsStatement
  <2>3. /\ Unvalidated.feedback = NoFeedback /\ ~Unvalidated.satisfied
        /\ ~Unvalidated.timedOut
    BY DEF Unvalidated
  <2> QED  BY <1>1, <2>1, <2>2, <2>3, AppendInv
<1>3. CASE EndValidation
  <2>1. /\ phase = "validating" /\ phase' = "validated" /\ running' = FALSE
        /\ Len(candidates) < MaxCandidates /\ turn < MaxTurns
        /\ UNCHANGED <<cancelled, baseline, searchVars, finalVars, counts, failure>>
    BY <1>3 DEF EndValidation, IInv, Control
  <2>2. CASE candidates' = Append(candidates, TimedOutPlanning)
    <3>1. /\ TimedOutPlanning.feedback = NoFeedback /\ ~TimedOutPlanning.satisfied
          /\ TimedOutPlanning.timeout # "absent"
      BY <1>1 DEF TimedOutPlanning, Unvalidated
    <3> QED  BY <1>1, <2>1, <2>2, <3>1, AppendInv
  <2>3. ASSUME NEW k \in Keys, NEW satisfied \in BOOLEAN,
               candidates' = Append(candidates, Planned(k, satisfied))
        PROVE  IInv'
    <3>1. Planned(k, satisfied) \in Candidate
      BY Made, Duplicates DEF IInv
    <3>2. /\ Planned(k, satisfied).feedback = NoFeedback
          /\ Planned(k, satisfied).valid /\ Planned(k, satisfied).key = k
          /\ Planned(k, satisfied).satisfied = satisfied
          /\ ~Planned(k, satisfied).timedOut
          /\ satisfied => Planned(k, satisfied).duplicate = DuplicateOf(k)
      BY DEF Planned, Unvalidated
    <3>3. IF k = DefaultKey THEN DuplicateOf(k) = Default
          ELSE IF DuplicateOf(k) = None THEN Holders(k) = {}
          ELSE DuplicateOf(k) \in Holders(k)
               /\ \A j \in Holders(k) : DuplicateOf(k) <= j
      BY Duplicates DEF IInv
    <3> HIDE DEF Planned
    <3> QED  BY <2>1, <2>3, <3>1, <3>2, <3>3, AppendInv
  <2> QED  BY <1>3, <2>2, <2>3 DEF EndValidation
<1> QED  BY <1>2, <1>3

Current == candidates[Last]

\* The same attempt, with a plan that PostgreSQL has said the same of.
SamePlan(c) ==
    /\ c \in Candidate
    /\ c.valid = Current.valid /\ c.satisfied = Current.satisfied
    /\ c.key = Current.key /\ c.duplicate = Current.duplicate

\* Evidence for it that is coherent and where the duplicate says it is.
RightEvidence(c) ==
    /\ c.timedOut => c.timeout # "absent"
    /\ FeedbackCoherent(c.feedback)
    /\ c.feedback.status # "absent" =>
          /\ c.satisfied /\ FeedbackRuns > 0 /\ c.feedback.source = c.duplicate
          /\ c.duplicate \in Ids =>
                LET origin == candidates[c.duplicate]
                IN  /\ origin.feedback.status = c.feedback.status
                    /\ origin.timedOut = c.timedOut /\ origin.timeout = c.timeout
    /\ phase' = "called" /\ c.satisfied /\ FeedbackRuns > 0 =>
          c.feedback.status \in {"completed", "timed_out"}
    /\ phase' = "probing" => c.feedback.status = "collecting" /\ c.feedback.source = None

\* Feedback on the last attempt changes what is known of its times.
LEMMA FeedbackStepInv ==
    ASSUME IInv, phase \in {"validated", "probing"}, phase' \in {"called", "probing", "ended"},
           NEW c, SamePlan(c), RightEvidence(c), candidates' = [candidates EXCEPT ![Last] = c],
           running' = FALSE,
           UNCHANGED <<cancelled, baseline, searchVars, finalVars, counts>>,
           failure' = IF phase' = "ended" THEN "drift" ELSE failure,
           ProbesKept' = ProbesKept + Running("probing")
    PROVE  IInv'
<1> USE DEF searchVars, finalVars, Current, SamePlan, RightEvidence
<1>1. /\ Last \in DOMAIN candidates /\ DOMAIN candidates = 1 .. Last /\ Last \in Nat
      /\ candidates # <<>>
  BY Listed DEF IInv, Control, TypeOK, Last
<1>0. PICK n : n = Last
  OBVIOUS
<1>2. /\ candidates' \in Seq(Candidate) /\ Len(candidates') <= MaxCandidates
      /\ Last' = n /\ DOMAIN candidates' = DOMAIN candidates /\ candidates'[n] = c
      /\ \A i \in DOMAIN candidates : i # n => candidates'[i] = candidates[i]
  BY <1>0, <1>1, Replaced DEF IInv
<1>3. /\ chosen = None /\ paired = <<>> /\ final = NoOutcome /\ failure = "none"
      /\ selection.status # "accepted" /\ ~keptDefault
  BY DEF IInv, Control, Pairs, Scored, Decision
<1>4. TypeOK'
  BY <1>2, <1>3 DEF IInv, TypeOK, Phases
<1>5. Control'
  <2>1. candidates' # <<>>
    BY <1>1, <1>2
  <2> QED  BY <1>3, <2>1 DEF IInv, Control
<1>6. \A i \in DOMAIN candidates : AttemptStands(i)'
  BY <1>0, <1>2 DEF IInv, Attempts, AttemptStands
<1>7. Attempts'
  BY <1>2, <1>6 DEF Attempts, Probed
<1>8. Decision'
  BY <1>3 DEF Decision
<1>9. Pairs'
  BY <1>3 DEF Pairs
<1>10. Scored'
  BY <1>2, <1>3, <1>6 DEF Scored, RecordValid, OutcomeFollowsDecision, AttemptStands
<1>11. Reuse'
  <2>1. \A i \in DOMAIN candidates : NamesFirst(i)'
    BY <1>0, <1>2, PlansStay DEF IInv, Reuse
  <2>2. ASSUME NEW i \in DOMAIN candidates, candidates'[i].feedback.status # "absent"
        PROVE  Refers(i)'
    <3>1. /\ candidates'[i].satisfied = candidates[i].satisfied
          /\ candidates'[i].duplicate = candidates[i].duplicate
      BY <1>0, <1>2
    <3>2. candidates[i].satisfied
      BY <1>0, <1>2, <2>2, <3>1 DEF IInv, Attempts, AttemptStands
    <3>3. candidates[i].duplicate \in Ids =>
             /\ candidates[i].duplicate \in DOMAIN candidates /\ candidates[i].duplicate # n
      BY <1>0, <1>1, <3>2, DuplicateIsEarlier DEF IInv, Reuse
    <3>4. CASE i = n
      BY <1>0, <1>2, <2>2, <3>1, <3>3, <3>4 DEF Refers, Searching
    <3>5. CASE i # n
      <4>1. Refers(i) /\ candidates'[i] = candidates[i]
        BY <1>2, <3>5 DEF IInv, Reuse
      <4> QED  BY <1>2, <2>2, <3>3, <4>1 DEF Refers, Searching
    <3> QED  BY <3>4, <3>5
  <2>3. \A i \in DOMAIN candidates : Refers(i)'
    BY <2>2 DEF Refers
  <2> QED  BY <1>2, <2>1, <2>3 DEF Reuse
<1>12. Counted'
  <2>1. PairsKept' = PairsKept
    BY <1>3 DEF PairsKept, PairObservations
  <2>2. /\ counts.initial = baseline.samples
        /\ counts.feedback = ProbesKept + Running("probing") /\ counts.final = PairsKept
    BY Counts DEF IInv, TypeOK, Counted, Running
  <2> QED  BY <1>4, <2>1, <2>2, AllKept
<1> QED  BY <1>4, <1>5, <1>7, <1>8, <1>9, <1>10, <1>11, <1>12 DEF IInv

\* Replacing an attempt leaves the observations when it keeps their number.
LEMMA SameObservations ==
    ASSUME TypeOK, NEW i \in DOMAIN candidates, NEW c \in Candidate,
           candidates' = [candidates EXCEPT ![i] = c],
           c.feedback.samples = candidates[i].feedback.samples
    PROVE  Observations' = Observations
<1>1. /\ DOMAIN candidates' = DOMAIN candidates /\ candidates'[i] = c
      /\ \A j \in DOMAIN candidates : j # i => candidates'[j] = candidates[j]
  BY Replaced
<1>2. \A j \in DOMAIN candidates :
         candidates'[j].feedback.samples = candidates[j].feedback.samples
  BY <1>1
<1> QED  BY <1>1, <1>2 DEF Observations

\* It leaves the cutoffs when it is not one before or after.
LEMMA SameCutoffs ==
    ASSUME TypeOK, NEW i \in DOMAIN candidates, NEW c \in Candidate,
           candidates' = [candidates EXCEPT ![i] = c],
           candidates[i].feedback.status = "timed_out" => candidates[i].feedback.source # None,
           c.feedback.status = "timed_out" => c.feedback.source # None
    PROVE  Cutoffs' = Cutoffs
<1>1. /\ DOMAIN candidates' = DOMAIN candidates /\ candidates'[i] = c
      /\ \A j \in DOMAIN candidates : j # i => candidates'[j] = candidates[j]
  BY Replaced
<1> QED  BY <1>1 DEF Cutoffs

\* The evidence that a new attempt refers to is that of the first with its plan, which
\* has its own (RolloutEvaluator.evaluate).
LEMMA Referred ==
    ASSUME IInv, phase = "validated", FeedbackRuns > 0, Current.satisfied,
           Current.key # DefaultKey, Sources(Current.key) # {}
    PROVE  LET i == Min(Sources(Current.key))
           IN  /\ i \in 1 .. Last - 1 /\ i \in Ids /\ Current.duplicate = i
               /\ candidates[i].feedback.source = None
               /\ candidates[i].feedback.status \in {"completed", "timed_out"}
<1>1. /\ Last \in DOMAIN candidates /\ DOMAIN candidates = 1 .. Last /\ Last \in Nat
      /\ Last <= MaxCandidates /\ TypeOK
  BY Listed DEF IInv, Control, TypeOK, Last
<1>2. Sources(Current.key) = Earlier(Last)
  <2>1. ASSUME NEW i \in 1 .. Last - 1
        PROVE  candidates[i].satisfied <=> candidates[i].feedback.status # "absent"
    BY <1>1 DEF IInv, Attempts, AttemptStands
  <2>2. ASSUME NEW i \in 1 .. Last - 1, candidates[i].satisfied
        PROVE  candidates[i].feedback.status \in {"completed", "timed_out"}
    BY <1>1, <2>2 DEF IInv, Attempts, AttemptStands
  <2> QED  BY <2>1, <2>2 DEF Sources, Earlier, Current
<1> DEFINE i == Min(Sources(Current.key))
<1>3. Sources(Current.key) \in SUBSET Nat
  BY <1>1 DEF Sources
<1>4. i \in Sources(Current.key) /\ \A j \in Sources(Current.key) : i <= j
  BY <1>3, First
<1>5. Current.duplicate \in Sources(Current.key)
      /\ \A j \in Sources(Current.key) : Current.duplicate <= j
  BY <1>1, <1>2 DEF IInv, Reuse, NamesFirst, Current
<1> HIDE DEF i
<1>6. Current.duplicate = i /\ i \in 1 .. Last - 1 /\ candidates[i].key = Current.key
      /\ candidates[i].feedback.status \in {"completed", "timed_out"}
  BY <1>1, <1>4, <1>5 DEF Sources
<1>7. candidates[i].feedback.source = None
  <2>1. i \in DOMAIN candidates /\ i \in Ids
    BY <1>1, <1>6, Budgets DEF Ids
  <2>2. /\ candidates[i].satisfied /\ candidates[i].key # DefaultKey
        /\ candidates[i].feedback.source = candidates[i].duplicate
    BY <1>6, <2>1 DEF IInv, Attempts, AttemptStands, Reuse, Refers
  <2>3. candidates[i].duplicate # None => candidates[i].duplicate \in Earlier(i)
    BY <2>1, <2>2 DEF IInv, Reuse, NamesFirst
  <2>4. ASSUME NEW j \in Earlier(i) PROVE FALSE
    <3>1. j \in 1 .. i - 1 /\ candidates[j].satisfied /\ candidates[j].key = Current.key
      BY <1>6 DEF Earlier
    <3>2. j \in Sources(Current.key)
      BY <1>1, <1>2, <1>6, <3>1 DEF Earlier, Current
    <3> QED  BY <1>1, <1>4, <1>6, <3>1, <3>2
  <2> QED  BY <2>2, <2>3, <2>4
<1>8. i \in Ids
  BY <1>1, <1>6, Budgets DEF Ids
<1> QED  BY <1>6, <1>7, <1>8 DEF i

\* A duplicate takes the evidence of the attempt it names; a new plan is executed
\* (RolloutEvaluator.feedback).
LEMMA StartFeedbackInv == ASSUME IInv, StartFeedback PROVE IInv'
<1>1. /\ phase = "validated" /\ running' = FALSE /\ running = FALSE
      /\ UNCHANGED <<cancelled, baseline, searchVars, finalVars, counts, failure>>
      /\ Current = candidates[Last]
  BY DEF StartFeedback, IInv, TypeOK, Control, WantsStatement, Current
<1>2. /\ Last \in DOMAIN candidates /\ Current \in Candidate /\ TypeOK
      /\ AttemptStands(Last) /\ NamesFirst(Last)
  BY <1>1, Listed DEF IInv, Control, TypeOK, Last, Attempts, Reuse, Current
<1>3. /\ Current.feedback.status = "absent" /\ Current.feedback.source = None
      /\ Current.feedback.samples = 0 /\ Current.feedback = NoFeedback
      /\ Current.timedOut => Current.timeout # "absent"
  BY <1>1, <1>2 DEF IInv, Attempts, Probed, NoFeedback, AttemptStands
<1>4. /\ ProbesKept \in Nat /\ Running("probing") = 0
      /\ ProbesKept = ProbesKept + Running("probing")
  BY <1>1, <1>2, Counts DEF Running
<1>5. CASE /\ ~Current.satisfied \/ FeedbackRuns = 0
           /\ phase' = "called" /\ UNCHANGED candidates
  <2>1. candidates' = [candidates EXCEPT ![Last] = Current]
    BY <1>1, <1>2, <1>5, ExceptSeq, SeqEqual DEF TypeOK
  <2>2. ProbesKept' = ProbesKept
    BY <1>5 DEF ProbesKept, Observations, Cutoffs
  <2>3. SamePlan(Current) /\ RightEvidence(Current)
    BY <1>2, <1>3, <1>5 DEF SamePlan, RightEvidence, FeedbackCoherent
  <2> QED  BY <1>1, <1>4, <1>5, <2>1, <2>2, <2>3, FeedbackStepInv
<1>6. CASE /\ Current.satisfied /\ FeedbackRuns > 0 /\ Current.key = DefaultKey
           /\ phase' = "called"
           /\ candidates' = [candidates EXCEPT ![Last].feedback =
                               [NoFeedback EXCEPT !.status = "completed", !.source = Default]]
  <2> DEFINE f == [NoFeedback EXCEPT !.status = "completed", !.source = Default]
             c == [Current EXCEPT !.feedback = f]
  <2>1. candidates' = [candidates EXCEPT ![Last] = c]
    BY <1>1, <1>6
  <2>2. /\ f \in ExecutionFeedback
        /\ f.status = "completed" /\ f.source = Default /\ f.samples = 0
    <3>1. NoFeedback \in ExecutionFeedback /\ NoFeedback.samples = 0
      BY Made, Fields DEF Unvalidated, NoFeedback
    <3> QED  BY <3>1 DEF ExecutionFeedback, Statuses
  <2> HIDE DEF f
  <2>3. /\ c \in Candidate /\ c.valid = Current.valid /\ c.satisfied = Current.satisfied
        /\ c.key = Current.key /\ c.duplicate = Current.duplicate /\ c.feedback = f
        /\ c.timedOut = Current.timedOut /\ c.timeout = Current.timeout
    BY <1>2, <2>2 DEF Candidate
  <2> HIDE DEF c
  <2>4. c.duplicate = Default
    BY <1>1, <1>2, <1>6, <2>3 DEF NamesFirst
  <2>5. FeedbackCoherent(c.feedback)
    BY <2>2, <2>3, Budgets DEF FeedbackCoherent
  <2>6. ProbesKept' = ProbesKept
    <3>1. Observations' = Observations
      BY <1>1, <1>2, <1>3, <2>1, <2>2, <2>3, SameObservations
    <3>2. Cutoffs' = Cutoffs
      BY <1>1, <1>2, <1>3, <2>1, <2>2, <2>3, SameCutoffs
    <3> QED  BY <3>1, <3>2 DEF ProbesKept
  <2>7. SamePlan(c) /\ RightEvidence(c)
    BY <1>3, <1>6, <2>2, <2>3, <2>4, <2>5, Budgets DEF SamePlan, RightEvidence
  <2> QED  BY <1>1, <1>4, <1>6, <2>1, <2>6, <2>7, FeedbackStepInv
<1>7. CASE /\ Current.satisfied /\ FeedbackRuns > 0 /\ Current.key # DefaultKey
           /\ Sources(Current.key) # {} /\ phase' = "called"
           /\ candidates' = [candidates EXCEPT ![Last] =
                               Reused(Current, Min(Sources(Current.key)))]
  <2>1. PICK i \in Ids :
           /\ i = Min(Sources(Current.key))
           /\ i \in 1 .. Last - 1 /\ Current.duplicate = i
           /\ candidates[i].feedback.source = None
           /\ candidates[i].feedback.status \in {"completed", "timed_out"}
    BY <1>1, <1>7, Referred
  <2>2. /\ i \in DOMAIN candidates /\ candidates[i] \in Candidate /\ AttemptStands(i)
    BY <1>2, <2>1, Listed DEF IInv, Attempts
  <2> DEFINE f == [candidates[i].feedback EXCEPT !.samples = 0, !.source = i]
             c == Reused(Current, i)
  <2>3. /\ c = [Current EXCEPT !.timedOut = candidates[i].timedOut,
                               !.timeout = candidates[i].timeout, !.feedback = f]
        /\ candidates' = [candidates EXCEPT ![Last] = c]
    BY <1>7, <2>1 DEF Reused
  <2>4. /\ f \in ExecutionFeedback
        /\ f.status = candidates[i].feedback.status /\ f.source = i /\ f.samples = 0
        /\ f.timeout = candidates[i].feedback.timeout
    <3>1. candidates[i].feedback \in ExecutionFeedback
      BY <2>2, Fields
    <3>2. 0 \in 0 .. ProbeRuns
      BY Budgets
    <3> QED  BY <3>1, <3>2 DEF ExecutionFeedback
  <2> HIDE DEF f
  <2>5. /\ c \in Candidate /\ c.valid = Current.valid /\ c.satisfied = Current.satisfied
        /\ c.key = Current.key /\ c.duplicate = Current.duplicate /\ c.feedback = f
        /\ c.timedOut = candidates[i].timedOut /\ c.timeout = candidates[i].timeout
    BY <1>2, <2>2, <2>3, <2>4 DEF Candidate
  <2> HIDE DEF c
  <2>6. i # None
    BY Budgets
  <2>7. FeedbackCoherent(c.feedback) /\ (c.timedOut => c.timeout # "absent")
    BY <2>2, <2>4, <2>5, <2>6 DEF AttemptStands, FeedbackCoherent
  <2>8. ProbesKept' = ProbesKept
    <3>1. Observations' = Observations
      BY <1>1, <1>2, <1>3, <2>3, <2>4, <2>5, SameObservations
    <3>2. Cutoffs' = Cutoffs
      BY <1>1, <1>2, <1>3, <2>3, <2>4, <2>5, <2>6, SameCutoffs
    <3> QED  BY <3>1, <3>2 DEF ProbesKept
  <2>9. SamePlan(c) /\ RightEvidence(c)
    BY <1>7, <2>1, <2>4, <2>5, <2>7 DEF SamePlan, RightEvidence
  <2> QED  BY <1>1, <1>4, <1>7, <2>3, <2>8, <2>9, FeedbackStepInv
<1>8. CASE /\ Current.satisfied /\ FeedbackRuns > 0 /\ Current.key # DefaultKey
           /\ Sources(Current.key) = {} /\ phase' = "probing"
           /\ candidates' = [candidates EXCEPT ![Last].feedback.status = "collecting"]
  <2> DEFINE f == [NoFeedback EXCEPT !.status = "collecting"]
             c == [Current EXCEPT !.feedback = f]
  <2>1. candidates' = [candidates EXCEPT ![Last] = c]
    BY <1>1, <1>2, <1>3, <1>8
  <2>2. /\ f \in ExecutionFeedback
        /\ f.status = "collecting" /\ f.source = None /\ f.samples = 0
    BY Budgets DEF NoFeedback, ExecutionFeedback, Statuses, Limits
  <2> HIDE DEF f
  <2>3. /\ c \in Candidate /\ c.valid = Current.valid /\ c.satisfied = Current.satisfied
        /\ c.key = Current.key /\ c.duplicate = Current.duplicate /\ c.feedback = f
        /\ c.timedOut = Current.timedOut /\ c.timeout = Current.timeout
    BY <1>2, <2>2 DEF Candidate
  <2> HIDE DEF c
  <2>4. c.duplicate = None
    <3>1. Earlier(Last) = {}
      <4>1. ASSUME NEW j \in Earlier(Last) PROVE j \in Sources(Current.key)
        <5>1. /\ j \in 1 .. Last - 1 /\ candidates[j].satisfied
              /\ candidates[j].key = Current.key
          BY <1>1 DEF Earlier
        <5>2. j \in DOMAIN candidates /\ j # Last
          BY <1>2, <5>1, Listed
        <5>3. candidates[j].feedback.status \in {"completed", "timed_out"}
          BY <1>8, <5>1, <5>2 DEF IInv, Attempts, AttemptStands
        <5> QED  BY <5>1, <5>3 DEF Sources
      <4> QED  BY <1>8, <4>1
    <3> QED  BY <1>1, <1>2, <1>8, <2>3, <3>1 DEF NamesFirst
  <2>5. FeedbackCoherent(c.feedback)
    BY <2>2, <2>3 DEF FeedbackCoherent
  <2>6. ProbesKept' = ProbesKept
    <3>1. Observations' = Observations
      BY <1>1, <1>2, <1>3, <2>1, <2>2, <2>3, SameObservations
    <3>2. Cutoffs' = Cutoffs
      BY <1>1, <1>2, <1>3, <2>1, <2>2, <2>3, SameCutoffs
    <3> QED  BY <3>1, <3>2 DEF ProbesKept
  <2>7. SamePlan(c) /\ RightEvidence(c)
    BY <1>3, <1>8, <2>2, <2>3, <2>4, <2>5, Budgets DEF SamePlan, RightEvidence
  <2> QED  BY <1>1, <1>4, <1>8, <2>1, <2>6, <2>7, FeedbackStepInv
<1> QED  BY <1>1, <1>5, <1>6, <1>7, <1>8 DEF StartFeedback

\* A feedback execution is observed, times out, or is the last (RolloutEvaluator.evaluate).
LEMMA ProbeInv ==
    ASSUME IInv, EndProbe \/ ProbeTimesOut \/ CompleteProbe
    PROVE  IInv'
<1>1. /\ phase = "probing" /\ running' = FALSE /\ failure = "none"
      /\ UNCHANGED <<cancelled, baseline, searchVars, finalVars, counts>>
      /\ Current = candidates[Last]
  BY DEF EndProbe, ProbeTimesOut, CompleteProbe, MedianDue, Raise, IInv, Control, TypeOK, Current
<1>2. /\ Last \in DOMAIN candidates /\ Current \in Candidate /\ TypeOK
      /\ AttemptStands(Last) /\ Refers(Last)
  BY <1>1, Listed DEF IInv, Control, TypeOK, Last, Attempts, Reuse, Current
<1>3. /\ Current.feedback \in ExecutionFeedback /\ Current.feedback.status = "collecting"
      /\ Current.feedback.source = None /\ Current.duplicate = None
      /\ Current.satisfied /\ FeedbackRuns > 0
      /\ Current.timedOut => Current.timeout # "absent"
  BY <1>1, <1>2, Fields DEF IInv, Attempts, Probed, AttemptStands, Refers, Current
<1>4. /\ ProbesKept \in Nat /\ ProbeRuns \in Nat /\ Current.feedback.samples \in Nat
      /\ Current.feedback.samples <= ProbeRuns /\ None \notin Ids
  BY <1>2, Counts, Budgets, Fields
<1>5. CASE EndProbe
  <2> DEFINE f == [Current.feedback EXCEPT !.samples = Current.feedback.samples + 1]
             c == [Current EXCEPT !.feedback = f]
  <2>1. /\ candidates' = [candidates EXCEPT ![Last] = c] /\ running
        /\ phase' \in {"probing", "ended"}
        /\ failure' = IF phase' = "ended" THEN "drift" ELSE failure
    BY <1>1, <1>2, <1>5 DEF EndProbe, Raise
  <2>2. Current.feedback.samples < ProbeRuns
    BY <1>1, <2>1 DEF IInv, Control, WantsStatement, Probed, Current
  <2>3. /\ f \in ExecutionFeedback /\ f.status = "collecting" /\ f.source = None
        /\ f.samples = Current.feedback.samples + 1
    <3>1. Current.feedback.samples + 1 \in 0 .. ProbeRuns
      BY <1>4, <2>2
    <3> QED  BY <1>3, <3>1 DEF ExecutionFeedback
  <2> HIDE DEF f
  <2>4. /\ SamePlan(c) /\ c.feedback = f /\ c.timedOut = Current.timedOut
        /\ c.timeout = Current.timeout
    BY <1>2, <2>3 DEF Candidate, SamePlan
  <2> HIDE DEF c
  <2>5. RightEvidence(c)
    BY <1>3, <1>4, <2>1, <2>3, <2>4 DEF RightEvidence, SamePlan, FeedbackCoherent
  <2>6. ProbesKept' = ProbesKept + Running("probing")
    <3>0. PICK x : x = <<Last, Current.feedback.samples + 1>>
      OBVIOUS
    <3>1. /\ DOMAIN candidates' = DOMAIN candidates /\ candidates'[Last] = c
          /\ \A i \in DOMAIN candidates : i # Last => candidates'[i] = candidates[i]
      BY <1>2, <2>1, <2>4, Replaced DEF SamePlan
    <3>2. Observations' = Observations \cup {x} /\ x \notin Observations
      <4>1. \A n \in 1 .. ProbeRuns :
               n <= Current.feedback.samples + 1 <=>
                  n <= Current.feedback.samples \/ n = Current.feedback.samples + 1
        BY <1>4
      <4>2. Current.feedback.samples + 1 \in 1 .. ProbeRuns
        BY <1>4, <2>2
      <4>3. Observations' = {y \in (DOMAIN candidates) \X (1 .. ProbeRuns) :
                               y \in Observations \/ y = x}
        BY <1>1, <2>3, <2>4, <3>0, <3>1, <4>1 DEF Observations
      <4>4. x \in (DOMAIN candidates) \X (1 .. ProbeRuns)
        BY <1>2, <3>0, <4>2
      <4>5. x \notin Observations
        BY <1>1, <1>4, <3>0 DEF Observations
      <4>6. Observations \subseteq (DOMAIN candidates) \X (1 .. ProbeRuns)
        BY DEF Observations
      <4> QED  BY <4>3, <4>4, <4>5, <4>6
    <3>3. Cardinality(Observations') = Cardinality(Observations) + 1
      BY <1>2, <3>2, Counts, FS_AddElement
    <3>4. Cutoffs' = Cutoffs
      BY <1>1, <1>2, <1>3, <2>1, <2>3, <2>4, SameCutoffs DEF SamePlan
    <3>5. Running("probing") = 1
      BY <1>1, <2>1 DEF Running
    <3> QED  BY <1>2, <3>3, <3>4, <3>5, Counts DEF ProbesKept
  <2> QED  BY <1>1, <2>1, <2>4, <2>5, <2>6, FeedbackStepInv
<1>6. CASE ProbeTimesOut
  <2> DEFINE f == [Current.feedback EXCEPT !.status = "timed_out", !.timeout = Limit]
             c == [Current EXCEPT !.timedOut = TRUE, !.timeout = Limit, !.feedback = f]
  <2>1. /\ candidates' = [candidates EXCEPT ![Last] = c] /\ running
        /\ phase' = "called" /\ UNCHANGED failure
    BY <1>1, <1>2, <1>6 DEF ProbeTimesOut, MarkTimeout
  <2>2. Limit \in Limits /\ Limit # "absent"
    BY DEF Limit, Limits
  <2>3. /\ f \in ExecutionFeedback /\ f.status = "timed_out" /\ f.source = None
        /\ f.samples = Current.feedback.samples /\ f.timeout = Limit
    BY <1>3, <2>2 DEF ExecutionFeedback, Statuses
  <2> HIDE DEF f
  <2>4. /\ SamePlan(c) /\ c.feedback = f /\ c.timedOut /\ c.timeout = Limit
    BY <1>2, <2>2, <2>3 DEF Candidate, SamePlan
  <2> HIDE DEF c
  <2>5. RightEvidence(c)
    BY <1>3, <1>4, <2>1, <2>2, <2>3, <2>4 DEF RightEvidence, SamePlan, FeedbackCoherent
  <2>6. ProbesKept' = ProbesKept + Running("probing")
    <3>1. /\ DOMAIN candidates' = DOMAIN candidates /\ candidates'[Last] = c
          /\ \A i \in DOMAIN candidates : i # Last => candidates'[i] = candidates[i]
      BY <1>2, <2>1, <2>4, Replaced DEF SamePlan
    <3>2. Cutoffs' = Cutoffs \cup {Last} /\ Last \notin Cutoffs
      BY <1>1, <1>2, <1>3, <2>3, <2>4, <3>1 DEF Cutoffs
    <3>3. Cardinality(Cutoffs') = Cardinality(Cutoffs) + 1
      BY <1>2, <3>2, Counts, FS_AddElement
    <3>4. Observations' = Observations
      BY <1>1, <1>2, <2>1, <2>3, <2>4, SameObservations DEF SamePlan
    <3>5. Running("probing") = 1
      BY <1>1, <2>1 DEF Running
    <3> QED  BY <1>2, <3>3, <3>4, <3>5, Counts DEF ProbesKept
  <2> QED  BY <1>1, <2>1, <2>4, <2>5, <2>6, FeedbackStepInv
<1>7. CASE CompleteProbe
  <2> DEFINE f == [Current.feedback EXCEPT !.status = "completed"]
             c == [Current EXCEPT !.feedback = f]
  <2>1. /\ candidates' = [candidates EXCEPT ![Last] = c] /\ ~running
        /\ phase' = "called" /\ UNCHANGED failure
        /\ Current.feedback.samples = ProbeRuns
    BY <1>1, <1>2, <1>7 DEF CompleteProbe, MedianDue, Probed
  <2>2. /\ f \in ExecutionFeedback /\ f.status = "completed" /\ f.source = None
        /\ f.samples = ProbeRuns
    BY <1>3, <2>1 DEF ExecutionFeedback, Statuses
  <2> HIDE DEF f
  <2>3. /\ SamePlan(c) /\ c.feedback = f /\ c.timedOut = Current.timedOut
        /\ c.timeout = Current.timeout
    BY <1>2, <2>2 DEF Candidate, SamePlan
  <2> HIDE DEF c
  <2>4. RightEvidence(c)
    BY <1>3, <1>4, <2>1, <2>2, <2>3, Budgets DEF RightEvidence, SamePlan, FeedbackCoherent
  <2>5. ProbesKept' = ProbesKept + Running("probing")
    <3>1. Observations' = Observations
      BY <1>1, <1>2, <2>1, <2>2, <2>3, SameObservations DEF SamePlan
    <3>2. Cutoffs' = Cutoffs
      BY <1>1, <1>2, <1>3, <2>1, <2>2, <2>3, SameCutoffs DEF SamePlan
    <3>3. Running("probing") = 0
      BY <2>1 DEF Running
    <3> QED  BY <1>4, <3>1, <3>2, <3>3 DEF ProbesKept
  <2> QED  BY <1>1, <2>1, <2>3, <2>4, <2>5, FeedbackStepInv
<1> QED  BY <1>5, <1>6, <1>7

-----------------------------------------------------------------------------
(* The steps: finish.                                                      *)

\* Once the search has ended, an attempt is at most marked: as measured, or timed out.
Marked ==
    /\ candidates' \in Seq(Candidate) /\ Last' = Last
    /\ \A i \in DOMAIN candidates :
          /\ candidates'[i].valid = candidates[i].valid
          /\ candidates'[i].satisfied = candidates[i].satisfied
          /\ candidates'[i].key = candidates[i].key
          /\ candidates'[i].duplicate = candidates[i].duplicate
          /\ candidates'[i].feedback = candidates[i].feedback
          /\ candidates'[i].timedOut => candidates'[i].timeout # "absent"

\* A candidate that is marked as measured, or cut off, keeps what is known of its plan.
LEMMA MarkedKeeps ==
    ASSUME IInv, Marked, phase \in {"decided", "pairing", "timedout"},
           phase' \in {"pairing", "timedout", "ended"}
    PROVE  /\ Attempts' /\ Reuse' /\ ProbesKept' = ProbesKept
           /\ DOMAIN candidates' = DOMAIN candidates /\ Len(candidates') <= MaxCandidates
<1>1. /\ TypeOK /\ DOMAIN candidates = 1 .. Last /\ DOMAIN candidates' = 1 .. Last
      /\ Len(candidates') <= MaxCandidates
  BY Listed DEF IInv, Marked, Last, TypeOK
<1>2. Attempts'
  BY <1>1 DEF IInv, Marked, Attempts, AttemptStands
<1>3. Reuse'
  <2>1. \A i \in DOMAIN candidates : NamesFirst(i)'
    BY <1>1, PlansStay DEF IInv, Marked, Reuse
  <2>2. ASSUME NEW i \in DOMAIN candidates PROVE Refers(i)'
    <3> SUFFICES ASSUME candidates[i].feedback.status # "absent"
                 PROVE  Refers(i)'
      BY DEF Refers, Marked
    <3>1. candidates[i].satisfied
      BY DEF IInv, Attempts, AttemptStands
    <3>2. candidates[i].duplicate \in Ids => candidates[i].duplicate \in DOMAIN candidates
      BY <1>1, <3>1, DuplicateIsEarlier DEF IInv, Reuse
    <3>3. Refers(i)
      BY DEF IInv, Reuse
    <3> QED  BY <3>2, <3>3 DEF Refers, Marked, Searching
  <2> QED  BY <1>1, <2>1, <2>2 DEF Reuse
<1>4. Observations' = Observations /\ Cutoffs' = Cutoffs
  BY <1>1 DEF Marked, Observations, Cutoffs
<1> QED  BY <1>1, <1>2, <1>3, <1>4 DEF ProbesKept

\* Leaving the candidates alone marks none of them.
LEMMA Unmarked ==
    ASSUME IInv, UNCHANGED candidates
    PROVE  Marked
BY Listed DEF IInv, TypeOK, Marked, Last, Attempts, AttemptStands

\* What is scored is valid, and what was decided (RolloutEvaluator.record).
LEMMA ScoreInv ==
    ASSUME IInv, phase \in {"decided", "pairing", "timedout"}, ~running, Marked,
           phase' = "ended",
           UNCHANGED <<running, cancelled, baseline, keptDefault, turn, terminal, counts, failure,
                       chosen, paired>>,
           selection' \in Selection, keptDefault => selection' = selection,
           final' # NoOutcome, OutcomeValid', OutcomeFollowsDecision',
           PairsKept' = PairsKept
    PROVE  IInv'
<1>1. /\ Attempts' /\ Reuse' /\ ProbesKept' = ProbesKept
      /\ DOMAIN candidates' = DOMAIN candidates /\ Len(candidates') <= MaxCandidates
  BY MarkedKeeps
<1>2. TypeOK'
  BY <1>1 DEF IInv, TypeOK, Phases, Selection, Marked
<1>3. Control'
  BY DEF IInv, Control, TypeOK
<1>4. Decision'
  BY DEF IInv, Decision
<1>5. Pairs'
  BY <1>1 DEF IInv, Pairs
<1>6. Scored'
  <2>1. failure = "none"
    BY DEF IInv, Control
  <2>2. \A i \in DOMAIN candidates : FeedbackCoherent(candidates[i].feedback)'
    BY <1>1 DEF Attempts, AttemptStands
  <2>3. \A i \in DOMAIN paired : paired[i].done # {} => paired[i].order[1] \in paired[i].done
    BY DEF IInv, Pairs
  <2> QED  BY <1>1, <2>1, <2>2, <2>3 DEF Scored, RecordValid
<1>7. Counted'
  <2>1. /\ counts.initial = baseline.samples
        /\ counts.feedback = ProbesKept /\ counts.final = PairsKept
    BY Counts DEF IInv, TypeOK, Counted, Running
  <2>2. running' = FALSE
    BY DEF IInv, TypeOK
  <2> QED  BY <1>1, <1>2, <2>1, <2>2, AllKept
<1> QED  BY <1>1, <1>2, <1>3, <1>4, <1>5, <1>6, <1>7 DEF IInv

\* finish without a candidate: the selection failed, the default was kept, or nothing is
\* eligible.
LEMMA FinishWithoutInv == ASSUME IInv, FinishWithoutCandidate PROVE IInv'
<1>1. /\ phase = "decided" /\ ~running /\ phase' = "ended"
      /\ UNCHANGED <<running, cancelled, baseline, keptDefault, turn, terminal, counts, failure,
                     chosen, paired, candidates>>
      /\ chosen = None /\ paired = <<>>
  BY DEF FinishWithoutCandidate, Decided, Score, FinalUnchanged, IInv, Control, WantsStatement,
         Pairs
<1>2. /\ selection \in Selection /\ baseline.timed /\ baseline.samples = DefaultRuns
      /\ keptDefault => selection = [status |-> "accepted", id |-> None]
      /\ selection.status \in {"accepted", "failed"}
  BY <1>1 DEF IInv, TypeOK, Control, Decision, Selection
<1>3. PairsKept' = PairsKept /\ EligibleIds' = EligibleIds
  BY <1>1, SameEvidence DEF EligibleIds, Eligible
<1>4. CASE /\ SelectionFailed
           /\ selection' = [selection EXCEPT !.status = "failed"]
           /\ final' = Outcome("selection_failed", None, "absent")
  <2>1. /\ selection' \in Selection /\ selection'.status = "failed" /\ ~keptDefault
    BY <1>2, <1>4 DEF SelectionFailed, Selection
  <2>2. /\ final'.kind = "selection_failed" /\ final'.id = None
    BY <1>4 DEF Outcome
  <2>3. final' # NoOutcome /\ OutcomeValid' /\ OutcomeFollowsDecision'
    BY <1>1, <1>2, <2>1, <2>2 DEF OutcomeValid, OutcomeFollowsDecision, NoOutcome
  <2> QED  BY <1>1, <1>3, <2>1, <2>3, Unmarked, ScoreInv
<1>5. CASE /\ ~SelectionFailed /\ keptDefault /\ UNCHANGED selection
           /\ final' = [Outcome("kept_default", None, "absent") EXCEPT !.key = DefaultKey]
  <2>1. /\ final'.kind = "kept_default" /\ final'.id = None /\ final'.key = DefaultKey
    BY <1>5 DEF Outcome
  <2>2. final' # NoOutcome /\ OutcomeValid' /\ OutcomeFollowsDecision'
    BY <1>1, <1>2, <1>5, <2>1 DEF OutcomeValid, OutcomeFollowsDecision, NoOutcome
  <2> QED  BY <1>1, <1>2, <1>3, <1>5, <2>2, Unmarked, ScoreInv
<1>6. CASE /\ ~SelectionFailed /\ ~keptDefault /\ Selects(selection.id, None)
           /\ UNCHANGED selection
           /\ final' = Outcome("no_valid_candidate", None, "absent")
  <2>1. /\ final'.kind = "no_valid_candidate" /\ final'.id = None
    BY <1>6 DEF Outcome
  <2>2. None \notin EligibleIds
    BY Listed DEF EligibleIds, None, IInv
  <2>3. selection.id = None /\ EligibleIds = {} /\ selection.status = "accepted"
    BY <1>2, <1>6, <2>2 DEF Selects, SelectionFailed
  <2>4. final' # NoOutcome /\ OutcomeValid' /\ OutcomeFollowsDecision'
    BY <1>1, <1>2, <1>3, <1>6, <2>1, <2>3 DEF OutcomeValid, OutcomeFollowsDecision, NoOutcome
  <2> QED  BY <1>1, <1>2, <1>3, <1>6, <2>4, Unmarked, ScoreInv
<1> QED  BY <1>4, <1>5, <1>6 DEF FinishWithoutCandidate, Score

\* finish with a candidate: it timed out, it has the default's plan, or it is measured.
LEMMA FinishWithInv == ASSUME IInv, NEW i \in Ids, FinishWithCandidate(i) PROVE IInv'
<1>1. /\ phase = "decided" /\ ~running /\ ~SelectionFailed /\ ~keptDefault
      /\ UNCHANGED <<running, cancelled, baseline, keptDefault, turn, terminal, counts, failure,
                     paired, candidates, selection>>
      /\ chosen = None /\ paired = <<>> /\ final = NoOutcome /\ Selects(selection.id, i)
  BY DEF FinishWithCandidate, Decided, Score, FinalUnchanged, IInv, Control, WantsStatement,
         Pairs, Scored
<1>2. /\ selection \in Selection /\ baseline.timed /\ baseline.samples = DefaultRuns
      /\ selection.status = "accepted" /\ selection.id = i /\ i \in EligibleIds
      /\ i # None
  BY <1>1, Budgets DEF IInv, TypeOK, Control, Decision, Selection, SelectionFailed, Selects
<1>3. /\ i \in DOMAIN candidates /\ candidates[i] \in Candidate /\ candidates[i].valid
      /\ candidates[i].satisfied \/ candidates[i].timedOut
      /\ candidates[i].timedOut => candidates[i].timeout # "absent"
  BY <1>2, Listed DEF EligibleIds, Eligible, IInv, Attempts, AttemptStands
<1>4. CASE /\ candidates[i].timedOut /\ phase' = "ended" /\ UNCHANGED chosen
           /\ final' = Outcome("timed_out", i, TimeoutOf(candidates[i]))
  <2>1. /\ final'.kind = "timed_out" /\ final'.id = i /\ final'.key = candidates[i].key
        /\ final'.timeout = candidates[i].timeout
    BY <1>2, <1>3, <1>4 DEF Outcome, TimeoutOf
  <2>2. final' # NoOutcome /\ OutcomeValid' /\ OutcomeFollowsDecision'
    BY <1>1, <1>2, <1>3, <1>4, <2>1
    DEF OutcomeValid, OutcomeFollowsDecision, NoOutcome, Selected
  <2>3. PairsKept' = PairsKept
    BY <1>1, <1>4, SameEvidence
  <2> QED  BY <1>1, <1>2, <1>4, <2>2, <2>3, Unmarked, ScoreInv
<1>5. CASE /\ ~candidates[i].timedOut /\ candidates[i].key = DefaultKey /\ phase' = "ended"
           /\ UNCHANGED chosen /\ final' = Outcome("default_duplicate", i, "absent")
  <2>1. /\ final'.kind = "default_duplicate" /\ final'.id = i /\ final'.key = DefaultKey
    BY <1>2, <1>5 DEF Outcome
  <2>2. final' # NoOutcome /\ OutcomeValid' /\ OutcomeFollowsDecision'
    BY <1>1, <1>2, <1>3, <1>5, <2>1
    DEF OutcomeValid, OutcomeFollowsDecision, NoOutcome, Selected
  <2>3. PairsKept' = PairsKept
    BY <1>1, <1>5, SameEvidence
  <2> QED  BY <1>1, <1>2, <1>5, <2>2, <2>3, Unmarked, ScoreInv
<1>6. CASE /\ ~candidates[i].timedOut /\ candidates[i].key # DefaultKey
           /\ phase' = "pairing" /\ chosen' = i /\ UNCHANGED final
  <2>1. /\ Attempts' /\ Reuse' /\ ProbesKept' = ProbesKept
    BY <1>1, <1>6, Unmarked, MarkedKeeps
  <2>2. TypeOK'
    BY <1>1, <1>6 DEF IInv, TypeOK, Phases
  <2>3. Control'
    BY <1>1, <1>6 DEF IInv, Control
  <2>4. Decision'
    BY <1>1, <1>6 DEF IInv, Decision
  <2>5. Pairs'
    <3>1. selection = [status |-> "accepted", id |-> i]
      BY <1>2 DEF Selection
    <3>2. DOMAIN paired = {}
      BY <1>1
    <3> QED  BY <1>1, <1>2, <1>3, <1>6, <3>1, <3>2 DEF Pairs
  <2>6. Scored'
    BY <1>1, <1>6 DEF Scored, RecordValid, OutcomeFollowsDecision
  <2>7. Counted'
    <3>1. PairsKept' = PairsKept
      BY <1>1, <1>6 DEF PairsKept, PairObservations
    <3>2. /\ counts.initial = baseline.samples
          /\ counts.feedback = ProbesKept /\ counts.final = PairsKept
      BY <1>1, Counts DEF IInv, TypeOK, Counted, Running
    <3>3. running' = FALSE
      BY <1>1 DEF IInv, TypeOK
    <3> QED  BY <1>1, <2>1, <2>2, <3>1, <3>2, <3>3, AllKept
  <2> QED  BY <2>1, <2>2, <2>3, <2>4, <2>5, <2>6, <2>7 DEF IInv
<1> QED  BY <1>1, <1>4, <1>5, <1>6 DEF FinishWithCandidate, Score

\* A pair begins once the one before is complete (measure_selected).
LEMMA BeginPairInv == ASSUME IInv, BeginPair PROVE IInv'
<1>1. /\ phase = "pairing" /\ ~running /\ ~PairOpen /\ Len(paired) < PairedRuns
      /\ UNCHANGED <<phase, running, cancelled, baseline, keptDefault, turn, terminal, counts,
                     failure, candidates, selection, chosen, final>>
      /\ paired \in Seq(MeasurementPair) /\ Len(paired) \in Nat /\ PairedRuns \in Nat
      /\ chosen # None
  BY Listed, Budgets DEF BeginPair, FinalUnchanged, IInv, TypeOK, Pairs
<1>2. PICK pair \in MeasurementPair : pair.done = {} /\ paired' = Append(paired, pair)
  BY DEF BeginPair, MeasurementPair
<1>3. /\ paired' \in Seq(MeasurementPair) /\ Len(paired') = Len(paired) + 1
      /\ Len(paired') <= PairedRuns
      /\ DOMAIN paired = 1 .. Len(paired) /\ DOMAIN paired' = 1 .. Len(paired) + 1
      /\ \A i \in DOMAIN paired : paired'[i] = paired[i]
      /\ paired'[Len(paired) + 1] = pair
  BY <1>1, <1>2
<1>4. Attempts' /\ Reuse' /\ ProbesKept' = ProbesKept
  BY <1>1, Unmarked, MarkedKeeps
<1>5. TypeOK'
  BY <1>1, <1>3 DEF IInv, TypeOK
<1>6. Control'
  BY <1>1 DEF IInv, Control
<1>7. Decision'
  BY <1>1 DEF IInv, Decision
<1>8. Pairs'
  <2>1. \A i \in DOMAIN paired : paired[i].done = Roles
    <3>1. \A i \in 1 .. Len(paired) : i < Len(paired) \/ i = Len(paired)
      BY <1>1
    <3>2. paired # <<>> => paired[Len(paired)].done = Roles
      BY <1>1 DEF PairOpen, Pair
    <3>3. \A i \in DOMAIN paired : i < Len(paired) => paired[i].done = Roles
      BY DEF IInv, Pairs
    <3>4. paired # <<>>  \/ DOMAIN paired = {}
      BY <1>1, EmptySeq
    <3> QED  BY <1>3, <3>1, <3>2, <3>3, <3>4
  <2>2. \A i \in DOMAIN paired' :
           /\ i < Len(paired') => paired'[i].done = Roles
           /\ paired'[i].done # {} => paired'[i].order[1] \in paired'[i].done
    <3>1. \A i \in 1 .. Len(paired) + 1 : i \in 1 .. Len(paired) \/ i = Len(paired) + 1
      BY <1>1
    <3> QED  BY <1>1, <1>2, <1>3, <2>1, <3>1 DEF IInv, Pairs
  <2> QED  BY <1>1, <2>2 DEF IInv, Pairs, Limit
<1>9. Scored'
  BY <1>1 DEF IInv, Scored, RecordValid, OutcomeFollowsDecision
<1>10. Counted'
  <2>1. PairObservations' = PairObservations
    BY <1>1, <1>2, <1>3 DEF PairObservations
  <2>2. PairsKept' = PairsKept
    BY <1>1, <2>1 DEF PairsKept
  <2>3. /\ counts.initial = baseline.samples
        /\ counts.feedback = ProbesKept /\ counts.final = PairsKept
    BY <1>1, Counts DEF IInv, TypeOK, Counted, Running
  <2>4. running' = FALSE
    BY <1>1 DEF IInv, TypeOK
  <2> QED  BY <1>1, <1>4, <1>5, <2>2, <2>3, <2>4, AllKept
<1> QED  BY <1>4, <1>5, <1>6, <1>7, <1>8, <1>9, <1>10 DEF IInv

\* A half of a pair is observed, also when the plan has drifted (execute_pair).
LEMMA PairHalfInv == ASSUME IInv, EndPairHalf PROVE IInv'
<1>1. /\ phase = "pairing" /\ running /\ running' = FALSE /\ phase' \in {"pairing", "ended"}
      /\ UNCHANGED <<cancelled, baseline, candidates, searchVars, chosen, final, counts>>
      /\ failure' = IF phase' = "ended" THEN "drift" ELSE failure
      /\ failure = "none" /\ chosen # None /\ final = NoOutcome
  BY DEF EndPairHalf, Raise, IInv, Control, Pairs, Scored
<1>2. PICK n : n = Len(paired)
  OBVIOUS
<1>3. /\ paired \in Seq(MeasurementPair) /\ n \in Nat /\ DOMAIN paired = 1 .. n
      /\ PairOpen /\ n \in DOMAIN paired /\ Pair = paired[n] /\ Pair \in MeasurementPair
  <2>1. PairOpen
    BY <1>1 DEF IInv, Control, WantsStatement
  <2> QED  BY <1>2, <2>1, Listed, EmptySeq DEF PairOpen, Pair, IInv, TypeOK
<1>4. /\ Role \in Roles /\ Role \notin Pair.done
      /\ Pair.order[1] \in Pair.done \cup {Role}
      /\ Pair.done \in SUBSET Roles
  <2>1. /\ Pair.done \in SUBSET Roles /\ Pair.done # Roles
        /\ Pair.order \in {<<"candidate", "default">>, <<"default", "candidate">>}
        /\ Pair.done # {} => Pair.order[1] \in Pair.done
    BY <1>3 DEF PairOpen, MeasurementPair, IInv, Pairs
  <2> QED  BY <2>1 DEF Role, Roles
<1>5. PICK pair : pair = [Pair EXCEPT !.done = Pair.done \cup {Role}]
  OBVIOUS
<1>6. /\ pair \in MeasurementPair /\ pair.done = Pair.done \cup {Role}
      /\ pair.order = Pair.order /\ paired' = [paired EXCEPT ![n] = pair]
  BY <1>2, <1>3, <1>4, <1>5 DEF MeasurementPair, EndPairHalf
<1>7. /\ paired' \in Seq(MeasurementPair) /\ Len(paired') = n /\ DOMAIN paired' = 1 .. n
      /\ paired'[n] = pair /\ \A i \in DOMAIN paired : i # n => paired'[i] = paired[i]
      /\ paired # <<>>
  BY <1>2, <1>3, <1>6, ExceptSeq DEF PairOpen
<1> USE DEF searchVars
<1>8. Attempts' /\ Reuse' /\ ProbesKept' = ProbesKept
  BY <1>1, Unmarked, MarkedKeeps
<1>9. TypeOK'
  BY <1>1, <1>2, <1>7 DEF IInv, TypeOK, Phases
<1>10. Control'
  BY <1>1 DEF IInv, Control
<1>11. Decision'
  BY <1>1 DEF IInv, Decision
<1>12. \A i \in DOMAIN paired :
         /\ i < Len(paired') => paired'[i].done = Roles
         /\ paired'[i].done # {} => paired'[i].order[1] \in paired'[i].done
  <2>1. \A i \in DOMAIN paired :
           /\ i < Len(paired) => paired[i].done = Roles
           /\ paired[i].done # {} => paired[i].order[1] \in paired[i].done
    BY DEF IInv, Pairs
  <2> QED  BY <1>2, <1>3, <1>4, <1>6, <1>7, <2>1
<1>13. Pairs'
  BY <1>1, <1>3, <1>7, <1>12 DEF IInv, Pairs, Limit
<1>14. Scored'
  <2>1. \A i \in DOMAIN candidates : FeedbackCoherent(candidates[i].feedback)
    BY DEF IInv, Attempts, AttemptStands
  <2> QED  BY <1>1, <1>3, <1>7, <1>12, <2>1 DEF Scored, RecordValid, OutcomeFollowsDecision
<1>15. Counted'
  <2>1. PICK x : x = <<n, Role>>
    OBVIOUS
  <2>2. PairObservations' = PairObservations \cup {x} /\ x \notin PairObservations
    <3>1. PairObservations' = {y \in (DOMAIN paired) \X Roles : y \in PairObservations \/ y = x}
      BY <1>3, <1>6, <1>7, <2>1 DEF PairObservations
    <3>2. x \in (DOMAIN paired) \X Roles /\ x \notin PairObservations
      BY <1>3, <1>4, <2>1 DEF PairObservations
    <3>3. PairObservations \subseteq (DOMAIN paired) \X Roles
      BY DEF PairObservations
    <3> QED  BY <3>1, <3>2, <3>3
  <2>3. Cardinality(PairObservations') = Cardinality(PairObservations) + 1
    BY <2>2, Counts, FS_AddElement DEF IInv
  <2>4. PairsKept' = PairsKept + 1
    BY <1>1, <2>3, Counts DEF PairsKept, IInv
  <2>5. /\ counts.initial = baseline.samples
        /\ counts.feedback = ProbesKept /\ counts.final = PairsKept + 1
    BY <1>1, Counts DEF IInv, TypeOK, Counted, Running
  <2> QED  BY <1>1, <1>8, <1>9, <2>4, <2>5, AllKept
<1> QED  BY <1>8, <1>9, <1>10, <1>11, <1>13, <1>14, <1>15 DEF IInv

\* A timeout of the candidate marks it, and is its score (execute_pair, timed_out).
LEMMA PairTimesOutInv == ASSUME IInv, PairTimesOut PROVE IInv'
<1>1. /\ phase = "pairing" /\ running /\ running' = FALSE /\ phase' = "timedout"
      /\ UNCHANGED <<cancelled, baseline, searchVars, finalVars, counts, failure>>
      /\ candidates' = MarkTimeout(chosen)
      /\ chosen \in DOMAIN candidates /\ chosen # None /\ ~candidates[chosen].timedOut
      /\ final = NoOutcome /\ Limit \in Limits /\ Limit # "absent"
      /\ baseline.timed
  BY DEF PairTimesOut, IInv, Pairs, Scored, Limit, Limits, Control
<1>2. PICK i : i = chosen
  OBVIOUS
<1>3. PICK c : c = [candidates[i] EXCEPT !.timedOut = TRUE, !.timeout = Limit]
  OBVIOUS
<1>4. candidates[i] \in Candidate /\ i \in DOMAIN candidates
  BY <1>1, <1>2, Listed DEF IInv
<1>5. /\ c \in Candidate /\ c.timedOut /\ c.timeout = Limit
      /\ c.valid = candidates[i].valid /\ c.satisfied = candidates[i].satisfied
      /\ c.key = candidates[i].key /\ c.duplicate = candidates[i].duplicate
      /\ c.feedback = candidates[i].feedback
  BY <1>1, <1>3, <1>4 DEF Candidate
<1>6. candidates' = [candidates EXCEPT ![i] = c]
  BY <1>1, <1>2, <1>3, <1>4 DEF MarkTimeout
<1>7. /\ candidates' \in Seq(Candidate) /\ Len(candidates') <= MaxCandidates
      /\ Last' = Last /\ DOMAIN candidates' = DOMAIN candidates
      /\ candidates'[i] = c
      /\ \A j \in DOMAIN candidates : j # i => candidates'[j] = candidates[j]
  BY <1>4, <1>5, <1>6, Replaced DEF IInv
<1>8. Marked
  BY <1>1, <1>5, <1>7 DEF Marked, IInv, Attempts, AttemptStands
<1>9. Attempts' /\ Reuse' /\ ProbesKept' = ProbesKept
  BY <1>1, <1>8, MarkedKeeps
<1> USE DEF searchVars, finalVars
<1>10. TypeOK'
  BY <1>1, <1>7 DEF IInv, TypeOK, Phases
<1>11. Control'
  BY <1>1 DEF IInv, Control
<1>12. Decision'
  BY <1>1 DEF IInv, Decision
<1>13. Pairs'
  BY <1>1, <1>2, <1>5, <1>7 DEF IInv, Pairs, Limit
<1>14. Scored'
  BY <1>1 DEF Scored, RecordValid, OutcomeFollowsDecision
<1>15. Counted'
  <2>1. PairsKept' = PairsKept + 1
    BY <1>1, <1>2, <1>5, <1>7, Counts DEF PairsKept, PairObservations, IInv
  <2>2. /\ counts.initial = baseline.samples
        /\ counts.feedback = ProbesKept /\ counts.final = PairsKept + 1
    BY <1>1, Counts DEF IInv, TypeOK, Counted, Running
  <2> QED  BY <1>1, <1>9, <1>10, <2>1, <2>2, AllKept
<1> QED  BY <1>9, <1>10, <1>11, <1>12, <1>13, <1>14, <1>15 DEF IInv

\* A decision whose pair was cut off is scored as timed out.
LEMMA ScoreTimeoutInv == ASSUME IInv, ScoreTimeout PROVE IInv'
<1>1. /\ phase = "timedout" /\ ~running /\ phase' = "ended"
      /\ UNCHANGED <<running, cancelled, baseline, keptDefault, turn, terminal, counts, failure,
                     candidates, selection, chosen, paired>>
      /\ final' = Outcome("timed_out", chosen, Limit)
      /\ chosen # None /\ chosen \in DOMAIN candidates /\ ~keptDefault
      /\ candidates[chosen].timedOut /\ candidates[chosen].timeout = Limit
      /\ selection = [status |-> "accepted", id |-> chosen]
      /\ baseline.timed /\ baseline.samples = DefaultRuns /\ selection \in Selection
  BY DEF ScoreTimeout, Score, FinalUnchanged, IInv, Control, WantsStatement, Pairs, TypeOK,
         Selection
<1>2. /\ final'.kind = "timed_out" /\ final'.id = chosen
      /\ final'.key = candidates[chosen].key /\ final'.timeout = Limit /\ Limit # "absent"
  BY <1>1 DEF Outcome, Limit
<1>3. final' # NoOutcome /\ OutcomeValid' /\ OutcomeFollowsDecision'
  BY <1>1, <1>2 DEF OutcomeValid, OutcomeFollowsDecision, NoOutcome, Selected
<1>4. PairsKept' = PairsKept
  BY <1>1, SameEvidence
<1> QED  BY <1>1, <1>3, <1>4, Unmarked, ScoreInv

\* A decision whose pairs are complete is scored as measured.
LEMMA ScoreMeasuredInv == ASSUME IInv, ScoreMeasured PROVE IInv'
<1>1. /\ phase = "pairing" /\ ~running /\ ~PairOpen /\ Len(paired) = PairedRuns
      /\ phase' = "ended"
      /\ UNCHANGED <<running, cancelled, baseline, keptDefault, turn, terminal, counts, failure,
                     selection, chosen, paired>>
      /\ final' = Outcome("measured", chosen, "absent")
      /\ candidates' = [candidates EXCEPT ![chosen].measured = TRUE]
      /\ chosen # None /\ chosen \in DOMAIN candidates /\ ~keptDefault
      /\ candidates[chosen].valid /\ candidates[chosen].satisfied
      /\ ~candidates[chosen].timedOut /\ candidates[chosen].key # DefaultKey
      /\ selection = [status |-> "accepted", id |-> chosen]
      /\ baseline.timed /\ baseline.samples = DefaultRuns /\ selection \in Selection
  BY DEF ScoreMeasured, MedianDue, Score, FinalUnchanged, IInv, Control, Pairs, TypeOK, Selection
<1>2. PICK i : i = chosen
  OBVIOUS
<1>3. PICK c : c = [candidates[i] EXCEPT !.measured = TRUE]
  OBVIOUS
<1>4. candidates[i] \in Candidate /\ i \in DOMAIN candidates
  BY <1>1, <1>2, Listed DEF IInv
<1>5. /\ c \in Candidate /\ c.timedOut = candidates[i].timedOut
      /\ c.timeout = candidates[i].timeout
      /\ c.valid = candidates[i].valid /\ c.satisfied = candidates[i].satisfied
      /\ c.key = candidates[i].key /\ c.duplicate = candidates[i].duplicate
      /\ c.feedback = candidates[i].feedback
  BY <1>3, <1>4 DEF Candidate
<1>6. candidates' = [candidates EXCEPT ![i] = c]
  BY <1>1, <1>2, <1>3, <1>4
<1>7. /\ candidates' \in Seq(Candidate) /\ Last' = Last /\ DOMAIN candidates' = DOMAIN candidates
      /\ candidates'[i] = c
      /\ \A j \in DOMAIN candidates : j # i => candidates'[j] = candidates[j]
  BY <1>4, <1>5, <1>6, Replaced DEF IInv
<1>8. Marked
  BY <1>5, <1>7 DEF Marked, IInv, Attempts, AttemptStands
<1>9. \A j \in DOMAIN paired : paired[j].done = Roles
  <2>1. /\ \A j \in DOMAIN paired : j < Len(paired) => paired[j].done = Roles
        /\ DOMAIN paired = 1 .. Len(paired) /\ Len(paired) \in Nat
    BY Listed DEF IInv, Pairs
  <2>2. Len(paired) > 0 => paired # <<>>
    BY EmptySeq
  <2>3. Len(paired) > 0 => paired[Len(paired)].done = Roles
    BY <1>1, <2>2 DEF PairOpen, Pair
  <2> QED  BY <2>1, <2>3
<1>10. /\ final'.kind = "measured" /\ final'.id = i /\ final'.key = c.key
  BY <1>1, <1>2, <1>5 DEF Outcome
<1>11. final' # NoOutcome /\ OutcomeValid' /\ OutcomeFollowsDecision'
  BY <1>1, <1>2, <1>5, <1>7, <1>9, <1>10
  DEF OutcomeValid, OutcomeFollowsDecision, NoOutcome, Selected
<1>12. PairsKept' = PairsKept
  BY <1>1, <1>2, <1>5, <1>7 DEF PairsKept, PairObservations
<1> QED  BY <1>1, <1>8, <1>11, <1>12, ScoreInv

-----------------------------------------------------------------------------
(* The theorems.                                                           *)

\* Every step keeps the invariant.
LEMMA NextInv == ASSUME IInv, [Next]_vars PROVE IInv'
<1>1. CASE Cancel
  BY <1>1, CancelInv DEF Cancel
<1>2. CASE UNCHANGED vars
  BY <1>2, CancelInv DEF vars, IInv, TypeOK
<1>3. CASE Step
  BY <1>3, ErrorInv, BeginInv, DefaultInv, TurnInv, AttemptInv, StartFeedbackInv, ProbeInv,
     FinishWithoutInv, FinishWithInv, BeginPairInv, PairHalfInv, PairTimesOutInv,
     ScoreTimeoutInv, ScoreMeasuredInv
  DEF Step
<1> QED  BY <1>1, <1>2, <1>3 DEF Next

\* The invariant holds in every state.
LEMMA Invariant == Spec => []IInv
<1>1. Init => IInv
  BY InitInv
<1>2. IInv /\ [Next]_vars => IInv'
  BY NextInv
<1> QED  BY <1>1, <1>2, PTL DEF Spec

(* The record of a rollout satisfies the validators of its schema when it  *)
(* is built (RolloutRecord.evidence_matches_outcome), whatever the budget  *)
(* and however the rollout ends.                                           *)
THEOREM RolloutInvariant == Spec => []RolloutInv
<1>1. IInv => RolloutInv
  BY DEF IInv, Scored, RolloutInv
<1> QED  BY <1>1, Invariant, PTL

\* A turn for each attempt that is left, and one to decide (available_tool_names).
LEMMA TurnsLeft == IInv => TurnsLeftToDecide
<1> SUFFICES ASSUME IInv PROVE TurnsLeftToDecide
  OBVIOUS
<1>1. Available(turn) \cap {"finish", "keep_default"} # {}
  BY DEF Available
<1>2. ASSUME "inspect" \in Available(turn)
      PROVE  MaxTurns - turn >= MaxCandidates - Len(candidates) + 1
  <2>1. ~(turn > InspectionTurnLimit)
    BY <1>2 DEF Available
  <2>2. PICK spare \in Int : spare = MaxTurns - (MaxCandidates + 1)
    BY Budgets
  <2>3. Max({0, spare}) = IF spare >= 0 THEN spare ELSE 0
    BY <2>2, OfTwo
  <2>4. Max({0, spare}) \in Int
    BY <2>2, <2>3
  <2>5. InspectionTurnLimit = Min({InspectionTurns, Max({0, spare})})
    BY <2>2 DEF InspectionTurnLimit
  <2>6. InspectionTurnLimit <= Max({0, spare}) /\ InspectionTurnLimit \in Int
    BY <2>4, <2>5, OfTwo, Budgets
  <2>7. turn \in Nat /\ turn >= 1 /\ Len(candidates) \in Nat
    BY Listed DEF IInv, TypeOK, Last
  <2> QED  BY <2>1, <2>2, <2>3, <2>6, <2>7, Budgets
<1>3. phase \in {"validating", "validated", "probing"} => turn < MaxTurns
  BY DEF IInv, Control
<1> QED  BY <1>1, <1>2, <1>3 DEF TurnsLeftToDecide

(* A rollout never runs out of turns to decide in, its decision can be     *)
(* finished, and what is scored is what was decided                        *)
(* (available_tool_names, resolve_selection, finish).                      *)
THEOREM DecisionInvariant == Spec => []DecisionHolds
<1>1. IInv => DecisionSelectable
  BY DEF IInv, TypeOK, Decision, DecisionSelectable, SelectionFailed, Selectable, Selects
<1>2. IInv => OutcomeFollowsDecision
  BY DEF IInv, Scored
<1>3. IInv => DecisionHolds
  BY <1>1, <1>2, TurnsLeft DEF DecisionHolds
<1> QED  BY <1>3, Invariant, PTL

(* No step undoes a decision that was accepted (reject_selection).         *)
THEOREM DecisionStands == Spec => FirstDecisionStands
<1>1. ASSUME IInv, [Next]_vars, selection.status = "accepted"
      PROVE  selection' = selection
  <2>1. phase # "agent" /\ (phase = "called" => terminal)
    BY <1>1 DEF IInv, Decision
  <2>2. ResolveSelection => selection' = selection
    BY <1>1 DEF ResolveSelection
  <2>3. RejectSelection => selection' = selection
    BY <1>1 DEF RejectSelection
  <2>4. CASE ForcedStop \/ NoCall \/ OtherCall \/ FinishCall \/ KeepDefault \/ ExtraFinish
             \/ EndReply \/ RejectAttempt \/ SubmitCandidate
    BY <2>1, <2>2, <2>3, <2>4
    DEF ForcedStop, NoCall, OtherCall, FinishCall, KeepDefault, ExtraFinish, EndReply,
        RejectAttempt, SubmitCandidate, AgentTurn, EndSearch
  <2>5. CASE RaiseCancelled \/ RaiseError \/ BeginStatement \/ EndDefaultExplain
             \/ EndDefaultRun \/ FinishBaseline \/ EndValidation \/ StartFeedback
             \/ EndProbe \/ ProbeTimesOut \/ CompleteProbe \/ EndPairHalf \/ PairTimesOut
    BY <2>5
    DEF RaiseCancelled, RaiseError, BeginStatement, EndDefaultExplain, EndDefaultRun,
        FinishBaseline, EndValidation, StartFeedback, EndProbe, ProbeTimesOut, CompleteProbe,
        EndPairHalf, PairTimesOut, searchVars
  <2>6. CASE \/ FinishWithoutCandidate \/ \E i \in Ids : FinishWithCandidate(i)
             \/ BeginPair \/ ScoreTimeout \/ ScoreMeasured
    BY <1>1, <2>6
    DEF FinishWithoutCandidate, FinishWithCandidate, BeginPair, ScoreTimeout, ScoreMeasured,
        SelectionFailed
  <2>7. CASE Cancel \/ UNCHANGED vars
    BY <2>7 DEF Cancel, vars, searchVars
  <2> QED  BY <1>1, <2>4, <2>5, <2>6, <2>7 DEF Next, Step
<1>2. IInv /\ [Next]_vars => [selection.status = "accepted" => selection' = selection]_vars
  BY <1>1
<1> QED  BY <1>2, Invariant, PTL DEF Spec, FirstDecisionStands

\* What is reused is the first with its plan (by_reuse_key, RolloutEvaluator.evaluate).
LEMMA ReuseStands == IInv => ReuseFollowsDuplicate /\ ProbedOnce
<1> SUFFICES ASSUME IInv PROVE ReuseFollowsDuplicate /\ ProbedOnce
  OBVIOUS
<1>1. ASSUME NEW i \in DOMAIN candidates, candidates[i].feedback.status # "absent"
      PROVE  /\ candidates[i].satisfied /\ NamesFirst(i) /\ Refers(i)
             /\ candidates[i].feedback.source = candidates[i].duplicate
  BY <1>1 DEF IInv, Attempts, AttemptStands, Reuse, Refers
<1>2. ASSUME NEW i \in DOMAIN candidates, candidates[i].feedback.status # "absent",
             candidates[i].duplicate \in Ids
      PROVE  LET origin == candidates[candidates[i].duplicate]
             IN  /\ origin.key = candidates[i].key /\ origin.feedback.source = None
                 /\ origin.feedback.status = candidates[i].feedback.status
  <2>1. PICK d : d = candidates[i].duplicate
    OBVIOUS
  <2>2. /\ candidates[i].satisfied /\ NamesFirst(i)
        /\ candidates[d].feedback.status = candidates[i].feedback.status
    BY <1>1, <1>2, <2>1 DEF Refers
  <2>3. /\ d \in DOMAIN candidates /\ d < i /\ d \in Nat /\ candidates[d].satisfied
        /\ candidates[d].key = candidates[i].key /\ candidates[d].key # DefaultKey
    BY <1>2, <2>1, <2>2, DuplicateIsEarlier DEF IInv
  <2>4. candidates[d].feedback.source = candidates[d].duplicate /\ NamesFirst(d)
    BY <1>1, <1>2, <2>2, <2>3
  <2>5. ASSUME NEW j \in Earlier(d) PROVE FALSE
    <3>1. j \in Earlier(i) /\ j < d
      BY <2>3, Listed DEF Earlier, IInv
    <3>2. d <= j
      BY <2>1, <2>2, <2>3, <3>1, <1>2, Budgets DEF NamesFirst
    <3> QED  BY <2>3, <3>1, <3>2 DEF Earlier
  <2>6. candidates[d].duplicate = None
    BY <2>3, <2>4, <2>5 DEF NamesFirst
  <2> QED  BY <2>1, <2>2, <2>3, <2>4, <2>6
<1>3. ReuseFollowsDuplicate
  <2> SUFFICES ASSUME NEW i \in DOMAIN candidates, candidates[i].feedback.status # "absent"
               PROVE  /\ candidates[i].feedback.source = candidates[i].duplicate
                      /\ candidates[i].feedback.source \in Ids =>
                            LET origin == candidates[candidates[i].feedback.source]
                            IN  /\ origin.key = candidates[i].key
                                /\ origin.feedback.source = None
                                /\ origin.feedback.status = candidates[i].feedback.status
                                /\ phase \in {"called", "agent"} =>
                                      /\ origin.timedOut = candidates[i].timedOut
                                      /\ origin.timeout = candidates[i].timeout
    BY DEF ReuseFollowsDuplicate
  <2> QED  BY <1>1, <1>2 DEF Refers, Searching
<1>4. ProbedOnce
  <2>1. ASSUME NEW i \in DOMAIN candidates, candidates[i].feedback.status # "absent",
               candidates[i].feedback.source = None
        PROVE  candidates[i].key # DefaultKey /\ Earlier(i) = {}
    BY <1>1, <2>1, Budgets DEF NamesFirst
  <2>2. ASSUME NEW i \in DOMAIN candidates, candidates[i].feedback.status # "absent",
               NEW j \in DOMAIN candidates, candidates[j].feedback.status # "absent",
               candidates[j].feedback.source = None,
               candidates[i].key = candidates[j].key, i < j
        PROVE  FALSE
    <3>1. i \in Earlier(j)
      BY <1>1, <2>2, Listed DEF Earlier, IInv
    <3> QED  BY <2>1, <2>2, <3>1
  <2>3. ASSUME NEW i \in DOMAIN candidates, NEW j \in DOMAIN candidates
        PROVE  i < j \/ j < i \/ i = j
    BY Listed DEF IInv
  <2> QED  BY <2>1, <2>2, <2>3 DEF ProbedOnce
<1> QED  BY <1>3, <1>4

(* What is reused is named where it was found, no plan is executed for     *)
(* feedback twice, and every statement that was begun is kept, or its      *)
(* error ended the rollout (rollout.evaluate, rollout.execute_pair).       *)
THEOREM EvidenceInvariant == Spec => []EvidenceKept
<1>1. IInv => StatementsKept
  BY DEF IInv, Counted
<1>2. IInv => EvidenceKept
  BY <1>1, ReuseStands DEF EvidenceKept
<1> QED  BY <1>2, Invariant, PTL
=============================================================================
