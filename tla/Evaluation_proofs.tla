--------------------------- MODULE Evaluation_proofs ---------------------------
(***************************************************************************)
(* The report of an evaluation is right, for every number of rollouts and  *)
(* threads.                                                                *)
(*                                                                         *)
(* EvaluationInv is inductive.  That a completed run is whole rests on     *)
(* CauseIsNamed: a cancelled future means that stop is set, stop is set    *)
(* only for a failure of the main thread or a fatal result, and a fatal    *)
(* result is a future that raises, which the main thread has not passed    *)
(* over when it has collected them all.                                    *)
(***************************************************************************)
EXTENDS Evaluation, TLAPS

(* The run starts with nothing submitted (evaluate).                       *)
LEMMA InitInv == Init => EvaluationInv
BY DEF Init, EvaluationInv, TypeOK, FuturesFollow, MainFollows,
   CompletedIsWhole, CauseIsNamed, NoWorkAfterClose, SummaryIsFinal,
   EvidenceSaved, Finished, Running

(* A thread only runs while the executor's block is open, and what it      *)
(* leaves fits its result (evaluate_rollout).                              *)
LEMMA ThreadStepInv ==
    ASSUME EvaluationInv, NEW r \in Items, ThreadStep(r)
    PROVE  EvaluationInv'
<1> USE DEF EvaluationInv, TypeOK, FuturesFollow, MainFollows,
        CompletedIsWhole, CauseIsNamed, NoWorkAfterClose, SummaryIsFinal,
        EvidenceSaved, Finished, Running, Become, mainVars
<1>1. /\ UNCHANGED mainVars
      /\ future[r] \in {"queued", "working", "saving"}
      /\ main \in {"collecting", "draining", "exiting"}
      /\ r \notin seen /\ ~closed /\ status = "running"
  <2>1. UNCHANGED mainVars /\ future[r] \in {"queued", "working", "saving"}
    BY DEF ThreadStep, BeginRollout, EndRollout, Save
  <2>2. main \in {"collecting", "draining", "exiting"}
    BY <2>1
  <2> QED  BY <2>1, <2>2
<1>2. CASE BeginRollout(r)
  BY <1>1, <1>2 DEF BeginRollout
<1>3. CASE EndRollout(r)
  <2>1. PICK what \in {"ok", "failed", "fatal", "stopped"} :
           /\ what = "stopped" => stop
           /\ result' = [result EXCEPT ![r] = what]
           /\ stop' = (stop \/ what \in {"fatal", "stopped"})
    BY <1>3 DEF EndRollout
  <2>2. CASE what \in {"ok", "failed"}
    BY <1>1, <1>3, <2>1, <2>2 DEF EndRollout
  <2>3. CASE what = "fatal"
    <3>1. /\ stop' = TRUE /\ result' = [result EXCEPT ![r] = "fatal"]
          /\ future' = [future EXCEPT ![r] = "saving"]
          /\ UNCHANGED saved /\ future[r] = "working"
      BY <1>3, <2>1, <2>3 DEF EndRollout
    <3> QED  BY <1>1, <3>1
  <2>4. CASE what = "stopped"
    <3>1. /\ stop' = TRUE /\ result' = [result EXCEPT ![r] = "stopped"]
          /\ future' = [future EXCEPT ![r] = "saving"]
          /\ UNCHANGED saved /\ future[r] = "working"
      BY <1>3, <2>1, <2>4 DEF EndRollout
    <3>2. stop
      BY <2>1, <2>4
    <3> QED  BY <1>1, <3>1, <3>2
  <2> QED  BY <2>2, <2>3, <2>4
<1>4. CASE Save(r)
  <2>1. CASE saved' = saved \cup {r} /\ Become(r, Outcome(r))
    <3>1. CASE result[r] \in {"ok", "failed"}
      BY <1>1, <1>4, <2>1, <3>1 DEF Save, Outcome
    <3>2. CASE result[r] = "fatal"
      BY <1>1, <1>4, <2>1, <3>2 DEF Save, Outcome
    <3>3. CASE result[r] = "stopped"
      <4>1. stop
        BY <1>4, <3>3 DEF Save
      <4> QED  BY <1>1, <1>4, <2>1, <3>3, <4>1 DEF Save, Outcome
    <3> QED  BY <1>4, <3>1, <3>2, <3>3 DEF Save
  <2>2. CASE Become(r, "raised") /\ UNCHANGED saved
    BY <1>1, <1>4, <2>2 DEF Save
  <2> QED  BY <1>4, <2>1, <2>2 DEF Save
<1> QED  BY <1>2, <1>3, <1>4 DEF ThreadStep

(* The handler sets stop with an error at hand, and cancels only what has  *)
(* not begun (evaluate).                                                   *)
LEMMA HandleInv ==
    ASSUME EvaluationInv, main = "collecting",
           NEW what \in {"fatal", "interrupt"}, Handle(what)
    PROVE  EvaluationInv'
BY DEF Handle, Leave, EvaluationInv, TypeOK, FuturesFollow, MainFollows,
   CompletedIsWhole, CauseIsNamed, NoWorkAfterClose, SummaryIsFinal,
   EvidenceSaved, Finished, Running

(* The main thread goes from phase to phase (evaluate).                    *)
LEMMA MainStepInv ==
    ASSUME EvaluationInv, MainStep \/ Interrupt
    PROVE  EvaluationInv'
<1> USE DEF EvaluationInv, TypeOK, FuturesFollow, MainFollows,
        CompletedIsWhole, CauseIsNamed, NoWorkAfterClose, SummaryIsFinal,
        EvidenceSaved, Finished, Running, Leave
<1>1. CASE SetUp
  BY <1>1 DEF SetUp
<1>2. CASE Collected
  BY <1>2 DEF Collected
<1>3. CASE Drain
  BY <1>3 DEF Drain
<1>4. CASE Exit
  BY <1>4 DEF Exit
<1>5. CASE Capture
  BY <1>5 DEF Capture
<1>6. CASE Close
  BY <1>6 DEF Close
<1>7. CASE Report
  <2>1. error = "none" => \A r \in Items : future[r] = "returned"
    <3> SUFFICES ASSUME error = "none", NEW r \in Items, future[r] # "returned"
                 PROVE  FALSE
      OBVIOUS
    <3>1. seen = Items /\ future[r] = "cancelled" /\ stop
      BY <1>7 DEF Report
    <3>2. PICK f \in Items : result[f] = "fatal"
      BY <3>1
    <3>3. future[f] \in {"returned", "cancelled"}
      BY <3>1
    <3> QED  BY <3>2, <3>3
  <2>2. error = "none" => \A r \in Items : r \in saved /\ result[r] \in {"ok", "failed"}
    BY <2>1
  <2>3. /\ main' = "done" /\ summary' = saved
        /\ UNCHANGED <<seen, error, closed, future, result, saved, stop>>
        /\ status' \in {"completed", "completed_with_failures", "failed",
                        "interrupted"}
        /\ status' \in {"completed", "completed_with_failures"} => error = "none"
    BY <1>7 DEF Report
  <2> QED  BY <1>7, <2>2, <2>3 DEF Report
<1>8. ASSUME NEW r \in Items, Submit(r) PROVE EvaluationInv'
  BY <1>8 DEF Submit, Become, mainVars
<1>9. ASSUME NEW r \in Items, Collect(r) PROVE EvaluationInv'
  BY <1>9 DEF Collect
<1>10. ASSUME NEW r \in Items, Fail(r) PROVE EvaluationInv'
  <2>1. Raised(r) = "fatal" /\ main = "collecting"
    BY <1>10 DEF Fail, Raised
  <2> QED  BY <1>10, <2>1, HandleInv DEF Fail
<1>11. CASE Interrupt
  <2>1. CASE main = "collecting" /\ Handle("interrupt")
    BY <2>1, HandleInv
  <2>2. CASE /\ main = "collecting"
             /\ Leave("interrupt", "exiting")
             /\ stop' \in {stop, TRUE}
             /\ UNCHANGED <<future, result, saved, seen, closed, status, summary>>
    <3>1. CASE stop' = stop
      BY <2>2, <3>1
    <3>2. CASE stop' = TRUE
      BY <2>2, <3>2
    <3> QED  BY <2>2, <3>1, <3>2
  <2>3. CASE main \in {"setup", "capturing", "closing"}
    <3>1. main' \in {"closing", "reporting"} /\ error' = "interrupt"
          /\ UNCHANGED <<stop, future, result, saved, seen, closed, status, summary>>
          /\ \A r \in Items : future[r] \in {"none"} \cup Finished
      BY <1>11, <2>3 DEF Interrupt
    <3> QED  BY <2>3, <3>1
  <2> QED  BY <1>11, <2>1, <2>2, <2>3 DEF Interrupt
<1> QED
  BY <1>1, <1>2, <1>3, <1>4, <1>5, <1>6, <1>7, <1>8, <1>9, <1>10, <1>11
     DEF MainStep

(* The inductive invariant (evaluate, evaluate_rollout).                   *)
THEOREM EvaluationInvariant == Spec => []EvaluationInv
<1>1. EvaluationInv /\ [Next]_vars => EvaluationInv'
  <2> SUFFICES ASSUME EvaluationInv, [Next]_vars PROVE EvaluationInv'
    OBVIOUS
  <2>1. CASE MainStep \/ Interrupt
    BY <2>1, MainStepInv
  <2>2. CASE \E r \in Items : ThreadStep(r)
    BY <2>2, ThreadStepInv
  <2>3. CASE UNCHANGED vars
    BY <2>3 DEF vars, EvaluationInv, TypeOK, FuturesFollow, MainFollows,
       CompletedIsWhole, CauseIsNamed, NoWorkAfterClose, SummaryIsFinal,
       EvidenceSaved
  <2> QED  BY <2>1, <2>2, <2>3 DEF Next
<1> QED  BY <1>1, InitInv, PTL DEF Spec

(* No failure, cancellation or lost record hides in a completed run        *)
(* (evaluate).                                                             *)
THEOREM CompletionIsWhole == Spec => []CompletedIsWhole
<1>1. EvaluationInv => CompletedIsWhole
  BY DEF EvaluationInv
<1> QED  BY <1>1, EvaluationInvariant, PTL

(* A failed run names what stopped it (evaluate).                          *)
THEOREM FailureNamesItsCause == Spec => []CauseIsNamed
<1>1. EvaluationInv => CauseIsNamed
  BY DEF EvaluationInv
<1> QED  BY <1>1, EvaluationInvariant, PTL

(* The pool outlives the rollouts (evaluate).                              *)
THEOREM PoolOutlivesRollouts == Spec => []NoWorkAfterClose
<1>1. EvaluationInv => NoWorkAfterClose
  BY DEF EvaluationInv
<1> QED  BY <1>1, EvaluationInvariant, PTL
=============================================================================
