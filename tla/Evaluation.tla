------------------------------ MODULE Evaluation ------------------------------
(***************************************************************************)
(* An evaluation (qorl.evaluation.evaluate): the main thread submits every *)
(* rollout to an executor with a thread per worker, collects the results,  *)
(* and reports what it finds on disk once the threads have ended.  The     *)
(* main thread is                                                          *)
(*                                                                         *)
(*   "setup"       before the executor                                     *)
(*   "collecting"  submits and collects, in the executor's block           *)
(*   "draining"    in the handler of a failure, waits for the futures      *)
(*   "exiting"     in the exit of the executor                             *)
(*   "capturing"   records the environment of a run without failure        *)
(*   "closing"     closes the pool and the local server                    *)
(*   "reporting"   reads the records                                       *)
(*   "done"                                                                *)
(*                                                                         *)
(* What a rollout does in its thread is the subject of Rollout; here it    *)
(* has a result, which is                                                  *)
(*                                                                         *)
(*   "ok"       a measured outcome                                         *)
(*   "failed"   an error of the query or of the worker                     *)
(*   "fatal"    any other error                                            *)
(*   "stopped"  the CancelledError of a rollout that found stop set        *)
(***************************************************************************)
EXTENDS Integers, FiniteSets

CONSTANTS Items,       \* the rollouts
          WorkerCount  \* the threads

ASSUME EvaluationAssumption ==
    /\ IsFiniteSet(Items) /\ Items # {}
    /\ WorkerCount \in Nat \ {0}

VARIABLES main,     \* see above
          future,   \* the future of each rollout
          result,   \* what came of each rollout that began
          saved,    \* the rollouts with a record on disk
          stop,     \* the event that the rollouts share
          seen,     \* the futures that as_completed has yielded
          error,    \* what leaves the block of evaluate
          closed,   \* is the pool closed?
          status,   \* report.status
          summary   \* the records that report.summary counts

vars == <<main, future, result, saved, stop, seen, error, closed, status, summary>>
mainVars == <<main, seen, error, closed, status, summary>>

Running == {"working", "saving"}
Finished == {"returned", "raised", "cancelled"}

TypeOK ==
    /\ main \in {"setup", "collecting", "draining", "exiting", "capturing",
                 "closing", "reporting", "done"}
    /\ future \in [Items -> {"none", "queued"} \cup Running \cup Finished]
    /\ result \in [Items -> {"none", "ok", "failed", "fatal", "stopped"}]
    /\ {saved, seen, summary} \subseteq SUBSET Items
    /\ stop \in BOOLEAN /\ closed \in BOOLEAN
    /\ error \in {"none", "fatal", "stopped", "interrupt"}
    /\ status \in {"running", "completed", "completed_with_failures",
                   "failed", "interrupted"}

Init ==
    /\ main = "setup" /\ stop = FALSE /\ error = "none"
    /\ future = [r \in Items |-> "none"]
    /\ result = [r \in Items |-> "none"]
    /\ saved = {} /\ seen = {} /\ summary = {}
    /\ closed = FALSE /\ status = "running"

-----------------------------------------------------------------------------
(* evaluate_rollout, in a thread of the executor.                          *)

Threads == {r \in Items : future[r] \in Running}

Become(r, state) == future' = [future EXCEPT ![r] = state]

\* Begin a rollout, unless the evaluation has stopped.
BeginRollout(r) ==
    /\ future[r] = "queued"
    /\ Cardinality(Threads) < WorkerCount
    /\ Become(r, IF stop THEN "cancelled" ELSE "working")
    /\ UNCHANGED <<mainVars, result, saved, stop>>

\* The measurement ends; an error that is neither the query's nor the worker's sets
\* stop before its record is saved.
EndRollout(r) ==
    /\ future[r] = "working"
    /\ \E what \in {"ok", "failed", "fatal", "stopped"} :
          /\ what = "stopped" => stop
          /\ result' = [result EXCEPT ![r] = what]
          /\ stop' = (stop \/ what \in {"fatal", "stopped"})
    /\ Become(r, "saving")
    /\ UNCHANGED <<mainVars, saved>>

\* What the thread raises after it has saved the record.
Outcome(r) ==
    CASE result[r] \in {"ok", "failed"} -> "returned"
      [] result[r] = "fatal" -> "raised"
      [] result[r] = "stopped" -> "cancelled"

\* write_json, which may fail.
Save(r) ==
    /\ future[r] = "saving"
    /\ \/ saved' = saved \cup {r} /\ Become(r, Outcome(r))
       \/ Become(r, "raised") /\ UNCHANGED saved
    /\ UNCHANGED <<mainVars, result, stop>>

-----------------------------------------------------------------------------
(* evaluate.                                                               *)

Leave(what, phase) == error' = what /\ main' = phase

\* Serving, the pool and the capture of the environment; any may fail.
SetUp ==
    /\ main = "setup"
    /\ \/ main' = "collecting" /\ UNCHANGED error
       \/ Leave("fatal", "closing")
    /\ UNCHANGED <<future, result, saved, stop, seen, closed, status, summary>>

Submit(r) ==
    /\ main = "collecting"
    /\ future[r] = "none"
    /\ Become(r, "queued")
    /\ UNCHANGED <<mainVars, result, saved, stop>>

AllSubmitted == \A r \in Items : future[r] # "none"

\* The next future that as_completed yields says nothing of a failure.
Collect(r) ==
    /\ main = "collecting" /\ AllSubmitted
    /\ r \notin seen
    /\ future[r] = "returned" \/ (future[r] = "cancelled" /\ stop)
    /\ seen' = seen \cup {r}
    /\ UNCHANGED <<main, error, closed, status, summary, future, result, saved, stop>>

Collected ==
    /\ main = "collecting" /\ seen = Items
    /\ main' = "exiting"
    /\ UNCHANGED <<seen, error, closed, status, summary, future, result, saved, stop>>

\* The handler: no rollout begins any more.
Handle(what) ==
    /\ Leave(what, "draining")
    /\ stop' = TRUE
    /\ future' = [r \in Items |-> IF future[r] = "queued" THEN "cancelled"
                                  ELSE future[r]]
    /\ UNCHANGED <<result, saved, seen, closed, status, summary>>

Raised(r) == IF future[r] = "raised" THEN "fatal" ELSE "stopped"

Fail(r) ==
    /\ main = "collecting" /\ AllSubmitted
    /\ r \notin seen
    /\ future[r] = "raised" \/ (future[r] = "cancelled" /\ ~stop)
    /\ Handle(Raised(r))

\* Mutant: the handler waits for every rollout.
DrainAllItems ==
    /\ main = "draining"
    /\ \A r \in Items : future[r] \in Finished
    /\ main' = "exiting"
    /\ UNCHANGED <<seen, error, closed, status, summary, future, result, saved, stop>>

\* wait(futures), again after each interrupt.
Drain ==
    /\ main = "draining"
    /\ \A r \in Items : future[r] \in {"none"} \cup Finished
    /\ main' = "exiting"
    /\ UNCHANGED <<seen, error, closed, status, summary, future, result, saved, stop>>

\* Mutant: the exit does not wait.
ExitAtOnce ==
    /\ main = "exiting"
    /\ main' = IF error = "none" THEN "capturing" ELSE "closing"
    /\ UNCHANGED <<seen, error, closed, status, summary, future, result, saved, stop>>

\* The exit of the executor runs what is queued and waits for its threads.
Exit ==
    /\ main = "exiting"
    /\ \A r \in Items : future[r] \in {"none"} \cup Finished
    /\ main' = IF error = "none" THEN "capturing" ELSE "closing"
    /\ UNCHANGED <<seen, error, closed, status, summary, future, result, saved, stop>>

Capture ==
    /\ main = "capturing"
    /\ main' = "closing" /\ error' \in {error, "fatal"}
    /\ UNCHANGED <<seen, closed, status, summary, future, result, saved, stop>>

Close ==
    /\ main = "closing"
    /\ closed' = TRUE /\ main' = "reporting"
    /\ UNCHANGED <<seen, error, status, summary, future, result, saved, stop>>

\* Failures are those of the records.
Report ==
    /\ main = "reporting"
    /\ main' = "done"
    /\ summary' = saved
    /\ status' = CASE error = "interrupt" -> "interrupted"
                   [] error \in {"fatal", "stopped"} -> "failed"
                   [] error = "none" ->
                        IF \A r \in saved : result[r] = "ok" THEN "completed"
                        ELSE "completed_with_failures"
    /\ UNCHANGED <<seen, error, closed, future, result, saved, stop>>

\* A KeyboardInterrupt.  One that hits wait(futures) is ignored, and one that hits
\* the handler before leaves some of its work undone.
Interrupt ==
    \/ main = "collecting" /\ Handle("interrupt")
    \/ /\ main = "collecting"
       /\ Leave("interrupt", "exiting")
       /\ stop' \in {stop, TRUE}
       /\ UNCHANGED <<future, result, saved, seen, closed, status, summary>>
    \/ /\ main \in {"setup", "capturing", "closing"}
       /\ Leave("interrupt", IF main = "closing" THEN "reporting" ELSE "closing")
       /\ UNCHANGED <<stop, future, result, saved, seen, closed, status, summary>>

-----------------------------------------------------------------------------
ThreadStep(r) == BeginRollout(r) \/ EndRollout(r) \/ Save(r)

MainStep ==
    \/ SetUp \/ Collected \/ Drain \/ Exit \/ Capture \/ Close \/ Report
    \/ \E r \in Items : Submit(r) \/ Collect(r) \/ Fail(r)

Next == MainStep \/ Interrupt \/ \E r \in Items : ThreadStep(r)

Spec == Init /\ [][Next]_vars

\* The threads run, and rollouts end (they have timeouts).
FairSpec ==
    /\ Spec
    /\ WF_vars(MainStep) /\ \A r \in Items : WF_vars(ThreadStep(r))

-----------------------------------------------------------------------------
(* A run that is reported as completed has measured and recorded every     *)
(* rollout: no fatal error, stop, lost record or cancellation hides in it  *)
(* (evaluate).                                                             *)
CompletedIsWhole ==
    status \in {"completed", "completed_with_failures"} =>
        \A r \in Items : r \in saved /\ result[r] \in {"ok", "failed"}

(* "Surface that error, not a queued cancellation" (evaluate): a run fails *)
(* with the error that stopped it, and not with what the stop did to the   *)
(* others.                                                                 *)
CauseIsNamed ==
    /\ error # "stopped"
    /\ stop => error # "none" \/ \E r \in Items : result[r] = "fatal"

(* "Finish in-flight calls before SQL/server teardown" (evaluate): the     *)
(* pool is not closed under a rollout, running or still to run.            *)
NoWorkAfterClose ==
    closed => \A r \in Items : future[r] \in {"none"} \cup Finished

(* "Read the files after workers and resources have stopped" (evaluate):   *)
(* the report counts every record that there is.                           *)
SummaryIsFinal == main = "done" => summary = saved

(* A rollout that began leaves its record, failed or not, unless the write *)
(* itself has failed (evaluate_rollout).                                   *)
EvidenceSaved ==
    \A r \in Items :
        result[r] # "none" /\ future[r] \in {"returned", "cancelled"} => r \in saved

(* What a rollout's future says of its result and its record.              *)
FuturesFollow ==
    \A r \in Items :
        /\ future[r] \in {"none", "queued", "working"} => result[r] = "none"
        /\ future[r] \in {"saving", "raised"} => result[r] # "none"
        /\ future[r] = "returned" => result[r] \in {"ok", "failed"}
        /\ future[r] = "cancelled" => result[r] \in {"none", "stopped"} /\ stop
        /\ result[r] \in {"fatal", "stopped"} => stop
        /\ r \in saved => future[r] \in Finished /\ result[r] # "none"

(* What the main thread has collected, and what it may rely on.            *)
MainFollows ==
    /\ \A r \in seen : future[r] \in {"returned", "cancelled"}
    /\ main = "setup" => \A r \in Items : future[r] = "none"
    /\ main \in {"setup", "collecting", "capturing"} => error = "none"
    /\ main \notin {"setup", "collecting"} /\ error = "none" => seen = Items
    /\ main \in {"capturing", "closing", "reporting", "done"} =>
          \A r \in Items : future[r] \in {"none"} \cup Finished
    /\ closed => main \in {"reporting", "done"}
    /\ status = "running" <=> main # "done"
    /\ status \in {"completed", "completed_with_failures"} => error = "none"

(* All of this holds together: the report is right because the collected   *)
(* futures, the shared event and the records agree at all times            *)
(* (evaluate, evaluate_rollout).                                           *)
EvaluationInv ==
    /\ TypeOK
    /\ FuturesFollow
    /\ MainFollows
    /\ CompletedIsWhole
    /\ CauseIsNamed
    /\ NoWorkAfterClose
    /\ SummaryIsFinal
    /\ EvidenceSaved

(* The run ends and reports, whatever fails or interrupts it (evaluate).   *)
EvaluationEnds == <>(main = "done")
=============================================================================
