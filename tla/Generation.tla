------------------------------ MODULE Generation ------------------------------
(***************************************************************************)
(* The generation of a dataset's conversations (qorl.sft.generate): a      *)
(* process, which may crash and be run again on the same directory, makes  *)
(* every attempt that has no record yet, in the threads of an executor.    *)
(* The process is                                                          *)
(*                                                                         *)
(*   "down"         not running                                            *)
(*   "identifying"  has made the directory                                 *)
(*   "surveying"    reads the records of earlier runs                      *)
(*   "collecting"   waits for the futures                                  *)
(*   "draining"     waits for all of them, after a failure                 *)
(*   "settling"     fails what has not ended, and saves the conversations  *)
(*   "reporting"    writes the report                                      *)
(*                                                                         *)
(* Files are replaced atomically (write_json).  The pool is the subject of *)
(* PoolLifecycle, and the attempt itself that of Rollout.                  *)
(***************************************************************************)
EXTENDS Integers, FiniteSets

CONSTANTS Attempts,     \* the attempts that the identity lists
          ThreadCount,  \* the threads of the executor
          SlotCount,    \* the semaphore: workers or concurrent requests
          MaxCrashes    \* bound on the crashes explored

ASSUME GenerationAssumption ==
    /\ IsFiniteSet(Attempts)
    /\ ThreadCount \in Nat \ {0} /\ SlotCount \in Nat \ {0}
    /\ MaxCrashes \in Nat

VARIABLES output,     \* the directory and its identity.json
          disk,       \* the record of each attempt
          artifact,   \* the records that the saved conversations were made from
          published,  \* does report.json exist?
          main,       \* see above
          known,      \* the process's copy of each record
          pending,    \* the attempts still to be made or settled
          future,     \* their futures
          seen,       \* the futures that as_completed has yielded
          stop,       \* the event that the attempts share
          begun,      \* history: how often each attempt's model has been asked
          crashes     \* history: crashes so far

files == <<output, disk, artifact, published>>
process == <<main, known, pending, seen>>
vars == <<files, process, future, stop, begun, crashes>>

Records == {"absent", "running", "completed", "failed"}
Ended == {"completed", "failed"}
Active == {"opened", "generating"}

TypeOK ==
    /\ output \in {"absent", "directory", "identified"}
    /\ disk \in [Attempts -> Records]
    /\ artifact \in [Attempts -> Records]
    /\ published \in BOOLEAN
    /\ main \in {"down", "identifying", "surveying", "collecting", "draining",
                 "settling", "reporting"}
    /\ known \in [Attempts -> {"unknown"} \cup Records]
    /\ pending \subseteq Attempts /\ seen \subseteq Attempts
    /\ future \in [Attempts -> {"none", "queued", "returned", "raised"} \cup Active]
    /\ stop \in BOOLEAN
    /\ begun \in [Attempts -> Nat]
    /\ crashes \in Nat

Init ==
    /\ output = "absent" /\ published = FALSE
    /\ disk = [a \in Attempts |-> "absent"]
    /\ artifact = [a \in Attempts |-> "absent"]
    /\ main = "down" /\ pending = {} /\ seen = {} /\ stop = FALSE
    /\ known = [a \in Attempts |-> "unknown"]
    /\ future = [a \in Attempts |-> "none"]
    /\ begun = [a \in Attempts |-> 0] /\ crashes = 0

Write(a, record) == disk' = [disk EXCEPT ![a] = record]
Know(a, record) == known' = [known EXCEPT ![a] = record]
Become(a, state) == future' = [future EXCEPT ![a] = state]

-----------------------------------------------------------------------------
(* generate_attempt, in a thread of the executor.                          *)

\* The attempt is recorded as running before anything else.
OpenAttempt(a) ==
    /\ future[a] = "queued"
    /\ Cardinality({b \in Attempts : future[b] \in Active}) < ThreadCount
    /\ \/ Write(a, "running") /\ Become(a, "opened")
       \/ Become(a, "raised") /\ UNCHANGED disk
    /\ UNCHANGED <<output, artifact, published, process, stop, begun, crashes>>

\* The attempt gets a slot before stop is set.
BeginAttempt(a) ==
    /\ future[a] = "opened" /\ ~stop
    /\ Cardinality({b \in Attempts : future[b] = "generating"}) < SlotCount
    /\ Become(a, "generating")
    /\ begun' = [begun EXCEPT ![a] = @ + 1]
    /\ UNCHANGED <<files, process, stop, crashes>>

\* Its result is written, if it can be.  Errors are part of it; only one that is no
\* Exception is raised again.
EndAttempt(a) ==
    /\ \/ future[a] = "generating"
       \/ future[a] = "opened" /\ stop
    /\ \/ future[a] = "generating" /\ Write(a, "completed") /\ Become(a, "returned")
       \/ Write(a, "failed") /\ (Become(a, "returned") \/ Become(a, "raised"))
       \/ Become(a, "raised") /\ UNCHANGED disk
    /\ UNCHANGED <<output, artifact, published, process, stop, begun, crashes>>

-----------------------------------------------------------------------------
(* generate_dataset.                                                       *)

Goto(phase) == main' = phase

\* Run the program, for the first time or again.  With a report there is nothing to
\* do, and a directory without identity.json is an error.
Run ==
    /\ main = "down" /\ ~published
    /\ \/ output = "absent" /\ output' = "directory" /\ Goto("identifying")
       \/ output = "identified" /\ Goto("surveying") /\ UNCHANGED output
    /\ UNCHANGED <<disk, artifact, published, known, pending, seen, future, stop,
                   begun, crashes>>

Identify ==
    /\ main = "identifying"
    /\ output' = "identified" /\ Goto("surveying")
    /\ UNCHANGED <<disk, artifact, published, known, pending, seen, future, stop,
                   begun, crashes>>

\* Mutant: an attempt that was interrupted is made again.
SurveyRetry(a) ==
    /\ main = "surveying" /\ known[a] = "unknown"
    /\ IF disk[a] \in {"absent", "running"}
       THEN Know(a, "running") /\ pending' = pending \cup {a}
       ELSE Know(a, disk[a]) /\ UNCHANGED pending
    /\ UNCHANGED <<files, main, seen, future, stop, begun, crashes>>

\* An attempt with no record is pending; one that an earlier run left running failed.
Survey(a) ==
    /\ main = "surveying" /\ known[a] = "unknown"
    /\ \/ /\ disk[a] = "absent"
          /\ Know(a, "running") /\ pending' = pending \cup {a}
          /\ UNCHANGED disk
       \/ /\ disk[a] = "running"
          /\ Write(a, "failed") /\ Know(a, "failed")
          /\ UNCHANGED pending
       \/ /\ disk[a] \in Ended
          /\ Know(a, disk[a])
          /\ UNCHANGED <<pending, disk>>
    /\ UNCHANGED <<output, artifact, published, main, seen, future, stop, begun,
                   crashes>>

\* The pool is started, if there is something to make, and everything submitted.
\* If that fails, nothing is made.
Open ==
    /\ main = "surveying"
    /\ \A a \in Attempts : known[a] # "unknown"
    /\ \/ /\ pending # {}
          /\ Goto("collecting")
          /\ future' = [a \in Attempts |-> IF a \in pending THEN "queued" ELSE "none"]
       \/ Goto("settling") /\ UNCHANGED future
    /\ UNCHANGED <<files, known, pending, seen, stop, begun, crashes>>

Collect(a) ==
    /\ main = "collecting" /\ a \in pending \ seen
    /\ future[a] = "returned"
    /\ seen' = seen \cup {a}
    /\ UNCHANGED <<files, main, known, pending, future, stop, begun, crashes>>

Collected ==
    /\ main = "collecting" /\ seen = pending
    /\ Goto("settling")
    /\ UNCHANGED <<files, known, pending, seen, future, stop, begun, crashes>>

\* The first error, or an interrupt: the queued attempts are not cancelled, but find
\* stop set.
Stop ==
    /\ main = "collecting"
    /\ Goto("draining") /\ stop' = TRUE
    /\ UNCHANGED <<files, known, pending, seen, future, begun, crashes>>

Fail(a) == Stop /\ a \in pending \ seen /\ future[a] = "raised"

Interrupt == Stop

\* Mutant: the wait is for the futures of every attempt.
DrainAll ==
    /\ main = "draining"
    /\ \A a \in Attempts : future[a] \in {"returned", "raised"}
    /\ Goto("settling")
    /\ UNCHANGED <<files, known, pending, seen, future, stop, begun, crashes>>

\* wait(futures), again after each interrupt.
Drain ==
    /\ main = "draining"
    /\ \A a \in pending : future[a] \in {"returned", "raised"}
    /\ Goto("settling")
    /\ UNCHANGED <<files, known, pending, seen, future, stop, begun, crashes>>

\* Mutant: what the process knew of the attempt is not read again.
SettleBlind(a) ==
    /\ main = "settling" /\ a \in pending
    /\ pending' = pending \ {a}
    /\ Write(a, "failed") /\ Know(a, "failed")
    /\ UNCHANGED <<output, artifact, published, main, seen, future, stop, begun,
                   crashes>>

\* The record is read again; an attempt that has not ended has failed.
Settle(a) ==
    /\ main = "settling" /\ a \in pending
    /\ pending' = pending \ {a}
    /\ IF disk[a] \in Ended
       THEN Know(a, disk[a]) /\ UNCHANGED disk
       ELSE Write(a, "failed") /\ Know(a, "failed")
    /\ UNCHANGED <<output, artifact, published, main, seen, future, stop, begun,
                   crashes>>

SaveArtifact ==
    /\ main = "settling" /\ pending = {}
    /\ artifact' = known
    /\ Goto("reporting")
    /\ UNCHANGED <<output, disk, published, known, pending, seen, future, stop,
                   begun, crashes>>

\* The process is gone, with everything that is not on disk.
Vanish ==
    /\ Goto("down") /\ pending' = {} /\ seen' = {} /\ stop' = FALSE
    /\ known' = [a \in Attempts |-> "unknown"]
    /\ future' = [a \in Attempts |-> "none"]

Publish ==
    /\ main = "reporting"
    /\ published' = TRUE
    /\ Vanish
    /\ UNCHANGED <<output, disk, artifact, begun, crashes>>

\* The process is killed; or a write of its own fails, or it is interrupted, outside
\* the block that collects.
Crash ==
    /\ main # "down" /\ crashes < MaxCrashes
    /\ crashes' = crashes + 1
    /\ Vanish
    /\ UNCHANGED <<files, begun>>

-----------------------------------------------------------------------------
ThreadStep(a) == OpenAttempt(a) \/ BeginAttempt(a) \/ EndAttempt(a)

MainStep ==
    \/ Run \/ Identify \/ Open \/ Collected \/ Drain \/ SaveArtifact \/ Publish
    \/ \E a \in Attempts : Survey(a) \/ Collect(a) \/ Fail(a) \/ Settle(a)

Next ==
    \/ MainStep \/ Interrupt \/ Crash
    \/ \E a \in Attempts : ThreadStep(a)

Spec == Init /\ [][Next]_vars

\* The process and its threads run, attempts end, and a generation that was cut off
\* is run again.
FairSpec ==
    /\ Spec
    /\ WF_vars(MainStep) /\ \A a \in Attempts : WF_vars(ThreadStep(a))

-----------------------------------------------------------------------------
(* "No replacement generation" (generate_dataset): over all crashes and    *)
(* restarts, no attempt asks its model twice, and one that is recorded as  *)
(* completed has asked it.                                                 *)
AtMostOnce ==
    \A a \in Attempts :
        begun[a] <= 1 /\ (disk[a] = "completed" => begun[a] = 1)

(* Published conversations were made from the records as they are: nothing *)
(* is written beside the report, and no attempt is still open in it        *)
(* (save_artifact, generate_dataset).                                      *)
ArtifactIsTheLog ==
    published => artifact = disk /\ \A a \in Attempts : disk[a] \in Ended

Log == INSTANCE AttemptLog WITH log <- disk

(* The records are a log of attempts, each made once and ended once, and   *)
(* final when they are published (write_json, generate_dataset).           *)
LogSpec == Log!Spec

(* What the process knows of the records, and its threads of their own.    *)
ProcessFollows ==
    /\ main \in {"down", "identifying"} =>
          \A a \in Attempts : known[a] = "unknown"
    /\ main \in {"down", "identifying", "surveying"} =>
          ~stop /\ seen = {} /\ \A a \in Attempts : future[a] = "none"
    /\ main \in {"down", "identifying", "reporting"} => pending = {}
    /\ main \in {"collecting", "draining", "settling", "reporting"} =>
          \A a \in Attempts : known[a] # "unknown"
    /\ main \in {"settling", "reporting"} =>
          \A a \in Attempts : future[a] \in {"none", "returned", "raised"}
    /\ main = "reporting" => artifact = known
    /\ published => main = "down"
    /\ \A a \in seen : future[a] = "returned"

AttemptsFollow ==
    \A a \in Attempts :
        /\ a \in pending \/ future[a] \in Active \cup {"queued"} =>
              known[a] = "running"
        /\ future[a] \in Active \cup {"queued"} => a \in pending
        /\ known[a] \in Ended => disk[a] = known[a]
        /\ known[a] # "unknown" /\ a \notin pending => known[a] \in Ended
        /\ a \in pending /\ future[a] \in {"none", "queued"} => disk[a] = "absent"
        /\ future[a] \in Active => disk[a] = "running"
        /\ disk[a] = "absent" \/ future[a] = "opened" => begun[a] = 0
        /\ future[a] = "generating" => begun[a] = 1

(* All of this holds together: no record, future or copy of a record gets  *)
(* ahead of the others over crashes and failed writes (generate_dataset,   *)
(* generate_attempt).                                                      *)
GenerationInv ==
    /\ TypeOK
    /\ ProcessFollows
    /\ AttemptsFollow
    /\ AtMostOnce
    /\ ArtifactIsTheLog

(* Once the identity is written, crashes only delay the report: a run that *)
(* follows can always go on (generate_dataset).                            *)
GenerationFinishes == output = "identified" ~> published
=============================================================================
