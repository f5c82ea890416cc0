--------------------------- MODULE Generation_proofs ---------------------------
(***************************************************************************)
(* A generation makes every attempt at most once and publishes what is on  *)
(* disk, for every number of attempts, threads and crashes.                *)
(*                                                                         *)
(* GenerationInv is inductive.  That nothing is made twice rests on the    *)
(* order of two writes: an attempt that has no record has not begun, and   *)
(* only attempts that have none are ever queued.                           *)
(***************************************************************************)
EXTENDS Generation, TLAPS

(* The first run finds nothing (generate_dataset).                         *)
LEMMA InitInv == Init => GenerationInv
<1> SUFFICES ASSUME Init PROVE GenerationInv
  OBVIOUS
<1>1. TypeOK
  BY DEF Init, TypeOK, Records
<1>2. ProcessFollows /\ AttemptsFollow
  BY DEF Init, ProcessFollows, AttemptsFollow, Ended, Active
<1>3. AtMostOnce /\ ArtifactIsTheLog
  BY DEF Init, AtMostOnce, ArtifactIsTheLog
<1> QED  BY <1>1, <1>2, <1>3 DEF GenerationInv

(* A thread records, makes and records again its own attempt               *)
(* (generate_attempt).                                                     *)
LEMMA ThreadStepInv ==
    ASSUME GenerationInv, NEW a \in Attempts, ThreadStep(a)
    PROVE  GenerationInv'
<1> USE DEF GenerationInv, TypeOK, ProcessFollows, AttemptsFollow, AtMostOnce,
        ArtifactIsTheLog, Records, Ended, Active, Write, Become, process
<1>1. /\ UNCHANGED <<output, artifact, published, process, stop, crashes>>
      /\ a \in pending /\ ~published
      /\ main \in {"collecting", "draining"}
  BY DEF ThreadStep, OpenAttempt, BeginAttempt, EndAttempt, files
<1>2. CASE OpenAttempt(a)
  BY <1>1, <1>2 DEF OpenAttempt
<1>3. CASE BeginAttempt(a)
  BY <1>1, <1>3 DEF BeginAttempt, files
<1>4. CASE EndAttempt(a)
  <2>1. future[a] \in Active /\ disk[a] = "running"
    BY <1>4 DEF EndAttempt
  <2>2. CASE Write(a, "completed") /\ future[a] = "generating" /\ Become(a, "returned")
    BY <1>1, <1>4, <2>2 DEF EndAttempt
  <2>3. CASE Write(a, "failed") /\ (Become(a, "returned") \/ Become(a, "raised"))
    BY <1>1, <1>4, <2>1, <2>3 DEF EndAttempt
  <2>4. CASE Become(a, "raised") /\ UNCHANGED disk
    BY <1>1, <1>4, <2>1, <2>4 DEF EndAttempt
  <2> QED  BY <1>4, <2>2, <2>3, <2>4 DEF EndAttempt
<1> QED  BY <1>2, <1>3, <1>4 DEF ThreadStep

(* A crash takes everything but the files (generate_dataset).              *)
LEMMA VanishInv ==
    ASSUME GenerationInv, Vanish, UNCHANGED <<output, disk, begun>>,
           \/ UNCHANGED <<artifact, published>>
           \/ main = "reporting" /\ UNCHANGED artifact /\ published' = TRUE,
           crashes' \in Nat
    PROVE  GenerationInv'
<1>1. TypeOK'
  BY DEF Vanish, Goto, GenerationInv, TypeOK, Records
<1>2. ProcessFollows' /\ AttemptsFollow'
  BY DEF Vanish, Goto, GenerationInv, TypeOK, ProcessFollows, AttemptsFollow,
     Ended, Active
<1>3. main = "reporting" => artifact = disk /\ \A a \in Attempts : disk[a] \in Ended
  <2> SUFFICES ASSUME main = "reporting"
               PROVE  artifact = disk /\ \A a \in Attempts : disk[a] \in Ended
    OBVIOUS
  <2>1. \A a \in Attempts : known[a] \in Ended /\ disk[a] = known[a]
    BY DEF GenerationInv, ProcessFollows, AttemptsFollow
  <2>2. artifact = known
    BY DEF GenerationInv, ProcessFollows
  <2> QED  BY <2>1, <2>2 DEF GenerationInv, TypeOK
<1>4. AtMostOnce' /\ ArtifactIsTheLog'
  BY <1>3 DEF GenerationInv, AtMostOnce, ArtifactIsTheLog
<1> QED  BY <1>1, <1>2, <1>4 DEF GenerationInv

(* The process surveys, submits, collects, settles and saves               *)
(* (generate_dataset).                                                     *)
LEMMA MainStepInv ==
    ASSUME GenerationInv, MainStep \/ Interrupt \/ Crash
    PROVE  GenerationInv'
<1> USE DEF GenerationInv, TypeOK, ProcessFollows, AttemptsFollow, AtMostOnce,
        ArtifactIsTheLog, Records, Ended, Active, Goto, Write, Know, files
<1>1. CASE Run
  BY <1>1 DEF Run
<1>2. CASE Identify
  BY <1>2 DEF Identify
<1>3. CASE Open
  BY <1>3 DEF Open
<1>4. CASE Collected
  BY <1>4 DEF Collected
<1>5. CASE Drain
  BY <1>5 DEF Drain
<1>6. CASE SaveArtifact
  BY <1>6 DEF SaveArtifact
<1>7. CASE Publish
  BY <1>7, VanishInv DEF Publish
<1>8. CASE Crash
  BY <1>8, VanishInv DEF Crash
<1>9. CASE Stop
  BY <1>9 DEF Stop
<1>10. ASSUME NEW a \in Attempts, Survey(a) PROVE GenerationInv'
  BY <1>10 DEF Survey
<1>11. ASSUME NEW a \in Attempts, Collect(a) PROVE GenerationInv'
  BY <1>11 DEF Collect
<1>12. ASSUME NEW a \in Attempts, Settle(a) PROVE GenerationInv'
  BY <1>12 DEF Settle
<1> QED
  BY <1>1, <1>2, <1>3, <1>4, <1>5, <1>6, <1>7, <1>8, <1>9, <1>10, <1>11, <1>12
     DEF MainStep, Fail, Interrupt

(* The inductive invariant (generate_dataset, generate_attempt).           *)
THEOREM GenerationInvariant == Spec => []GenerationInv
<1>1. GenerationInv /\ [Next]_vars => GenerationInv'
  <2> SUFFICES ASSUME GenerationInv, [Next]_vars PROVE GenerationInv'
    OBVIOUS
  <2>1. CASE MainStep \/ Interrupt \/ Crash
    BY <2>1, MainStepInv
  <2>2. CASE \E a \in Attempts : ThreadStep(a)
    BY <2>2, ThreadStepInv
  <2>3. CASE UNCHANGED vars
    BY <2>3 DEF vars, files, process, GenerationInv, TypeOK, ProcessFollows,
       AttemptsFollow, AtMostOnce, ArtifactIsTheLog
  <2> QED  BY <2>1, <2>2, <2>3 DEF Next
<1> QED  BY <1>1, InitInv, PTL DEF Spec

(* No attempt asks its model twice, whatever crashes (generate_attempt).   *)
THEOREM AttemptsAreMadeOnce == Spec => []AtMostOnce
<1>1. GenerationInv => AtMostOnce
  BY DEF GenerationInv
<1> QED  BY <1>1, GenerationInvariant, PTL

(* What is published is what is on disk, for ever (save_artifact).         *)
THEOREM PublishedIsTheLog == Spec => []ArtifactIsTheLog
<1>1. GenerationInv => ArtifactIsTheLog
  BY DEF GenerationInv
<1> QED  BY <1>1, GenerationInvariant, PTL

(* Every step of the generator records, ends or publishes attempts as      *)
(* AttemptLog allows, or changes no record (generate_dataset).             *)
THEOREM GenerationImplementsLog == Spec => LogSpec
<1>1. Init => Log!Init
  BY DEF Init, Log!Init
<1>2. ASSUME GenerationInv, [Next]_vars
      PROVE  [Log!Next]_<<disk, published>>
  <2> USE DEF GenerationInv, TypeOK, Log!Next
  <2>1. ASSUME NEW a \in Attempts, ThreadStep(a)
        PROVE  Log!Record(a) \/ UNCHANGED <<disk, published>>
    <3>1. ~published
      BY <1>2, <2>1 DEF ThreadStep, OpenAttempt, BeginAttempt, EndAttempt,
         ProcessFollows, Active
    <3>2. CASE OpenAttempt(a)
      BY <1>2, <3>1, <3>2 DEF OpenAttempt, Write, Log!Record, AttemptsFollow
    <3>3. CASE BeginAttempt(a)
      BY <3>3 DEF BeginAttempt, files
    <3>4. CASE EndAttempt(a)
      BY <1>2, <3>1, <3>4 DEF EndAttempt, Write, Log!Record, AttemptsFollow, Active
    <3> QED  BY <2>1, <3>2, <3>3, <3>4 DEF ThreadStep
  <2>2. ASSUME NEW a \in Attempts, Survey(a) \/ Settle(a)
        PROVE  Log!Record(a) \/ UNCHANGED <<disk, published>>
    <3>1. ~published
      BY <1>2, <2>2 DEF Survey, Settle, ProcessFollows
    <3>2. UNCHANGED published
      BY <2>2 DEF Survey, Settle
    <3>3. \/ UNCHANGED disk
          \/ /\ disk' = [disk EXCEPT ![a] = "failed"]
             /\ disk[a] \in {"absent", "running"}
      BY <1>2, <2>2 DEF Survey, Settle, Write, Records, Ended
    <3> QED  BY <3>1, <3>2, <3>3 DEF Log!Record
  <2>3. CASE Publish
    <3>1. \A a \in Attempts : disk[a] \in {"completed", "failed"}
      BY <1>2, <2>3 DEF Publish, ProcessFollows, AttemptsFollow, Ended
    <3> QED  BY <2>3, <3>1 DEF Publish, Log!Publish
  <2>4. CASE \/ Run \/ Identify \/ Open \/ Collected \/ Drain \/ SaveArtifact
             \/ Stop \/ Crash \/ UNCHANGED vars
             \/ \E a \in Attempts : Collect(a)
    BY <2>4 DEF Run, Identify, Open, Collected, Drain, SaveArtifact, Stop,
       Crash, Collect, vars, files
  <2> QED
    BY <1>2, <2>1, <2>2, <2>3, <2>4 DEF Next, MainStep, Fail, Interrupt
<1> QED  BY <1>1, <1>2, GenerationInvariant, PTL DEF Spec, LogSpec, Log!Spec
=============================================================================
