------------------------- MODULE PoolLifecycle_proofs -------------------------
(***************************************************************************)
(* The safety of PoolLifecycle and EnvStart for every number of slots.     *)
(*                                                                         *)
(* PoolInv is inductive.  What it says of the cleanup and of Docker holds  *)
(* unless the exit of the executor has left threads behind: only then may  *)
(* a thread take a step after the owner began to close.  The conjunct      *)
(* LevelsFollow holds in any case: it says how far each slot is from the   *)
(* stage and the slot's future alone, so a pool that opens has gone        *)
(* through all stages.  EnvInv adds what the coroutine knows of the        *)
(* thread, which nothing interrupts.                                       *)
(***************************************************************************)
EXTENDS EnvStart, TLAPS

(* The stages are create, restore, start and index, in this order          *)
(* (start_pool).                                                           *)
LEMMA StageFacts ==
    /\ DOMAIN Operations = 1 .. 4
    /\ \A n \in 1 .. 4 : /\ Operations[n] = "create" <=> n = 1
                         /\ Operations[n] = "index" <=> n = 4
<1>1. DOMAIN Operations = 1 .. 4
  BY DEF Operations
<1>2. /\ Operations[1] = "create" /\ Operations[2] = "restore"
      /\ Operations[3] = "start" /\ Operations[4] = "index"
  BY DEF Operations
<1> QED  BY <1>1, <1>2

(* The pool starts with nothing in Docker, whatever is there already       *)
(* (ContainerPool.__init__).                                               *)
LEMMA PoolInitInv == PoolInit => PoolInv
BY LifecycleAssumption, StageFacts DEF PoolInit, PoolInv, PoolTypeOK,
   NothingForgotten, ForeignUntouched, CleanupIsAlone, OpenIsReady,
   LevelsFollow, Slots, Busy, Creating

(* A thread's step disturbs only its own slot, and while the owner still   *)
(* waits for it unless it was left behind (containers._create, _restore,   *)
(* _start).                                                                *)
LEMMA SlotStepInv ==
    ASSUME PoolInv, NEW s \in Slots, SlotStep(s)
    PROVE  PoolInv'
<1> USE StageFacts
<1> DEFINE Frame == UNCHANGED <<owner, current, next, foreign, orphans>>
<1>1. Frame
  BY DEF SlotStep, Begin, Own, Compose, Recreate, Succeed, Fail, ownerVars
<1>2. task[s] \in {"queued", "running", "marked", "composed"}
  BY DEF SlotStep, Begin, Own, Compose, Recreate, Succeed, Fail, Busy,
         PoolInv, PoolTypeOK, LevelsFollow
<1>3. /\ orphans = {} => owner \in {"waiting", "unwinding"}
      /\ owner \in {"waiting", "unwinding", "closing", "closed"}
      /\ current \in 1 .. 3
      /\ task[s] = "queued" => owner # "unwinding"
  BY <1>2 DEF PoolInv, PoolTypeOK, CleanupIsAlone, LevelsFollow, Busy, Creating
<1>4. CASE Begin(s)
  BY <1>1, <1>3, <1>4 DEF Begin, Become, PoolInv, PoolTypeOK, NothingForgotten,
     ForeignUntouched, CleanupIsAlone, OpenIsReady, LevelsFollow, Busy,
     Creating, slotVars
<1>5. CASE Own(s)
  BY <1>1, <1>3, <1>5 DEF Own, Become, PoolInv, PoolTypeOK, NothingForgotten,
     ForeignUntouched, CleanupIsAlone, OpenIsReady, LevelsFollow, Busy, Creating
<1>6. CASE Compose(s)
  BY <1>1, <1>3, <1>6 DEF Compose, Become, PoolInv, PoolTypeOK,
     NothingForgotten, ForeignUntouched, CleanupIsAlone, OpenIsReady,
     LevelsFollow, Busy, Creating
<1>7. CASE Recreate(s)
  BY <1>1, <1>3, <1>7 DEF Recreate, PoolInv, PoolTypeOK, NothingForgotten,
     ForeignUntouched, CleanupIsAlone, OpenIsReady, LevelsFollow, Busy, Creating
<1>8. CASE Succeed(s)
  BY <1>1, <1>3, <1>8 DEF Succeed, Become, PoolInv, PoolTypeOK,
     NothingForgotten, ForeignUntouched, CleanupIsAlone, OpenIsReady,
     LevelsFollow, Busy, Creating
<1>9. CASE Fail(s)
  BY <1>1, <1>3, <1>9 DEF Fail, Become, PoolInv, PoolTypeOK, NothingForgotten,
     ForeignUntouched, CleanupIsAlone, OpenIsReady, LevelsFollow, Busy,
     Creating, slotVars
<1> QED  BY <1>4, <1>5, <1>6, <1>7, <1>8, <1>9 DEF SlotStep

(* The stages follow one another, the exit of the executor waits, and      *)
(* close removes what is marked (containers._parallel, containers.close).  *)
LEMMA OwnerStepInv ==
    ASSUME PoolInv, OwnerStep \/ Interrupt \/ InterruptExit
    PROVE  PoolInv'
<1> USE LifecycleAssumption, StageFacts
    DEF PoolInv, PoolTypeOK, NothingForgotten, ForeignUntouched,
        CleanupIsAlone, OpenIsReady, LevelsFollow, Slots, Busy, Creating,
        slotVars
<1>1. CASE Open
  BY <1>1 DEF Open, Submit, BeginClose
<1>2. CASE Advance
  <2>1. CASE UNCHANGED task /\ Creating /\ BeginClose
    BY <1>2, <2>1 DEF Advance, BeginClose
  <2>2. CASE current' = current + 1 /\ UNCHANGED <<owner, next>>
    <3>1. current \in 1 .. 3 /\ current' \in 2 .. 4
      BY <1>2, <2>2 DEF Advance
    <3>2. \A s \in Slots : level[s] = current
      BY <1>2 DEF Advance
    <3>3. /\ owner = "waiting" /\ UNCHANGED <<level, present, created, foreign, orphans>>
          /\ task' = IF current' = 4 THEN [s \in Slots |-> "none"]
                     ELSE [s \in Slots |-> "queued"]
      BY <1>2, <2>2, <3>1 DEF Advance, Submit, BeginClose
    <3> QED  BY <2>2, <3>1, <3>2, <3>3
  <2> QED  BY <1>2, <2>1, <2>2 DEF Advance
<1>3. CASE LoadIndexes
  <2>1. /\ current = 4
        /\ UNCHANGED <<current, task, level, present, created, foreign, orphans>>
        /\ \A s \in Slots : task[s] = "none" /\ level[s] = 3
    BY <1>3 DEF LoadIndexes, BeginClose
  <2>2. present = Slots /\ created = Slots /\ orphans = {}
    <3>1. \A s \in Slots : s \in present
      BY <1>3, <2>1 DEF LoadIndexes
    <3>2. present \subseteq Slots /\ created \subseteq Slots
      OBVIOUS
    <3>3. orphans = {} /\ present \subseteq created
      BY <1>3 DEF LoadIndexes
    <3> QED  BY <3>1, <3>2, <3>3
  <2>3. owner' \in {"open", "closing"} /\ next' \in 0 .. SlotCount
    BY <1>3 DEF LoadIndexes, BeginClose
  <2> QED  BY <2>1, <2>2, <2>3
<1>4. CASE Unwind
  BY <1>4 DEF Unwind
<1>5. CASE Unwound
  BY <1>5 DEF Unwound, BeginClose
<1>6. CASE CloseOpen
  BY <1>6 DEF CloseOpen, BeginClose
<1>7. CASE Remove
  BY <1>7 DEF Remove
<1>8. CASE Closed
  BY <1>8 DEF Closed
<1>9. CASE Interrupt /\ ~Unwind
  <2>1. UNCHANGED <<current, task, level, present, created, foreign, orphans>>
    BY <1>9 DEF Interrupt, BeginClose
  <2>2. CASE owner = "closing" /\ owner' = "closed" /\ UNCHANGED next
    BY <2>1, <2>2
  <2>3. CASE owner = "waiting" /\ current = 4 /\ owner' = "closing"
             /\ next' = SlotCount
    BY <2>1, <2>3
  <2> QED  BY <1>9, <2>2, <2>3 DEF Interrupt, BeginClose
<1>10. CASE InterruptExit
  BY SMTT(30), <1>10 DEF InterruptExit, BeginClose
<1> QED
  BY <1>1, <1>2, <1>3, <1>4, <1>5, <1>6, <1>7, <1>8, <1>9, <1>10
     DEF OwnerStep, Propagate, Interrupt

(* Whatever fails and whenever it is interrupted, a pool removes nobody    *)
(* else's project and lends no slot that is not ready; and unless its      *)
(* executor's exit leaves threads behind, it forgets no slot and cleans    *)
(* up under no thread (containers._parallel, containers.close).            *)
THEOREM PoolInvariant == PoolSpec => []PoolInv
<1>1. PoolInv /\ [PoolNext]_poolVars => PoolInv'
  <2> SUFFICES ASSUME PoolInv, [PoolNext]_poolVars
               PROVE  PoolInv'
    OBVIOUS
  <2>1. CASE \E s \in Slots : SlotStep(s)
    BY <2>1, SlotStepInv
  <2>2. CASE OwnerStep \/ Interrupt \/ InterruptExit
    BY <2>2, OwnerStepInv
  <2>3. CASE UNCHANGED poolVars
    BY <2>3 DEF poolVars, ownerVars, slotVars, PoolInv, PoolTypeOK,
       NothingForgotten, ForeignUntouched, CleanupIsAlone, OpenIsReady,
       LevelsFollow, Busy, Creating
  <2> QED  BY <2>1, <2>2, <2>3 DEF PoolNext
<1> QED  BY <1>1, PoolInitInv, PTL DEF PoolSpec

(* The pool's invariant holds under the environment too, together with     *)
(* what its coroutine knows of its thread (environment.start).             *)
THEOREM EnvInvariant == Spec => []EnvInv
<1>1. Init => EnvInv
  BY PoolInitInv DEF Init, EnvInv, EnvHasItsPool, EnvTypeOK, PoolInv, PoolInit
<1>2. ASSUME EnvInv, [Next]_vars
      PROVE  EnvInv'
  <2> USE DEF EnvInv, EnvHasItsPool, EnvTypeOK
  <2>0. CASE RunScript \/ InterruptScript
    <3>1. PoolInv'
      BY <1>2, <2>0, SlotStepInv, OwnerStepInv
         DEF RunScript, InterruptScript, ThreadStep, OwnerStep
    <3>2. env = "script" /\ env' = env /\ registered' = registered
      BY <2>0 DEF RunScript, InterruptScript
    <3> QED  BY <1>2, <3>1, <3>2 DEF PoolInv
  <2>1. CASE RunThread
    <3>1. PoolInv'
      BY <1>2, <2>1, SlotStepInv, OwnerStepInv
         DEF RunThread, ThreadStep, OwnerStep
    <3>2. orphans' = {} /\ (registered => owner' = "open")
      BY <1>2, <2>1
         DEF RunThread, Starting, ThreadStep, SlotStep, Begin, Own, Compose, Recreate,
             Succeed, Fail, ownerVars, Open, Advance, LoadIndexes, Propagate,
             Unwind, Unwound, Remove, Closed
    <3> QED  BY <1>2, <2>1, <3>1, <3>2 DEF RunThread, Starting, PoolInv
  <2>2. CASE StopRuntime /\ registered
    BY <1>2, <2>2, OwnerStepInv DEF StopRuntime, OwnerStep, CloseOpen,
       BeginClose, PoolInv
  <2>3. CASE UNCHANGED poolVars
    <3>1. PoolInv'
      BY <1>2, <2>3
         DEF poolVars, ownerVars, slotVars, PoolInv, PoolTypeOK,
             NothingForgotten, ForeignUntouched, CleanupIsAlone, OpenIsReady,
             LevelsFollow, Busy, Creating
    <3>2. UNCHANGED <<owner, orphans>>
      BY <2>3 DEF poolVars, ownerVars
    <3>3. CASE StopRuntime
      <4>1. ~registered
        BY <1>2, <3>2, <3>3 DEF StopRuntime, CloseOpen, BeginClose
      <4>2. owner = "closed" /\ env' = "ended" /\ registered' = FALSE
        BY <1>2, <3>3, <4>1 DEF StopRuntime, ThreadDone
      <4>3. orphans = {}
        BY <1>2, <3>3 DEF StopRuntime
      <4> QED  BY <1>2, <3>1, <3>2, <4>2, <4>3 DEF PoolInv
    <3>4. CASE Start \/ CancelStart \/ StartReturns \/ StopReturns \/ Register
      <4>1. PoolTypeOK'
        BY <3>1 DEF PoolInv
      <4>2. CASE Start \/ CancelStart
        BY <1>2, <3>1, <3>2, <4>1, <4>2 DEF Start, CancelStart
      <4>3. CASE StartReturns
        BY <1>2, <3>1, <3>2, <4>1, <4>3 DEF StartReturns, ThreadDone
      <4>4. CASE StopReturns
        BY <1>2, <3>1, <3>2, <4>1, <4>4 DEF StopReturns
      <4>5. CASE Register
        BY <1>2, <3>1, <3>2, <4>1, <4>5 DEF Register, Starting
      <4> QED  BY <3>4, <4>2, <4>3, <4>4, <4>5
    <3>5. CASE RunThread
      BY <1>2, <3>1, <3>2, <3>5 DEF RunThread, PoolInv
    <3>6. CASE UNCHANGED vars
      BY <1>2, <3>1, <3>2, <3>6 DEF vars, PoolInv
    <3> QED  BY <1>2, <2>0, <3>3, <3>4, <3>5, <3>6 DEF Next
  <2>4. CASE Start \/ CancelStart \/ StartReturns \/ StopReturns \/ Register
    BY <2>3, <2>4 DEF Start, CancelStart, StartReturns, StopReturns, Register
  <2>5. CASE StopRuntime /\ ~registered
    BY <2>3, <2>5 DEF StopRuntime
  <2>6. CASE UNCHANGED vars
    BY <2>3, <2>6 DEF vars
  <2> QED  BY <1>2, <2>0, <2>1, <2>2, <2>4, <2>5, <2>6 DEF Next
<1> QED  BY <1>1, <1>2, PTL DEF Spec

(* An environment that is served has its pool, and one that has ended has  *)
(* left none behind: the coroutine forgets its thread in no interleaving   *)
(* of cancellations and failures (environment.start, environment.stop).    *)
THEOREM EnvKeepsItsPool == Spec => []EnvHasItsPool
<1>1. EnvInv => EnvHasItsPool
  BY DEF EnvInv
<1> QED  BY <1>1, EnvInvariant, PTL
=============================================================================
