----------------------------- MODULE PoolLifecycle -----------------------------
(***************************************************************************)
(* The life of a pool of containers (qorl.worker_pool.containers): its     *)
(* owner creates, restores and starts a Docker project per slot, each of   *)
(* the three in parallel threads, and removes what it created when it is   *)
(* done or when anything fails.                                            *)
(*                                                                         *)
(* The owner, the thread that runs start_pool or runtime.start, is         *)
(*                                                                         *)
(*   "idle"       before it starts the pool                                *)
(*   "waiting"    for the results of an operation on every slot            *)
(*   "unwinding"  in the exit of the executor, after a failure             *)
(*   "open"       the pool is lent to its users                            *)
(*   "closing"    and removes the project of slot `next`                   *)
(*   "closed"                                                              *)
(***************************************************************************)
EXTENDS Integers

CONSTANT SlotCount  \* the number of workers

ASSUME LifecycleAssumption == SlotCount \in Nat \ {0}

Slots == 1 .. SlotCount
Operations == <<"create", "restore", "start", "index">>

VARIABLES owner,    \* see above
          current,  \* the operation it performs, an index of Operations
          task,     \* the future of each slot in that operation
          level,    \* the operations that are finished on each slot
          foreign,  \* slots under whose project name Docker has another's project
          present,  \* slots whose project this pool has created in Docker
          created,  \* slots with slot.created
          next,     \* the slot close comes to
          orphans   \* history: the slots whose threads the executor's exit has left behind

ownerVars == <<owner, current, next>>
slotVars == <<level, present, created>>
poolVars == <<ownerVars, task, slotVars, foreign, orphans>>

PoolTypeOK ==
    /\ owner \in {"idle", "waiting", "unwinding", "open", "closing", "closed"}
    /\ current \in DOMAIN Operations
    /\ task \in [Slots -> {"none", "queued", "running", "marked", "composed",
                           "done", "failed", "cancelled"}]
    /\ level \in [Slots -> 0 .. 3]
    /\ {foreign, present, created} \subseteq SUBSET Slots
    /\ next \in 0 .. SlotCount
    /\ orphans \subseteq Slots

PoolInit ==
    /\ owner = "idle" /\ current = 1 /\ next = SlotCount
    /\ task = [s \in Slots |-> "none"]
    /\ level = [s \in Slots |-> 0]
    /\ foreign \in SUBSET Slots
    /\ present = {} /\ created = {} /\ orphans = {}

-----------------------------------------------------------------------------
(* The operation on one slot, in a thread of the executor.  While it       *)
(* creates, it is "running" up to slot.created, "marked" up to the compose *)
(* create, and then "composed".                                            *)

Become(s, state) == task' = [task EXCEPT ![s] = state]

Begin(s) ==
    /\ task[s] = "queued"
    /\ Become(s, "running")
    /\ UNCHANGED <<ownerVars, slotVars, foreign, orphans>>

Busy(s) == task[s] \in {"running", "marked", "composed"}

Creating == Operations[current] = "create"

\* The project's name is free, and the slot is marked.
Own(s) ==
    /\ task[s] = "running" /\ Creating
    /\ s \notin foreign
    /\ Become(s, "marked")
    /\ created' = created \cup {s}
    /\ UNCHANGED <<ownerVars, level, present, foreign, orphans>>

\* Mutant: the slot is marked after the project has been created.
ComposeUnmarked(s) ==
    /\ task[s] = "marked"
    /\ present' = present \cup {s}
    /\ Become(s, "composed") \/ Become(s, "failed")
    /\ created' = created \ {s}
    /\ UNCHANGED <<ownerVars, level, foreign, orphans>>

\* compose create; one that fails may leave resources.
Compose(s) ==
    /\ task[s] = "marked"
    /\ present' = present \cup {s}
    /\ Become(s, "composed") \/ Become(s, "failed")
    /\ UNCHANGED <<ownerVars, level, created, foreign, orphans>>

\* After a removal, the run of the restore creates the slot's volume again and
\* compose up its container.
Recreate(s) ==
    /\ task[s] = "running" /\ ~Creating
    /\ s \notin present
    /\ present' = present \cup {s}
    /\ UNCHANGED <<ownerVars, task, level, created, foreign, orphans>>

\* The container is inspected; restored from the archive; or has come up with its
\* configuration.
Succeed(s) ==
    /\ task[s] = IF Creating THEN "composed" ELSE "running"
    /\ s \in present
    /\ Become(s, "done")
    /\ level' = [level EXCEPT ![s] = @ + 1]
    /\ UNCHANGED <<ownerVars, present, created, foreign, orphans>>

\* Another project has the name; a command fails or times out.
Fail(s) ==
    /\ Busy(s)
    /\ Become(s, "failed")
    /\ UNCHANGED <<ownerVars, slotVars, foreign, orphans>>

-----------------------------------------------------------------------------
(* The owner: create, restore, start and load_indexes in turn, each of the *)
(* first three by _parallel.                                               *)

Submit == task' = [s \in Slots |-> "queued"]

BeginClose ==
    /\ owner' = "closing" /\ next' = SlotCount
    /\ UNCHANGED current

Open ==
    /\ owner = "idle"
    /\ \/ owner' = "waiting" /\ Submit /\ UNCHANGED <<current, next>>
       \/ BeginClose /\ UNCHANGED task   \* the host's topology is not valid
    /\ UNCHANGED <<slotVars, foreign, orphans>>

\* restore first looks for the archive.
Advance ==
    /\ owner = "waiting" /\ Operations[current] # "index"
    /\ \A s \in Slots : task[s] = "done"
    /\ \/ /\ current' = current + 1
          /\ IF Operations[current'] = "index"
             THEN task' = [s \in Slots |-> "none"] ELSE Submit
          /\ UNCHANGED <<owner, next>>
       \/ Creating /\ BeginClose /\ UNCHANGED task
    /\ UNCHANGED <<slotVars, foreign, orphans>>

LoadIndexes ==
    /\ owner = "waiting" /\ Operations[current] = "index"
    /\ \/ owner' = "open" /\ UNCHANGED <<current, next>>
       \/ BeginClose
    /\ UNCHANGED <<task, slotVars, foreign, orphans>>

\* A result is an error, or the owner is interrupted: the futures that have not
\* begun are cancelled.
Unwind ==
    /\ owner = "waiting" /\ Operations[current] # "index"
    /\ owner' = "unwinding"
    /\ task' = [s \in Slots |-> IF task[s] = "queued" THEN "cancelled"
                                ELSE task[s]]
    /\ UNCHANGED <<current, next, slotVars, foreign, orphans>>

Propagate == Unwind /\ \E s \in Slots : task[s] = "failed"

\* An interrupt of close ends it.
Interrupt ==
    \/ Unwind
    \/ /\ \/ owner = "waiting" /\ Operations[current] = "index" /\ BeginClose
          \/ owner = "closing" /\ owner' = "closed" /\ UNCHANGED <<current, next>>
       /\ UNCHANGED <<task, slotVars, foreign, orphans>>

\* Mutant: the exit waits for every future to have run.
UnwoundWhenDone ==
    /\ owner = "unwinding"
    /\ \A s \in Slots : task[s] \in {"done", "failed"}
    /\ BeginClose
    /\ UNCHANGED <<task, slotVars, foreign, orphans>>

\* The exit of the executor waits for its threads.
Unwound ==
    /\ owner = "unwinding"
    /\ \A s \in Slots : ~Busy(s)
    /\ BeginClose
    /\ UNCHANGED <<task, slotVars, foreign, orphans>>

\* A second interrupt ends that wait.
InterruptExit ==
    /\ owner = "unwinding"
    /\ BeginClose
    /\ orphans' = {s \in Slots : Busy(s)}
    /\ UNCHANGED <<task, slotVars, foreign>>

CloseOpen ==
    /\ owner = "open"
    /\ BeginClose
    /\ UNCHANGED <<task, slotVars, foreign, orphans>>

\* One turn of the loop of close: a removal that fails is left for a retry.
Remove ==
    /\ owner = "closing" /\ next > 0
    /\ \/ /\ next \in created
          /\ created' = created \ {next} /\ present' = present \ {next}
       \/ UNCHANGED <<created, present>>
    /\ next' = next - 1
    /\ UNCHANGED <<owner, current, task, level, foreign, orphans>>

Closed ==
    /\ owner = "closing" /\ next = 0
    /\ owner' = "closed"
    /\ UNCHANGED <<current, next, task, slotVars, foreign, orphans>>

-----------------------------------------------------------------------------
SlotStep(s) ==
    Begin(s) \/ Own(s) \/ Compose(s) \/ Recreate(s) \/ Succeed(s) \/ Fail(s)

OwnerStep ==
    \/ Open \/ Advance \/ LoadIndexes \/ Propagate \/ Unwound \/ CloseOpen
    \/ Remove \/ Closed

PoolNext ==
    \/ \E s \in Slots : SlotStep(s)
    \/ OwnerStep \/ Interrupt \/ InterruptExit

PoolSpec == PoolInit /\ [][PoolNext]_poolVars

\* Docker's commands end and the threads of the executor and of the owner run.
FairPoolSpec ==
    /\ PoolSpec
    /\ WF_poolVars(OwnerStep) /\ \A s \in Slots : WF_poolVars(SlotStep(s))

-----------------------------------------------------------------------------
(* Every project that this pool has in Docker is one that close will       *)
(* remove: a create that fails half-way, a removal that fails and a        *)
(* failure on another slot leave nothing that nobody knows of, unless an   *)
(* interrupt has left threads behind (containers._create,                  *)
(* containers.close).                                                      *)
NothingForgotten == orphans = {} => present \subseteq created

(* A project that exists under the slot's name and is not this pool's is   *)
(* never removed (containers._create).                                     *)
ForeignUntouched == created \cap foreign = {}

(* "Finish active operations before propagating failure or allowing        *)
(* cleanup" (containers._parallel): close removes nothing under a thread   *)
(* that still creates, restores or starts it.                              *)
CleanupIsAlone ==
    owner \in {"closing", "closed"} =>
        \A s \in Slots : ~Busy(s) /\ task[s] # "queued"

(* A pool that is lent has every slot created, restored and started: no    *)
(* failure of a thread is lost (containers._parallel, start_pool).         *)
OpenIsReady ==
    owner = "open" =>
        /\ \A s \in Slots : level[s] = 3
        /\ present = Slots /\ created = Slots

(* The stages advance together: what is finished on a slot follows from    *)
(* the current operation and its future, and what is finished there is in  *)
(* Docker until the pool closes.                                           *)
LevelsFollow ==
    /\ \A s \in Slots :
          /\ level[s] = IF task[s] = "done" THEN current ELSE current - 1
          /\ task[s] \in {"marked", "composed"} => Creating
          /\ owner \notin {"closing", "closed"} =>
                /\ task[s] \in {"marked", "composed"} => s \in created
                /\ level[s] > 0 \/ task[s] = "composed" => s \in present
          /\ owner = "idle" \/ Operations[current] = "index" => task[s] = "none"
          /\ owner = "unwinding" => task[s] # "queued"
    /\ owner = "idle" => current = 1
    /\ owner = "open" => Operations[current] = "index"
    /\ owner = "unwinding" => Operations[current] # "index"
    /\ orphans # {} => owner \in {"closing", "closed"}

(* All of the above at once: what a pool that is being started, lent or    *)
(* closed always is, whatever failed before (containers).                  *)
PoolInv ==
    /\ PoolTypeOK
    /\ NothingForgotten
    /\ ForeignUntouched
    /\ orphans = {} => CleanupIsAlone
    /\ OpenIsReady
    /\ LevelsFollow

(* A start that fails ends, with the pool closed (start_pool).             *)
FailedStartCloses == owner = "unwinding" ~> owner = "closed"
=============================================================================
