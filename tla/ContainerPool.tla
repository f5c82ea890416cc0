---------------------------- MODULE ContainerPool ----------------------------
(***************************************************************************)
(* The worker queue of qorl.worker_pool.containers.ContainerPool: the FIFO *)
(* of free worker slots and the claim_worker context manager by which the  *)
(* rollout threads of training, evaluation and generation borrow them.     *)
(*                                                                         *)
(* claim_worker runs in its caller's thread.  A client goes through        *)
(*                                                                         *)
(*   "out"       not inside claim_worker                                   *)
(*   "checking"  at the top of the waiting loop, before the cancel test    *)
(*   "getting"   inside Queue.get                                          *)
(*   "taken"     the slot left the queue, the second cancel test is next   *)
(*   "using"     inside the body of the with statement                     *)
(*                                                                         *)
(* and another thread may act between any two of these points.             *)
(***************************************************************************)
EXTENDS Naturals, Sequences, FiniteSets, Functions

CONSTANTS Workers,      \* the worker slots of the pool
          Clients,      \* the threads that claim them
          Cancellable,  \* the clients that pass a cancel event to claim_worker
          NoWorker      \* the slot of a client that holds none

ASSUME PoolAssumption ==
    /\ IsFiniteSet(Workers)
    /\ NoWorker \notin Workers \cup Clients
    /\ Cancellable \subseteq Clients

VARIABLES available,  \* the queue of free slots
          claim,      \* where each client is in claim_worker
          slot,       \* the worker each client took from the queue
          cancelled   \* each client's cancel event

poolVars == <<available, claim, slot, cancelled>>

ClaimPoints == {"out", "checking", "getting", "taken", "using"}

PoolTypeOK ==
    /\ available \in Seq(Workers)
    /\ claim \in [Clients -> ClaimPoints]
    /\ slot \in [Clients -> Workers \cup {NoWorker}]
    /\ cancelled \in [Clients -> BOOLEAN]

\* The constructor queues every slot once.
PoolInit ==
    /\ available \in Bijection(1 .. Cardinality(Workers), Workers)
    /\ claim = [c \in Clients |-> "out"]
    /\ slot = [c \in Clients |-> NoWorker]
    /\ cancelled = [c \in Clients |-> FALSE]

-----------------------------------------------------------------------------
Interrupted(c) == c \in Cancellable /\ cancelled[c]

EnterClaim(c) ==
    /\ claim[c] = "out"
    /\ claim' = [claim EXCEPT ![c] = "checking"]
    /\ UNCHANGED <<available, slot, cancelled>>

\* Raises CancelledError, or goes on to wait for a slot.
CheckBeforeWaiting(c) ==
    /\ claim[c] = "checking"
    /\ claim' = [claim EXCEPT ![c] = IF Interrupted(c) THEN "out" ELSE "getting"]
    /\ UNCHANGED <<available, slot, cancelled>>

TakeSlot(c) ==
    /\ claim[c] = "getting"
    /\ available # <<>>
    /\ slot' = [slot EXCEPT ![c] = Head(available)]
    /\ available' = Tail(available)
    /\ claim' = [claim EXCEPT ![c] = "taken"]
    /\ UNCHANGED cancelled

\* Mutant: the timeout goes to the clients without a cancel event.
PollExpiresForOthers(c) ==
    /\ claim[c] = "getting"
    /\ c \notin Cancellable
    /\ available = <<>>
    /\ claim' = [claim EXCEPT ![c] = "checking"]
    /\ UNCHANGED <<available, slot, cancelled>>

\* Only a client with a cancel event waits with a timeout; Queue.get raises
\* Empty only while the queue is empty.
PollExpires(c) ==
    /\ claim[c] = "getting"
    /\ c \in Cancellable
    /\ available = <<>>
    /\ claim' = [claim EXCEPT ![c] = "checking"]
    /\ UNCHANGED <<available, slot, cancelled>>

\* Mutant: the slot is returned by the body and again by the finally clause.
PutBackTwice(c) ==
    /\ available' = Append(Append(available, slot[c]), slot[c])
    /\ slot' = [slot EXCEPT ![c] = NoWorker]
    /\ claim' = [claim EXCEPT ![c] = "out"]

PutBack(c) ==
    /\ available' = Append(available, slot[c])
    /\ slot' = [slot EXCEPT ![c] = NoWorker]
    /\ claim' = [claim EXCEPT ![c] = "out"]

\* Mutant: the second cancel test stands before the try statement.
AbandonSlotOutsideTry(c) ==
    /\ claim[c] = "taken"
    /\ Interrupted(c)
    /\ slot' = [slot EXCEPT ![c] = NoWorker]
    /\ claim' = [claim EXCEPT ![c] = "out"]
    /\ UNCHANGED <<available, cancelled>>

\* The event was set while the client waited: the finally clause still returns
\* the slot before CancelledError leaves the context manager.
AbandonSlot(c) ==
    /\ claim[c] = "taken"
    /\ Interrupted(c)
    /\ PutBack(c)
    /\ UNCHANGED cancelled

EnterBody(c) ==
    /\ claim[c] = "taken"
    /\ ~Interrupted(c)
    /\ claim' = [claim EXCEPT ![c] = "using"]
    /\ UNCHANGED <<available, slot, cancelled>>

\* The body ends, by returning or by any exception.
ReleaseSlot(c) ==
    /\ claim[c] = "using"
    /\ PutBack(c)
    /\ UNCHANGED cancelled

\* Another thread sets the client's event, at any moment.
SetCancel(c) ==
    /\ cancelled' = [cancelled EXCEPT ![c] = TRUE]
    /\ UNCHANGED <<available, claim, slot>>

\* One step of a client that is waiting for a worker or has just got one.
ClaimStep(c) ==
    \/ CheckBeforeWaiting(c)
    \/ TakeSlot(c)
    \/ PollExpires(c)
    \/ AbandonSlot(c)
    \/ EnterBody(c)

PoolNext ==
    \E c \in Clients :
        \/ EnterClaim(c)
        \/ ClaimStep(c)
        \/ ReleaseSlot(c)
        \/ SetCancel(c)

PoolSpec == PoolInit /\ [][PoolNext]_poolVars

\* Threads are scheduled: a client that can take its next step in claim_worker
\* does. Nothing says that a body ever ends or that an event is ever set.
FairPoolSpec == PoolSpec /\ \A c \in Clients : WF_poolVars(ClaimStep(c))

-----------------------------------------------------------------------------
Queued(w) == \E i \in DOMAIN available : available[i] = w

(* Two clients never hold one worker: a rollout's statements are the only  *)
(* ones on its container while it measures them.                           *)
ExclusiveLease ==
    \A c, d \in Clients : slot[c] = slot[d] /\ slot[c] # NoWorker => c = d

(* Whatever way a client leaves claim_worker, cancelled before the wait,   *)
(* during it, between the queue and the body, or by an error in the body,  *)
(* every worker is still in the queue or with a client: capacity is never  *)
(* lost to a cancelled rollout.                                            *)
NoWorkerLost ==
    \A w \in Workers : Queued(w) \/ \E c \in Clients : slot[c] = w

(* A client outside claim_worker holds nothing, and one in the body holds  *)
(* a slot.                                                                 *)
SlotMatchesClaim ==
    \A c \in Clients : slot[c] # NoWorker <=> claim[c] \in {"taken", "using"}

(* A worker in the queue is there once and with nobody.                    *)
QueueIsFree ==
    /\ \A i, j \in DOMAIN available : available[i] = available[j] => i = j
    /\ \A i \in DOMAIN available, c \in Clients : slot[c] # available[i]

(* The inductive invariant of the pool.                                    *)
PoolInv ==
    /\ PoolTypeOK
    /\ SlotMatchesClaim
    /\ QueueIsFree
    /\ ExclusiveLease
    /\ NoWorkerLost

(* A cancelled client does not wait for a worker that may never come back: *)
(* its poll notices the event although every body runs forever.            *)
CancelledWaiterLeaves ==
    \A c \in Cancellable :
        claim[c] \in {"checking", "getting", "taken"} /\ cancelled[c]
            ~> claim[c] = "out"

(* The pool implements the abstract lease: the borrower of a worker is the *)
(* client whose slot it is.                                                *)
Borrower(w) ==
    IF \E c \in Clients : slot[c] = w
    THEN CHOOSE c \in Clients : slot[c] = w
    ELSE NoWorker

Loans == [w \in Workers |-> Borrower(w)]

Lease == INSTANCE WorkerLease WITH borrower <- Loans, Nobody <- NoWorker

ImplementsLease == Lease!LeaseSpec
=============================================================================
