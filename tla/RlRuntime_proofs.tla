-------------------------- MODULE RlRuntime_proofs --------------------------
(***************************************************************************)
(* The worker queue is correct for every set of workers and clients, and   *)
(* cancelling and draining the rollouts of the environment service is      *)
(* correct for every number of rollouts, workers and permits and for both  *)
(* lease scopes.                                                           *)
(*                                                                         *)
(* The first part is about ContainerPool alone.  Its lemmas are about      *)
(* single actions, so that the second part can cite them for the same      *)
(* actions inside the larger steps of a rollout's thread: the pool's part  *)
(* of every step is settled there, and what is left is which thread points *)
(* a step leads to (ThreadStepFacts) and what the event loop's steps do to *)
(* the registry and the drains.                                            *)
(***************************************************************************)
EXTENDS RlRuntime, FiniteSetTheorems, FunctionTheorems, SequenceTheorems, TLAPS

USE PoolAssumption

-----------------------------------------------------------------------------
(* The worker queue.                                                       *)

(* Every worker is in the queue when the pool is built.                    *)
LEMMA InitPool == PoolInit => PoolInv
<1> SUFFICES ASSUME PoolInit PROVE PoolInv
  OBVIOUS
<1> DEFINE n == Cardinality(Workers)
<1>1. n \in Nat
  BY FS_CardinalityType
<1>2. /\ available \in [1 .. n -> Workers]
      /\ \A i, j \in 1 .. n : available[i] = available[j] => i = j
      /\ \A w \in Workers : \E i \in 1 .. n : available[i] = w
  BY DEF PoolInit, Bijection, Injection, Surjection, IsInjective
<1>3. available \in Seq(Workers) /\ DOMAIN available = 1 .. n
  BY <1>1, <1>2
<1>4. QED
  BY <1>2, <1>3
  DEF PoolInit, PoolInv, PoolTypeOK, SlotMatchesClaim, QueueIsFree,
      ExclusiveLease, NoWorkerLost, Queued, ClaimPoints

(* Moving a client between two points of claim_worker that agree about     *)
(* holding a slot disturbs nothing.                                        *)
LEMMA MovePreservesPool ==
  ASSUME NEW c \in Clients, NEW p \in ClaimPoints,
         PoolInv,
         claim' = [claim EXCEPT ![c] = p],
         p \in {"taken", "using"} <=> claim[c] \in {"taken", "using"},
         UNCHANGED <<available, slot>>,
         cancelled' \in [Clients -> BOOLEAN]
  PROVE  PoolInv'
BY DEF PoolInv, PoolTypeOK, SlotMatchesClaim, QueueIsFree, ExclusiveLease,
       NoWorkerLost, Queued

(* The slot that is taken leaves the queue.                                *)
LEMMA TakeSlotPreservesPool ==
  ASSUME NEW c \in Clients, PoolInv, TakeSlot(c)
  PROVE  PoolInv'
<1> DEFINE w == Head(available)
<1>1. /\ available \in Seq(Workers) /\ available # <<>>
      /\ slot \in [Clients -> Workers \cup {NoWorker}]
      /\ slot' = [slot EXCEPT ![c] = w]
      /\ slot[c] = NoWorker
  BY DEF TakeSlot, PoolInv, PoolTypeOK, SlotMatchesClaim
<1>2. /\ w \in Workers /\ w = available[1]
      /\ available' \in Seq(Workers)
      /\ DOMAIN available = 1 .. Len(available)
      /\ DOMAIN available' = 1 .. Len(available) - 1
      /\ Len(available) \in Nat \ {0}
      /\ \A i \in DOMAIN available' : available'[i] = available[i + 1]
  BY <1>1, HeadTailProperties DEF TakeSlot
<1>3. PoolTypeOK' /\ SlotMatchesClaim'
  BY <1>1, <1>2
  DEF TakeSlot, PoolInv, PoolTypeOK, SlotMatchesClaim, ClaimPoints
<1>4. \A i \in DOMAIN available' : available'[i] # w
  BY <1>2 DEF PoolInv, QueueIsFree
<1>5. QueueIsFree'
  <2>1. \A i, j \in DOMAIN available' : available'[i] = available'[j] => i = j
    BY <1>2 DEF PoolInv, QueueIsFree
  <2>2. \A i \in DOMAIN available', d \in Clients : slot'[d] # available'[i]
    BY <1>1, <1>2, <1>4 DEF PoolInv, QueueIsFree
  <2>3. QED
    BY <2>1, <2>2 DEF QueueIsFree
<1>6. ExclusiveLease'
  BY <1>1, <1>2 DEF PoolInv, QueueIsFree, ExclusiveLease
<1>7. NoWorkerLost'
  <2> SUFFICES ASSUME NEW v \in Workers
               PROVE  Queued(v)' \/ \E d \in Clients : slot'[d] = v
    BY DEF NoWorkerLost
  <2>1. CASE v = w
    BY <1>1, <2>1
  <2>2. CASE v # w /\ Queued(v)
    <3>1. PICK i \in DOMAIN available : available[i] = v
      BY <2>2 DEF Queued
    <3>2. i # 1 /\ i - 1 \in DOMAIN available' /\ available'[i - 1] = v
      BY <1>2, <2>2, <3>1
    <3>3. QED
      BY <3>2 DEF Queued
  <2>3. CASE v # w /\ \E d \in Clients : slot[d] = v
    BY <1>1, <2>3
  <2>4. QED
    BY <2>1, <2>2, <2>3 DEF PoolInv, NoWorkerLost
<1>8. QED
  BY <1>3, <1>5, <1>6, <1>7 DEF PoolInv

(* Returning a slot is the same step after a cancelled wait and after the  *)
(* body.                                                                   *)
LEMMA PutBackPreservesPool ==
  ASSUME NEW c \in Clients, PoolInv, PutBack(c),
         claim[c] \in {"taken", "using"},
         cancelled' \in [Clients -> BOOLEAN]
  PROVE  PoolInv'
<1> DEFINE w == slot[c]
<1>1. /\ available \in Seq(Workers)
      /\ slot \in [Clients -> Workers \cup {NoWorker}]
      /\ claim \in [Clients -> ClaimPoints]
      /\ slot' = [slot EXCEPT ![c] = NoWorker]
      /\ claim' = [claim EXCEPT ![c] = "out"]
      /\ w \in Workers
  BY DEF PutBack, PoolInv, PoolTypeOK, SlotMatchesClaim
<1>2. /\ available' \in Seq(Workers)
      /\ DOMAIN available = 1 .. Len(available)
      /\ DOMAIN available' = 1 .. Len(available) + 1
      /\ Len(available) \in Nat
      /\ \A i \in DOMAIN available : available'[i] = available[i]
      /\ available'[Len(available) + 1] = w
  BY <1>1, AppendProperties DEF PutBack
<1>3. PoolTypeOK' /\ SlotMatchesClaim'
  BY <1>1, <1>2
  DEF PoolInv, PoolTypeOK, SlotMatchesClaim, ClaimPoints
<1>4. QueueIsFree'
  <2>1. \A i \in DOMAIN available : available[i] # w
    BY DEF PoolInv, QueueIsFree
  <2>2. \A d \in Clients : slot'[d] # w
    BY <1>1 DEF PoolInv, ExclusiveLease
  <2>3. \A i, j \in DOMAIN available' : available'[i] = available'[j] => i = j
    BY <1>2, <2>1 DEF PoolInv, QueueIsFree
  <2>4. \A i \in DOMAIN available', d \in Clients : slot'[d] # available'[i]
    <3> SUFFICES ASSUME NEW i \in DOMAIN available', NEW d \in Clients
                 PROVE  slot'[d] # available'[i]
      OBVIOUS
    <3>1. CASE i = Len(available) + 1
      BY <1>2, <2>2, <3>1
    <3>2. CASE i \in DOMAIN available
      BY <1>1, <1>2, <3>2, ElementOfSeq DEF PoolInv, QueueIsFree
    <3>3. QED
      BY <1>2, <3>1, <3>2
  <2>5. QED
    BY <2>3, <2>4 DEF QueueIsFree
<1>5. ExclusiveLease'
  BY <1>1 DEF PoolInv, ExclusiveLease
<1>6. NoWorkerLost'
  <2> SUFFICES ASSUME NEW v \in Workers
               PROVE  Queued(v)' \/ \E d \in Clients : slot'[d] = v
    BY DEF NoWorkerLost
  <2>1. CASE v = w
    BY <1>2, <2>1 DEF Queued
  <2>2. CASE v # w /\ Queued(v)
    BY <1>2, <2>2 DEF Queued
  <2>3. CASE v # w /\ \E d \in Clients : slot[d] = v
    BY <1>1, <2>3
  <2>4. QED
    BY <2>1, <2>2, <2>3 DEF PoolInv, NoWorkerLost
<1>7. QED
  BY <1>3, <1>4, <1>5, <1>6 DEF PoolInv

(* Every step of a client that waits in claim_worker.                      *)
LEMMA ClaimStepPreservesPool ==
  ASSUME NEW c \in Clients, PoolInv, ClaimStep(c)
  PROVE  PoolInv'
<1> USE DEF ClaimPoints
<1>1. cancelled' \in [Clients -> BOOLEAN]
  BY DEF ClaimStep, CheckBeforeWaiting, TakeSlot, PollExpires, AbandonSlot,
         EnterBody, PoolInv, PoolTypeOK
<1>2. CASE CheckBeforeWaiting(c)
  BY <1>1, <1>2, MovePreservesPool DEF CheckBeforeWaiting
<1>3. CASE TakeSlot(c)
  BY <1>3, TakeSlotPreservesPool
<1>4. CASE PollExpires(c)
  BY <1>1, <1>4, MovePreservesPool DEF PollExpires
<1>5. CASE AbandonSlot(c)
  BY <1>1, <1>5, PutBackPreservesPool DEF AbandonSlot
<1>6. CASE EnterBody(c)
  BY <1>1, <1>6, MovePreservesPool DEF EnterBody
<1>7. QED
  BY <1>2, <1>3, <1>4, <1>5, <1>6 DEF ClaimStep

(* Every step of the pool.                                                 *)
LEMMA PoolNextPreservesPool == PoolInv /\ [PoolNext]_poolVars => PoolInv'
<1> SUFFICES ASSUME PoolInv, [PoolNext]_poolVars PROVE PoolInv'
  OBVIOUS
<1>1. CASE UNCHANGED poolVars
  BY <1>1
  DEF poolVars, PoolInv, PoolTypeOK, SlotMatchesClaim, QueueIsFree,
      ExclusiveLease, NoWorkerLost, Queued
<1>2. ASSUME NEW c \in Clients, EnterClaim(c) PROVE PoolInv'
  <2>1. cancelled' \in [Clients -> BOOLEAN]
    BY <1>2 DEF EnterClaim, PoolInv, PoolTypeOK
  <2>2. QED
    BY <1>2, <2>1, MovePreservesPool DEF EnterClaim, ClaimPoints
<1>3. ASSUME NEW c \in Clients, ClaimStep(c) PROVE PoolInv'
  BY <1>3, ClaimStepPreservesPool
<1>4. ASSUME NEW c \in Clients, ReleaseSlot(c) PROVE PoolInv'
  <2>1. cancelled' \in [Clients -> BOOLEAN]
    BY <1>4 DEF ReleaseSlot, PoolInv, PoolTypeOK
  <2>2. QED
    BY <1>4, <2>1, PutBackPreservesPool DEF ReleaseSlot
<1>5. ASSUME NEW c \in Clients, SetCancel(c) PROVE PoolInv'
  BY <1>5
  DEF SetCancel, PoolInv, PoolTypeOK, SlotMatchesClaim, QueueIsFree,
      ExclusiveLease, NoWorkerLost, Queued
<1>6. QED
  BY <1>1, <1>2, <1>3, <1>4, <1>5 DEF PoolNext

(* The inductive invariant holds in every reachable state.                 *)
THEOREM PoolInvariant == PoolSpec => []PoolInv
BY InitPool, PoolNextPreservesPool, PTL DEF PoolSpec

(* No two rollouts are ever lent the same worker (claim_worker).           *)
THEOREM LeasesAreExclusive == PoolSpec => []ExclusiveLease
<1>1. PoolInv => ExclusiveLease
  BY DEF PoolInv
<1>2. QED
  BY <1>1, PoolInvariant, PTL

(* No exit from claim_worker, however it interleaves with cancellation,    *)
(* removes a worker from circulation.                                      *)
THEOREM WorkersAreConserved == PoolSpec => []NoWorkerLost
<1>1. PoolInv => NoWorkerLost
  BY DEF PoolInv
<1>2. QED
  BY <1>1, PoolInvariant, PTL

-----------------------------------------------------------------------------
(* The abstract lease.                                                     *)

(* A held worker has one borrower.                                         *)
LEMMA BorrowerOfHeldWorker ==
  ASSUME ExclusiveLease, NEW c \in Clients, slot[c] # NoWorker
  PROVE  Borrower(slot[c]) = c
BY DEF ExclusiveLease, Borrower

(* The effect of a changed slot on the loans: the worker concerned has a   *)
(* new borrower and every other one keeps its own.                         *)
LEMMA OtherLoansUnchanged ==
  ASSUME NEW w \in Workers, NEW b,
         \A v \in Workers, d \in Clients :
            v # w => (slot'[d] = v <=> slot[d] = v),
         Borrower(w)' = b
  PROVE  Loans' = [Loans EXCEPT ![w] = b]
<1>1. ASSUME NEW v \in Workers, v # w PROVE Borrower(v)' = Borrower(v)
  BY <1>1 DEF Borrower
<1>2. QED
  BY <1>1 DEF Loans

(* Taking a slot lends one worker and changes no other loan.               *)
LEMMA TakeSlotLends ==
  ASSUME NEW c \in Clients, NEW w \in Workers,
         PoolInv, TakeSlot(c), w = Head(available)
  PROVE  Lease!Lend(w, c)
<1>1. /\ w = available[1] /\ 1 \in DOMAIN available
      /\ slot \in [Clients -> Workers \cup {NoWorker}]
      /\ slot' = [slot EXCEPT ![c] = w]
      /\ slot[c] = NoWorker
  BY HeadTailProperties, LenProperties, EmptySeq
  DEF TakeSlot, PoolInv, PoolTypeOK, SlotMatchesClaim
<1>2. \A d \in Clients : slot[d] # w
  BY <1>1 DEF PoolInv, QueueIsFree
<1>3. Loans[w] = NoWorker
  BY <1>2 DEF Loans, Borrower
<1>4. \A v \in Workers : Loans[v] # c
  BY <1>1 DEF Loans, Borrower
<1>5. Borrower(w)' = c
  <2>1. slot'[c] = w /\ \A d \in Clients : slot'[d] = w => d = c
    BY <1>1, <1>2
  <2>2. QED
    BY <2>1 DEF Borrower
<1>6. Loans' = [Loans EXCEPT ![w] = c]
  BY <1>1, <1>5, OtherLoansUnchanged
<1>7. QED
  BY <1>3, <1>4, <1>6 DEF Lease!Lend

(* Putting a slot back ends one loan and changes no other.                 *)
LEMMA PutBackGivesBack ==
  ASSUME NEW c \in Clients, NEW w \in Workers,
         PoolInv, PutBack(c), w = slot[c]
  PROVE  Lease!GiveBack(w)
<1>1. /\ slot \in [Clients -> Workers \cup {NoWorker}]
      /\ slot' = [slot EXCEPT ![c] = NoWorker]
  BY DEF PutBack, PoolInv, PoolTypeOK
<1>2. Loans[w] # NoWorker
  BY BorrowerOfHeldWorker DEF PoolInv, Loans
<1>3. \A d \in Clients : slot'[d] # w
  BY <1>1 DEF PoolInv, ExclusiveLease
<1>4. Borrower(w)' = NoWorker
  BY <1>3 DEF Borrower
<1>5. Loans' = [Loans EXCEPT ![w] = NoWorker]
  BY <1>1, <1>4, OtherLoansUnchanged
<1>6. QED
  BY <1>2, <1>5 DEF Lease!GiveBack

(* Loans are a function of the slots.                                      *)
LEMMA SameSlotsSameLoans ==
  ASSUME UNCHANGED slot
  PROVE  UNCHANGED Loans
BY DEF Loans, Borrower

(* claim_worker, with its polling and its two cancel tests, implements the *)
(* abstract lease: every step lends one worker, gives one back or changes  *)
(* no loan.                                                                *)
THEOREM PoolImplementsLease == PoolSpec => ImplementsLease
<1>1. PoolInit => Lease!LeaseInit
  BY DEF PoolInit, Lease!LeaseInit, Loans, Borrower
<1>2. PoolInv /\ [PoolNext]_poolVars
        => [Lease!LeaseNext]_Loans
  <2> SUFFICES ASSUME PoolInv, [PoolNext]_poolVars
               PROVE  Lease!LeaseNext \/ UNCHANGED Loans
    OBVIOUS
  <2>1. CASE UNCHANGED slot
    BY <2>1, SameSlotsSameLoans
  <2>2. ASSUME NEW c \in Clients, TakeSlot(c) PROVE Lease!LeaseNext
    <3>1. Head(available) \in Workers
      BY <2>2, HeadTailProperties DEF TakeSlot, PoolInv, PoolTypeOK
    <3>2. QED
      BY <2>2, <3>1, TakeSlotLends DEF Lease!LeaseNext
  <2>3. ASSUME NEW c \in Clients, AbandonSlot(c) \/ ReleaseSlot(c)
        PROVE  Lease!LeaseNext
    <3>1. PutBack(c) /\ claim[c] \in {"taken", "using"}
      BY <2>3 DEF AbandonSlot, ReleaseSlot
    <3>2. slot[c] \in Workers
      BY <3>1 DEF PoolInv, PoolTypeOK, SlotMatchesClaim
    <3>3. QED
      BY <3>1, <3>2, PutBackGivesBack DEF Lease!LeaseNext
  <2>4. QED
    BY <2>1, <2>2, <2>3
    DEF PoolNext, poolVars, ClaimStep, EnterClaim, CheckBeforeWaiting,
        PollExpires, EnterBody, SetCancel
<1>3. QED
  BY <1>1, <1>2, PoolInvariant, PTL DEF PoolSpec, ImplementsLease, Lease!LeaseSpec

-----------------------------------------------------------------------------
(* The rollouts.                                                           *)

USE RuntimeAssumption

(* The points a live thread can be at.                                     *)
Alive == Threads \ {"none", "done"}

\* RuntimeInv holds initially.
LEMMA InitRuntime == Init => RuntimeInv
<1> SUFFICES ASSUME Init PROVE RuntimeInv
  OBVIOUS
<1>1. PoolInv
  BY InitPool DEF Init
<1> MaxTurns \in Nat /\ MaxAttempts \in Nat /\ MaxStatements \in Nat
    /\ MaxRequests \in Nat
  OBVIOUS
<1>2. TypeOK
  <2>1. PoolTypeOK /\ permits \in 0 .. MaxRequests
    BY <1>1 DEF Init, PoolInv
  <2>2. /\ turns \in [Rollouts -> 0 .. MaxTurns]
        /\ attempts \in [Rollouts -> 0 .. MaxAttempts]
        /\ statements \in [Rollouts -> 0 .. MaxStatements]
    BY DEF Init
  <2>3. QED
    BY <2>1, <2>2 DEF Init, TypeOK, Stages, Episodes, Threads
<1>3. HarnessOutlivesThread /\ RegistryComplete /\ DrainCovers
  BY DEF Init, HarnessOutlivesThread, RegistryComplete, DrainCovers, Active,
         Rollouts
<1>4. LeaseMatchesThread
  BY DEF Init, PoolInit, LeaseMatchesThread, InClaim, Active, Rollouts
<1>5. PermitsConserved /\ RetriesLeft
  <2>1. Requesting = {}
    BY DEF Init, Requesting
  <2>2. QED
    BY <2>1, FS_EmptySet DEF Init, PermitsConserved, RetriesLeft
<1>6. QED
  BY <1>1, <1>2, <1>3, <1>4, <1>5 DEF RuntimeInv

(* A step of a thread keeps the pool correct and every other part typed.   *)
LEMMA EndThreadFacts ==
  ASSUME NEW r \in Rollouts, RuntimeInv, EndThread(r),
         thread[r] \in Alive \ {"queued", "leasing", "sql"}
  PROVE  /\ PoolInv'
         /\ thread' = [thread EXCEPT ![r] = "done"]
         /\ claim' = [claim EXCEPT ![r] = "out"]
         /\ UNCHANGED cancelled
<1>1. PoolInv /\ claim \in [Clients -> ClaimPoints] /\ r \in Clients
      /\ cancelled \in [Clients -> BOOLEAN]
  BY DEF RuntimeInv, PoolInv, PoolTypeOK, Rollouts
<1>2. CASE claim[r] = "using"
  <2>1. PutBack(r) /\ UNCHANGED cancelled
    BY <1>2 DEF EndThread, ReleaseSlot
  <2>2. PoolInv'
    BY <1>1, <1>2, <2>1, PutBackPreservesPool
  <2>3. QED
    BY <2>1, <2>2 DEF EndThread, Become, PutBack
<1>3. CASE claim[r] # "using"
  <2>1. UNCHANGED poolVars
    BY <1>3 DEF EndThread
  <2>2. PoolInv'
    BY <1>1, <2>1
    DEF poolVars, PoolInv, PoolTypeOK, SlotMatchesClaim, QueueIsFree,
        ExclusiveLease, NoWorkerLost, Queued
  <2>3. claim[r] = "out"
    BY <1>1, <1>3
    DEF RuntimeInv, LeaseMatchesThread, InClaim, ClaimPoints, Alive
  <2>4. QED
    BY <1>1, <2>1, <2>2, <2>3 DEF EndThread, Become, poolVars
<1>4. QED
  BY <1>2, <1>3

\* The pool's invariant does not read who has been cancelled.
LEMMA PoolUnchanged ==
  ASSUME PoolInv, UNCHANGED <<available, claim, slot>>,
         cancelled' \in [Clients -> BOOLEAN]
  PROVE  PoolInv'
BY DEF PoolInv, PoolTypeOK, SlotMatchesClaim, QueueIsFree, ExclusiveLease,
       NoWorkerLost, Queued

(* What claim_worker does to its caller.                                   *)
LEMMA ClaimStepMoves ==
  ASSUME NEW r \in Clients, PoolInv, ClaimStep(r)
  PROVE  /\ claim[r] \in {"checking", "getting", "taken"}
         /\ \E p \in ClaimPoints : claim' = [claim EXCEPT ![r] = p]
         /\ UNCHANGED cancelled
BY DEF ClaimStep, CheckBeforeWaiting, TakeSlot, PollExpires, AbandonSlot,
       PutBack, EnterBody, ClaimPoints, PoolInv, PoolTypeOK

(* Every step of a thread starts at a live point and leads to one, or to   *)
(* the end, and the lease follows it.                                      *)
Follows(r) ==
  /\ PoolInv'
  /\ UNCHANGED cancelled
  /\ thread[r] \in Alive
  /\ \E p \in Threads \ {"none", "queued"} :
        thread' = [thread EXCEPT ![r] = p]
  /\ \E q \in ClaimPoints :
        /\ claim' = [claim EXCEPT ![r] = q]
        /\ q \in {"checking", "getting", "taken"} <=> thread'[r] = "leasing"
        /\ q = "using" <=> IF PerOperation
                           THEN thread'[r] \in {"leased", "sql"}
                           ELSE thread'[r] \notin {"done", "leasing"}
  /\ stage' \in [Rollouts -> Stages]

\* A step of a rollout's thread is its own, and keeps its claim and its thread in step.
LEMMA ThreadStepFollows ==
  ASSUME NEW r \in Rollouts, RuntimeInv, ThreadStep(r)
  PROVE  Follows(r)
<1>1. /\ PoolInv /\ r \in Clients /\ Rollouts = Clients
      /\ claim \in [Clients -> ClaimPoints]
      /\ cancelled \in [Clients -> BOOLEAN]
      /\ thread \in [Rollouts -> Threads]
      /\ stage \in [Rollouts -> Stages]
  BY DEF RuntimeInv, TypeOK, PoolTypeOK, Rollouts
<1>2. /\ InClaim(r) <=> thread[r] = "leasing"
      /\ claim[r] = "using" <=>
              IF PerOperation
              THEN thread[r] \in {"leased", "sql"}
              ELSE thread[r] \notin {"none", "done", "queued", "leasing"}
  BY DEF RuntimeInv, LeaseMatchesThread, Active
<1> DEFINE Same == UNCHANGED poolVars
<1>3. Same => PoolInv' /\ claim' = [claim EXCEPT ![r] = claim[r]]
              /\ UNCHANGED cancelled
  BY <1>1, PoolUnchanged DEF poolVars
<1> HIDE DEF Same
<1>4. EnterClaim(r) => /\ PoolInv' /\ UNCHANGED cancelled
                       /\ claim' = [claim EXCEPT ![r] = "checking"]
  <2> SUFFICES ASSUME EnterClaim(r) PROVE PoolInv'
    BY DEF EnterClaim
  <2>1. "checking" \in ClaimPoints
    BY DEF ClaimPoints
  <2>2. QED
    BY <1>1, <2>1, MovePreservesPool DEF EnterClaim
<1>5. ReleaseSlot(r) => /\ PoolInv' /\ UNCHANGED cancelled
                        /\ claim' = [claim EXCEPT ![r] = "out"]
  BY <1>1, PutBackPreservesPool DEF ReleaseSlot, PutBack
<1>6. CASE StartThread(r)
  <2>1. CASE PerOperation
    BY <1>1, <1>2, <1>3, <1>6, <2>1
    DEF StartThread, Become, Follows, Alive, Threads, InClaim, Same,
        ClaimPoints
  <2>2. CASE ~PerOperation
    BY <1>1, <1>4, <1>6, <2>2
    DEF StartThread, Become, Follows, Alive, Threads, ClaimPoints
  <2>3. QED
    BY <2>1, <2>2
<1>7. CASE AwaitWorker(r)
  <2>1. ClaimStep(r) /\ thread[r] = "leasing"
    BY <1>7 DEF AwaitWorker
  <2>2. PoolInv' /\ UNCHANGED cancelled
    BY <1>1, <2>1, ClaimStepPreservesPool, ClaimStepMoves
  <2>3. PICK q \in ClaimPoints : claim' = [claim EXCEPT ![r] = q]
    BY <1>1, <2>1, ClaimStepMoves
  <2>4. claim'[r] = q
    BY <1>1, <2>3
  <2>5. \E p \in Threads \ {"none", "queued"} :
            /\ thread' = [thread EXCEPT ![r] = p]
            /\ q \in {"checking", "getting", "taken"} <=> p = "leasing"
            /\ q = "using" <=> IF PerOperation
                           THEN p \in {"leased", "sql"}
                           ELSE p \notin {"done", "leasing"}
    <3>1. CASE q = "out"
      BY <1>7, <2>4, <3>1 DEF AwaitWorker, Become, Threads
    <3>2. CASE q = "using"
      BY <1>7, <2>4, <3>2 DEF AwaitWorker, Become, Threads
    <3>3. CASE q \in {"checking", "getting", "taken"}
      BY <1>7, <2>4, <3>3 DEF AwaitWorker, Become, Threads
    <3>4. QED
      BY <3>1, <3>2, <3>3 DEF ClaimPoints
  <2>6. QED
    BY <1>1, <1>7, <2>1, <2>2, <2>3, <2>5
    DEF Follows, AwaitWorker, Alive, Threads
<1>8. CASE BeginOperation(r)
  <2>1. thread[r] \in {"idle", "reply"}
    BY <1>8 DEF BeginOperation
  <2>2. CASE PerOperation
    BY <1>1, <1>4, <1>8, <2>1, <2>2
    DEF BeginOperation, Become, Follows, Alive, Threads, ClaimPoints
  <2>3. CASE ~PerOperation
    BY <1>1, <1>2, <1>3, <1>8, <2>1, <2>3
    DEF BeginOperation, Become, Follows, Alive, Threads, ClaimPoints, InClaim,
        Same
  <2>4. QED
    BY <2>2, <2>3
<1>9. CASE BeginStatement(r)
  BY <1>1, <1>2, <1>3, <1>9
  DEF BeginStatement, Become, Follows, Alive, Threads, ClaimPoints, InClaim,
      Same, poolVars
<1>10. CASE EndStatement(r)
  BY <1>1, <1>2, <1>3, <1>10
  DEF EndStatement, Become, Follows, Alive, Threads, ClaimPoints, InClaim,
      Same, poolVars
<1>11. CASE EndOperation(r)
  <2>1. thread[r] = "leased"
    BY <1>11 DEF EndOperation
  <2>2. CASE stage[r] = "finish"
    BY <1>1, <1>11, <2>1, <2>2, EndThreadFacts
    DEF EndOperation, Follows, Alive, Threads, ClaimPoints
  <2>3. CASE stage[r] # "finish" /\ PerOperation
    BY <1>1, <1>5, <1>11, <2>1, <2>3
    DEF EndOperation, Become, Follows, Alive, Threads, ClaimPoints,
        Stages
  <2>4. CASE stage[r] # "finish" /\ ~PerOperation
    BY <1>1, <1>2, <1>3, <1>11, <2>1, <2>4
    DEF EndOperation, Become, Follows, Alive, Threads, ClaimPoints,
        Stages, Same, InClaim
  <2>5. QED
    BY <2>2, <2>3, <2>4
<1>12. CASE BeginTurn(r)
  BY <1>1, <1>2, <1>3, <1>12
  DEF BeginTurn, Become, Follows, Alive, Threads, ClaimPoints, InClaim, Same,
      poolVars
<1>13. CASE BeginRequest(r)
  BY <1>1, <1>2, <1>3, <1>13
  DEF BeginRequest, Become, Follows, Alive, Threads, ClaimPoints, InClaim,
      Same, poolVars
<1>17. CASE EndRequest(r) \/ EndTurn(r)
  BY <1>1, <1>2, <1>3, <1>17
  DEF EndRequest, EndTurn, Become, Follows, Alive, Threads, ClaimPoints,
      InClaim, Same, poolVars
<1>18. CASE EndSearch(r)
  BY <1>1, <1>2, <1>3, <1>18
  DEF EndSearch, Become, Follows, Alive, Threads, ClaimPoints, InClaim, Same,
      poolVars, Stages
<1>14. CASE FailRequest(r)
  BY <1>1, <1>14, EndThreadFacts
  DEF FailRequest, Follows, Alive, Threads, ClaimPoints
<1>15. CASE Fail(r)
  BY <1>1, <1>15, EndThreadFacts
  DEF Fail, Follows, Alive, Threads, ClaimPoints
<1>16. QED
  BY <1>6, <1>7, <1>8, <1>9, <1>10, <1>11, <1>12, <1>13, <1>14, <1>15, <1>17,
     <1>18
  DEF ThreadStep

(* The counters of a thread stay within their bounds; a permit is asked    *)
(* for only while an attempt is left.                                      *)
Counted ==
  /\ turns \in [Rollouts -> 0 .. MaxTurns]
  /\ attempts \in [Rollouts -> 0 .. MaxAttempts]
  /\ statements \in [Rollouts -> 0 .. MaxStatements]
  /\ RetriesLeft

\* A step of a rollout's thread keeps its counters within their limits.
LEMMA ThreadStepCounts ==
  ASSUME NEW r \in Rollouts, RuntimeInv, ThreadStep(r)
  PROVE  Counted'
<1>1. /\ Counted
      /\ thread \in [Rollouts -> Threads]
      /\ MaxTurns \in Nat /\ MaxAttempts \in Nat \ {0}
      /\ MaxStatements \in Nat
  BY DEF RuntimeInv, TypeOK, Counted
<1>2. PICK p \in Threads : thread' = [thread EXCEPT ![r] = p]
  BY ThreadStepFollows DEF Follows
<1>3. CASE BeginOperation(r)
  BY <1>1, <1>2, <1>3 DEF BeginOperation, Counted, RetriesLeft, Become
<1>4. CASE BeginStatement(r)
  BY <1>1, <1>2, <1>4 DEF BeginStatement, Counted, RetriesLeft, Become
<1>5. CASE BeginTurn(r)
  BY <1>1, <1>2, <1>5 DEF BeginTurn, Counted, RetriesLeft, Become
<1>6. CASE BeginRequest(r)
  BY <1>1, <1>2, <1>6 DEF BeginRequest, Counted, RetriesLeft, Become
<1>7. CASE EndRequest(r)
  BY <1>1, <1>2, <1>7 DEF EndRequest, Counted, RetriesLeft, Become, countVars
<1>8. CASE \/ StartThread(r) \/ AwaitWorker(r) \/ EndStatement(r)
           \/ EndOperation(r) \/ FailRequest(r) \/ EndTurn(r) \/ EndSearch(r)
           \/ Fail(r)
  <2>1. UNCHANGED countVars /\ thread'[r] # "permit"
    BY <1>1, <1>8
    DEF StartThread, AwaitWorker, EndStatement, EndOperation, FailRequest,
        EndTurn, EndSearch, Fail, EndThread, Become
  <2>2. QED
    BY <1>1, <1>2, <2>1 DEF Counted, RetriesLeft, countVars
<1>9. QED
  BY <1>3, <1>4, <1>5, <1>6, <1>7, <1>8 DEF ThreadStep

(* A permit moves between the semaphore and one running request.           *)
LEMMA ThreadStepPermits ==
  ASSUME NEW r \in Rollouts, RuntimeInv, ThreadStep(r)
  PROVE  PermitsConserved' /\ permits' \in 0 .. MaxRequests
<1>1. /\ IsFiniteSet(Requesting) /\ Cardinality(Requesting) \in Nat
      /\ permits + Cardinality(Requesting) = MaxRequests
      /\ permits \in 0 .. MaxRequests
      /\ thread \in [Rollouts -> Threads]
      /\ MaxRequests \in Nat
  BY FS_CardinalityType DEF RuntimeInv, TypeOK, PermitsConserved
<1>2. PICK p \in Threads : thread' = [thread EXCEPT ![r] = p]
  BY ThreadStepFollows DEF Follows
<1>3. thread'[r] = p
  BY <1>1, <1>2
<1>4. CASE BeginRequest(r)
  <2>1. permits > 0 /\ permits' = permits - 1 /\ r \notin Requesting
        /\ p = "request"
    BY <1>1, <1>3, <1>4 DEF BeginRequest, Become, Requesting
  <2>2. Requesting' = Requesting \cup {r}
    BY <1>1, <1>2, <2>1 DEF Requesting
  <2>3. /\ IsFiniteSet(Requesting')
        /\ Cardinality(Requesting') = Cardinality(Requesting) + 1
    BY <1>1, <2>1, <2>2, FS_AddElement
  <2>4. QED
    BY <1>1, <2>1, <2>3 DEF PermitsConserved
<1>5. CASE EndRequest(r) \/ FailRequest(r)
  <2>1. permits' = permits + 1 /\ r \in Requesting /\ p # "request"
    BY <1>1, <1>3, <1>5
    DEF EndRequest, FailRequest, EndThread, Become, Requesting
  <2>2. Requesting' = Requesting \ {r}
    BY <1>1, <1>2, <2>1 DEF Requesting
  <2>3. /\ IsFiniteSet(Requesting')
        /\ Cardinality(Requesting') = Cardinality(Requesting) - 1
        /\ Cardinality(Requesting') \in Nat
    BY <1>1, <2>1, <2>2, FS_RemoveElement, FS_CardinalityType
  <2>4. QED
    BY <1>1, <2>1, <2>3 DEF PermitsConserved
<1>6. CASE ~BeginRequest(r) /\ ~EndRequest(r) /\ ~FailRequest(r)
  <2>1. UNCHANGED permits /\ thread[r] # "request" /\ p # "request"
    BY <1>1, <1>3, <1>6
    DEF ThreadStep, StartThread, AwaitWorker, BeginOperation, BeginStatement,
        EndStatement, EndOperation, BeginTurn, EndTurn, EndSearch, Fail,
        EndThread, Become
  <2>2. Requesting' = Requesting
    BY <1>1, <1>2, <2>1 DEF Requesting
  <2>3. QED
    BY <1>1, <2>1, <2>2 DEF PermitsConserved
<1>7. QED
  BY <1>4, <1>5, <1>6

\* RuntimeInv survives Run.
LEMMA RunPreservesInv ==
  ASSUME NEW r \in Rollouts, RuntimeInv, Run(r)
  PROVE  RuntimeInv'
<1>1. Follows(r) /\ Counted' /\ PermitsConserved' /\ permits' \in 0 .. MaxRequests
      /\ UNCHANGED asyncVars
  BY ThreadStepFollows, ThreadStepCounts, ThreadStepPermits DEF Run
<1>2. /\ thread \in [Rollouts -> Threads] /\ claim \in [Rollouts -> ClaimPoints]
      /\ Rollouts = Clients
  BY DEF RuntimeInv, TypeOK, PoolTypeOK, Rollouts
<1>3. PICK p \in Threads \ {"none", "queued"} :
         thread' = [thread EXCEPT ![r] = p]
  BY <1>1 DEF Follows
<1>4. TypeOK'
  <2>1. PoolTypeOK' /\ stage' \in [Rollouts -> Stages]
    BY <1>1 DEF Follows, PoolInv
  <2>2. thread' \in [Rollouts -> Threads]
    BY <1>2, <1>3
  <2>3. QED
    BY <1>1, <2>1, <2>2 DEF RuntimeInv, TypeOK, Counted, asyncVars
<1>5. \A x \in Rollouts : Active(x)' => Active(x)
  BY <1>1, <1>2, <1>3 DEF Follows, Active, Alive
<1>6. HarnessOutlivesThread'
  BY <1>1, <1>5 DEF RuntimeInv, HarnessOutlivesThread, asyncVars
<1>7. RegistryComplete'
  BY <1>1, <1>2, <1>3
  DEF RuntimeInv, RegistryComplete, Follows, Alive, asyncVars
<1>8. LeaseMatchesThread'
  <2>1. PICK q \in ClaimPoints :
          /\ claim' = [claim EXCEPT ![r] = q]
          /\ q \in {"checking", "getting", "taken"} <=> thread'[r] = "leasing"
          /\ q = "using" <=> IF PerOperation
                             THEN thread'[r] \in {"leased", "sql"}
                             ELSE thread'[r] \notin {"done", "leasing"}
    BY <1>1 DEF Follows
  <2>2. claim'[r] = q /\ thread'[r] \notin {"none", "queued"}
    BY <1>2, <1>3, <2>1
  <2>3. ASSUME NEW x \in Rollouts, x # r
        PROVE  claim'[x] = claim[x] /\ thread'[x] = thread[x]
    BY <1>2, <1>3, <2>1, <2>3
  <2>4. QED
    BY <2>1, <2>2, <2>3
    DEF RuntimeInv, LeaseMatchesThread, InClaim, Active
<1>9. DrainCovers'
  <2>1. \A R \in SUBSET Rollouts : Finished(R) => Finished(R)'
    BY <1>1, <1>2, <1>3 DEF Finished, Follows, Alive
  <2>2. awaited \subseteq Rollouts /\ draining \subseteq Rollouts
    BY DEF RuntimeInv, TypeOK
  <2>3. QED
    BY <1>1, <1>5, <2>1, <2>2 DEF RuntimeInv, DrainCovers, asyncVars, Finished
<1>10. QED
  BY <1>1, <1>4, <1>6, <1>7, <1>8, <1>9
  DEF RuntimeInv, Follows, Counted

(* The steps of the event loop leave the threads and the queue alone; one  *)
(* of them submits a thread and some set cancel events.                    *)
LEMMA EventLoopKeepsThreads ==
  ASSUME RuntimeInv, UNCHANGED threadVars, cancelled' \in [Rollouts -> BOOLEAN]
  PROVE  /\ PoolInv' /\ PermitsConserved' /\ RetriesLeft' /\ LeaseMatchesThread'
         /\ PoolTypeOK' /\ UNCHANGED <<thread, stage, countVars, permits>>
         /\ \A x \in Rollouts : Active(x)' <=> Active(x)
<1>1. PoolInv'
  BY PoolUnchanged DEF RuntimeInv, threadVars, Rollouts
<1>2. QED
  BY <1>1
  DEF RuntimeInv, threadVars, PoolInv, PermitsConserved, RetriesLeft, Requesting,
      LeaseMatchesThread, InClaim, Active, countVars

\* RuntimeInv survives AdmitEpisode.
LEMMA AdmitPreservesInv ==
  ASSUME NEW r \in Rollouts, RuntimeInv, AdmitEpisode(r)
  PROVE  RuntimeInv'
<1>1. /\ UNCHANGED threadVars /\ cancelled' \in [Rollouts -> BOOLEAN]
      /\ episode \in [Rollouts -> Episodes]
  BY DEF RuntimeInv, TypeOK, PoolTypeOK, AdmitEpisode, Rollouts
<1>2. TypeOK'
  BY <1>1, EventLoopKeepsThreads
  DEF RuntimeInv, TypeOK, AdmitEpisode, Episodes, countVars
<1>3. HarnessOutlivesThread' /\ RegistryComplete' /\ DrainCovers'
  BY <1>1, EventLoopKeepsThreads
  DEF RuntimeInv, AdmitEpisode, HarnessOutlivesThread, RegistryComplete,
      DrainCovers, Active
<1>4. QED
  BY <1>1, <1>2, <1>3, EventLoopKeepsThreads DEF RuntimeInv

\* RuntimeInv survives LaunchHarness.
LEMMA LaunchPreservesInv ==
  ASSUME NEW r \in Rollouts, RuntimeInv, LaunchHarness(r)
  PROVE  RuntimeInv'
<1>1. /\ thread \in [Rollouts -> Threads] /\ episode \in [Rollouts -> Episodes]
      /\ thread[r] = "none" /\ episode[r] = "admitted"
      /\ thread' = [thread EXCEPT ![r] = "queued"]
      /\ episode' = [episode EXCEPT ![r] = "launched"]
  BY DEF RuntimeInv, TypeOK, RegistryComplete, LaunchHarness, Become
<1>2. PoolInv'
  BY PoolUnchanged DEF RuntimeInv, LaunchHarness, poolVars, PoolInv, PoolTypeOK
<1>3. TypeOK'
  BY <1>1, <1>2
  DEF RuntimeInv, TypeOK, LaunchHarness, Episodes, Threads, countVars, PoolInv
<1>4. Requesting' = Requesting
  BY <1>1 DEF Requesting
<1>5. PermitsConserved' /\ RetriesLeft'
  BY <1>1, <1>4
  DEF RuntimeInv, PermitsConserved, RetriesLeft, LaunchHarness, countVars
<1>6. LeaseMatchesThread'
  BY <1>1
  DEF RuntimeInv, LeaseMatchesThread, InClaim, Active, LaunchHarness, poolVars
<1>7. HarnessOutlivesThread' /\ RegistryComplete'
  BY <1>1
  DEF RuntimeInv, LaunchHarness, HarnessOutlivesThread, RegistryComplete, Active
<1>8. DrainCovers'
  BY <1>1
  DEF RuntimeInv, DrainCovers, LaunchHarness, Active
<1>9. QED
  BY <1>2, <1>3, <1>5, <1>6, <1>7, <1>8 DEF RuntimeInv

\* RuntimeInv survives what cancels episodes.
LEMMA CancelPreservesInv ==
  ASSUME RuntimeInv,
         \/ \E r \in Rollouts : CancelEpisode(r)
         \/ CancelWork
         \/ TearDown
  PROVE  RuntimeInv'
<1>1. UNCHANGED threadVars /\ cancelled' \in [Rollouts -> BOOLEAN]
  BY DEF CancelEpisode, CancelWork, TearDown, SetCancels
<1>2. /\ episode' \in [Rollouts -> Episodes]
      /\ \A x \in Rollouts :
            \/ episode'[x] = episode[x]
            \/ episode[x] = "admitted" /\ episode'[x] = "ended"
            \/ episode[x] = "launched" /\ episode'[x] = "unwinding"
      /\ UNCHANGED <<work, created>>
  BY DEF RuntimeInv, TypeOK, CancelEpisode, CancelWork, TearDown, Unwind, Episodes
<1>3. TypeOK'
  BY <1>1, <1>2, EventLoopKeepsThreads
  DEF RuntimeInv, TypeOK, CancelEpisode, CancelWork, TearDown, countVars
<1>4. HarnessOutlivesThread'
  BY <1>1, <1>2, EventLoopKeepsThreads
  DEF RuntimeInv, HarnessOutlivesThread
<1>5. RegistryComplete'
  BY <1>1, <1>2, EventLoopKeepsThreads
  DEF RuntimeInv, RegistryComplete
<1>6. \A x \in Rollouts : Active(x) => x \in work
  BY DEF RuntimeInv, RegistryComplete, HarnessOutlivesThread
<1>7. DrainCovers'
  <2>1. CASE \E r \in Rollouts : CancelEpisode(r)
    BY <1>1, <1>2, <2>1, EventLoopKeepsThreads
    DEF RuntimeInv, DrainCovers, CancelEpisode, Finished
  <2>2. CASE CancelWork
    BY <1>1, <1>2, <1>6, <2>2, EventLoopKeepsThreads
    DEF RuntimeInv, DrainCovers, CancelWork, Unwind, Finished
  <2>3. CASE TearDown
    BY <1>1, <1>2, <1>6, <2>3, EventLoopKeepsThreads
    DEF RuntimeInv, DrainCovers, TearDown, Finished
  <2>4. QED
    BY <2>1, <2>2, <2>3
<1>8. QED
  BY <1>1, <1>3, <1>4, <1>5, <1>7, EventLoopKeepsThreads DEF RuntimeInv

\* RuntimeInv survives HarnessReturns.
LEMMA HarnessReturnsPreservesInv ==
  ASSUME NEW r \in Rollouts, RuntimeInv, HarnessReturns(r)
  PROVE  RuntimeInv'
<1>1. /\ UNCHANGED threadVars /\ cancelled' \in [Rollouts -> BOOLEAN]
      /\ episode \in [Rollouts -> Episodes] /\ ~Active(r)
  BY DEF RuntimeInv, TypeOK, PoolTypeOK, HarnessReturns, Rollouts, poolVars,
         threadVars, Active
<1>2. TypeOK'
  BY <1>1, EventLoopKeepsThreads
  DEF RuntimeInv, TypeOK, HarnessReturns, Episodes, countVars
<1>3. HarnessOutlivesThread' /\ RegistryComplete' /\ DrainCovers'
  BY <1>1, EventLoopKeepsThreads
  DEF RuntimeInv, HarnessReturns, HarnessOutlivesThread, RegistryComplete,
      DrainCovers, Finished
<1>4. QED
  BY <1>1, <1>2, <1>3, EventLoopKeepsThreads DEF RuntimeInv

\* RuntimeInv survives the steps of a drain.
LEMMA DrainStepPreservesInv ==
  ASSUME RuntimeInv,
         \/ AcknowledgeCancel \/ StopRuntime \/ CloseReturns
         \/ \E w \in Workers : RemoveContainer(w)
  PROVE  RuntimeInv'
<1>1. /\ UNCHANGED threadVars /\ cancelled' \in [Rollouts -> BOOLEAN]
      /\ UNCHANGED <<episode, work, closedToWork, awaited, draining>>
  BY DEF RuntimeInv, TypeOK, PoolTypeOK, AcknowledgeCancel, StopRuntime,
         CloseReturns, RemoveContainer, Rollouts
<1>2. TypeOK'
  BY <1>1, EventLoopKeepsThreads
  DEF RuntimeInv, TypeOK, AcknowledgeCancel, StopRuntime, CloseReturns,
      RemoveContainer, countVars
<1>3. HarnessOutlivesThread' /\ RegistryComplete'
  BY <1>1, EventLoopKeepsThreads
  DEF RuntimeInv, HarnessOutlivesThread, RegistryComplete
<1>4. DrainCovers'
  BY <1>1, EventLoopKeepsThreads
  DEF RuntimeInv, DrainCovers, AcknowledgeCancel, StopRuntime, CloseReturns,
      RemoveContainer, Finished
<1>5. QED
  BY <1>1, <1>2, <1>3, <1>4, EventLoopKeepsThreads DEF RuntimeInv

\* RuntimeInv survives a step that changes nothing.
LEMMA StutterPreservesInv == RuntimeInv /\ UNCHANGED vars => RuntimeInv'
BY DEF vars, poolVars, asyncVars, countVars, RuntimeInv, TypeOK, PoolInv,
       PoolTypeOK, SlotMatchesClaim, QueueIsFree, ExclusiveLease, NoWorkerLost,
       Queued, PermitsConserved, Requesting, RetriesLeft, HarnessOutlivesThread,
       LeaseMatchesThread, InClaim, Active, RegistryComplete, DrainCovers,
       Finished

(* Every reachable state satisfies the inductive invariant.                *)
THEOREM RuntimeInvariant == Spec => []RuntimeInv
<1>1. Init => RuntimeInv
  BY InitRuntime
<1>2. RuntimeInv /\ [Next]_vars => RuntimeInv'
  BY RunPreservesInv, AdmitPreservesInv, LaunchPreservesInv, CancelPreservesInv,
     HarnessReturnsPreservesInv, DrainStepPreservesInv, StutterPreservesInv
  DEF Next, EpisodeStep, Service
<1>3. QED
  BY <1>1, <1>2, PTL DEF Spec

(* A cancelled episode keeps its place until its thread is done.           *)
THEOREM HarnessOutlivesItsThread == Spec => []HarnessOutlivesThread
BY RuntimeInvariant, PTL DEF RuntimeInv

(* No thread is left, and none will start, once a cancel is acknowledged.  *)
THEOREM AcknowledgementIsFinal == Spec => []AcknowledgedIsQuiet
<1>1. RuntimeInv => AcknowledgedIsQuiet
  BY DEF RuntimeInv, DrainCovers, AcknowledgedIsQuiet, Finished, Active
<1>2. QED
  BY <1>1, RuntimeInvariant, PTL

(* The containers are removed only after the last thread is done.          *)
THEOREM TeardownIsSafe == Spec => []NoWorkAfterTeardown
<1>1. RuntimeInv => NoWorkAfterTeardown
  <2> SUFFICES ASSUME RuntimeInv PROVE NoWorkAfterTeardown
    OBVIOUS
  <2>1. teardown \in {"closing", "closed"} => \A r \in Rollouts : ~Active(r)
    BY DEF RuntimeInv, DrainCovers, Finished, Active
  <2>2. ASSUME NEW r \in Rollouts, thread[r] = "sql" PROVE slot[r] \in created
    <3>1. claim[r] = "using" /\ Active(r)
      BY <2>2 DEF RuntimeInv, LeaseMatchesThread, Active
    <3>2. slot[r] \in Workers
      BY <3>1
      DEF RuntimeInv, PoolInv, PoolTypeOK, SlotMatchesClaim, Rollouts
    <3>3. created = Workers
      BY <2>1, <3>1 DEF RuntimeInv, DrainCovers, TypeOK
    <3>4. QED
      BY <3>2, <3>3
  <2>3. QED
    BY <2>1, <2>2 DEF NoWorkAfterTeardown
<1>2. QED
  BY <1>1, RuntimeInvariant, PTL

(* Statements run on the worker their rollout leases, which nobody shares. *)
THEOREM StatementsAreLeased ==
  Spec => [](StatementHoldsLease /\ ExclusiveLease /\ NoWorkerLost)
<1>1. RuntimeInv => StatementHoldsLease /\ ExclusiveLease /\ NoWorkerLost
  BY DEF RuntimeInv, LeaseMatchesThread, Active, PoolInv, SlotMatchesClaim,
         StatementHoldsLease, Rollouts
<1>2. QED
  BY <1>1, RuntimeInvariant, PTL

(* Workers are not held through a model turn.                              *)
THEOREM ModelTurnsHoldNoWorker == Spec => []NoWorkerDuringModelTurn
<1>1. RuntimeInv => NoWorkerDuringModelTurn
  BY DEF RuntimeInv, LeaseMatchesThread, InClaim, Active, PoolInv, PoolTypeOK,
         ClaimPoints, SlotMatchesClaim, NoWorkerDuringModelTurn, Rollouts
<1>2. QED
  BY <1>1, RuntimeInvariant, PTL

(* After a drain nothing runs that the drain was for.                      *)
THEOREM DrainsAreQuiet == Spec => []QuietAfterDrain
BY AcknowledgementIsFinal, TeardownIsSafe, PTL DEF QuietAfterDrain

(* Leases cover the statements and nothing of a model turn.                *)
THEOREM LeasesFitTheWork == Spec => []WorkersAreLeased
BY StatementsAreLeased, ModelTurnsHoldNoWorker, PTL DEF WorkersAreLeased

(* No retry and no error loses or invents a permit.                        *)
THEOREM PermitsAreConserved == Spec => []PermitsConserved
BY RuntimeInvariant, PTL DEF RuntimeInv
=============================================================================
