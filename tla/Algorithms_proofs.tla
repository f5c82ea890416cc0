-------------------------- MODULE Algorithms_proofs --------------------------
(***************************************************************************)
(* The components that run by themselves: the requests to a model server   *)
(* through one transport (HttpRetry), the turns that are made of them      *)
(* (ModelClients), the time that a service needs to drain such turns       *)
(* (DrainTime), the splits of tasks (TaskSelection), the conversations     *)
(* that become training data (Conversations), and what a policy proposes   *)
(* for a plan (PlanActions); for any number of requests, permits,          *)
(* attempts, turns, episodes, tasks, messages, relations and items, and    *)
(* whatever comes back.                                                    *)
(*                                                                         *)
(* RetryInv is not inductive.  IInv adds why a request leaves one          *)
(* completion: its key is drawn once, before its first attempt, and        *)
(* whatever is on its way, or recorded, carries it (OneKey); and that a    *)
(* request which sleeps has an attempt left, and a wait within its cap     *)
(* (SleepsWithin).                                                         *)
(*                                                                         *)
(* HistoryIsWhole speaks of a request that has been made.  TurnInv says    *)
(* the same of the one that the transcript would make now (Continues): a   *)
(* message that is appended adds its items at the end (FlattenAppend), and *)
(* those of a reply are what the provider has produced.                    *)
(*                                                                         *)
(* DrainFits speaks of the clock only. DrainInv bounds what each episode   *)
(* still needs. When permits are scarce that is no bound, for a turn may   *)
(* wait for others; QueuedTurnsFit bounds the turns together: with every   *)
(* unit of time one of them at least goes on, so what all of them still    *)
(* need, added up in an account, falls as the clock rises.                 *)
(*                                                                         *)
(* That the splits of tasks are disjoint rests on SelectionInv: what is    *)
(* selected is sound by itself (Sound), at every step, and what is         *)
(* resolved has passed ValidateSplits, in which every topology of a role   *)
(* is owned by it, and no topology has two owners.                         *)
(*                                                                         *)
(* PackedIsWhatIsLearned speaks of a prepared dataset.  DatasetInv says    *)
(* how it gets there: calls, pending, evaluated and skipped are what       *)
(* WellFormed and Wrong say of the messages read so far (ReadOK); what is  *)
(* rendered is that of the splits done and of a part of the next           *)
(* (RenderOK); and the rows of a split, laid end to end, and what is still *)
(* to be packed, are its accepted requests, each once (Holds).             *)
(*                                                                         *)
(* That the order of a proposal is irrelevant is said of one shuffle of    *)
(* it.  AnyOrder says it of every listing of the same items (Rearranged):  *)
(* when no two items are alike in the order they are sorted by (Orders),   *)
(* an item's place in the sorted list is the number of items before it,    *)
(* and that is the same in every listing (OneArrangement); validation asks *)
(* of a list only what is true of the set of its items, or of pairs, and a *)
(* set of relations that is connected is so from any of them               *)
(* (ReachedFromAny).  ActionInv keeps the types of the items and that an   *)
(* accepted action would be accepted again.                                *)
(***************************************************************************)
EXTENDS HttpRetry, ModelClients, DrainTime, TaskSelection, Conversations, PlanActions,
        FiniteSetTheorems, SequenceTheorems, WellFoundedInduction, TLAPS

-----------------------------------------------------------------------------
(* Requests.                                                               *)

USE RetryAssumption

OneKey ==
    /\ \A r \in Requests : key[r] = IF phase[r] = "idle" THEN 0 ELSE 1
    /\ \A c \in flight \cup completions : c[2] = 1

SleepsWithin ==
    \A r \in Requests :
        phase[r] = "sleeping" => attempt[r] + 1 < MaxAttempts /\ wait[r] <= MaximumDelay

IInv == TypeOK /\ WaitsAreRight /\ PermitsKept /\ OneKey /\ SleepsWithin

InFlight == {r \in Requests : phase[r] = "sending"}

\* The values of the retry loop stay numbers; a backoff stays within its cap
\* (HttpTransport.request).
LEMMA BackoffWithin ==
    ASSUME NEW d \in 0 .. MaximumDelay
    PROVE  Backoff(d) \in 0 .. MaximumDelay
<1>1. d * RETRY_BACKOFF_FACTOR \in Nat
  BY DEF RETRY_BACKOFF_FACTOR
<1> QED  BY <1>1 DEF Backoff, Smaller

\* A wait is a number within the cap, and at least what the server asked for.
LEMMA WaitWithin ==
    ASSUME NEW r \in Requests, delay[r] \in 0 .. MaximumDelay,
           NEW header \in Headers, NEW w \in Waits(r, RetryAfterSeconds(header)),
           MayRetry(r, RetryAfterSeconds(header))
    PROVE  /\ w \in 0 .. MaximumDelay
           /\ RetryAfterSeconds(header) \in SUBSET Nat
           /\ \A n \in RetryAfterSeconds(header) : w >= n
<1>1. header.value \in Int
  OBVIOUS
<1>2. CASE header.kind \in {"seconds", "date"}
  <2>1. PICK n \in Nat : RetryAfterSeconds(header) = {n}
    BY <1>1, <1>2 DEF RetryAfterSeconds, Larger
  <2>2. n <= MaximumDelay
    BY <2>1 DEF MayRetry
  <2>3. PICK v \in 0 .. delay[r] : w = Larger(v, n)
    BY <2>1 DEF Waits
  <2> QED  BY <2>1, <2>2, <2>3 DEF Larger
<1>3. CASE header.kind \notin {"seconds", "date"}
  BY <1>3 DEF RetryAfterSeconds, Waits
<1> QED  BY <1>2, <1>3

\* A request that begins or ends an attempt takes or gives back one permit.
LEMMA Permit ==
    ASSUME TypeOK, PermitsKept, NEW r \in Requests, NEW state,
           Become(r, state),
           \/ phase[r] = "sending" /\ state # "sending" /\ free' = free + 1
           \/ phase[r] # "sending" /\ state = "sending" /\ free' = free - 1
           \/ phase[r] # "sending" /\ state # "sending" /\ free' = free
    PROVE  PermitsKept' /\ free' <= Permits
<1>1. /\ IsFiniteSet(InFlight) /\ Cardinality(InFlight) \in Nat
      /\ free + Cardinality(InFlight) = Permits
  BY FS_Subset, FS_CardinalityType DEF InFlight, PermitsKept
<1>2. InFlight' = {q \in Requests : phase'[q] = "sending"}
  BY DEF InFlight
<1>3. PermitsKept' <=> free' + Cardinality(InFlight') = Permits
  BY DEF PermitsKept, InFlight
<1>4. CASE phase[r] = "sending" /\ state # "sending" /\ free' = free + 1
  <2>1. InFlight' = InFlight \ {r} /\ r \in InFlight
    BY <1>2, <1>4 DEF InFlight, Become, TypeOK
  <2>2. /\ Cardinality(InFlight \ {r}) = Cardinality(InFlight) - 1
        /\ Cardinality(InFlight \ {r}) \in Nat
    BY <1>1, <2>1, FS_RemoveElement, FS_CardinalityType
  <2> QED  BY <1>1, <1>3, <1>4, <2>1, <2>2 DEF TypeOK
<1>5. CASE phase[r] # "sending" /\ state = "sending" /\ free' = free - 1
  <2>1. InFlight' = InFlight \cup {r} /\ r \notin InFlight
    BY <1>2, <1>5 DEF InFlight, Become, TypeOK
  <2>2. Cardinality(InFlight \cup {r}) = Cardinality(InFlight) + 1
    BY <1>1, <2>1, FS_AddElement
  <2> QED  BY <1>1, <1>3, <1>5, <2>1, <2>2 DEF TypeOK
<1>6. CASE phase[r] # "sending" /\ state # "sending" /\ free' = free
  <2>1. InFlight' = InFlight
    BY <1>2, <1>6 DEF InFlight, Become, TypeOK
  <2> QED  BY <1>1, <1>3, <1>6, <2>1 DEF TypeOK
<1> QED  BY <1>4, <1>5, <1>6

-----------------------------------------------------------------------------
(* The steps.                                                              *)

\* No request has been sent.
LEMMA InitInv == Init => IInv
<1> SUFFICES ASSUME Init PROVE IInv
  OBVIOUS
<1>1. {r \in Requests : phase[r] = "sending"} = {}
  BY DEF Init
<1>2. PermitsKept
  <2>1. Cardinality({r \in Requests : phase[r] = "sending"}) = 0
    BY <1>1, FS_EmptySet
  <2> QED  BY <2>1 DEF Init, PermitsKept
<1>3. 0 \in 0 .. MaxAttempts /\ 0 \in 0 .. MaximumDelay /\ Permits \in 0 .. Permits
  OBVIOUS
<1>4. TypeOK
  BY <1>3 DEF Init, TypeOK
<1>5. WaitsAreRight
  BY DEF Init, WaitsAreRight
<1> QED  BY <1>2, <1>4, <1>5 DEF Init, IInv, OneKey, SleepsWithin

\* A key is drawn once (HttpTransport.request).
LEMMA StartInv == ASSUME IInv, NEW r \in Requests, Start(r) PROVE IInv'
<1>1. key' = [key EXCEPT ![r] = 1] /\ key[r] = 0
  <2>1. key[r] = 0
    BY DEF Start, IInv, OneKey
  <2>2. key[r] + 1 = 1
    BY <2>1
  <2> QED  BY <2>1, <2>2 DEF Start
<1>2. PermitsKept'
  <2>1. Become(r, "waiting") /\ phase[r] # "sending" /\ free' = free
    BY DEF Start
  <2> QED  BY <2>1, Permit DEF IInv
<1>3. TypeOK'
  <2>1. InitialDelay \in 0 .. MaximumDelay
    OBVIOUS
  <2> QED  BY <1>1, <2>1 DEF IInv, TypeOK, Start, Become
<1>4. WaitsAreRight' /\ OneKey' /\ SleepsWithin'
  BY <1>1 DEF IInv, TypeOK, Start, Become, WaitsAreRight, OneKey, SleepsWithin
<1> QED  BY <1>2, <1>3, <1>4 DEF IInv

\* A request gets its permit (HttpTransport.request).
LEMMA AcquireInv == ASSUME IInv, NEW r \in Requests, Acquire(r) PROVE IInv'
<1>1. PermitsKept' /\ free' \in 0 .. Permits
  BY Permit DEF IInv, TypeOK, Acquire
<1>2. TypeOK'
  BY <1>1 DEF IInv, TypeOK, Acquire, Become, retryVars
<1>3. OneKey'
  BY DEF IInv, TypeOK, Acquire, Become, OneKey, retryVars
<1>4. WaitsAreRight' /\ SleepsWithin'
  BY DEF IInv, TypeOK, Acquire, Become, WaitsAreRight, SleepsWithin, retryVars
<1> QED  BY <1>1, <1>2, <1>3, <1>4 DEF IInv

\* An answer, an error that is not retried and a last error end the request.
LEMMA EndInv ==
    ASSUME IInv, NEW r \in Requests, Answer(r) \/ Reject(r) \/ GiveUp(r) PROVE IInv'
<1>1. PICK state \in {"answered", "failed"} :
         /\ phase[r] = "sending" /\ Become(r, state) /\ free' = free + 1
         /\ UNCHANGED <<retryVars, flight, completions>>
  BY DEF Answer, Reject, GiveUp
<1>2. PermitsKept' /\ free' \in 0 .. Permits
  BY <1>1, Permit DEF IInv, TypeOK
<1>3. TypeOK'
  BY <1>1, <1>2 DEF IInv, TypeOK, Become, retryVars
<1>4. WaitsAreRight' /\ OneKey' /\ SleepsWithin'
  BY <1>1 DEF IInv, TypeOK, Become, WaitsAreRight, OneKey, SleepsWithin, retryVars
<1> QED  BY <1>2, <1>3, <1>4 DEF IInv

\* A retry waits what it is asked to, and gives its permit back before it does.
LEMMA RetryStepInv == ASSUME IInv, NEW r \in Requests, Retry(r) PROVE IInv'
<1>0. PICK header \in Headers :
         /\ MayRetry(r, RetryAfterSeconds(header))
         /\ \E w \in Waits(r, RetryAfterSeconds(header)) : wait' = [wait EXCEPT ![r] = w]
         /\ asked' = [asked EXCEPT ![r] = RetryAfterSeconds(header)]
  BY DEF Retry
<1>1. PICK w \in Waits(r, RetryAfterSeconds(header)) : wait' = [wait EXCEPT ![r] = w]
  BY <1>0
<1>2. PICK seconds : seconds = RetryAfterSeconds(header)
  OBVIOUS
<1>3. /\ w \in 0 .. MaximumDelay /\ w \in Nat /\ seconds \in SUBSET Nat
      /\ \A n \in seconds : w >= n
  BY <1>0, <1>1, <1>2, WaitWithin DEF IInv, TypeOK
<1>4. /\ phase' = [phase EXCEPT ![r] = "sleeping"] /\ phase[r] = "sending"
      /\ wait' = [wait EXCEPT ![r] = w] /\ asked' = [asked EXCEPT ![r] = seconds]
      /\ attempt[r] + 1 < MaxAttempts
      /\ UNCHANGED <<attempt, key, delay, slept, flight, completions>>
  BY <1>0, <1>1, <1>2 DEF Retry, Become, MayRetry
<1>5. PermitsKept' /\ free' \in 0 .. Permits
  BY Permit DEF IInv, TypeOK, Retry
<1>6. TypeOK'
  BY <1>3, <1>4, <1>5 DEF IInv, TypeOK
<1>7. OneKey' /\ SleepsWithin'
  BY <1>3, <1>4 DEF IInv, TypeOK, OneKey, SleepsWithin
<1>8. WaitsAreRight'
  BY <1>3, <1>4 DEF IInv, TypeOK, WaitsAreRight
<1> QED  BY <1>5, <1>6, <1>7, <1>8 DEF IInv

\* The wait that ends is one more, and within the cap.
LEMMA WakeInv == ASSUME IInv, NEW r \in Requests, Wake(r) PROVE IInv'
<1>1. PermitsKept'
  <2>1. Become(r, "waiting") /\ phase[r] # "sending" /\ free' = free
    BY DEF Wake
  <2> QED  BY <2>1, Permit DEF IInv
<1>2. /\ Backoff(delay[r]) \in 0 .. MaximumDelay /\ wait[r] \in Nat /\ wait[r] <= MaximumDelay
      /\ attempt[r] \in Nat /\ attempt[r] + 1 < MaxAttempts /\ slept[r] \in Nat
      /\ slept[r] <= attempt[r] * MaximumDelay /\ MaximumDelay \in Nat
  BY BackoffWithin DEF IInv, TypeOK, Wake, SleepsWithin, WaitsAreRight
<1>3. slept[r] + wait[r] <= (attempt[r] + 1) * MaximumDelay
  <2>1. (attempt[r] + 1) * MaximumDelay = attempt[r] * MaximumDelay + MaximumDelay
    BY <1>2
  <2>2. attempt[r] * MaximumDelay \in Nat
    BY <1>2
  <2> QED  BY <1>2, <2>1, <2>2
<1>4. TypeOK'
  BY <1>2 DEF IInv, TypeOK, Wake, Become
<1>5. OneKey' /\ SleepsWithin'
  BY DEF IInv, TypeOK, Wake, Become, OneKey, SleepsWithin
<1>6. WaitsAreRight'
  BY <1>2, <1>3 DEF IInv, TypeOK, Wake, Become, WaitsAreRight
<1> QED  BY <1>1, <1>4, <1>5, <1>6 DEF IInv

\* What the server records was on its way.
LEMMA ServeInv == ASSUME IInv, Serve PROVE IInv'
<1>1. /\ UNCHANGED <<phase, retryVars, free>>
      /\ flight' \subseteq flight /\ completions' \subseteq completions \cup flight
  BY DEF Serve
<1>2. TypeOK'
  BY <1>1 DEF IInv, TypeOK, retryVars
<1> QED
  BY <1>1, <1>2 DEF IInv, WaitsAreRight, PermitsKept, OneKey, SleepsWithin, retryVars

\* Every step keeps the invariant.
LEMMA NextInv == ASSUME IInv, [Next]_vars PROVE IInv'
<1>1. CASE UNCHANGED vars
  BY <1>1 DEF IInv, TypeOK, WaitsAreRight, PermitsKept, OneKey, SleepsWithin, vars, retryVars
<1>2. CASE Next
  BY <1>2, ServeInv, StartInv, AcquireInv, EndInv, RetryStepInv, WakeInv DEF Next, ClientStep
<1> QED  BY <1>1, <1>2

(* A request leaves one completion at the server, however many of its      *)
(* attempts got there.                                                     *)
LEMMA OneCompletion == IInv => RecordedOnce
<1> SUFFICES ASSUME IInv, NEW r \in Requests
             PROVE  Cardinality({c \in completions : c[1] = r}) <= 1
  BY DEF RecordedOnce
<1>1. {c \in completions : c[1] = r} \subseteq {<<r, 1>>}
  BY DEF IInv, TypeOK, OneKey
<1>2. IsFiniteSet({<<r, 1>>}) /\ Cardinality({<<r, 1>>}) = 1
  BY FS_Singleton
<1> QED  BY <1>1, <1>2, FS_Subset

(* Retries record one completion of each request, wait as they are asked   *)
(* and within their settings, and keep no permit while they sleep or after *)
(* they have ended (HttpTransport.request).                                *)
THEOREM RetryInvariant == Spec => []RetryInv
<1>1. Init => IInv
  BY InitInv
<1>2. IInv /\ [Next]_vars => IInv'
  BY NextInv
<1>3. IInv => RetryInv
  BY OneCompletion DEF IInv, RetryInv
<1> QED  BY <1>1, <1>2, <1>3, PTL DEF Spec

HIDE RetryAssumption

-----------------------------------------------------------------------------
(* Sequences of sequences.                                                 *)

\* A set of natural numbers has a least element, from which the facts about FlattenSeq
\* are proved: the least index at which they fail cannot be one.
LEMMA Smallest ==
    ASSUME NEW T \in SUBSET Nat, T # {}
    PROVE  \E x \in T : \A y \in T : x <= y
<1>1. PICK x \in T : \A y \in T : ~(<<y, x>> \in OpToRel(<, Nat))
  BY NatLessThanWellFounded, WFMin, Zenon
<1>2. \A y \in T : ~(y < x)
  BY <1>1 DEF OpToRel
<1> QED  BY <1>2

\* f is what the definition of FlattenSeq computes of the first n sequences of s.
Flattens(f, s, n) ==
    f = [i \in 1 .. n |-> IF i = 1 THEN s[i] ELSE f[i - 1] \o s[i]]

\* There is one such function.
LEMMA FlattenUnique ==
    ASSUME NEW s, NEW n \in Nat, NEW f, NEW g, Flattens(f, s, n), Flattens(g, s, n)
    PROVE  f = g
<1> DEFINE T == {i \in 1 .. n : f[i] # g[i]}
<1>1. ASSUME T # {} PROVE FALSE
  <2>0. T \in SUBSET Nat
    OBVIOUS
  <2>1. PICK i \in T : \A j \in T : i <= j
    <3> HIDE DEF T
    <3> QED  BY <1>1, <2>0, Smallest
  <2>2. /\ f[i] = IF i = 1 THEN s[i] ELSE f[i - 1] \o s[i]
        /\ g[i] = IF i = 1 THEN s[i] ELSE g[i - 1] \o s[i]
    BY DEF Flattens
  <2>3. CASE i = 1
    BY <2>2, <2>3
  <2>4. CASE i # 1
    <3>1. i - 1 \in 1 .. n /\ i - 1 \notin T
      BY <2>1, <2>4
    <3>2. f[i - 1] = g[i - 1]
      BY <3>1
    <3> QED  BY <2>2, <2>4, <3>2
  <2> QED  BY <2>3, <2>4
<1>2. \A i \in 1 .. n : f[i] = g[i]
  BY <1>1
<1>3. f = [i \in 1 .. n |-> f[i]] /\ g = [i \in 1 .. n |-> g[i]]
  BY DEF Flattens
<1> QED  BY <1>2, <1>3

\* One sequence more.
FlattensMore(f, s, n) ==
    [i \in 1 .. n + 1 |->
        IF i <= n THEN f[i] ELSE IF i = 1 THEN s[i] ELSE f[n] \o s[i]]

\* From the flattenings of n sequences come those of n + 1.
LEMMA FlattenMore ==
    ASSUME NEW s, NEW n \in Nat, NEW f, Flattens(f, s, n)
    PROVE  Flattens(FlattensMore(f, s, n), s, n + 1)
<1> DEFINE g == FlattensMore(f, s, n)
<1>1. g = [i \in 1 .. n + 1 |-> g[i]]
  BY DEF FlattensMore
<1>2. ASSUME NEW i \in 1 .. n + 1
      PROVE  g[i] = IF i = 1 THEN s[i] ELSE g[i - 1] \o s[i]
  <2>1. CASE i <= n
    <3>1. i \in 1 .. n /\ g[i] = f[i]
      BY <2>1 DEF FlattensMore
    <3>2. f[i] = IF i = 1 THEN s[i] ELSE f[i - 1] \o s[i]
      BY <3>1 DEF Flattens
    <3>3. i # 1 => g[i - 1] = f[i - 1]
      BY <2>1 DEF FlattensMore
    <3> QED  BY <3>1, <3>2, <3>3
  <2>2. CASE i = n + 1
    <3>1. g[i] = IF i = 1 THEN s[i] ELSE f[n] \o s[i]
      BY <2>2 DEF FlattensMore
    <3>2. i # 1 => g[i - 1] = f[n]
      BY <2>2 DEF FlattensMore
    <3> QED  BY <3>1, <3>2
  <2> QED  BY <2>1, <2>2
<1> HIDE DEF g
<1>3. g = [i \in 1 .. n + 1 |-> IF i = 1 THEN s[i] ELSE g[i - 1] \o s[i]]
  BY <1>1, <1>2
<1> QED  BY <1>3 DEF Flattens, g

\* There is such a function for every n.
LEMMA FlattenExists ==
    ASSUME NEW s, NEW n \in Nat
    PROVE  \E f : Flattens(f, s, n)
<1> DEFINE T == {k \in Nat : ~\E f : Flattens(f, s, k)}
<1> SUFFICES ASSUME T # {} PROVE FALSE
  OBVIOUS
<1>1. PICK k \in T : \A j \in T : k <= j
  <2> HIDE DEF T
  <2>1. T \in SUBSET Nat
    BY DEF T
  <2> QED  BY <2>1, Smallest
<1>2. CASE k = 0
  <2>1. Flattens(<<>>, s, 0)
    BY DEF Flattens
  <2> QED  BY <1>2, <2>1
<1>3. CASE k # 0
  <2>1. k - 1 \in Nat /\ k - 1 \notin T /\ (k - 1) + 1 = k
    BY <1>1, <1>3
  <2>2. PICK f : Flattens(f, s, k - 1)
    BY <2>1
  <2>3. Flattens(FlattensMore(f, s, k - 1), s, (k - 1) + 1)
    BY <2>1, <2>2, FlattenMore
  <2>4. Flattens(FlattensMore(f, s, k - 1), s, k)
    BY <2>1, <2>3
  <2> QED  BY <2>4
<1> QED  BY <1>2, <1>3

\* FlattenSeq is the last value of it.
LEMMA FlattenIs ==
    ASSUME NEW U, NEW s \in Seq(U), NEW f, Flattens(f, s, Len(s))
    PROVE  FlattenSeq(s) = IF Len(s) = 0 THEN s ELSE f[Len(s)]
<1> DEFINE g == CHOOSE h : h = [i \in 1 .. Len(s) |->
                                   IF i = 1 THEN s[i] ELSE h[i - 1] \o s[i]]
<1>1. Flattens(g, s, Len(s))
  BY Zenon DEF Flattens
<1>2. Len(s) \in Nat
  OBVIOUS
<1>3. g = f
  <2> HIDE DEF g
  <2> QED  BY <1>1, <1>2, FlattenUnique
<1>4. FlattenSeq(s) = IF Len(s) = 0 THEN s ELSE g[Len(s)]
  BY Zenon DEF FlattenSeq
<1> QED  BY <1>3, <1>4

\* A sequence that is appended adds its elements at the end.
LEMMA FlattenAppend ==
    ASSUME NEW U, NEW s \in Seq(Seq(U)), NEW x \in Seq(U), FlattenSeq(s) \in Seq(U)
    PROVE  /\ FlattenSeq(Append(s, x)) = FlattenSeq(s) \o x
           /\ FlattenSeq(Append(s, x)) \in Seq(U)
<1> DEFINE n == Len(s)
           t == Append(s, x)
<1>1. n \in Nat /\ t \in Seq(Seq(U)) /\ Len(t) = n + 1 /\ t[n + 1] = x
      /\ \A i \in 1 .. n : t[i] = s[i]
  OBVIOUS
<1>2. PICK f : Flattens(f, s, n)
  BY <1>1, FlattenExists
<1>3. Flattens(f, t, n)
  BY <1>1, <1>2 DEF Flattens
<1>4. Flattens(FlattensMore(f, t, n), t, n + 1)
  BY <1>1, <1>3, FlattenMore
<1>5. FlattenSeq(s) = IF n = 0 THEN s ELSE f[n]
  BY <1>2, FlattenIs
<1>6. FlattenSeq(t) = FlattensMore(f, t, n)[n + 1]
  <2>1. PICK g : g = FlattensMore(f, t, n)
    OBVIOUS
  <2>2. Flattens(g, t, Len(t))
    BY <1>1, <1>4, <2>1
  <2>3. FlattenSeq(t) = IF Len(t) = 0 THEN t ELSE g[Len(t)]
    BY <1>1, <2>2, FlattenIs
  <2> QED  BY <1>1, <2>1, <2>3
<1>7. FlattensMore(f, t, n)[n + 1] = IF n = 0 THEN x ELSE f[n] \o x
  BY <1>1 DEF FlattensMore
<1>8. CASE n = 0
  <2>1. s = <<>>
    BY <1>8
  <2> QED  BY <1>5, <1>6, <1>7, <1>8, <2>1
<1>9. CASE n # 0
  BY <1>5, <1>6, <1>7, <1>9
<1> QED  BY <1>8, <1>9

\* A pair is made by appending to a sequence of one.
LEMMA AppendToOne ==
    ASSUME NEW x, NEW y
    PROVE  Append(<<x>>, y) = [i \in 1 .. 2 |-> IF i = 1 THEN x ELSE y]
<1>1. <<x>> \in Seq({x, y}) /\ Len(<<x>>) = 1
  OBVIOUS
<1>2. /\ Append(<<x>>, y) \in Seq({x, y}) /\ Len(Append(<<x>>, y)) = 2
      /\ Append(<<x>>, y)[1] = x /\ Append(<<x>>, y)[2] = y
  BY <1>1
<1> QED  BY <1>2

\* Of no sequences comes the empty one.
LEMMA FlattenEmpty == FlattenSeq(<<>>) = <<>>
BY DEF FlattenSeq

-----------------------------------------------------------------------------
(* Model turns.                                                            *)

Replied == UNION {ServedReplies[p] : p \in DOMAIN ServedReplies}
Values ==
    {None, "text", ToolResult} \cup {r.content : r \in Replied} \cup {r.calls : r \in Replied}
    \cup {r.reasoning : r \in Replied} \cup {r.details : r \in Replied}

\* What a request may be made of.
AnItem ==
    [role : {"system", "user", "assistant", "tool"}, content : Values, calls : Values,
     reasoning : Values]
    \cup UNION {ToSet(r.produced) : r \in Replied}

\* What a client keeps of a reply for the requests that follow.
Kept ==
    CASE config.provider = "openai" ->
            {[model |-> r.model, output |-> r.produced] : r \in ServedReplies["openai"]}
      [] config.provider = "openrouter" ->
            {[model |-> config.name, details |-> r.details] : r \in ServedReplies["openrouter"]}
      [] OTHER -> {}

\* A message of the transcript is one that this client can send.
Sendable ==
    {m \in [role : {"system", "user", "assistant", "tool"}, content : Values, calls : Values,
            reasoning : Values, continuation : {<<>>} \cup {<<k>> : k \in Kept}] :
        config.provider # "local" => (m.role = "assistant") = (m.continuation # <<>>)}

Alive == {"ready", "counted", "replied", "act"}

\* The request made of the transcript continues what the provider has been sent and has
\* produced; until the reply is read it is the request that is made, and when it has been
\* read there is nothing else to it.
Continues ==
    /\ talking \in {"ready", "counted", "budget"} =>
          \E u \in Seq(AnItem) : RequestBody = heard \o u
    /\ talking \in {"counted", "budget", "replied"} => body = RequestBody
    /\ talking = "replied" => heard = body \o Reply.produced
    /\ talking = "act" => heard = RequestBody

FitsServer ==
    /\ Fits(Tokens(body))
    /\ config.provider = "local" => \E m \in ContextModels : m.length = config.context_length

TurnInv ==
    /\ talking \in {"start", "budget", "truncated", "failed", "done"} \cup Alive
    /\ talking \in Alive \cup {"budget"} =>
          /\ AcceptsConfig(config)
          /\ transcript \in Seq(Sendable)
          /\ RequestBody \in Seq(AnItem) /\ heard \in Seq(AnItem)
    /\ talking = "start" =>
          /\ transcript = <<NewMessage("system", "text"), NewMessage("user", "text")>>
          /\ heard = <<>> /\ turns = 0
    /\ turns \in Nat
    /\ Continues
    /\ talking \in {"counted", "replied"} /\ config.provider # "openrouter" => FitsServer
    /\ talking = "act" => FitsServer
    /\ talking \in {"replied", "act"} => reply = <<Reply>>
    /\ talking \in {"replied", "act"} => Reply \in ServedReplies[config.provider]
    /\ talking = "act" => Usable(Reply) /\ Last(transcript).calls = Reply.calls
    /\ talking \in Alive \cup {"start"} => failures = <<>>
    /\ talking = "failed" /\ turns > 0 /\ config.provider = "openrouter" =>
          failures = <<reply>>

(* A client that is made is of one of the three providers (model_client).  *)
LEMMA Providers ==
    ASSUME AcceptsConfig(config)
    PROVE  /\ config.provider \in {"local", "openai", "openrouter"}
           /\ config.provider \in DOMAIN ServedReplies
           /\ config.provider = "openai" => config.context_length <= AstraContext
BY ReplyAssumption DEF AcceptsConfig, LocalAccepts, AstraAccepts, RouterAccepts

(* What a provider has produced may be sent to it (request_body).          *)
LEMMA ProducedItems ==
    ASSUME NEW p \in DOMAIN ServedReplies, NEW r \in ServedReplies[p]
    PROVE  r.produced \in Seq(AnItem)
<1>1. r.produced \in Seq(ToSet(r.produced))
  BY ReplyAssumption
<1>2. ToSet(r.produced) \subseteq AnItem
  BY DEF AnItem, Replied
<1> QED  BY <1>1, <1>2

\* Whoever speaks, a message is sent as items.
LEMMA ItemsOfMessage ==
    ASSUME NEW m \in Sendable
    PROVE  ItemsOf(m) \in Seq(AnItem)
<1>1. /\ m.role \in {"system", "user", "assistant", "tool"} /\ m.content \in Values
      /\ m.calls \in Values /\ m.reasoning \in Values /\ None \in Values
      /\ m.continuation \in {<<>>} \cup {<<k>> : k \in Kept}
  BY DEF Sendable, Values
<1>2. \A role \in {"system", "user", "assistant", "tool"} :
         \A content \in Values, made \in Values, reasoning \in Values :
            Item(role, content, made, reasoning) \in AnItem
  BY DEF Item, AnItem
<1>3. CASE config.provider = "local"
  BY <1>1, <1>2, <1>3 DEF ItemsOf, LocalItems
<1>4. CASE config.provider = "openai"
  <2>1. CASE m.continuation = <<>>
    BY <1>1, <1>2, <1>4, <2>1 DEF ItemsOf, AstraItems
  <2>2. CASE m.continuation # <<>>
    <3>1. PICK r \in ServedReplies["openai"] : m.continuation[1].output = r.produced
      BY <1>1, <1>4, <2>2 DEF Kept
    <3>2. r.produced \in Seq(AnItem)
      BY <3>1, ReplyAssumption, ProducedItems
    <3> QED  BY <1>4, <2>2, <3>1, <3>2 DEF ItemsOf, AstraItems
  <2> QED  BY <2>1, <2>2
<1>5. CASE config.provider \notin {"local", "openai"}
  <2>1. ASSUME m.continuation # <<>> PROVE m.continuation[1].details \in Values
    <3>1. PICK k \in Kept : m.continuation = <<k>>
      BY <1>1, <2>1
    <3>2. PICK r \in ServedReplies["openrouter"] :
             config.provider = "openrouter" /\ k.details = r.details
      BY <1>5, <3>1 DEF Kept
    <3>3. r \in Replied
      BY <3>2, ReplyAssumption DEF Replied
    <3> QED  BY <3>1, <3>2, <3>3 DEF Values
  <2>2. ItemsOf(m) = RouterItems(m)
    BY <1>5 DEF ItemsOf
  <2> QED  BY <1>1, <1>2, <2>1, <2>2 DEF RouterItems
<1> QED  BY <1>3, <1>4, <1>5

\* A message more is its items more.
LEMMA OneMessageMore ==
    ASSUME transcript \in Seq(Sendable), RequestBody \in Seq(AnItem), NEW m \in Sendable,
           transcript' = Append(transcript, m), config' = config
    PROVE  /\ transcript' \in Seq(Sendable') /\ Sendable' = Sendable
           /\ RequestBody' = RequestBody \o ItemsOf(m)
           /\ RequestBody' \in Seq(AnItem) /\ ItemsOf(m) \in Seq(AnItem)
<1> DEFINE Parts == [i \in DOMAIN transcript |-> ItemsOf(transcript[i])]
<1>1. Sendable' = Sendable /\ \A x : ItemsOf(x)' = ItemsOf(x)
  BY DEF Sendable, Kept, ItemsOf, LocalItems, AstraItems, RouterItems
<1>2. /\ transcript' \in Seq(Sendable) /\ DOMAIN transcript' = 1 .. Len(transcript) + 1
      /\ DOMAIN transcript = 1 .. Len(transcript) /\ Len(transcript) \in Nat
      /\ transcript'[Len(transcript) + 1] = m
      /\ \A i \in 1 .. Len(transcript) : transcript'[i] = transcript[i]
  OBVIOUS
<1>3. Parts \in Seq(Seq(AnItem)) /\ Len(Parts) = Len(transcript)
  <2>1. \A i \in 1 .. Len(transcript) : ItemsOf(transcript[i]) \in Seq(AnItem)
    BY <1>2, ItemsOfMessage
  <2> QED  BY <1>2, <2>1
<1>4. ItemsOf(m) \in Seq(AnItem)
  BY ItemsOfMessage
<1>5. Append(Parts, ItemsOf(m)) =
         [i \in DOMAIN transcript' |-> ItemsOf(transcript'[i])]
  <2>1. Append(Parts, ItemsOf(m)) =
           [i \in 1 .. Len(transcript) + 1 |->
               IF i <= Len(transcript) THEN ItemsOf(transcript[i]) ELSE ItemsOf(m)]
    BY <1>2, <1>3, <1>4
  <2> QED  BY <1>2, <2>1
<1>6. RequestBody' = FlattenSeq(Append(Parts, ItemsOf(m)))
  BY <1>1, <1>5 DEF RequestBody
<1>7. RequestBody = FlattenSeq(Parts)
  BY DEF RequestBody
<1> HIDE DEF Parts
<1>8. /\ FlattenSeq(Append(Parts, ItemsOf(m))) = FlattenSeq(Parts) \o ItemsOf(m)
      /\ FlattenSeq(Append(Parts, ItemsOf(m))) \in Seq(AnItem)
  <2>1. PICK x \in Seq(AnItem) : x = ItemsOf(m)
    BY <1>4
  <2>2. PICK p \in Seq(Seq(AnItem)) : p = Parts
    BY <1>3
  <2>3. FlattenSeq(p) \in Seq(AnItem)
    BY <1>7, <2>2
  <2>4. /\ FlattenSeq(Append(p, x)) = FlattenSeq(p) \o x
        /\ FlattenSeq(Append(p, x)) \in Seq(AnItem)
    BY <2>3, FlattenAppend
  <2> QED  BY <2>1, <2>2, <2>4
<1> QED  BY <1>1, <1>2, <1>4, <1>6, <1>7, <1>8

\* What depends on the configuration alone stays what it is.
LEMMA ConfigStays ==
    ASSUME config' = config
    PROVE  /\ Sendable' = Sendable /\ AcceptsConfig(config)' = AcceptsConfig(config)
           /\ \A n : Fits(n)' = Fits(n)
           /\ transcript' = transcript => RequestBody' = RequestBody
           /\ body' = body => \A r : Usable(r)' = Usable(r)
           /\ body' = body /\ server' = server => FitsServer' = FitsServer
<1>1. Sendable' = Sendable
  BY DEF Sendable, Kept
<1>2. AcceptsConfig(config)' = AcceptsConfig(config)
  OBVIOUS
<1>3. \A n : Fits(n)' = Fits(n)
  BY DEF Fits
<1>4. transcript' = transcript => RequestBody' = RequestBody
  BY DEF RequestBody, ItemsOf, LocalItems, AstraItems, RouterItems
<1>5. body' = body => Tokens(body)' = Tokens(body)
  BY Zenon
<1>6. body' = body => \A r : Usable(r)' = Usable(r)
  BY <1>3, <1>5 DEF Usable, AstraUsable, RouterUsable
<1>7. body' = body /\ server' = server => FitsServer' = FitsServer
  BY <1>3, <1>5 DEF FitsServer, ContextModels, Served
<1> QED  BY <1>1, <1>2, <1>3, <1>4, <1>6, <1>7

(* Before the client is made there are the two first messages (run_agent). *)
LEMMA InitTurnInv == TurnInit => TurnInv
BY DEF TurnInit, TurnInv, Alive, Continues

(* The first request is those two messages (model_client).                 *)
LEMMA ConnectInv == ASSUME TurnInv, Connect PROVE TurnInv'
<1>1. /\ talking = "start" /\ config' = config /\ transcript' = transcript /\ heard' = heard
      /\ turns' = turns /\ failures' = failures /\ turns = 0 /\ failures = <<>>
      /\ transcript = <<NewMessage("system", "text"), NewMessage("user", "text")>>
      /\ heard = <<>> /\ talking' \in {"ready", "failed"}
      /\ talking' = "ready" => AcceptsConfig(config)
  BY DEF Connect, TurnInv, Alive
<1>2. CASE talking' = "failed"
  BY <1>1, <1>2 DEF TurnInv, Alive, Continues
<1>3. CASE talking' = "ready"
  <2>1. RequestBody' = RequestBody /\ Sendable' = Sendable
        /\ AcceptsConfig(config)' = AcceptsConfig(config)
    BY <1>1, ConfigStays
  <2> DEFINE first == NewMessage("system", "text")
             second == NewMessage("user", "text")
  <2>2. first \in Sendable /\ second \in Sendable
    BY DEF NewMessage, Sendable, Values
  <2>3. ItemsOf(first) \in Seq(AnItem) /\ ItemsOf(second) \in Seq(AnItem)
    BY <2>2, ItemsOfMessage
  <2>4. PICK x \in Seq(AnItem) : x = ItemsOf(first)
    BY <2>3
  <2>5. PICK y \in Seq(AnItem) : y = ItemsOf(second)
    BY <2>3
  <2>6. RequestBody = FlattenSeq(Append(<<x>>, y))
    <3>1. DOMAIN transcript = 1 .. 2 /\ transcript[1] = first /\ transcript[2] = second
      BY <1>1
    <3> HIDE DEF first, second
    <3>2. [i \in DOMAIN transcript |-> ItemsOf(transcript[i])]
             = [i \in 1 .. 2 |-> IF i = 1 THEN x ELSE y]
      BY <2>4, <2>5, <3>1
    <3>3. [i \in DOMAIN transcript |-> ItemsOf(transcript[i])] = Append(<<x>>, y)
      <4>1. Append(<<x>>, y) = [i \in 1 .. 2 |-> IF i = 1 THEN x ELSE y]
        BY AppendToOne
      <4> HIDE DEF first, second
      <4> QED  BY <3>2, <4>1, Zenon
    <3> QED  BY <3>3, Zenon DEF RequestBody
  <2>7. RequestBody \in Seq(AnItem)
    <3>1. PICK e \in Seq(Seq(AnItem)) : e = <<>>
      BY EmptySeq
    <3>2. FlattenSeq(e) = <<>> /\ <<>> \in Seq(AnItem)
      BY <3>1, FlattenEmpty, EmptySeq
    <3>3. FlattenSeq(Append(e, x)) \in Seq(AnItem)
      BY <3>2, FlattenAppend
    <3>4. Append(e, x) = <<x>> /\ <<x>> \in Seq(Seq(AnItem))
      BY <3>1
    <3>5. FlattenSeq(Append(<<x>>, y)) \in Seq(AnItem)
      BY <3>3, <3>4, FlattenAppend
    <3> QED  BY <2>6, <3>5
  <2>8. RequestBody = heard \o RequestBody /\ heard \in Seq(AnItem)
    BY <1>1, <2>7
  <2>9. transcript \in Seq(Sendable)
    BY <1>1, <2>2
  <2>10. Continues'
    BY <1>1, <1>3, <2>1, <2>7, <2>8 DEF Continues
  <2> QED  BY <1>1, <1>3, <2>1, <2>7, <2>8, <2>9, <2>10 DEF TurnInv, Alive
<1> QED  BY <1>1, <1>2, <1>3

(* Another server does not change what has been said.                      *)
LEMMA RestartInv == ASSUME TurnInv, RestartServer PROVE TurnInv'
<1>1. /\ talking = "ready" /\ talking' = "ready"
      /\ UNCHANGED <<config, transcript, body, heard, reply, failures, turns>>
  BY DEF RestartServer
<1>2. RequestBody' = RequestBody /\ Sendable' = Sendable
      /\ AcceptsConfig(config)' = AcceptsConfig(config)
  BY <1>1, ConfigStays
<1> QED  BY <1>1, <1>2 DEF TurnInv, Alive, Continues

(* What is generated from has been counted where it can be, and is the     *)
(* request of the whole transcript (generate).                             *)
LEMMA CountInv == ASSUME TurnInv, Count PROVE TurnInv'
<1>1. /\ talking = "ready" /\ body' = RequestBody /\ turns' = turns + 1 /\ turns \in Nat
      /\ UNCHANGED <<config, server, transcript, heard, reply, failures>>
      /\ failures = <<>> /\ AcceptsConfig(config) /\ transcript \in Seq(Sendable)
      /\ talking' \in {"failed", "budget", "counted"}
  BY DEF Count, TurnInv, Alive
<1>2. /\ RequestBody' = RequestBody /\ Sendable' = Sendable
      /\ AcceptsConfig(config)' = AcceptsConfig(config)
      /\ \A n : Fits(n)' = Fits(n)
  BY <1>1, ConfigStays
<1>3. talking' = "failed" => config.provider # "openrouter"
  <2> SUFFICES ASSUME config.provider = "openrouter", NEW i \in DOMAIN transcript
               PROVE  CanSend(transcript[i])
    BY DEF Count
  <2>1. transcript[i] \in Sendable
    BY <1>1
  <2>2. \A k \in Kept : k.model = config.name
    BY DEF Kept
  <2> QED  BY <2>1, <2>2 DEF Sendable, CanSend
<1>4. talking' = "counted" /\ config.provider # "openrouter" => FitsServer'
  <2> SUFFICES ASSUME talking' = "counted", config.provider # "openrouter"
               PROVE  FitsServer'
    OBVIOUS
  <2>1. Fits(Tokens(body')) /\ (config.provider = "local" =>
           \E m \in ContextModels : m.length = config.context_length)
    BY DEF Count
  <2>2. ContextModels' = ContextModels
    BY <1>1 DEF ContextModels, Served
  <2> QED  BY <1>1, <1>2, <2>1, <2>2 DEF FitsServer
<1>5. Continues'
  BY <1>1, <1>2 DEF TurnInv, Continues
<1> QED  BY <1>1, <1>2, <1>3, <1>4, <1>5 DEF TurnInv, Alive

(* The answer is of the provider that was asked (generate).                *)
LEMMA GenerateInv == ASSUME TurnInv, Generate PROVE TurnInv'
<1>1. /\ talking = "counted" /\ talking' = "replied"
      /\ UNCHANGED <<config, server, transcript, body, failures, turns>>
      /\ failures = <<>> /\ AcceptsConfig(config) /\ body = RequestBody
      /\ RequestBody \in Seq(AnItem)
  BY DEF Generate, TurnInv, Alive, Continues
<1>2. PICK r \in ServedReplies[config.provider] :
         reply' = <<r>> /\ heard' = body \o r.produced
  BY DEF Generate
<1>3. /\ RequestBody' = RequestBody /\ Sendable' = Sendable
      /\ AcceptsConfig(config)' = AcceptsConfig(config)
      /\ FitsServer' = FitsServer
  BY <1>1, ConfigStays
<1>4. Reply' = r /\ reply' = <<Reply'>>
  BY <1>2 DEF Reply
<1>5. heard' \in Seq(AnItem)
  <2>1. r.produced \in Seq(AnItem)
    BY <1>1, Providers, ProducedItems
  <2> QED  BY <1>1, <1>2, <2>1
<1>6. Continues'
  BY <1>1, <1>2, <1>3, <1>4 DEF Continues
<1> QED  BY <1>1, <1>2, <1>3, <1>4, <1>5, <1>6 DEF TurnInv, Alive

(* A reply adds the items that the provider has produced, and no others    *)
(* (generate, request_body).                                               *)
LEMMA ReadReplyInv == ASSUME TurnInv, ReadReply PROVE TurnInv'
<1> DEFINE m == [role |-> "assistant", content |-> Reply.content, calls |-> Reply.calls,
                 reasoning |-> Reply.reasoning, continuation |-> Continuation(Reply)]
<1>1. /\ talking = "replied" /\ talking' \in {"truncated", "act"} /\ Usable(Reply)
      /\ UNCHANGED <<config, server, body, heard, reply, failures, turns>>
      /\ failures = <<>> /\ AcceptsConfig(config) /\ body = RequestBody
      /\ RequestBody \in Seq(AnItem) /\ heard \in Seq(AnItem)
      /\ heard = body \o Reply.produced
      /\ reply = <<Reply>> /\ Reply \in ServedReplies[config.provider]
      /\ transcript \in Seq(Sendable) /\ transcript' = Append(transcript, m)
  BY DEF ReadReply, TurnInv, Alive, Continues
<1>2. config.provider \in {"local", "openai", "openrouter"}
      /\ config.provider \in DOMAIN ServedReplies
  BY <1>1, Providers
<1>3. Reply \in Replied
  BY <1>1, <1>2 DEF Replied
<1>4. m \in Sendable
  <2>1. /\ Continuation(Reply) \in {<<>>} \cup {<<k>> : k \in Kept}
        /\ config.provider # "local" => Continuation(Reply) # <<>>
    <3>1. CASE config.provider = "local"
      BY <3>1 DEF Continuation
    <3>2. CASE config.provider = "openai"
      BY <1>1, <3>2 DEF Continuation, Kept
    <3>3. CASE config.provider = "openrouter"
      BY <1>1, <3>3 DEF Continuation, Kept
    <3> QED  BY <1>2, <3>1, <3>2, <3>3
  <2>2. Reply.content \in Values /\ Reply.calls \in Values /\ Reply.reasoning \in Values
    BY <1>3 DEF Values
  <2>3. PICK k : k = Continuation(Reply)
    OBVIOUS
  <2>4. PICK text \in Values, made \in Values, thought \in Values :
           text = Reply.content /\ made = Reply.calls /\ thought = Reply.reasoning
    BY <2>2
  <2>5. m = [role |-> "assistant", content |-> text, calls |-> made, reasoning |-> thought,
             continuation |-> k]
    BY <2>3, <2>4
  <2>6. k \in {<<>>} \cup {<<c>> : c \in Kept} /\ (config.provider # "local" => k # <<>>)
    BY <2>1, <2>3
  <2> HIDE DEF m
  <2>7. /\ m \in [role : {"system", "user", "assistant", "tool"}, content : Values,
                  calls : Values, reasoning : Values,
                  continuation : {<<>>} \cup {<<c>> : c \in Kept}]
        /\ m.role = "assistant" /\ m.continuation = k
    BY <2>5, <2>6
  <2> QED  BY <2>6, <2>7 DEF Sendable
<1>5. ItemsOf(m) = Reply.produced
  <2>1. CASE config.provider = "local"
    BY <1>1, <1>2, <2>1, ReplyAssumption DEF ItemsOf, LocalItems
  <2>2. CASE config.provider = "openai"
    BY <2>2 DEF ItemsOf, AstraItems, Continuation
  <2>3. CASE config.provider = "openrouter"
    BY <1>1, <1>2, <2>3, ReplyAssumption DEF ItemsOf, RouterItems, Continuation
  <2> QED  BY <1>2, <2>1, <2>2, <2>3
<1>6. PICK x \in Sendable : x = m
  BY <1>4
<1>7. /\ transcript' \in Seq(Sendable') /\ RequestBody' = RequestBody \o ItemsOf(m)
      /\ RequestBody' \in Seq(AnItem)
  BY <1>1, <1>6, OneMessageMore
<1>8. heard' = RequestBody'
  BY <1>1, <1>5, <1>7
<1>9. Last(transcript)' = m
  BY <1>1, <1>4 DEF Last
<1>10. /\ AcceptsConfig(config)' = AcceptsConfig(config)
       /\ Usable(Reply)' /\ FitsServer' = FitsServer
       /\ Reply' = Reply
  <2>1. Reply' = Reply
    BY <1>1 DEF Reply
  <2>2. Usable(Reply') = Usable(Reply)
    BY <2>1
  <2>3. (\A r : Usable(r)' = Usable(r)) /\ AcceptsConfig(config)' = AcceptsConfig(config)
        /\ FitsServer' = FitsServer
    BY <1>1, ConfigStays
  <2> QED  BY <1>1, <2>1, <2>3
<1>11. FitsServer
  <2>1. CASE config.provider # "openrouter"
    BY <1>1, <2>1 DEF TurnInv
  <2>2. CASE config.provider = "openrouter"
    <3>1. Fits(Tokens(body))
      BY <1>1, <2>2 DEF Usable, RouterUsable
    <3> QED  BY <2>2, <3>1 DEF FitsServer
  <2> QED  BY <2>1, <2>2
<1>12. Last(transcript)'.calls = Reply.calls
  BY <1>9
<1>13. Continues'
  BY <1>1, <1>8 DEF Continues
<1> HIDE DEF m
<1> QED
  BY <1>1, <1>7, <1>8, <1>10, <1>11, <1>12, <1>13 DEF TurnInv, Alive

(* A reply that is refused ends the conversation, and is retained if it    *)
(* was paid for (OpenRouterModelClient.generate).                          *)
LEMMA RefuseReplyInv == ASSUME TurnInv, RefuseReply PROVE TurnInv'
<1>1. /\ talking = "replied" /\ talking' = "failed" /\ failures = <<>> /\ reply' = reply
      /\ turns' = turns /\ turns \in Nat /\ config' = config
      /\ failures' = IF config.provider = "openrouter" THEN Append(failures, reply)
                     ELSE failures
  BY DEF RefuseReply, TurnInv, Alive
<1>2. config.provider = "openrouter" => failures' = <<reply'>>
  BY <1>1
<1> QED  BY <1>1, <1>2 DEF TurnInv, Alive, Continues

(* The message of the agent follows what has been said (run_agent).        *)
LEMMA ActInv == ASSUME TurnInv, Act PROVE TurnInv'
<1>1. /\ talking = "act" /\ talking' \in {"ready", "done"}
      /\ UNCHANGED <<config, server, body, heard, failures, turns>>
      /\ failures = <<>> /\ AcceptsConfig(config) /\ turns \in Nat
      /\ RequestBody \in Seq(AnItem) /\ heard = RequestBody
      /\ transcript \in Seq(Sendable)
  BY DEF Act, TurnInv, Alive, Continues
<1>2. PICK m \in {NewMessage("user", "text"), NewMessage("tool", ToolResult)} :
         transcript' = Append(transcript, m)
  BY DEF Act
<1>3. m \in Sendable
  BY <1>2 DEF NewMessage, Sendable, Values
<1>4. /\ transcript' \in Seq(Sendable') /\ RequestBody' = RequestBody \o ItemsOf(m)
      /\ RequestBody' \in Seq(AnItem) /\ ItemsOf(m) \in Seq(AnItem)
  BY <1>1, <1>2, <1>3, OneMessageMore
<1>5. AcceptsConfig(config)' = AcceptsConfig(config)
  BY <1>1, ConfigStays
<1>6. Continues'
  BY <1>1, <1>4 DEF Continues
<1> QED  BY <1>1, <1>4, <1>5, <1>6 DEF TurnInv, Alive

(* TurnInv is inductive.                                                   *)
LEMMA TurnNextInv == TurnInv /\ [TurnNext]_turnVars => TurnInv'
<1> SUFFICES ASSUME TurnInv, [TurnNext]_turnVars PROVE TurnInv'
  OBVIOUS
<1>1. CASE UNCHANGED turnVars
  <2>1. UNCHANGED <<config, server, transcript, body, heard, reply, failures, turns, talking>>
    BY <1>1 DEF turnVars
  <2>2. /\ Sendable' = Sendable /\ RequestBody' = RequestBody /\ FitsServer' = FitsServer
        /\ AcceptsConfig(config)' = AcceptsConfig(config)
        /\ \A r : Usable(r)' = Usable(r)
    BY <2>1, ConfigStays
  <2>3. Reply' = Reply /\ Last(transcript)' = Last(transcript)
    BY <2>1 DEF Reply
  <2>4. Usable(Reply)' = Usable(Reply)
    BY <2>2, <2>3
  <2>5. Continues' = Continues
    BY <2>1, <2>2, <2>3 DEF Continues
  <2> QED  BY <2>1, <2>2, <2>3, <2>4, <2>5 DEF TurnInv, Alive
<1> QED
  BY <1>1, ConnectInv, RestartInv, CountInv, GenerateInv, ReadReplyInv, RefuseReplyInv, ActInv
     DEF TurnNext

(* TurnInv is what is promised of a request that is made, and more.        *)
LEMMA WholeHistory == TurnInv => HistoryIsWhole
<1> SUFFICES ASSUME TurnInv PROVE HistoryIsWhole
  OBVIOUS
<1>1. talking \in {"counted", "budget"} => IsPrefix(heard, body)
  <2> SUFFICES ASSUME talking \in {"counted", "budget"} PROVE IsPrefix(heard, body)
    OBVIOUS
  <2>1. PICK u \in Seq(AnItem) : body = heard \o u /\ heard \in Seq(AnItem)
    BY DEF TurnInv, Continues, Alive
  <2> QED  BY <2>1 DEF IsPrefix
<1>2. ASSUME talking \in {"counted", "act"},
             talking = "act" \/ config.provider # "openrouter"
      PROVE  /\ Tokens(body) + config.max_tokens <= config.context_length
             /\ config.provider = "local" =>
                   \E m \in ContextModels : m.length = config.context_length
             /\ config.provider = "openai" => config.context_length <= AstraContext
  <2>1. FitsServer /\ AcceptsConfig(config)
    BY <1>2 DEF TurnInv, Alive
  <2> QED  BY <2>1, Providers DEF FitsServer, Fits
<1>3. ASSUME talking = "act"
      PROVE  /\ Last(transcript).calls = Reply.calls
             /\ config.provider # "local" => Reply.model = config.name /\ ~Reply.error
  <2>1. /\ Last(transcript).calls = Reply.calls /\ Usable(Reply) /\ AcceptsConfig(config)
        /\ Reply \in ServedReplies[config.provider]
    BY <1>3 DEF TurnInv, Alive
  <2>2. config.provider = "openai" => ~Reply.error
    BY <2>1, Providers, ReplyAssumption
  <2> QED  BY <2>1, <2>2, Providers DEF Usable, AstraUsable, RouterUsable
<1>4. config.provider = "openrouter" /\ talking = "failed" /\ turns > 0 => failures = <<reply>>
  BY DEF TurnInv
<1> QED  BY <1>1, <1>2, <1>3, <1>4 DEF HistoryIsWhole

(* Each request continues, item for item, what the provider was sent and   *)
(* has produced; completions are asked for when they fit, tools run for    *)
(* replies that can be used, and replies that were paid for are retained,  *)
(* for any configuration, server and replies (the clients' generate and    *)
(* request_body).                                                          *)
THEOREM HistoryInvariant == TurnSpec => []HistoryIsWhole
<1> QED  BY InitTurnInv, TurnNextInv, WholeHistory, PTL DEF TurnSpec

-----------------------------------------------------------------------------
(* The time of a drain.                                                    *)

Episodes == 1 .. settings.max_inflight
Turn(e) == episode[e].doing \in {"waiting", "sending", "sleeping"}

\* The longest that k attempts take, with the sleeps between them.
Attempts(k) == k * settings.request_timeout + (k - 1) * settings.maximum_delay

\* The longest that the turn of an episode still takes, once it need not wait for permits.
Remaining(x) ==
    CASE x.doing = "waiting" ->
            Attempts(settings.max_attempts - x.attempt) + (x.requests - 1) * RequestTime
      [] x.doing = "sending" ->
            x.left + Attempts(settings.max_attempts - x.attempt)
            - settings.request_timeout + (x.requests - 1) * RequestTime
      [] x.doing = "sleeping" ->
            x.left + Attempts(settings.max_attempts - x.attempt - 1)
            + (x.requests - 1) * RequestTime
      [] OTHER -> 0

States == [doing : {"executing", "waiting", "sending", "sleeping", "ended"},
           left : Nat, attempt : Nat, requests : 0 .. 2]

TimeLimit == CancellationTimeout - Grace

StateOK(x) ==
    /\ x.doing \in {"waiting", "sending", "sleeping"} =>
          x.attempt < settings.max_attempts /\ x.requests > 0
    /\ x.doing = "sleeping" => x.attempt + 1 < settings.max_attempts
    /\ x.doing = "waiting" => x.left = 0
    /\ x.doing = "ended" => x = Ended

DrainTypeOK ==
    /\ settings \in Settings
    /\ clock \in Nat
    /\ episode \in [Episodes -> States]
    /\ \A e \in Episodes : StateOK(episode[e])

StatementsFit ==
    \A e \in Episodes : episode[e].doing = "executing" => clock + episode[e].left <= TimeLimit

TurnsFit ==
    settings.permits >= settings.max_inflight =>
        \A e \in Episodes : Turn(e) => clock + Remaining(episode[e]) <= 2 * RequestTime

\* An account: a.
Accounts ==
    {a \in [0 .. settings.max_inflight -> Nat] :
        /\ \A i, j \in 0 .. settings.max_inflight : i <= j => a[i] <= a[j]
        /\ \A e \in Episodes : a[e - 1] + Remaining(episode[e]) <= a[e]}

QueuedTurnsFit ==
    (\E e \in Episodes : Turn(e)) =>
        \E a \in Accounts :
            clock + a[settings.max_inflight] <= 2 * settings.max_inflight * RequestTime

DrainInv == DrainTypeOK /\ StatementsFit /\ TurnsFit /\ QueuedTurnsFit

-----------------------------------------------------------------------------
(* The numbers.                                                            *)

\* A set of numbers that has a largest one has it as its Max.
LEMMA LargestIsMax ==
    ASSUME NEW S \in SUBSET Int, NEW w \in S, \A v \in S : w >= v
    PROVE  Max(S) \in S /\ \A v \in S : Max(S) >= v
BY DEF Max

\* Rounding up keeps the order.
LEMMA QuotientMonotone ==
    ASSUME NEW d \in Nat \ {0}, NEW m \in Nat, NEW n \in Nat, m <= n
    PROVE  /\ Quotient(m, d) \in Nat /\ Quotient(n, d) \in Nat
           /\ Quotient(m, d) <= Quotient(n, d)
<1>1. (m + d - 1) \in Nat /\ (n + d - 1) \in Nat /\ m + d - 1 <= n + d - 1
  OBVIOUS
<1>2. \A x \in Nat : x \div d \in Nat /\ d * (x \div d) <= x /\ x < d * (x \div d) + d
  OBVIOUS
<1>3. /\ Quotient(m, d) = (m + d - 1) \div d
      /\ Quotient(n, d) = (n + d - 1) \div d
  BY DEF Quotient
<1>4. d * Quotient(m, d) < d * (Quotient(n, d) + 1)
  BY <1>1, <1>2, <1>3
<1>5. Quotient(m, d) \in Nat /\ Quotient(n, d) \in Nat
  BY <1>1, <1>2, <1>3
<1> QED  BY <1>4, <1>5

\* What the assumption says of the settings of a run.
SettingsOK ==
    /\ {settings.default_timeout, settings.floor, settings.multiplier, settings.halves,
        settings.max_attempts, settings.request_timeout, settings.permits,
        settings.max_inflight} \subseteq Nat \ {0}
    /\ settings.maximum_delay \in Nat

\* The settings are numbers, and all but the longest delay at least one.
LEMMA SettingsAreOK == settings \in Settings => SettingsOK
BY SettingsAssumption DEF SettingsOK

(* No candidate gets more time than one whose default runs into its limit  *)
(* (candidate_timeout_ms).                                                 *)
LEMMA CandidateMonotone ==
    ASSUME SettingsOK, NEW m \in 1 .. settings.default_timeout
    PROVE  /\ CandidateTimeout(m) \in Nat
           /\ CandidateTimeout(m) <= CandidateTimeout(settings.default_timeout)
<1> DEFINE T == settings.default_timeout
           p == Quotient(m * settings.multiplier, settings.halves)
           q == Quotient(T * settings.multiplier, settings.halves)
           f == settings.floor
<1>1. /\ m * settings.multiplier \in Nat /\ T * settings.multiplier \in Nat
      /\ m * settings.multiplier <= T * settings.multiplier
      /\ settings.halves \in Nat \ {0}
  BY DEF SettingsOK
<1>2. p \in Nat /\ p <= q /\ q \in Nat
  BY <1>1, QuotientMonotone
<1>3. f \in Nat
  BY DEF SettingsOK
<1>4. CandidateTimeout(m) = Max({f, p}) /\ CandidateTimeout(T) = Max({f, q})
  BY DEF CandidateTimeout
<1> HIDE DEF p, q, f
<1>5. \A x, y \in Nat : Max({x, y}) \in {x, y} /\ Max({x, y}) >= x /\ Max({x, y}) >= y
  BY DEF Max
<1> QED  BY <1>2, <1>3, <1>4, <1>5

\* RequestTime is what a request takes; one attempt more costs one sleep more.
LEMMA AttemptTimes ==
    ASSUME SettingsOK
    PROVE  /\ RequestTime = Attempts(settings.max_attempts)
           /\ RequestTime \in Nat
           /\ \A k \in Nat \ {0} :
                 /\ Attempts(k) \in Nat /\ Attempts(k) >= settings.request_timeout
                 /\ Attempts(k + 1) =
                       Attempts(k) + settings.request_timeout + settings.maximum_delay
                 /\ k <= settings.max_attempts => Attempts(k) <= RequestTime
<1>1. RequestTime = Attempts(settings.max_attempts)
  BY DEF RequestTime, Attempts
<1>2. ASSUME NEW k \in Nat \ {0}
      PROVE  /\ Attempts(k) \in Nat /\ Attempts(k) >= settings.request_timeout
             /\ Attempts(k + 1) =
                   Attempts(k) + settings.request_timeout + settings.maximum_delay
             /\ k <= settings.max_attempts => Attempts(k) <= Attempts(settings.max_attempts)
  <2> DEFINE R == settings.request_timeout
             D == settings.maximum_delay
             A == settings.max_attempts
  <2>1. R \in Nat /\ D \in Nat /\ A \in Nat /\ k >= 1
    BY DEF SettingsOK
  <2> HIDE DEF R, D, A
  <2>2. k * R \in Nat /\ k * R >= R /\ (k - 1) * D \in Nat
    BY <2>1
  <2>3. (k + 1) * R = k * R + R /\ (k + 1 - 1) * D = (k - 1) * D + D
    BY <2>1
  <2>4. k <= A => k * R <= A * R /\ (k - 1) * D <= (A - 1) * D
    BY <2>1
  <2>5. A * R \in Int /\ (A - 1) * D \in Int
    BY <2>1
  <2> QED  BY <2>1, <2>2, <2>3, <2>4, <2>5 DEF Attempts, R, D, A
<1>3. settings.max_attempts \in Nat \ {0}
  BY DEF SettingsOK
<1> QED  BY <1>1, <1>2, <1>3

(* The time to drain is that of any statement, of a turn, and if permits   *)
(* are scarce of all turns one after the other (cancellation_timeout).     *)
LEMMA LimitIsLongEnough ==
    ASSUME SettingsOK
    PROVE  /\ TimeLimit \in Int
           /\ settings.default_timeout <= TimeLimit
           /\ \A m \in 1 .. settings.default_timeout :
                 CandidateTimeout(m) \in Nat /\ CandidateTimeout(m) <= TimeLimit
           /\ 2 * RequestTime <= TimeLimit
           /\ settings.permits < settings.max_inflight =>
                 2 * settings.max_inflight * RequestTime <= TimeLimit
<1> DEFINE T == settings.default_timeout
           C == CandidateTimeout(T)
           Q == 2 * QueuedTurns * RequestTime
<1>1. T \in 1 .. T /\ T \in Nat /\ C \in Nat
  <2>1. T \in 1 .. T
    BY DEF SettingsOK
  <2> QED  BY <2>1, CandidateMonotone
<1>2. /\ RequestTime \in Nat /\ QueuedTurns \in Nat \ {0} /\ Grace \in Nat
      /\ settings.permits < settings.max_inflight => QueuedTurns = settings.max_inflight
  BY AttemptTimes, SettingsAssumption DEF SettingsOK, QueuedTurns
<1>3. Q \in Nat /\ 2 * RequestTime <= Q
  BY <1>2
<1>4. CancellationTimeout = Max({T, C, Q}) + Grace
  BY DEF CancellationTimeout
<1> HIDE DEF T, C, Q
<1>5. /\ Max({T, C, Q}) \in Int /\ Max({T, C, Q}) >= T /\ Max({T, C, Q}) >= C
      /\ Max({T, C, Q}) >= Q
  <2>1. PICK w \in {T, C, Q} : \A v \in {T, C, Q} : w >= v
    <3>1. CASE T >= C /\ T >= Q
      BY <1>1, <3>1
    <3>2. CASE C >= T /\ C >= Q
      BY <1>1, <3>2
    <3>3. CASE Q >= T /\ Q >= C
      BY <1>1, <1>3, <3>3
    <3> QED  BY <1>1, <1>3, <3>1, <3>2, <3>3
  <2>2. PICK S : S = {T, C, Q}
    OBVIOUS
  <2>3. Max(S) \in S /\ \A v \in S : Max(S) >= v
    <3>1. S \in SUBSET Int
      BY <1>1, <1>3, <2>2
    <3> QED  BY <2>1, <2>2, <3>1, LargestIsMax
  <2> QED  BY <1>1, <1>3, <2>2, <2>3
<1>6. TimeLimit = Max({T, C, Q})
  BY <1>2, <1>4, <1>5 DEF TimeLimit
<1>7. ASSUME NEW m \in 1 .. settings.default_timeout
      PROVE  CandidateTimeout(m) \in Nat /\ CandidateTimeout(m) <= TimeLimit
  BY <1>1, <1>5, <1>6, CandidateMonotone DEF T, C
<1>8. 2 * RequestTime <= TimeLimit
  BY <1>2, <1>3, <1>5, <1>6
<1>9. settings.permits < settings.max_inflight =>
         2 * settings.max_inflight * RequestTime <= TimeLimit
  BY <1>2, <1>5, <1>6 DEF Q
<1> QED  BY <1>1, <1>5, <1>6, <1>7, <1>8, <1>9 DEF T

\* What an episode still needs is a number.
LEMMA RemainingIsNat ==
    ASSUME SettingsOK, NEW x \in States, StateOK(x)
    PROVE  Remaining(x) \in Nat
BY AttemptTimes DEF SettingsOK, States, StateOK, Remaining

-----------------------------------------------------------------------------
(* The steps.                                                              *)

\* What depends on the settings alone stays what it is.
LEMMA SettingsStay ==
    ASSUME settings' = settings
    PROVE  /\ Episodes' = Episodes /\ RequestTime' = RequestTime /\ TimeLimit' = TimeLimit
           /\ \A x : Remaining(x)' = Remaining(x) /\ StateOK(x)' = StateOK(x)
<1>1. RequestTime' = RequestTime
  BY DEF RequestTime
<1>2. \A m : CandidateTimeout(m)' = CandidateTimeout(m)
  BY DEF CandidateTimeout
<1>3. QueuedTurns' = QueuedTurns
  BY DEF QueuedTurns
<1>4. TimeLimit' = TimeLimit
  BY <1>1, <1>2, <1>3 DEF TimeLimit, CancellationTimeout
<1>5. \A k : Attempts(k)' = Attempts(k)
  BY DEF Attempts
<1>6. \A x : Remaining(x)' = Remaining(x)
  BY <1>1, <1>5 DEF Remaining
<1> QED  BY <1>1, <1>4, <1>6 DEF Episodes, StateOK

(* At the cancellation each turn needs at most two requests, and the       *)
(* account has that for each episode.                                      *)
LEMMA InitDrain == DrainInit => DrainInv
<1> SUFFICES ASSUME DrainInit PROVE DrainInv
  OBVIOUS
<1>1. SettingsOK /\ settings \in Settings /\ clock = 0
  BY SettingsAreOK DEF DrainInit
<1>2. episode \in [Episodes -> Doing]
  BY DEF DrainInit, Episodes
<1>3. ASSUME NEW x \in Doing
      PROVE  /\ x \in States /\ StateOK(x)
             /\ x.doing = "executing" => x.left <= TimeLimit
             /\ Remaining(x) <= 2 * RequestTime
  <2>1. CASE x.doing = "executing"
    <3>1. PICK n \in {settings.default_timeout}
                     \cup {CandidateTimeout(m) : m \in 1 .. settings.default_timeout} :
             x = [doing |-> "executing", left |-> n, attempt |-> 0, requests |-> 0]
      BY <2>1 DEF Doing
    <3>2. n \in Nat /\ n <= TimeLimit
      BY <1>1, LimitIsLongEnough DEF SettingsOK
    <3>3. Remaining(x) = 0 /\ RequestTime \in Nat
      BY <1>1, <2>1, AttemptTimes DEF Remaining
    <3> QED  BY <3>1, <3>2, <3>3 DEF States, StateOK
  <2>2. CASE x.doing # "executing"
    <3>1. PICK a \in 0 .. settings.max_attempts - 1, n \in 1 .. 2 :
             \/ x = [doing |-> "waiting", left |-> 0, attempt |-> a, requests |-> n]
             \/ x = [doing |-> "sending", left |-> settings.request_timeout, attempt |-> a,
                     requests |-> n]
      BY <2>2 DEF Doing
    <3>2. /\ settings.max_attempts - a \in Nat \ {0}
          /\ settings.request_timeout \in Nat /\ RequestTime \in Nat
          /\ Attempts(settings.max_attempts - a) \in Nat
          /\ Attempts(settings.max_attempts - a) <= RequestTime
          /\ (n - 1) * RequestTime <= RequestTime
      <4>1. settings.max_attempts - a \in Nat \ {0} /\ settings.max_attempts \in Nat
        BY <1>1 DEF SettingsOK
      <4>2. RequestTime \in Nat
        BY <1>1, AttemptTimes
      <4>3. (n - 1) * RequestTime <= RequestTime
        BY <4>2
      <4>4. settings.max_attempts - a <= settings.max_attempts
        BY <4>1
      <4> QED  BY <1>1, <4>1, <4>2, <4>3, <4>4, AttemptTimes DEF SettingsOK
    <3>3. x \in States /\ StateOK(x)
      BY <1>1, <3>1, <3>2 DEF States, StateOK, SettingsOK
    <3>4. Remaining(x) <= 2 * RequestTime
      BY <3>1, <3>2 DEF Remaining
    <3> QED  BY <2>2, <3>3, <3>4
  <2> QED  BY <2>1, <2>2
<1>4. DrainTypeOK
  BY <1>1, <1>2, <1>3 DEF DrainTypeOK
<1>5. StatementsFit
  BY <1>1, <1>2, <1>3, LimitIsLongEnough DEF StatementsFit, States
<1>6. \A e \in Episodes :
         Remaining(episode[e]) \in Nat /\ Remaining(episode[e]) <= 2 * RequestTime
  BY <1>1, <1>2, <1>3, RemainingIsNat
<1>7. TurnsFit
  BY <1>1, <1>6 DEF TurnsFit
<1>8. QueuedTurnsFit
  <2> DEFINE n == settings.max_inflight
             t == 2 * RequestTime
             a == [k \in 0 .. n |-> k * t]
  <2>1. n \in Nat \ {0} /\ t \in Nat
    BY <1>1, AttemptTimes DEF SettingsOK
  <2>2. n \in 0 .. n /\ \A e \in Episodes : e \in 0 .. n /\ e - 1 \in 0 .. n /\ e \in Nat
    BY <2>1 DEF Episodes
  <2> HIDE DEF n, t
  <2>3. \A k \in Nat : k * t \in Nat
    BY <2>1
  <2>4. a \in [0 .. n -> Nat]
    BY <2>3
  <2>5. ASSUME NEW i \in 0 .. n, NEW j \in 0 .. n, i <= j PROVE i * t <= j * t
    BY <2>1, <2>5
  <2>6. ASSUME NEW e \in Episodes PROVE (e - 1) * t + Remaining(episode[e]) <= e * t
    <3>1. (e - 1) * t = e * t - t /\ e * t \in Nat
      BY <2>1, <2>2
    <3>2. Remaining(episode[e]) \in Nat /\ Remaining(episode[e]) <= t
      BY <1>6 DEF t
    <3> QED  BY <2>1, <3>1, <3>2
  <2>7. a \in Accounts
    BY <2>2, <2>4, <2>5, <2>6 DEF Accounts, n
  <2>8. clock + a[n] = 2 * n * RequestTime
    <3>1. a[n] = n * t /\ n * t \in Nat /\ clock = 0
      BY <1>1, <2>1, <2>2
    <3>2. n * t = 2 * n * RequestTime
      BY <1>1, <2>1, AttemptTimes DEF t
    <3> QED  BY <3>1, <3>2
  <2>9. clock + a[n] <= 2 * n * RequestTime
    <3>1. 2 * n * RequestTime \in Int
      BY <1>1, <2>1, AttemptTimes
    <3> QED  BY <2>8, <3>1
  <2> QED  BY <2>7, <2>9 DEF QueuedTurnsFit, n
<1> QED  BY <1>4, <1>5, <1>7, <1>8 DEF DrainInv

(* A step that takes no time, and after which an episode needs no more     *)
(* than before, keeps the account.                                         *)
LEMMA ContinueInv ==
    ASSUME DrainInv, NEW e \in Episodes, NEW x \in States, StateOK(x), Continue(e, x),
           x.doing # "ended" => x.doing \in {"waiting", "sending", "sleeping"} /\ Turn(e),
           Remaining(x) <= Remaining(episode[e])
    PROVE  DrainInv'
<1>1. settings' = settings /\ clock' = clock /\ episode' = [episode EXCEPT ![e] = x]
  BY DEF Continue
<1>2. /\ Episodes' = Episodes /\ RequestTime' = RequestTime /\ TimeLimit' = TimeLimit
      /\ \A y : Remaining(y)' = Remaining(y) /\ StateOK(y)' = StateOK(y)
  BY <1>1, SettingsStay
<1>3. SettingsOK /\ clock \in Nat /\ episode \in [Episodes -> States]
      /\ \A i \in Episodes : StateOK(episode[i])
  BY SettingsAreOK DEF DrainInv, DrainTypeOK
<1>4. /\ episode' \in [Episodes -> States]
      /\ \A i \in Episodes : episode'[i] = IF i = e THEN x ELSE episode[i]
  BY <1>1, <1>3
<1>5. DrainTypeOK'
  BY <1>1, <1>2, <1>3, <1>4 DEF DrainInv, DrainTypeOK
<1>6. \A i \in Episodes :
         /\ Remaining(episode[i]) \in Nat /\ Remaining(episode'[i]) \in Nat
         /\ Remaining(episode'[i]) <= Remaining(episode[i])
         /\ Turn(i)' => Turn(i)
         /\ episode'[i].doing = "executing" => episode'[i] = episode[i]
  <2>1. \A i \in Episodes :
           Remaining(episode[i]) \in Nat /\ Remaining(episode'[i]) \in Nat
    BY <1>3, <1>4, RemainingIsNat
  <2> QED  BY <2>1, <1>4 DEF Turn
<1>7. StatementsFit'
  BY <1>1, <1>2, <1>6 DEF DrainInv, StatementsFit
<1>8. TurnsFit'
  <2> SUFFICES ASSUME settings.permits >= settings.max_inflight,
                      NEW i \in Episodes, Turn(i)'
               PROVE  clock + Remaining(episode'[i]) <= 2 * RequestTime
    BY <1>1, <1>2 DEF TurnsFit
  <2>1. clock + Remaining(episode[i]) <= 2 * RequestTime
    BY <1>6 DEF DrainInv, TurnsFit
  <2>2. RequestTime \in Nat
    BY <1>3, AttemptTimes
  <2> QED  BY <1>3, <1>6, <2>1, <2>2
<1>9. QueuedTurnsFit'
  <2> SUFFICES ASSUME \E i \in Episodes : Turn(i)'
               PROVE  \E a \in Accounts' :
                         clock + a[settings.max_inflight]
                            <= 2 * settings.max_inflight * RequestTime
    BY <1>1, <1>2 DEF QueuedTurnsFit
  <2>1. PICK a \in Accounts :
           clock + a[settings.max_inflight] <= 2 * settings.max_inflight * RequestTime
    BY <1>6 DEF DrainInv, QueuedTurnsFit
  <2>2. ASSUME NEW i \in Episodes PROVE a[i - 1] + Remaining(episode'[i]) <= a[i]
    <3>1. i \in 0 .. settings.max_inflight /\ i - 1 \in 0 .. settings.max_inflight
      BY <1>3 DEF Episodes, SettingsOK
    <3>2. a[i] \in Nat /\ a[i - 1] \in Nat /\ a[i - 1] + Remaining(episode[i]) <= a[i]
      BY <2>1, <3>1 DEF Accounts
    <3> QED  BY <1>6, <3>2
  <2>3. a \in Accounts'
    BY <1>1, <1>2, <2>1, <2>2 DEF Accounts
  <2> QED  BY <2>1, <2>3
<1> QED  BY <1>5, <1>7, <1>8, <1>9 DEF DrainInv

(* An episode that ends needs nothing (check_cancelled).                   *)
LEMMA StatementEndsInv ==
    ASSUME DrainInv, NEW e \in Episodes, StatementEnds(e) PROVE DrainInv'
<1>1. PICK x : x = Ended
  OBVIOUS
<1>2. x \in States /\ StateOK(x) /\ x.doing = "ended"
  BY <1>1 DEF Ended, States, StateOK
<1>3. Remaining(x) = 0 /\ Remaining(episode[e]) = 0
  BY <1>2 DEF StatementEnds, Remaining
<1>4. Continue(e, x)
  BY <1>1 DEF StatementEnds
<1> QED  BY <1>2, <1>3, <1>4, ContinueInv

(* An attempt takes what was kept for it (HttpTransport.request).          *)
LEMMA SendInv == ASSUME DrainInv, NEW e \in Episodes, Send(e) PROVE DrainInv'
<1>1. /\ SettingsOK /\ episode[e] \in States /\ StateOK(episode[e])
      /\ episode[e].doing = "waiting"
  BY SettingsAreOK DEF DrainInv, DrainTypeOK, Send
<1>2. PICK x : x = [episode[e] EXCEPT !.doing = "sending", !.left = settings.request_timeout]
  OBVIOUS
<1>3. /\ x \in States /\ StateOK(x) /\ x.doing = "sending"
      /\ x.attempt = episode[e].attempt /\ x.requests = episode[e].requests
      /\ x.left = settings.request_timeout
  BY <1>1, <1>2 DEF States, StateOK, SettingsOK
<1>4. Continue(e, x)
  BY <1>2 DEF Send
<1>5. Remaining(x) <= Remaining(episode[e])
  <2>1. Remaining(x) = settings.request_timeout
                       + Attempts(settings.max_attempts - episode[e].attempt)
                       - settings.request_timeout + (episode[e].requests - 1) * RequestTime
    BY <1>3 DEF Remaining
  <2>2. Remaining(episode[e]) = Attempts(settings.max_attempts - episode[e].attempt)
                                + (episode[e].requests - 1) * RequestTime
    BY <1>1 DEF Remaining
  <2>3. /\ settings.request_timeout \in Nat
        /\ Attempts(settings.max_attempts - episode[e].attempt) \in Nat
        /\ (episode[e].requests - 1) * RequestTime \in Int
    <3>1. settings.max_attempts - episode[e].attempt \in Nat \ {0}
      BY <1>1 DEF States, StateOK, SettingsOK
    <3>2. RequestTime \in Nat /\ episode[e].requests \in Nat
      BY <1>1, AttemptTimes DEF States
    <3> QED  BY <1>1, <3>1, <3>2, AttemptTimes DEF SettingsOK
  <2> QED  BY <2>1, <2>2, <2>3
<1> QED  BY <1>1, <1>3, <1>4, <1>5, ContinueInv DEF Turn

(* A sleep that is over leaves the attempts after it.                      *)
LEMMA ResumeInv == ASSUME DrainInv, NEW e \in Episodes, Resume(e) PROVE DrainInv'
<1>1. /\ SettingsOK /\ episode[e] \in States /\ StateOK(episode[e])
      /\ episode[e].doing = "sleeping" /\ episode[e].left = 0
  BY SettingsAreOK DEF DrainInv, DrainTypeOK, Resume
<1>2. PICK x : x = [episode[e] EXCEPT !.doing = "waiting", !.attempt = @ + 1]
  OBVIOUS
<1>3. /\ x \in States /\ StateOK(x) /\ x.doing = "waiting"
      /\ x.attempt = episode[e].attempt + 1 /\ x.requests = episode[e].requests
  <2>1. /\ x \in States /\ x.doing = "waiting" /\ x.left = 0
        /\ x.attempt = episode[e].attempt + 1 /\ x.requests = episode[e].requests
    <3>1. PICK a \in Nat : a = episode[e].attempt + 1
      BY <1>1 DEF States
    <3>2. x = [episode[e] EXCEPT !.doing = "waiting", !.attempt = a]
      BY <1>2, <3>1
    <3> QED  BY <1>1, <3>1, <3>2 DEF States
  <2>2. episode[e].attempt + 1 < settings.max_attempts /\ episode[e].requests > 0
    BY <1>1 DEF StateOK
  <2> QED  BY <2>1, <2>2 DEF StateOK
<1>4. Continue(e, x)
  BY <1>2 DEF Resume
<1>5. Remaining(x) <= Remaining(episode[e])
  <2>1. /\ settings.max_attempts - x.attempt = settings.max_attempts - episode[e].attempt - 1
        /\ settings.max_attempts - x.attempt \in Nat \ {0}
    BY <1>1, <1>3 DEF States, StateOK, SettingsOK
  <2>2. Remaining(x) = Attempts(settings.max_attempts - x.attempt)
                       + (x.requests - 1) * RequestTime
    BY <1>3 DEF Remaining
  <2>3. Remaining(episode[e]) = 0 + Attempts(settings.max_attempts - x.attempt)
                                + (x.requests - 1) * RequestTime
    BY <1>1, <1>3, <2>1 DEF Remaining
  <2>4. /\ Attempts(settings.max_attempts - x.attempt) \in Nat
        /\ (x.requests - 1) * RequestTime \in Int
    <3>1. RequestTime \in Nat /\ x.requests \in Nat
      BY <1>1, <1>3, AttemptTimes DEF States
    <3> QED  BY <1>1, <2>1, <3>1, AttemptTimes
  <2> QED  BY <2>2, <2>3, <2>4
<1> QED  BY <1>1, <1>3, <1>4, <1>5, ContinueInv DEF Turn

(* After an attempt there is an attempt less, or a request less            *)
(* (HttpTransport.request, LocalModelClient.generate).                     *)
LEMMA AttemptEndsInv ==
    ASSUME DrainInv, NEW e \in Episodes, AttemptEnds(e) PROVE DrainInv'
<1> DEFINE k == settings.max_attempts - episode[e].attempt
           later == (episode[e].requests - 1) * RequestTime
<1>1. /\ SettingsOK /\ episode[e] \in States /\ StateOK(episode[e])
      /\ episode[e].doing = "sending" /\ Turn(e)
  BY SettingsAreOK DEF DrainInv, DrainTypeOK, AttemptEnds, Turn
<1>2. /\ k \in Nat \ {0} /\ episode[e].left \in Nat /\ episode[e].requests \in 1 .. 2
      /\ RequestTime \in Nat /\ later \in Nat
      /\ settings.request_timeout \in Nat /\ settings.maximum_delay \in Nat
  <2>1. k \in Nat \ {0} /\ episode[e].left \in Nat /\ episode[e].requests \in 1 .. 2
    BY <1>1 DEF States, StateOK, SettingsOK
  <2>2. RequestTime \in Nat
    BY <1>1, AttemptTimes
  <2> QED  BY <1>1, <2>1, <2>2 DEF SettingsOK
<1>3. Attempts(k) \in Nat /\ Attempts(k) >= settings.request_timeout
  BY <1>1, <1>2, AttemptTimes
<1>4. Remaining(episode[e]) =
         episode[e].left + Attempts(k) - settings.request_timeout + later
  BY <1>1 DEF Remaining
<1>5. CASE Continue(e, Ended)
  <2>1. PICK x : x = Ended
    OBVIOUS
  <2>2. x \in States /\ StateOK(x) /\ x.doing = "ended"
    BY <2>1 DEF Ended, States, StateOK
  <2>3. Remaining(x) = 0 /\ 0 <= Remaining(episode[e])
    <3>1. Remaining(x) = 0
      BY <2>2 DEF Remaining
    <3> HIDE DEF k, later
    <3> QED  BY <1>2, <1>3, <1>4, <3>1
  <2>4. Continue(e, x)
    BY <1>5, <2>1
  <2> QED  BY <2>2, <2>3, <2>4, ContinueInv
<1>6. CASE /\ episode[e].requests # 1
           /\ Continue(e, [doing |-> "waiting", left |-> 0, attempt |-> 0, requests |-> 1])
  <2>1. PICK x : x = [doing |-> "waiting", left |-> 0, attempt |-> 0, requests |-> 1]
    OBVIOUS
  <2>2. x \in States /\ StateOK(x) /\ x.doing = "waiting"
    BY <1>1, <2>1 DEF States, StateOK, SettingsOK
  <2>3. Remaining(x) = RequestTime
    <3>1. Remaining(x) = Attempts(settings.max_attempts - 0) + (1 - 1) * RequestTime
      BY <2>1 DEF Remaining
    <3>2. settings.max_attempts - 0 = settings.max_attempts
      BY <1>1 DEF SettingsOK
    <3>3. Attempts(settings.max_attempts) = RequestTime
      BY <1>1, AttemptTimes
    <3> QED  BY <1>2, <3>1, <3>2, <3>3
  <2>4. later = RequestTime
    BY <1>2, <1>6
  <2>5. Remaining(x) <= Remaining(episode[e])
    BY <1>2, <1>3, <1>4, <2>3, <2>4
  <2> QED  BY <1>1, <1>6, <2>1, <2>2, <2>5, ContinueInv
<1>7. CASE /\ episode[e].attempt + 1 < settings.max_attempts
           /\ \E pause \in 0 .. settings.maximum_delay :
                 Continue(e, [episode[e] EXCEPT !.doing = "sleeping", !.left = pause])
  <2>1. PICK pause \in 0 .. settings.maximum_delay :
           Continue(e, [episode[e] EXCEPT !.doing = "sleeping", !.left = pause])
    BY <1>7
  <2>2. PICK x : x = [episode[e] EXCEPT !.doing = "sleeping", !.left = pause]
    OBVIOUS
  <2>3. /\ x \in States /\ StateOK(x) /\ x.doing = "sleeping" /\ x.left = pause
        /\ x.attempt = episode[e].attempt /\ x.requests = episode[e].requests
        /\ pause \in Nat /\ pause <= settings.maximum_delay
    <3>1. pause \in Nat /\ pause <= settings.maximum_delay
      BY <1>2
    <3>2. /\ x \in States /\ x.doing = "sleeping" /\ x.left = pause
          /\ x.attempt = episode[e].attempt /\ x.requests = episode[e].requests
      BY <1>1, <2>2, <3>1 DEF States
    <3>3. episode[e].attempt < settings.max_attempts /\ episode[e].requests > 0
      BY <1>1 DEF StateOK
    <3> QED  BY <1>7, <3>1, <3>2, <3>3 DEF StateOK
  <2>4. Remaining(x) = pause + Attempts(k - 1) + later
    BY <2>3 DEF Remaining
  <2>5. k - 1 \in Nat \ {0} /\ (k - 1) + 1 = k
    BY <1>1, <1>7 DEF States, SettingsOK
  <2>6. /\ Attempts(k - 1) \in Nat
        /\ Attempts(k) =
              Attempts(k - 1) + settings.request_timeout + settings.maximum_delay
    BY <1>1, <2>5, AttemptTimes
  <2>7. Remaining(x) <= Remaining(episode[e])
    <3> HIDE DEF k, later
    <3> QED  BY <1>2, <1>3, <1>4, <2>3, <2>4, <2>6
  <2> QED  BY <1>1, <2>1, <2>2, <2>3, <2>7, ContinueInv
<1> QED  BY <1>5, <1>6, <1>7 DEF AttemptEnds

(* Time passes for some turn, if there is one: a turn waits only while     *)
(* others send.  So the account falls by one.                              *)
LEMMA TickInv == ASSUME DrainInv, Tick PROVE DrainInv'
<1> DEFINE n == settings.max_inflight
<1>1. /\ settings' = settings /\ clock' = clock + 1 /\ clock \in Nat /\ SettingsOK
      /\ settings \in Settings
      /\ episode \in [Episodes -> States] /\ DOMAIN episode = Episodes
      /\ \A i \in Episodes : StateOK(episode[i])
      /\ n \in Nat \ {0} /\ settings.permits \in Nat \ {0} /\ RequestTime \in Nat
  BY SettingsAreOK, AttemptTimes DEF DrainInv, DrainTypeOK, Tick, SettingsOK
<1>2. /\ Episodes' = Episodes /\ RequestTime' = RequestTime /\ TimeLimit' = TimeLimit
      /\ \A y : Remaining(y)' = Remaining(y) /\ StateOK(y)' = StateOK(y)
  BY <1>1, SettingsStay
<1>3. ASSUME NEW i \in Episodes
      PROVE  /\ episode'[i] \in States /\ StateOK(episode'[i])
             /\ episode'[i].doing = episode[i].doing
             /\ Remaining(episode[i]) \in Nat /\ Remaining(episode'[i]) \in Nat
             /\ Remaining(episode'[i]) <= Remaining(episode[i])
             /\ episode[i].doing \in {"executing", "sending", "sleeping"} =>
                   /\ episode[i].left \in Nat \ {0}
                   /\ episode'[i].left = episode[i].left - 1
             /\ episode[i].doing \in {"sending", "sleeping"} =>
                   Remaining(episode[i]) = Remaining(episode'[i]) + 1
  <2>1. episode[i] \in States /\ StateOK(episode[i])
    BY <1>1
  <2>2. Remaining(episode[i]) \in Nat
    BY <1>1, <2>1, RemainingIsNat
  <2>3. CASE episode[i].left > 0
    <3>1. episode'[i] = [episode[i] EXCEPT !.left = @ - 1]
      BY <1>1, <2>3 DEF Tick
    <3>2. PICK x : x = episode'[i]
      OBVIOUS
    <3>3. /\ x \in States /\ x.left = episode[i].left - 1 /\ x.doing = episode[i].doing
          /\ x.attempt = episode[i].attempt /\ x.requests = episode[i].requests
          /\ episode[i].left \in Nat \ {0}
      BY <2>1, <2>3, <3>1, <3>2 DEF States
    <3>4. episode[i].doing # "ended" /\ episode[i].doing # "waiting"
      BY <2>1, <2>3 DEF StateOK, Ended
    <3>5. StateOK(x)
      BY <2>1, <3>3, <3>4 DEF StateOK
    <3>6. Remaining(x) \in Nat
      BY <1>1, <3>3, <3>5, RemainingIsNat
    <3>7. CASE episode[i].doing = "executing"
      BY <2>2, <3>2, <3>3, <3>5, <3>6, <3>7 DEF Remaining
    <3>8. CASE episode[i].doing = "sending"
      <4> DEFINE rest == Attempts(settings.max_attempts - x.attempt)
                 later == (x.requests - 1) * RequestTime
      <4>1. /\ Remaining(x) = x.left + rest - settings.request_timeout + later
            /\ Remaining(episode[i]) =
                  episode[i].left + rest - settings.request_timeout + later
        BY <3>3, <3>8 DEF Remaining
      <4>2. rest \in Int /\ later \in Int /\ settings.request_timeout \in Int
        BY <1>1, <3>3, <3>5, <3>8, AttemptTimes DEF States, StateOK, SettingsOK
      <4> HIDE DEF rest, later
      <4>3. Remaining(episode[i]) = Remaining(x) + 1
        BY <3>3, <4>1, <4>2
      <4> QED  BY <2>2, <3>2, <3>3, <3>5, <3>6, <3>8, <4>3
    <3>9. CASE episode[i].doing = "sleeping"
      <4> DEFINE rest == Attempts(settings.max_attempts - x.attempt - 1)
                 later == (x.requests - 1) * RequestTime
      <4>1. /\ Remaining(x) = x.left + rest + later
            /\ Remaining(episode[i]) = episode[i].left + rest + later
        BY <3>3, <3>9 DEF Remaining
      <4>2. rest \in Int /\ later \in Int
        BY <1>1, <3>3, <3>5, <3>9, AttemptTimes DEF States, StateOK, SettingsOK
      <4> HIDE DEF rest, later
      <4>3. Remaining(episode[i]) = Remaining(x) + 1
        BY <3>3, <4>1, <4>2
      <4> QED  BY <2>2, <3>2, <3>3, <3>5, <3>6, <3>9, <4>3
    <3> QED  BY <2>1, <3>4, <3>7, <3>8, <3>9 DEF States
  <2>4. CASE ~(episode[i].left > 0)
    <3>1. episode'[i] = episode[i]
      BY <1>1, <2>4 DEF Tick
    <3>2. episode[i].doing \notin {"executing", "sending", "sleeping"}
      BY <1>1, <2>4 DEF Tick
    <3> QED  BY <2>1, <2>2, <3>1, <3>2
  <2> QED  BY <2>3, <2>4
<1>4. DrainTypeOK'
  <2>1. episode' \in [Episodes -> States]
    BY <1>1, <1>3 DEF Tick
  <2> QED  BY <1>1, <1>2, <1>3, <2>1 DEF DrainTypeOK
<1>5. StatementsFit'
  <2> SUFFICES ASSUME NEW i \in Episodes, episode'[i].doing = "executing"
               PROVE  clock + 1 + episode'[i].left <= TimeLimit
    BY <1>1, <1>2 DEF StatementsFit
  <2>1. clock + episode[i].left <= TimeLimit
    BY <1>3 DEF DrainInv, StatementsFit
  <2>2. TimeLimit \in Int
    BY <1>1, LimitIsLongEnough
  <2> QED  BY <1>1, <1>3, <2>1, <2>2
<1>6. TurnsFit'
  <2> SUFFICES ASSUME settings.permits >= n, NEW i \in Episodes, Turn(i)'
               PROVE  clock + 1 + Remaining(episode'[i]) <= 2 * RequestTime
    BY <1>1, <1>2 DEF TurnsFit
  <2>1. Turn(i)
    BY <1>3 DEF Turn
  <2>2. episode[i].doing # "waiting"
    <3> SUFFICES ASSUME episode[i].doing = "waiting" PROVE FALSE
      OBVIOUS
    <3>1. Sending(episode) \subseteq Episodes \ {i}
      BY <1>1 DEF Sending
    <3>2. /\ IsFiniteSet(Episodes) /\ Cardinality(Episodes) = n
      <4>1. 1 \in Int /\ n \in Int /\ ~(1 > n) /\ n - 1 + 1 = n
        BY <1>1
      <4>2. PICK m \in Int : m = n
        BY <4>1
      <4>3. IsFiniteSet(1 .. m) /\ Cardinality(1 .. m) = m
        BY <4>1, <4>2, FS_Interval
      <4> QED  BY <4>2, <4>3 DEF Episodes
    <3>3. IsFiniteSet(Episodes \ {i}) /\ Cardinality(Episodes \ {i}) = n - 1
      BY <3>2, FS_RemoveElement
    <3>4. Cardinality(Sending(episode)) <= n - 1 /\ IsFiniteSet(Sending(episode))
      BY <3>1, <3>3, FS_Subset
    <3>5. Cardinality(Sending(episode)) = settings.permits
      BY <1>1 DEF Tick
    <3> QED  BY <1>1, <3>4, <3>5
  <2>3. clock + Remaining(episode[i]) <= 2 * RequestTime
    BY <2>1 DEF DrainInv, TurnsFit
  <2>4. Remaining(episode[i]) = Remaining(episode'[i]) + 1
    BY <1>3, <2>1, <2>2 DEF Turn
  <2> QED  BY <1>1, <1>3, <2>3, <2>4
<1>7. QueuedTurnsFit'
  <2> SUFFICES ASSUME NEW i \in Episodes, Turn(i)'
               PROVE  \E a \in Accounts' : clock + 1 + a[n] <= 2 * n * RequestTime
    BY <1>1, <1>2 DEF QueuedTurnsFit
  <2>1. Turn(i)
    BY <1>3 DEF Turn
  <2>2. PICK j \in Episodes : Remaining(episode[j]) = Remaining(episode'[j]) + 1
    <3>1. CASE episode[i].doing = "waiting"
      <4>1. Cardinality(Sending(episode)) = settings.permits
        BY <1>1, <3>1 DEF Tick
      <4>2. Sending(episode) # {}
        BY <1>1, <4>1, FS_EmptySet
      <4> QED  BY <1>1, <1>3, <4>2 DEF Sending
    <3>2. CASE episode[i].doing # "waiting"
      BY <1>3, <2>1, <3>2 DEF Turn
    <3> QED  BY <3>1, <3>2
  <2>3. PICK b \in Accounts : clock + b[n] <= 2 * n * RequestTime
    BY <2>1 DEF DrainInv, QueuedTurnsFit
  <2>4. /\ b \in [0 .. n -> Nat]
        /\ \A k, l \in 0 .. n : k <= l => b[k] <= b[l]
        /\ \A e \in Episodes : b[e - 1] + Remaining(episode[e]) <= b[e]
    BY <2>3 DEF Accounts
  <2>5. /\ n \in 0 .. n
        /\ \A e \in Episodes : e \in 0 .. n /\ e - 1 \in 0 .. n /\ e \in Nat /\ e <= n
    BY <1>1 DEF Episodes
  <2>6. b[j - 1] + 1 <= b[j] /\ b[j] <= b[n]
    <3>1. /\ b[j - 1] \in Nat /\ b[j] \in Nat /\ b[j] <= b[n]
          /\ b[j - 1] + Remaining(episode[j]) <= b[j]
      BY <2>4, <2>5
    <3>2. Remaining(episode'[j]) \in Nat
      BY <1>3
    <3> QED  BY <2>2, <3>1, <3>2
  <2> DEFINE a == [k \in 0 .. n |-> IF k < j THEN b[k] ELSE b[k] - 1]
  <2> HIDE DEF n
  <2>7. ASSUME NEW k \in 0 .. n, ~(k < j) PROVE b[j - 1] + 1 <= b[k] /\ b[k] \in Nat
    <3>1. j \in 0 .. n /\ j \in Int /\ k \in Int /\ j <= k
      BY <2>5, <2>7
    <3>2. b[j] \in Nat /\ b[k] \in Nat /\ b[j - 1] \in Nat /\ b[j] <= b[k]
      BY <2>4, <2>5, <3>1
    <3> QED  BY <2>6, <3>2
  <2>8. a \in [0 .. n -> Nat]
    <3>1. ASSUME NEW k \in 0 .. n PROVE (IF k < j THEN b[k] ELSE b[k] - 1) \in Nat
      <4>1. CASE k < j
        BY <2>4, <4>1
      <4>2. CASE ~(k < j)
        <5>1. b[j - 1] \in Nat
          BY <2>4, <2>5
        <5> QED  BY <2>7, <4>2, <5>1
      <4> QED  BY <4>1, <4>2
    <3> QED  BY <3>1
  <2>9. ASSUME NEW k \in 0 .. n, NEW l \in 0 .. n, k <= l PROVE a[k] <= a[l]
    <3>1. b[k] \in Nat /\ b[l] \in Nat /\ b[k] <= b[l]
      BY <2>4, <2>9
    <3>2. CASE k < j /\ ~(l < j)
      <4>1. b[k] <= b[j - 1] /\ b[j - 1] \in Nat
        BY <2>4, <2>5, <3>2
      <4>2. b[j - 1] + 1 <= b[l]
        BY <2>7, <3>2
      <4> QED  BY <3>1, <3>2, <4>1, <4>2
    <3>3. CASE ~(k < j /\ ~(l < j))
      BY <2>5, <2>9, <3>1, <3>3
    <3> QED  BY <3>2, <3>3
  <2>10. ASSUME NEW e \in Episodes PROVE a[e - 1] + Remaining(episode'[e]) <= a[e]
    <3>1. /\ b[e - 1] \in Nat /\ b[e] \in Nat /\ b[e - 1] + Remaining(episode[e]) <= b[e]
          /\ Remaining(episode'[e]) \in Nat /\ Remaining(episode[e]) \in Nat
          /\ Remaining(episode'[e]) <= Remaining(episode[e])
      BY <1>3, <2>4, <2>5
    <3>2. /\ a[e - 1] = IF e - 1 < j THEN b[e - 1] ELSE b[e - 1] - 1
          /\ a[e] = IF e < j THEN b[e] ELSE b[e] - 1
      BY <2>5
    <3>3. CASE e = j
      <4>1. e \in Int /\ e - 1 < e /\ ~(e < e)
        BY <2>5
      <4>2. a[e - 1] = b[e - 1] /\ a[e] = b[e] - 1
        BY <3>2, <3>3, <4>1
      <4> QED  BY <2>2, <3>1, <3>3, <4>2
    <3>4. CASE e # j
      <4>1. e \in Int /\ j \in Int
        BY <2>5
      <4>2. CASE e < j
        BY <3>1, <3>2, <4>1, <4>2
      <4>3. CASE e > j
        <5>1. ~(e - 1 < j) /\ ~(e < j)
          BY <4>1, <4>3
        <5> QED  BY <3>1, <3>2, <5>1
      <4> QED  BY <3>4, <4>1, <4>2, <4>3
    <3> QED  BY <3>3, <3>4
  <2>11. a \in Accounts'
    <3>1. Accounts' = {c \in [0 .. n -> Nat] :
                         /\ \A k, l \in 0 .. n : k <= l => c[k] <= c[l]
                         /\ \A e \in Episodes : c[e - 1] + Remaining(episode'[e]) <= c[e]}
      BY <1>1, <1>2 DEF Accounts, n
    <3> HIDE DEF a
    <3> QED  BY <2>8, <2>9, <2>10, <3>1
  <2>12. a[n] = b[n] - 1 /\ b[n] \in Nat
    BY <2>4, <2>5
  <2>13. clock + 1 + a[n] <= 2 * n * RequestTime
    BY <1>1, <2>3, <2>12 DEF n
  <2> QED  BY <2>11, <2>13
<1> QED  BY <1>4, <1>5, <1>6, <1>7 DEF DrainInv

(* DrainInv is inductive.                                                  *)
LEMMA DrainNextInv == DrainInv /\ [DrainNext]_drainVars => DrainInv'
<1> SUFFICES ASSUME DrainInv, [DrainNext]_drainVars PROVE DrainInv'
  OBVIOUS
<1>1. DOMAIN episode = Episodes
  BY DEF DrainInv, DrainTypeOK
<1>2. CASE UNCHANGED drainVars
  BY <1>2, SettingsStay
     DEF DrainInv, DrainTypeOK, StatementsFit, TurnsFit, QueuedTurnsFit, Accounts, Turn,
         drainVars
<1> QED
  BY <1>1, <1>2, TickInv, StatementEndsInv, SendInv, AttemptEndsInv, ResumeInv DEF DrainNext

(* Who has not ended has time left.                                        *)
LEMMA InvFits == DrainInv => DrainFits
<1> SUFFICES ASSUME DrainInv, NEW e \in Episodes, episode[e] # Ended
             PROVE  clock <= TimeLimit
  BY DEF DrainFits, TimeLimit, DrainInv, DrainTypeOK
<1>1. /\ SettingsOK /\ clock \in Nat /\ episode[e] \in States /\ StateOK(episode[e])
      /\ TimeLimit \in Int /\ RequestTime \in Nat
  BY SettingsAreOK, LimitIsLongEnough, AttemptTimes DEF DrainInv, DrainTypeOK
<1>2. CASE episode[e].doing = "executing"
  <2>1. clock + episode[e].left <= TimeLimit /\ episode[e].left \in Nat
    BY <1>1, <1>2 DEF DrainInv, StatementsFit, States
  <2> QED  BY <1>1, <2>1
<1>3. CASE Turn(e)
  <2>1. CASE settings.permits >= settings.max_inflight
    <3>1. clock + Remaining(episode[e]) <= 2 * RequestTime
      BY <1>3, <2>1 DEF DrainInv, TurnsFit
    <3>2. Remaining(episode[e]) \in Nat
      BY <1>1, RemainingIsNat
    <3> QED  BY <1>1, <3>1, <3>2, LimitIsLongEnough
  <2>2. CASE ~(settings.permits >= settings.max_inflight)
    <3>1. PICK a \in Accounts :
             clock + a[settings.max_inflight] <= 2 * settings.max_inflight * RequestTime
      BY <1>3 DEF DrainInv, QueuedTurnsFit
    <3>2. settings.max_inflight \in 0 .. settings.max_inflight
          /\ settings.max_inflight \in Nat /\ settings.permits \in Nat
      BY <1>1 DEF SettingsOK
    <3>3. a[settings.max_inflight] \in Nat
      BY <3>1, <3>2 DEF Accounts
    <3>4. 2 * settings.max_inflight * RequestTime \in Int
          /\ 2 * settings.max_inflight * RequestTime <= TimeLimit
      BY <1>1, <2>2, <3>2, LimitIsLongEnough
    <3> QED  BY <1>1, <3>1, <3>3, <3>4
  <2> QED  BY <2>1, <2>2
<1> QED  BY <1>1, <1>2, <1>3 DEF States, StateOK, Turn

(* Episodes end within the time that the launcher waits, without its grace *)
(* period, for any settings, any number of episodes and any server         *)
(* (rl.train.cancellation_timeout).                                        *)
THEOREM DrainFitsAlways == DrainSpec => []DrainFits
<1> QED  BY InitDrain, DrainNextInv, InvFits, PTL DEF DrainSpec

-----------------------------------------------------------------------------
(* Splits of tasks (TaskSelection).                                        *)

Roles == {"train", "validation", "test"}

\* A selection as resolve_selections keeps it: tasks of its benchmark, each once, none of
\* them excluded.
Sound(selection) ==
    /\ selection.tasks # <<>> /\ selection.tasks \in Seq(Catalog[selection.benchmark])
    /\ IsInjective(selection.tasks)
    /\ \A x \in ExcludedTasks, t \in TasksOf(selection) : t.sql # x.sql

SelectionInv ==
    /\ resolving \in {"request", "select", "resolved", "rejected"}
    /\ resolving \in {"select", "resolved"} =>
          /\ request.tasksets \in Seq(Expressions)
          /\ DOMAIN selections \subseteq Roles
          /\ \A r \in DOMAIN selections : Sound(selections[r])
    /\ resolving = "resolved" => ValidateSplits

\* The owners of topologies that are new in the selection of the i-th role.
NewOwners(owners, i) ==
    IF TaskRole[i] \notin DOMAIN selections THEN owners
    ELSE owners \cup
         {<<TaskRole[i], h>> : h \in {x \in TopologiesOf(selections[TaskRole[i]]) :
                                       \A o \in owners : o[2] # x}}

(* What validate_splits computes, role by role.                            *)
LEMMA OwnersOfSplits ==
    ASSUME ValidateSplits
    PROVE  \E one, two, three :
              /\ one = NewOwners({}, 1) /\ two = NewOwners(one, 2)
              /\ three = NewOwners(two, 3)
              /\ \A i \in 1 .. 3 :
                    TaskRole[i] \in DOMAIN selections =>
                       \A h \in TopologiesOf(selections[TaskRole[i]]) :
                          <<TaskRole[i], h>> \in three
<1> DEFINE one == NewOwners({}, 1)
           two == NewOwners(one, 2)
           three == NewOwners(two, 3)
           Body(f) == [i \in 0 .. Len(TaskRole) |->
                         IF i = 0 THEN {}
                         ELSE IF TaskRole[i] \notin DOMAIN selections THEN f[i - 1]
                         ELSE f[i - 1] \cup
                              {<<TaskRole[i], h>> :
                                 h \in {x \in TopologiesOf(selections[TaskRole[i]]) :
                                          \A o \in f[i - 1] : o[2] # x}}]
           Owners == CHOOSE f : f = Body(f)
           known == [i \in 0 .. 3 |-> IF i = 0 THEN {} ELSE IF i = 1 THEN one
                                      ELSE IF i = 2 THEN two ELSE three]
<1>1. Len(TaskRole) = 3 /\ DOMAIN TaskRole = 1 .. 3
  BY DEF TaskRole
<1>2. \A f : Body(f) = [i \in 0 .. 3 |-> IF i = 0 THEN {} ELSE NewOwners(f[i - 1], i)]
  BY <1>1, Zenon DEF NewOwners
<1>3. known = Body(known)
  <2>1. \A i \in 0 .. 3 :
           known[i] = IF i = 0 THEN {} ELSE NewOwners(known[i - 1], i)
    <3> HIDE DEF one, two, three
    <3>1. known[0] = {} /\ known[1] = one /\ known[2] = two /\ known[3] = three
      OBVIOUS
    <3>2. one = NewOwners({}, 1) /\ two = NewOwners(one, 2) /\ three = NewOwners(two, 3)
      BY DEF one, two, three
    <3> HIDE DEF known
    <3>3. ASSUME NEW i \in 0 .. 3
          PROVE  known[i] = IF i = 0 THEN {} ELSE NewOwners(known[i - 1], i)
      <4>1. i = 0 \/ i = 1 \/ i = 2 \/ i = 3
        OBVIOUS
      <4>2. 1 - 1 = 0 /\ 2 - 1 = 1 /\ 3 - 1 = 2 /\ 1 # 0 /\ 2 # 0 /\ 3 # 0
        OBVIOUS
      <4>3. CASE i = 0
        BY <3>1, <4>3
      <4>4. CASE i = 1
        BY <3>1, <3>2, <4>2, <4>4, Zenon
      <4>5. CASE i = 2
        BY <3>1, <3>2, <4>2, <4>5, Zenon
      <4>6. CASE i = 3
        BY <3>1, <3>2, <4>2, <4>6, Zenon
      <4> QED  BY <4>1, <4>3, <4>4, <4>5, <4>6
    <3> QED  BY <3>3
  <2>2. known = [i \in 0 .. 3 |-> known[i]]
    BY Zenon
  <2> HIDE DEF known, Body
  <2>3. known = [i \in 0 .. 3 |-> IF i = 0 THEN {} ELSE NewOwners(known[i - 1], i)]
    BY <2>1, <2>2, Zenon
  <2> QED  BY <1>2, <2>3, Zenon
<1>4. Owners = Body(Owners)
  <2> HIDE DEF Body, known
  <2> QED  BY <1>3, Zenon
<1>5. \A i \in DOMAIN TaskRole :
         TaskRole[i] \in DOMAIN selections =>
            \A h \in TopologiesOf(selections[TaskRole[i]]) :
               <<TaskRole[i], h>> \in Owners[Len(TaskRole)]
  BY Zenon DEF ValidateSplits
<1>6. Owners = [i \in 0 .. 3 |-> IF i = 0 THEN {} ELSE NewOwners(Owners[i - 1], i)]
  <2> HIDE DEF Body, Owners
  <2> QED  BY <1>2, <1>4, Zenon
<1> HIDE DEF Owners
<1>7. \A i \in 0 .. 3 : Owners[i] = IF i = 0 THEN {} ELSE NewOwners(Owners[i - 1], i)
  <2> DEFINE New(i) == IF i = 0 THEN {} ELSE NewOwners(Owners[i - 1], i)
  <2>1. Owners = [i \in 0 .. 3 |-> New(i)]
    BY <1>6
  <2> HIDE DEF New
  <2>2. \A i \in 0 .. 3 : Owners[i] = New(i)
    BY <2>1
  <2> QED  BY <2>2 DEF New
<1>8. /\ 0 \in 0 .. 3 /\ 1 \in 0 .. 3 /\ 2 \in 0 .. 3 /\ 3 \in 0 .. 3
      /\ 1 # 0 /\ 2 # 0 /\ 3 # 0 /\ 1 - 1 = 0 /\ 2 - 1 = 1 /\ 3 - 1 = 2
  OBVIOUS
<1>9. Owners[0] = {}
  BY <1>7, <1>8, Zenon
<1>10. Owners[1] = NewOwners({}, 1)
  BY <1>7, <1>8, <1>9, Zenon
<1>11. Owners[2] = NewOwners(Owners[1], 2)
  BY <1>7, <1>8, Zenon
<1>12. Owners[3] = NewOwners(Owners[2], 3)
  <2>1. Owners[3] = NewOwners(Owners[3 - 1], 3)
    BY <1>7, <1>8, Zenon
  <2> QED  BY <1>8, <2>1, Zenon
<1>13. \A i \in 1 .. 3 :
          TaskRole[i] \in DOMAIN selections =>
             \A h \in TopologiesOf(selections[TaskRole[i]]) : <<TaskRole[i], h>> \in Owners[3]
  BY <1>1, <1>5
<1>14. PICK a : a = Owners[1]
  OBVIOUS
<1>15. PICK b : b = Owners[2]
  OBVIOUS
<1>16. PICK c : c = Owners[3]
  OBVIOUS
<1>17. /\ a = NewOwners({}, 1) /\ b = NewOwners(a, 2) /\ c = NewOwners(b, 3)
       /\ \A i \in 1 .. 3 :
             TaskRole[i] \in DOMAIN selections =>
                \A h \in TopologiesOf(selections[TaskRole[i]]) : <<TaskRole[i], h>> \in c
  BY <1>10, <1>11, <1>12, <1>13, <1>14, <1>15, <1>16, Zenon
<1> QED  BY <1>17, Zenon

\* No topology is of two roles.
LEMMA TopologiesApart ==
    ASSUME ValidateSplits, NEW r \in Roles, NEW s \in Roles, r # s,
           r \in DOMAIN selections, s \in DOMAIN selections,
           NEW h \in TopologiesOf(selections[r])
    PROVE  h \notin TopologiesOf(selections[s])
<1>1. PICK one, two, three :
         /\ one = NewOwners({}, 1) /\ two = NewOwners(one, 2) /\ three = NewOwners(two, 3)
         /\ \A i \in 1 .. 3 :
               TaskRole[i] \in DOMAIN selections =>
                  \A x \in TopologiesOf(selections[TaskRole[i]]) : <<TaskRole[i], x>> \in three
  BY OwnersOfSplits
<1>2. /\ TaskRole[1] = "train" /\ TaskRole[2] = "validation" /\ TaskRole[3] = "test"
      /\ 1 \in 1 .. 3 /\ 2 \in 1 .. 3 /\ 3 \in 1 .. 3
  BY DEF TaskRole
<1> DEFINE Owned(owners) == \A o, p \in owners : o[2] = p[2] => o = p
<1>3. \A owners : \A i \in 1 .. 3 : Owned(owners) => Owned(NewOwners(owners, i))
  BY DEF NewOwners
<1>4. Owned({})
  OBVIOUS
<1>5. Owned(three)
  <2> HIDE DEF Owned
  <2> QED  BY <1>1, <1>2, <1>3, <1>4
<1>6. \A q \in Roles : q \in DOMAIN selections =>
         \A x \in TopologiesOf(selections[q]) : <<q, x>> \in three
  BY <1>1, <1>2 DEF Roles
<1> SUFFICES ASSUME h \in TopologiesOf(selections[s]) PROVE FALSE
  OBVIOUS
<1>7. <<r, h>> \in three /\ <<s, h>> \in three
  BY <1>6
<1> QED  BY <1>5, <1>7

-----------------------------------------------------------------------------
(* The steps.                                                              *)

(* Nothing is selected before the request.                                 *)
LEMMA SelectionInitInv == SelectionInit => SelectionInv
BY DEF SelectionInit, SelectionInv

(* A prepared dataset is a sound selection, and comes without exclusions   *)
(* (create_experiment).                                                    *)
LEMMA RequestInv == ASSUME SelectionInv, Request PROVE SelectionInv'
<1>0. PICK method \in ExperimentMethod, import \in {<<>>} \cup {<<i>> : i \in Imports},
           exclude \in SUBSET Earlier, n \in 0 .. MaxExpressions :
         \E tasksets \in [1 .. n -> Expressions] :
            /\ request' = [method |-> method, import |-> import,
                           exclude |-> exclude, tasksets |-> tasksets]
            /\ selections' = IF import = <<>> THEN <<>> ELSE import[1]
            /\ resolving' =
                  IF /\ import # <<>>
                     /\ method # "sft" \/ exclude # {}
                        \/ \E e \in ToSet(tasksets) : e.role # "test"
                  THEN "rejected" ELSE "select"
  BY Zenon DEF Request
<1>1. PICK tasksets \in [1 .. n -> Expressions] :
         /\ request'.tasksets = tasksets /\ request'.exclude = exclude
         /\ selections' = IF import = <<>> THEN <<>> ELSE import[1]
         /\ resolving' \in {"rejected", "select"}
         /\ resolving' = "select" => import = <<>> \/ exclude = {}
  BY <1>0
<1>2. request'.tasksets \in Seq(Expressions)
  BY <1>1
<1>3. CASE import = <<>>
  <2>1. DOMAIN selections' = {}
    BY <1>1, <1>3
  <2> QED  BY <1>1, <1>2, <2>1 DEF SelectionInv
<1>4. CASE import # <<>> /\ resolving' = "select"
  <2>1. PICK i \in Imports : selections' = i
    BY <1>1, <1>4
  <2>2. ExcludedTasks' = {}
    BY <1>1, <1>4 DEF ExcludedTasks
  <2>3. \A r \in DOMAIN i : Sound(i[r])'
    BY <2>2, TaskAssumption DEF Sound
  <2>4. DOMAIN selections' \subseteq Roles /\ \A r \in DOMAIN selections' : Sound(selections[r])'
    BY <2>1, <2>3, TaskAssumption DEF Roles, Sound
  <2> QED  BY <1>1, <1>2, <1>4, <2>4 DEF SelectionInv
<1>5. CASE resolving' = "rejected"
  BY <1>5 DEF SelectionInv
<1> QED  BY <1>1, <1>3, <1>4, <1>5

(* What is sampled is available, and listed once (select_tasks).           *)
LEMMA SelectTasksInv == ASSUME SelectionInv, SelectTasks PROVE SelectionInv'
<1> DEFINE e == Head(request.tasksets)
<1>1. /\ e \in Expressions /\ Tail(request.tasksets) \in Seq(Expressions)
      /\ resolving = "select"
  BY DEF SelectTasks, SelectionInv
<1>2. CASE RejectRequest
  BY <1>2 DEF RejectRequest, SelectionInv
<1>3. ASSUME NEW tasks \in Samples(e) \ {{}}, NEW listing \in Sorted(tasks),
             selections' =
                [r \in DOMAIN selections \cup {e.role} |->
                    IF r = e.role THEN [benchmark |-> e.benchmark, tasks |-> listing]
                    ELSE selections[r]],
             request' = [request EXCEPT !.tasksets = Tail(@)], resolving' = resolving
      PROVE  SelectionInv'
  <2>1. tasks \subseteq Available(e.benchmark)
    BY <1>3 DEF Samples
  <2>2. /\ tasks \subseteq Catalog[e.benchmark] /\ IsFiniteSet(tasks)
        /\ Cardinality(tasks) \in Nat \ {0} /\ \A t \in tasks : t.id \in Int
    <3>1. tasks \subseteq Catalog[e.benchmark]
      BY <2>1 DEF Available
    <3>2. IsFiniteSet(tasks) /\ \A t \in tasks : t.id \in Int
      BY <1>1, <3>1, FS_Subset, TaskAssumption
    <3> QED  BY <1>3, <3>1, <3>2, FS_CardinalityType, FS_EmptySet
  <2>3. ExcludedTasks' = ExcludedTasks
    BY <1>3 DEF ExcludedTasks
  <2>4. /\ listing \in [1 .. Cardinality(tasks) -> tasks]
        /\ \A i, j \in 1 .. Cardinality(tasks) : i < j => listing[i].id < listing[j].id
    BY <1>3 DEF Sorted
  <2> DEFINE new == [benchmark |-> e.benchmark, tasks |-> listing]
  <2>5. Sound(new)
    <3>1. listing # <<>> /\ listing \in Seq(Catalog[e.benchmark])
      BY <2>2, <2>4
    <3>2. IsInjective(listing)
      BY <2>2, <2>4 DEF IsInjective
    <3>3. \A x \in ExcludedTasks, t \in TasksOf(new) : t.sql # x.sql
      BY <2>1, <2>4 DEF TasksOf, ToSet, Available
    <3> QED  BY <3>1, <3>2, <3>3 DEF Sound
  <2>6. /\ DOMAIN selections' = {e.role} \cup DOMAIN selections
        /\ \A r \in DOMAIN selections' : selections'[r] \in {new, selections[r]}
        /\ \A r \in DOMAIN selections' : r \notin DOMAIN selections => selections'[r] = new
        /\ \A r \in DOMAIN selections : r # e.role => selections'[r] = selections[r]
        /\ selections'[e.role] = new
    <3>1. selections' = [r \in DOMAIN selections \cup {e.role} |->
                            IF r = e.role THEN new ELSE selections[r]]
      BY <1>3
    <3> HIDE DEF new
    <3> QED  BY <3>1
  <2>7. \A r \in DOMAIN selections' : Sound(selections'[r])
    BY <1>1, <2>5, <2>6 DEF SelectionInv
  <2>8. \A s : Sound(s)' = Sound(s)
    BY <2>3 DEF Sound, TasksOf
  <2>9. \A r \in DOMAIN selections' : Sound(selections[r])'
    BY <2>3, <2>7 DEF Sound, TasksOf
  <2>10. DOMAIN selections' \subseteq Roles
    BY <1>1, <2>6, TaskAssumption DEF SelectionInv, Roles
  <2>11. request'.tasksets \in Seq(Expressions)
    BY <1>1, <1>3
  <2> QED  BY <1>1, <1>3, <2>9, <2>10, <2>11 DEF SelectionInv
<1> QED  BY <1>2, <1>3 DEF SelectTasks

(* Only splits that validate_splits accepts are resolved.                  *)
LEMMA ResolveInv == ASSUME SelectionInv, Resolve PROVE SelectionInv'
<1>1. CASE RejectRequest
  BY <1>1 DEF RejectRequest, SelectionInv
<1>2. CASE /\ ValidateSplits /\ resolving' = "resolved" /\ resolving = "select"
           /\ UNCHANGED <<request, selections>>
  <2>1. ValidateSplits'
    BY <1>2 DEF ValidateSplits, TopologiesOf
  <2> QED  BY <1>2, <2>1 DEF SelectionInv, Sound, ExcludedTasks
<1> QED  BY <1>1, <1>2 DEF Resolve

(* SelectionInv is inductive.                                              *)
LEMMA SelectionNextInv == SelectionInv /\ [SelectionNext]_selectionVars => SelectionInv'
<1> SUFFICES ASSUME SelectionInv, [SelectionNext]_selectionVars PROVE SelectionInv'
  OBVIOUS
<1>1. CASE UNCHANGED selectionVars
  <2>1. UNCHANGED <<request, selections, resolving>>
    BY <1>1 DEF selectionVars
  <2>2. ValidateSplits' = ValidateSplits
    BY <2>1 DEF ValidateSplits, TopologiesOf
  <2> QED  BY <2>1, <2>2 DEF SelectionInv, Sound, ExcludedTasks
<1> QED  BY <1>1, RequestInv, SelectTasksInv, ResolveInv DEF SelectionNext

(* Different topologies are those of different tasks.                      *)
LEMMA SoundSplits == SelectionInv => SplitsAreDisjoint
<1> SUFFICES ASSUME SelectionInv, resolving = "resolved" PROVE SplitsAreDisjoint
  BY DEF SplitsAreDisjoint
<1>1. ASSUME NEW r \in DOMAIN selections, NEW s \in DOMAIN selections, r # s,
             NEW a \in TasksOf(selections[r]), NEW b \in TasksOf(selections[s])
      PROVE  a # b /\ Topology[a.template] # Topology[b.template]
  <2>1. r \in Roles /\ s \in Roles /\ ValidateSplits
    BY DEF SelectionInv
  <2>2. /\ Topology[a.template] \in TopologiesOf(selections[r])
        /\ Topology[b.template] \in TopologiesOf(selections[s])
    BY DEF TopologiesOf
  <2>3. Topology[a.template] \notin TopologiesOf(selections[s])
    BY <1>1, <2>1, <2>2, TopologiesApart
  <2> QED  BY <2>2, <2>3
<1>2. ASSUME NEW r \in DOMAIN selections
      PROVE  /\ selections[r].tasks # <<>> /\ IsInjective(selections[r].tasks)
             /\ TasksOf(selections[r]) \subseteq Catalog[selections[r].benchmark]
             /\ \A x \in ExcludedTasks, t \in TasksOf(selections[r]) : t.sql # x.sql
  <2>1. Sound(selections[r])
    BY DEF SelectionInv
  <2> QED  BY <2>1 DEF Sound, TasksOf, ToSet
<1> QED  BY <1>1, <1>2 DEF SplitsAreDisjoint

(* Splits share no task and no topology, and have nothing that was         *)
(* excluded, for any catalogs, topologies, datasets and requests           *)
(* (taskset.selection.select_tasks, validate_splits).                      *)
THEOREM SplitsInvariant == SelectionSpec => []SplitsAreDisjoint
<1> QED  BY SelectionInitInv, SelectionNextInv, SoundSplits, PTL DEF SelectionSpec

-----------------------------------------------------------------------------
(* Conversations.                                                          *)

(* A row is as long as before while its requests are                       *)
(* (pack_conversations).                                                   *)
LEMMA RowLengthStays ==
    ASSUME NEW row, \A i \in DOMAIN row : Length(row[i])' = Length(row[i])
    PROVE  RowLength(row)' = RowLength(row)
<1> DEFINE pick(s) == CHOOSE x \in s : TRUE
           Old(f) == [s \in SUBSET DOMAIN row |->
                IF s = {} THEN 0 ELSE Length(row[pick(s)]) + f[s \ {pick(s)}]]
           New(f) == [s \in SUBSET DOMAIN row |->
                IF s = {} THEN 0 ELSE Length(row[pick(s)])' + f[s \ {pick(s)}]]
<1>1. ASSUME NEW f PROVE Old(f) = New(f)
  <2>1. ASSUME NEW s \in SUBSET DOMAIN row, s # {} PROVE pick(s) \in DOMAIN row
    BY <2>1, Zenon
  <2> HIDE DEF pick
  <2> QED  BY <2>1
<1>2. RowLength(row) = (CHOOSE f : f = Old(f))[DOMAIN row]
  BY Zenon DEF RowLength, FoldSeq, FoldFunction, FoldFunctionOnSet, MapThenFoldSet
<1>3. RowLength(row)' = (CHOOSE f : f = New(f))[DOMAIN row]
  BY Zenon DEF RowLength, FoldSeq, FoldFunction, FoldFunctionOnSet, MapThenFoldSet
<1>4. (CHOOSE f : f = Old(f)) = (CHOOSE f : f = New(f))
  <2> HIDE DEF Old, New
  <2> QED  BY <1>1, Zenon
<1> QED  BY <1>2, <1>3, <1>4, Zenon

\* The calls, and the candidates among them, of a history.
CallsOf(messages) == UNION {messages[i].calls : i \in DOMAIN messages}
CandidatesOf(messages) == UNION {messages[i].candidates : i \in DOMAIN messages}

\* What validate_conversation has found out about the messages read so far.
ReadOK ==
    /\ record.messages \in Seq(Messages)
    /\ WellFormed(record.messages)
    /\ calls = CallsOf(record.messages)
    /\ pending = {c \in calls : Answers(record.messages, c) = {}}
    /\ DOMAIN evaluated = CandidatesOf(record.messages)
    /\ \A i \in DOMAIN record.messages : \A c \in record.messages[i].candidates :
          evaluated[c] = i
    /\ skipped = Wrong(record.messages)

(* Nothing is wrong with no messages (validate_conversation).              *)
LEMMA NoMessages ==
    /\ WellFormed(<<>>) /\ CallsOf(<<>>) = {} /\ CandidatesOf(<<>>) = {}
    /\ Wrong(<<>>) = {}
BY DEF WellFormed, CallsOf, CandidatesOf, Wrong

\* A message more: what it answers is answered now.
LEMMA AppendedMessage ==
    ASSUME NEW ms \in Seq(Messages), NEW m \in Messages
    PROVE  /\ Append(ms, m) \in Seq(Messages)
           /\ DOMAIN ms = 1 .. Len(ms) /\ Len(ms) \in Nat
           /\ DOMAIN Append(ms, m) = 1 .. Len(ms) + 1 /\ Len(Append(ms, m)) = Len(ms) + 1
           /\ Append(ms, m)[Len(ms) + 1] = m
           /\ \A i \in DOMAIN ms : i \in DOMAIN Append(ms, m) /\ Append(ms, m)[i] = ms[i]
           /\ \A c : Answers(Append(ms, m), c) =
                        Answers(ms, c) \cup (IF m.role = "tool" /\ m.answers = c
                                             THEN {Len(ms) + 1} ELSE {})
           /\ CallsOf(Append(ms, m)) = CallsOf(ms) \cup m.calls
           /\ CandidatesOf(Append(ms, m)) = CandidatesOf(ms) \cup m.candidates
<1> DEFINE new == Append(ms, m)
<1>1. /\ new \in Seq(Messages) /\ DOMAIN ms = 1 .. Len(ms) /\ Len(ms) \in Nat
      /\ DOMAIN new = 1 .. Len(ms) + 1 /\ Len(new) = Len(ms) + 1
      /\ new[Len(ms) + 1] = m
      /\ \A i \in DOMAIN ms : i \in DOMAIN new /\ new[i] = ms[i]
  OBVIOUS
<1>2. DOMAIN new = DOMAIN ms \cup {Len(ms) + 1} /\ Len(ms) + 1 \notin DOMAIN ms
  BY <1>1
<1> HIDE DEF new
<1>3. ASSUME NEW c
      PROVE  Answers(new, c) = Answers(ms, c) \cup (IF m.role = "tool" /\ m.answers = c
                                                    THEN {Len(ms) + 1} ELSE {})
  BY <1>1, <1>2 DEF Answers
<1>4. CallsOf(new) = CallsOf(ms) \cup m.calls
  BY <1>1, <1>2, Zenon DEF CallsOf
<1>5. CandidatesOf(new) = CandidatesOf(ms) \cup m.candidates
  BY <1>1, <1>2, Zenon DEF CandidatesOf
<1> QED  BY <1>1, <1>3, <1>4, <1>5 DEF new

\* A message is not broken if it speaks when it may, and answers a call that waits for it.
LEMMA ReadKeepsWhole ==
    ASSUME ReadOK, NEW m \in Messages, ~Broken(m)
    PROVE  WellFormed(Append(record.messages, m))
<1> DEFINE ms == record.messages
           new == Append(ms, m)
           n == Len(ms)
<1>1. ms \in Seq(Messages) /\ WellFormed(ms)
  BY DEF ReadOK
<1>2. /\ DOMAIN ms = 1 .. n /\ n \in Nat /\ DOMAIN new = 1 .. n + 1 /\ Len(new) = n + 1
      /\ new[n + 1] = m /\ \A i \in DOMAIN ms : new[i] = ms[i]
      /\ \A c : Answers(new, c) = Answers(ms, c) \cup (IF m.role = "tool" /\ m.answers = c
                                                       THEN {n + 1} ELSE {})
  BY <1>1, AppendedMessage
<1>3. /\ pending # {} => m.role = "tool"
      /\ m.calls # {} => m.role = "assistant"
      /\ m.calls \cap calls = {} /\ m.unknown = {}
      /\ m.role = "tool" => m.answers \in pending
  BY DEF Broken
<1>4. /\ calls = CallsOf(ms) /\ pending = {c \in calls : Answers(ms, c) = {}}
  BY DEF ReadOK
<1> HIDE DEF new, ms, n
<1>5. ASSUME NEW i \in 1 .. n, NEW c \in ms[i].calls
      PROVE  c \in calls /\ c \notin m.calls
  BY <1>2, <1>3, <1>4 DEF CallsOf
<1>6. ASSUME NEW i \in 1 .. n + 1, new[i].role = "tool"
      PROVE  \E j \in 1 .. i - 1 : new[i].answers \in new[j].calls
  <2>1. CASE i = n + 1
    <3>1. m.answers \in calls
      BY <1>2, <1>3, <1>4, <1>6, <2>1
    <3>2. PICK j \in 1 .. n : m.answers \in ms[j].calls
      BY <1>2, <1>4, <3>1 DEF CallsOf
    <3> QED  BY <1>2, <2>1, <3>2
  <2>2. CASE i \in 1 .. n
    <3>1. PICK j \in 1 .. i - 1 : ms[i].answers \in ms[j].calls
      BY <1>1, <1>2, <1>6, <2>2 DEF WellFormed
    <3>2. j \in 1 .. n
      BY <1>2, <2>2, <3>1
    <3> QED  BY <1>2, <2>2, <3>1, <3>2
  <2> QED  BY <1>2, <2>1, <2>2
<1>7. ASSUME NEW i \in 1 .. n + 1
      PROVE  (new[i].calls # {} => new[i].role = "assistant") /\ new[i].unknown = {}
  BY <1>1, <1>2, <1>3 DEF WellFormed
<1>8. ASSUME NEW i \in 1 .. n + 1, NEW c \in new[i].calls, NEW j \in 1 .. n + 1, c \in new[j].calls
      PROVE  j = i
  <2>1. CASE i \in 1 .. n /\ j \in 1 .. n
    BY <1>1, <1>2, <1>8, <2>1 DEF WellFormed
  <2>2. CASE i = n + 1 \/ j = n + 1
    BY <1>2, <1>5, <1>8, <2>2
  <2> QED  BY <1>2, <2>1, <2>2
\* A call of the new message, which is no answer, has not been answered before.
<1>9. ASSUME NEW c \in m.calls PROVE Answers(new, c) = {}
  <2>1. m.role = "assistant"
    BY <1>3, <1>9
  <2>2. ASSUME NEW j \in 1 .. n, ms[j].role = "tool" PROVE ms[j].answers # c
    <3>1. PICK i \in 1 .. j - 1 : ms[j].answers \in ms[i].calls
      BY <1>1, <1>2, <2>2 DEF WellFormed
    <3>2. i \in 1 .. n
      BY <1>2, <3>1
    <3> QED  BY <1>5, <1>9, <3>1, <3>2
  <2> QED  BY <1>2, <2>1, <2>2 DEF Answers
<1>10. ASSUME NEW i \in 1 .. n + 1, NEW c \in new[i].calls
       PROVE  Cardinality(Answers(new, c)) <= 1
  <2>1. CASE i = n + 1
    <3>1. Answers(new, c) = {}
      BY <1>2, <1>9, <2>1
    <3> QED  BY <3>1, FS_EmptySet
  <2>2. CASE i \in 1 .. n /\ ~(m.role = "tool" /\ m.answers = c)
    <3>1. c \in ms[i].calls /\ Answers(new, c) = Answers(ms, c) /\ i \in DOMAIN ms
      BY <1>2, <2>2
    <3>2. Cardinality(Answers(ms, c)) <= 1
      BY <1>1, <3>1 DEF WellFormed
    <3> QED  BY <3>1, <3>2
  <2>3. CASE i \in 1 .. n /\ m.role = "tool" /\ m.answers = c
    <3>1. Answers(ms, c) = {}
      BY <1>3, <1>4, <2>3
    <3>2. Answers(new, c) = {n + 1}
      BY <1>2, <2>3, <3>1
    <3>3. Cardinality({n + 1}) = 1
      BY FS_Singleton, Zenon
    <3> QED  BY <3>2, <3>3
  <2>4. i = n + 1 \/ i \in 1 .. n
    BY <1>2
  <2> QED  BY <2>1, <2>2, <2>3, <2>4, Zenon
<1>11. ASSUME NEW i \in 1 .. n + 1, NEW c \in new[i].calls, NEW k \in i + 1 .. n + 1,
              new[k].role # "tool"
       PROVE  \E j \in Answers(new, c) : i < j /\ j < k
  <2>1. i \in 1 .. n /\ c \in ms[i].calls /\ i \in Int /\ k \in Int /\ i < k
    BY <1>2, <1>11
  <2>2. CASE k \in 1 .. n
    <3>1. k \in i + 1 .. n /\ ms[k].role # "tool"
      BY <1>2, <1>11, <2>1, <2>2
    <3>2. PICK j \in Answers(ms, c) : i < j /\ j < k
      BY <1>1, <1>2, <2>1, <3>1 DEF WellFormed, n
    <3> QED  BY <1>2, <3>2
  <2>3. CASE k = n + 1
    <3>1. m.role # "tool" /\ pending = {}
      BY <1>2, <1>3, <1>11, <2>3
    <3>2. Answers(ms, c) # {}
      BY <1>4, <1>5, <2>1, <3>1
    <3>3. PICK j \in Answers(ms, c) : TRUE
      BY <3>2
    <3>4. j \in 1 .. n /\ ms[j].role = "tool" /\ ms[j].answers = c
      BY <1>2, <3>3 DEF Answers
    <3>5. PICK h \in 1 .. j - 1 : c \in ms[h].calls
      BY <1>1, <1>2, <3>4 DEF WellFormed
    <3>6. h = i
      BY <1>1, <1>2, <2>1, <3>4, <3>5 DEF WellFormed
    <3> QED  BY <1>2, <2>3, <3>3, <3>4, <3>5, <3>6
  <2> QED  BY <1>2, <1>11, <2>2, <2>3
<1>12. WellFormed(new)
  BY <1>2, <1>6, <1>7, <1>8, <1>10, <1>11 DEF WellFormed
<1> QED  BY <1>12 DEF new, ms

(* A reply is wrong when its own arguments are, or when the first answer   *)
(* to a candidate of it says so (validate_conversation).                   *)
LEMMA ReadKeepsWrong ==
    ASSUME ReadOK, NEW m \in Messages, ~Broken(m), SourceAssumption
    PROVE  Wrong(Append(record.messages, m))
              = skipped \cup SkippedBy(m, Len(record.messages) + 1)
<1> DEFINE ms == record.messages
           new == Append(ms, m)
           n == Len(ms)
<1>1. ms \in Seq(Messages) /\ WellFormed(ms) /\ WellFormed(new) /\ skipped = Wrong(ms)
  BY ReadKeepsWhole DEF ReadOK
<1>2. /\ DOMAIN ms = 1 .. n /\ n \in Nat /\ DOMAIN new = 1 .. n + 1 /\ Len(new) = n + 1
      /\ new[n + 1] = m /\ \A i \in DOMAIN ms : new[i] = ms[i]
      /\ \A c : Answers(new, c) = Answers(ms, c) \cup (IF m.role = "tool" /\ m.answers = c
                                                       THEN {n + 1} ELSE {})
  BY <1>1, AppendedMessage
<1>3. /\ DOMAIN evaluated = CandidatesOf(ms)
      /\ \A i \in 1 .. n : \A c \in ms[i].candidates : evaluated[c] = i
  BY <1>2 DEF ReadOK
<1>4. /\ m.faulty \subseteq m.calls /\ m.candidates \subseteq m.calls
      /\ m.role = "tool" => m.calls = {}
      /\ m.calls # {} => m.role = "assistant"
  BY SourceAssumption DEF Broken
<1> HIDE DEF new, ms, n
<1>5. ASSUME NEW c \in m.candidates, NEW j \in Answers(new, c) PROVE FALSE
  <2>1. j \in 1 .. n + 1 /\ new[j].role = "tool" /\ new[j].answers = c /\ c \in m.calls
    BY <1>2, <1>4, <1>5 DEF Answers
  <2>2. PICK h \in 1 .. j - 1 : c \in new[h].calls
    BY <1>1, <1>2, <2>1 DEF WellFormed
  <2>3. h = n + 1
    BY <1>1, <1>2, <2>1, <2>2 DEF WellFormed
  <2> QED  BY <1>2, <2>1, <2>2, <2>3
<1>6. n + 1 \in Wrong(new) <=> m.faulty # {}
  BY <1>2, <1>5 DEF Wrong
<1>7. ASSUME NEW i \in 1 .. n
      PROVE  i \in Wrong(new) <=>
                \/ i \in Wrong(ms)
                \/ m.role = "tool" /\ m.refused /\ m.answers \in ms[i].candidates
  <2>1. new[i] = ms[i]
    BY <1>2
  <2>2. ASSUME NEW c
        PROVE  (\E j \in Answers(new, c) : new[j].refused) <=>
                  \/ \E j \in Answers(ms, c) : ms[j].refused
                  \/ m.role = "tool" /\ m.answers = c /\ m.refused
    <3>1. \A j \in Answers(ms, c) : j \in 1 .. n /\ new[j] = ms[j]
      BY <1>2 DEF Answers
    <3> QED  BY <1>2, <3>1
  <2> QED  BY <1>2, <2>1, <2>2 DEF Wrong
<1>8. ASSUME NEW i \in 1 .. n
      PROVE  m.answers \in ms[i].candidates <=>
                m.answers \in DOMAIN evaluated /\ evaluated[m.answers] = i
  BY <1>2, <1>3 DEF CandidatesOf
<1>9. \A c \in DOMAIN evaluated : evaluated[c] \in 1 .. n
  BY <1>2, <1>3 DEF CandidatesOf
<1>10. Wrong(new) = Wrong(ms) \cup SkippedBy(m, n + 1)
  <2>1. Wrong(new) \subseteq 1 .. n + 1 /\ Wrong(ms) \subseteq 1 .. n
    BY <1>2 DEF Wrong
  <2>2. CASE m.role = "tool"
    <3>1. n + 1 \notin Wrong(new)
      BY <1>4, <1>6, <2>2
    <3>2. SkippedBy(m, n + 1) = IF m.refused /\ m.answers \in DOMAIN evaluated
                                THEN {evaluated[m.answers]} ELSE {}
      BY <1>4, <2>2 DEF SkippedBy
    <3> QED  BY <1>2, <1>7, <1>8, <1>9, <2>1, <2>2, <3>1, <3>2
  <2>3. CASE m.role # "tool"
    <3>1. SkippedBy(m, n + 1) = IF m.faulty # {} THEN {n + 1} ELSE {}
      BY <2>3 DEF SkippedBy
    <3> QED  BY <1>2, <1>6, <1>7, <2>1, <2>3, <3>1
  <2> QED  BY <2>2, <2>3
<1> QED  BY <1>1, <1>10 DEF new, ms, n

-----------------------------------------------------------------------------
(* The conversations of a source.                                          *)

SplitRoles == {"train", "validation"}

SourceRecords ==
    [id : {h.id : h \in Headings}, task : {h.task : h \in Headings}, role : SplitRoles,
     messages : Seq(Messages), skipped : SUBSET Nat]

\* What load_source accepts: whole histories of tasks that were selected, each once, those
\* of the first split before those of the second.
SourceOK ==
    /\ source \in Seq(SourceRecords)
    /\ \A c \in DOMAIN source :
          /\ WellFormed(source[c].messages)
          /\ source[c].skipped = Wrong(source[c].messages)
          /\ source[c].task \in Selected[source[c].role]
    /\ \A c, d \in DOMAIN source :
          /\ source[c].id = source[d].id => c = d
          /\ c < d /\ source[c].role = "validation" => source[d].role = "validation"

\* While it is read.
LoadOK ==
    /\ split = 1 => \A c \in DOMAIN source : source[c].role = "train"
    /\ rendered = <<>> /\ rows = [r \in SplitRoles |-> <<>>]
    /\ preparing = "read" =>
          /\ ReadOK
          /\ record.id \in {h.id : h \in Headings} /\ record.task \in {h.task : h \in Headings}
          /\ record.task \in Selected[ROLES[split]]
          /\ \A c \in DOMAIN source : source[c].id # record.id

-----------------------------------------------------------------------------
(* What is rendered of them.                                               *)

RenderedRecords ==
    [sizes : UNION {[D -> Renderings] : D \in SUBSET Nat}, requests : SUBSET Nat,
     rejection : {"none", "no_targets", "over_context"}]

Of(role) == {c \in DOMAIN source : source[c].role = role}

RenderOK ==
    /\ rendered \in Seq(RenderedRecords)
    /\ Len(rendered) <= Len(source)
    /\ \A c \in DOMAIN rendered :
          /\ rendered[c].sizes \in [Replies(source[c]) -> Renderings]
          /\ rendered[c].requests = Replies(source[c]) \ source[c].skipped
          /\ rendered[c].rejection = Rejection(rendered[c].sizes, rendered[c].requests)
    /\ split = 1 => DOMAIN rendered \subseteq Of("train")
    /\ split = 2 => Of("train") \subseteq DOMAIN rendered
    /\ preparing \in {"shuffle", "pack", "prepared"} => Of(ROLES[split]) \subseteq DOMAIN rendered

-----------------------------------------------------------------------------
(* What is packed of that.                                                 *)

RequestsOf(role) ==
    UNION {{<<c, i>> : i \in rendered[c].requests} :
              c \in {d \in DOMAIN rendered : source[d].role = role
                                             /\ rendered[d].rejection = "none"}}

Flat(role) == FlattenSeq(rows[role])

\* The rows of a split and what is still to be packed of it.
Holds(role, rest) ==
    /\ rest \in Seq(Nat \X Nat)
    /\ IsInjective(Flat(role) \o rest)
    /\ ToSet(Flat(role) \o rest) = RequestsOf(role)

RowsOK ==
    /\ rows \in [SplitRoles -> Seq(Seq(Nat \X Nat))]
    /\ \A r \in SplitRoles :
          /\ Flat(r) \in Seq(Nat \X Nat)
          /\ rows[r] # <<>> => Flat(r) # <<>>
          /\ \A row \in ToSet(rows[r]) :
                RowLength(row) <= ContextLength /\ \A q \in ToSet(row) : q[1] \in DOMAIN rendered

PackOK ==
    /\ RowsOK
    /\ split = 2 \/ preparing = "prepared" => Holds("train", <<>>)
    /\ preparing \in {"render", "shuffle"} => rows[ROLES[split]] = <<>>
    /\ split = 1 => rows["validation"] = <<>>
    /\ preparing = "pack" => Holds(ROLES[split], unpacked)
    /\ preparing = "prepared" => Holds("validation", <<>>) /\ \A r \in SplitRoles : rows[r] # <<>>

DatasetInv ==
    /\ SourceOK /\ split \in {1, 2}
    /\ preparing \in {"load", "read", "render", "shuffle", "pack", "prepared", "failed"}
    /\ preparing = "prepared" => split = 2
    /\ preparing \in {"load", "read"} => LoadOK
    /\ preparing \in {"render", "shuffle", "pack", "prepared"} => RenderOK /\ PackOK

-----------------------------------------------------------------------------
(* Nothing has been read (prepare_dataset).                                *)
LEMMA ConversationInitInv == ConversationInit => DatasetInv
<1> SUFFICES ASSUME ConversationInit PROVE DatasetInv
  OBVIOUS
<1>1. rows = [r \in SplitRoles |-> <<>>]
  BY DEF ConversationInit, SplitRoles, ROLES, ToSet
<1>2. SourceOK /\ LoadOK
  BY <1>1 DEF ConversationInit, SourceOK, LoadOK
<1> QED  BY <1>2 DEF ConversationInit, DatasetInv

(* A conversation is opened that no other of the source has the ID of, and *)
(* of a task that was selected for its split (load_source).                *)
LEMMA LoadRecordInv == ASSUME DatasetInv, LoadRecord PROVE DatasetInv'
<1>1. /\ UNCHANGED <<source, split, rendered, unpacked, rows>>
      /\ preparing = "load" /\ preparing' \in {"read", "failed"}
      /\ SourceOK /\ LoadOK /\ split \in {1, 2}
  BY DEF LoadRecord, DatasetInv, packing
<1>2. SourceOK'
  BY <1>1 DEF SourceOK
<1>3. CASE preparing' = "read"
  <2>1. PICK h \in Headings :
           /\ \A c \in ToSet(source) : c.id # h.id
           /\ h.task \in manifest[ROLES[split]]
           /\ record' = [id |-> h.id, task |-> h.task, messages |-> <<>>]
    BY <1>3 DEF LoadRecord
  <2>2. pending' = {} /\ calls' = {} /\ skipped' = {} /\ evaluated' = <<>>
        /\ manifest[ROLES[split]] = Selected[ROLES[split]]
    BY DEF LoadRecord, SameSelection
  <2>3. ReadOK'
    BY <2>1, <2>2, NoMessages DEF ReadOK
  <2>4. \A c \in DOMAIN source : source[c].id # record'.id
    BY <2>1 DEF ToSet
  <2>5. LoadOK'
    BY <1>1, <2>1, <2>2, <2>3, <2>4 DEF LoadOK
  <2> QED  BY <1>1, <1>2, <1>3, <2>5 DEF DatasetInv
<1>4. CASE preparing' = "failed"
  BY <1>1, <1>2, <1>4 DEF DatasetInv
<1> QED  BY <1>1, <1>3, <1>4

(* The second split is read after the first, and both before any is        *)
(* rendered (prepare_dataset).                                             *)
LEMMA EndSplitInv == ASSUME DatasetInv, EndSplit PROVE DatasetInv'
<1>1. /\ UNCHANGED <<source, rendered, unpacked, rows>>
      /\ preparing = "load" /\ SourceOK /\ LoadOK /\ split \in {1, 2}
  BY DEF EndSplit, DatasetInv, packing
<1>2. SourceOK'
  BY <1>1 DEF SourceOK
<1>3. CASE preparing' = "failed" /\ split' = split
  BY <1>1, <1>2, <1>3 DEF DatasetInv
<1>4. CASE preparing' = "load" /\ split' = 2
  <2>1. LoadOK'
    BY <1>1, <1>4 DEF LoadOK
  <2> QED  BY <1>2, <1>4, <2>1 DEF DatasetInv
<1>5. CASE preparing' = "render" /\ split' = 1
  <2>1. rendered' = <<>> /\ rows' = [r \in SplitRoles |-> <<>>] /\ <<>> \in Seq(Nat \X Nat)
        /\ <<>> \in Seq(Seq(Nat \X Nat))
    BY <1>1, EmptySeq DEF LoadOK
  <2>2. RenderOK'
    <3>1. Len(source) \in Nat
      BY <1>1 DEF SourceOK
    <3> QED  BY <1>1, <1>5, <2>1, <3>1 DEF RenderOK
  <2>3. PackOK'
    <3>1. RowsOK'
      <4>1. \A r \in SplitRoles : rows'[r] = <<>> /\ Flat(r)' = <<>> /\ ToSet(rows'[r]) = {}
        BY <2>1, FlattenEmpty DEF Flat, ToSet
      <4> QED  BY <2>1, <4>1 DEF RowsOK
    <3> QED  BY <1>1, <1>5, <2>1, <3>1 DEF PackOK, ROLES, SplitRoles
  <2> QED  BY <1>2, <1>5, <2>2, <2>3 DEF DatasetInv
<1>6. Len(ROLES) = 2
  BY DEF ROLES
<1> QED  BY <1>1, <1>3, <1>4, <1>5, <1>6 DEF EndSplit

(* A message that is not broken leaves a whole history, and the right      *)
(* account of what is wrong in it (validate_conversation).                 *)
LEMMA ReadMessageInv == ASSUME DatasetInv, ReadMessage PROVE DatasetInv'
<1>1. /\ UNCHANGED <<source, split, rendered, unpacked, rows>>
      /\ preparing = "read" /\ SourceOK /\ LoadOK /\ ReadOK
  BY DEF ReadMessage, DatasetInv, LoadOK, packing
<1>2. SourceOK'
  BY <1>1 DEF SourceOK
<1>3. CASE preparing' = "failed"
  BY <1>1, <1>2, <1>3 DEF DatasetInv
<1>4. CASE preparing' = "read"
  <2> DEFINE ms == record.messages
             index == Len(ms) + 1
  <2>1. PICK m \in Messages :
           /\ record' = [record EXCEPT !.messages = Append(@, m)]
           /\ ~Broken(m)
           /\ calls' = calls \cup m.calls
           /\ pending' = (pending \cup m.calls)
                         \ (IF m.role = "tool" THEN {m.answers} ELSE {})
           /\ evaluated' = [c \in DOMAIN evaluated \cup m.candidates |->
                               IF c \in m.candidates THEN index ELSE evaluated[c]]
           /\ skipped' = skipped \cup SkippedBy(m, index)
    BY <1>4 DEF ReadMessage
  <2>2. /\ ms \in Seq(Messages) /\ WellFormed(ms) /\ calls = CallsOf(ms)
        /\ pending = {c \in calls : Answers(ms, c) = {}}
        /\ DOMAIN evaluated = CandidatesOf(ms)
        /\ \A i \in DOMAIN ms : \A c \in ms[i].candidates : evaluated[c] = i
    BY <1>1 DEF ReadOK
  <2>3. PICK new : new = Append(ms, m)
    OBVIOUS
  <2>4. /\ new \in Seq(Messages) /\ DOMAIN ms = 1 .. Len(ms) /\ Len(ms) \in Nat
        /\ DOMAIN new = 1 .. Len(ms) + 1 /\ new[index] = m
        /\ \A i \in DOMAIN ms : new[i] = ms[i]
        /\ \A c : Answers(new, c) = Answers(ms, c) \cup (IF m.role = "tool" /\ m.answers = c
                                                         THEN {index} ELSE {})
        /\ CallsOf(new) = calls \cup m.calls
        /\ CandidatesOf(new) = DOMAIN evaluated \cup m.candidates
    BY <2>2, <2>3, AppendedMessage
  <2>5. WellFormed(new)
    BY <1>1, <2>1, <2>3, ReadKeepsWhole
  <2>6. Wrong(new) = skipped'
    BY <1>1, <2>1, <2>3, ReadKeepsWrong, SourceAssumption
  <2>7. pending' = {c \in calls' : Answers(new, c) = {}}
    <3>1. ASSUME NEW c \in m.calls PROVE m.role # "tool" /\ Answers(ms, c) = {}
      <4>1. c \notin calls /\ m.role = "assistant"
        BY <2>1, <3>1 DEF Broken
      <4>2. ASSUME NEW j \in DOMAIN ms, ms[j].role = "tool" PROVE ms[j].answers # c
        <5>1. PICK i \in 1 .. j - 1 : ms[j].answers \in ms[i].calls
          BY <2>2, <4>2 DEF WellFormed
        <5>2. i \in DOMAIN ms
          BY <2>4, <5>1
        <5>3. ms[j].answers \in calls
          BY <2>2, <5>1, <5>2 DEF CallsOf
        <5> QED  BY <4>1, <5>3
      <4> QED  BY <4>1, <4>2 DEF Answers
    <3>2. ASSUME NEW c
          PROVE  Answers(new, c) = {} <=>
                    Answers(ms, c) = {} /\ ~(m.role = "tool" /\ m.answers = c)
      BY <2>4
    <3>3. ASSUME NEW c
          PROVE  c \in pending' <=> c \in calls' /\ Answers(new, c) = {}
      <4>1. c \in pending <=> c \in calls /\ Answers(ms, c) = {}
        BY <2>2
      <4>2. c \in calls' <=> c \in calls \/ c \in m.calls
        BY <2>1
      <4>3. c \in pending' <=> /\ c \in pending \/ c \in m.calls
                              /\ ~(m.role = "tool" /\ m.answers = c)
        BY <2>1
      <4>4. c \in m.calls => m.role # "tool" /\ Answers(ms, c) = {}
        BY <3>1
      <4> HIDE DEF ms
      <4> QED  BY <3>2, <4>1, <4>2, <4>3, <4>4
    <3>4. pending' \subseteq calls'
      BY <3>3
    <3> QED  BY <3>3, <3>4
  <2>8. ASSUME NEW i \in DOMAIN new, NEW c \in new[i].candidates PROVE evaluated'[c] = i
    <3>0. \A k \in DOMAIN new : new[k].candidates \subseteq new[k].calls
      BY <2>4, SourceAssumption
    <3>1. CASE i = index
      BY <2>1, <2>4, <2>8, <3>1
    <3>2. CASE i # index
      <4>1. i \in DOMAIN ms /\ c \in ms[i].candidates
        BY <2>4, <2>8, <3>2
      <4>2. c \notin m.candidates
        <5> SUFFICES ASSUME c \in m.candidates PROVE FALSE
          OBVIOUS
        <5>1. index \in DOMAIN new /\ c \in new[index].calls /\ c \in new[i].calls
          BY <2>4, <3>0
        <5> QED  BY <2>5, <3>2, <5>1 DEF WellFormed
      <4>3. c \in DOMAIN evaluated
        BY <2>2, <4>1 DEF CandidatesOf
      <4> QED  BY <2>1, <2>2, <4>1, <4>2, <4>3
    <3> QED  BY <3>1, <3>2
  <2>9. /\ record'.messages = new /\ record'.id = record.id /\ record'.task = record.task
    <3>1. record' = [record EXCEPT !.messages = new]
      BY <2>1, <2>3
    <3> QED  BY <1>1, <3>1
  <2>10. ReadOK'
    BY <2>1, <2>4, <2>5, <2>6, <2>7, <2>8, <2>9 DEF ReadOK
  <2>11. LoadOK'
    BY <1>1, <1>4, <2>9, <2>10 DEF LoadOK
  <2> QED  BY <1>1, <1>2, <1>4, <2>11 DEF DatasetInv
<1> QED  BY <1>1, <1>3, <1>4 DEF ReadMessage

(* The conversation joins those of its split (load_source).                *)
LEMMA EndRecordInv == ASSUME DatasetInv, EndRecord PROVE DatasetInv'
<1>1. /\ UNCHANGED <<split, rendered, unpacked, rows>>
      /\ preparing = "read" /\ preparing' = "load"
      /\ SourceOK /\ LoadOK /\ ReadOK /\ split \in {1, 2}
  BY DEF EndRecord, DatasetInv, LoadOK, packing
<1>2. PICK new : new = [id |-> record.id, task |-> record.task, role |-> ROLES[split],
                        messages |-> record.messages, skipped |-> skipped]
  OBVIOUS
<1>3. source' = Append(source, new)
  BY <1>2 DEF EndRecord
<1>4. /\ new \in SourceRecords /\ WellFormed(new.messages)
      /\ new.skipped = Wrong(new.messages) /\ new.task \in Selected[new.role]
      /\ \A c \in DOMAIN source : source[c].id # new.id
      /\ new.role = ROLES[split] /\ ROLES[1] = "train" /\ ROLES[2] = "validation"
  <2>1. skipped \subseteq Nat
    <3>1. DOMAIN record.messages \subseteq Nat
      BY <1>1 DEF ReadOK
    <3> QED  BY <1>1, <3>1 DEF ReadOK, Wrong
  <2>2. ROLES[1] = "train" /\ ROLES[2] = "validation"
    BY DEF ROLES
  <2> QED  BY <1>1, <1>2, <2>1, <2>2 DEF ReadOK, LoadOK, SourceRecords, SplitRoles
<1>5. /\ source' \in Seq(SourceRecords) /\ Len(source) \in Nat
      /\ DOMAIN source = 1 .. Len(source) /\ DOMAIN source' = 1 .. Len(source) + 1
      /\ source'[Len(source) + 1] = new
      /\ \A c \in DOMAIN source : source'[c] = source[c]
  BY <1>1, <1>3, <1>4 DEF SourceOK
<1>6. SourceOK'
  <2>1. ASSUME NEW c \in DOMAIN source'
        PROVE  /\ WellFormed(source'[c].messages)
               /\ source'[c].skipped = Wrong(source'[c].messages)
               /\ source'[c].task \in Selected[source'[c].role]
    BY <1>1, <1>4, <1>5 DEF SourceOK
  <2>2. ASSUME NEW c \in DOMAIN source', NEW d \in DOMAIN source'
        PROVE  /\ source'[c].id = source'[d].id => c = d
               /\ c < d /\ source'[c].role = "validation" => source'[d].role = "validation"
    <3>1. CASE c \in DOMAIN source /\ d \in DOMAIN source
      BY <1>1, <1>5, <3>1 DEF SourceOK
    <3>2. CASE c = Len(source) + 1 /\ d \in DOMAIN source
      BY <1>4, <1>5, <3>2
    <3>3. CASE c \in DOMAIN source /\ d = Len(source) + 1
      <4>1. source[c].role = "validation" => split = 2
        BY <1>1, <3>3 DEF LoadOK
      <4> QED  BY <1>4, <1>5, <3>3, <4>1
    <3>4. CASE c = Len(source) + 1 /\ d = Len(source) + 1
      BY <1>5, <3>4
    <3> QED  BY <1>5, <3>1, <3>2, <3>3, <3>4
  <2> QED  BY <1>5, <2>1, <2>2 DEF SourceOK
<1>7. LoadOK'
  BY <1>1, <1>4, <1>5 DEF LoadOK
<1> QED  BY <1>1, <1>6, <1>7 DEF DatasetInv


\* The two roles are those of the splits.
LEMMA TheRoles ==
    /\ ROLES[1] = "train" /\ ROLES[2] = "validation" /\ Len(ROLES) = 2
    /\ split \in {1, 2} => ROLES[split] \in SplitRoles
BY DEF ROLES, SplitRoles

(* Rendering a conversation changes no row, nor what the other split is    *)
(* worth (render_conversation).                                            *)
LEMMA RenderInv == ASSUME DatasetInv, RenderConversation PROVE DatasetInv'
<1>1. /\ UNCHANGED <<source, split, unpacked, rows, preparing>>
      /\ preparing = "render" /\ SourceOK /\ RenderOK /\ PackOK /\ split \in {1, 2}
      /\ Len(rendered) < Len(source) /\ source[Len(rendered) + 1].role = ROLES[split]
  BY DEF RenderConversation, DatasetInv, packing
<1>2. SourceOK'
  BY <1>1 DEF SourceOK
<1> DEFINE n == Len(rendered)
           c == source[n + 1]
           kept == Replies(c) \ c.skipped
<1>3. PICK sizes \in RenderedRequests(c) :
         rendered' = Append(rendered, [sizes |-> sizes, requests |-> kept,
                                       rejection |-> Rejection(sizes, kept)])
  BY DEF RenderConversation
<1>4. PICK new : new = [sizes |-> sizes, requests |-> kept, rejection |-> Rejection(sizes, kept)]
  OBVIOUS
<1>5. /\ source \in Seq(SourceRecords) /\ rendered \in Seq(RenderedRecords) /\ n \in Nat
      /\ Len(source) \in Nat /\ DOMAIN source = 1 .. Len(source) /\ DOMAIN rendered = 1 .. n
      /\ n + 1 \in DOMAIN source
  BY <1>1 DEF SourceOK, RenderOK
<1>6. new \in RenderedRecords /\ sizes \in [Replies(c) -> Renderings]
  <2>1. c \in SourceRecords
    BY <1>5
  <2>2. Replies(c) \subseteq Nat
    BY <2>1 DEF SourceRecords, Replies
  <2>3. Rejection(sizes, kept) \in {"none", "no_targets", "over_context"}
    BY DEF Rejection
  <2>4. sizes \in [Replies(c) -> Renderings]
    BY <1>3 DEF RenderedRequests
  <2> QED  BY <1>4, <2>2, <2>3, <2>4 DEF RenderedRecords
<1>7. /\ rendered' \in Seq(RenderedRecords) /\ Len(rendered') = n + 1
      /\ DOMAIN rendered' = 1 .. n + 1 /\ rendered'[n + 1] = new
      /\ \A d \in DOMAIN rendered : rendered'[d] = rendered[d]
  BY <1>3, <1>4, <1>5, <1>6
<1>8. RenderOK'
  <2>1. \A d \in DOMAIN rendered' :
           /\ rendered'[d].sizes \in [Replies(source[d]) -> Renderings]
           /\ rendered'[d].requests = Replies(source[d]) \ source[d].skipped
           /\ rendered'[d].rejection = Rejection(rendered'[d].sizes, rendered'[d].requests)
    <3> SUFFICES ASSUME NEW d \in DOMAIN rendered'
                 PROVE  /\ rendered'[d].sizes \in [Replies(source[d]) -> Renderings]
                        /\ rendered'[d].requests = Replies(source[d]) \ source[d].skipped
                        /\ rendered'[d].rejection =
                              Rejection(rendered'[d].sizes, rendered'[d].requests)
      OBVIOUS
    <3>1. CASE d \in DOMAIN rendered
      BY <1>1, <1>7, <3>1 DEF RenderOK
    <3>2. CASE d = n + 1
      <4>1. rendered'[d] = new /\ source[d] = c
        BY <1>7, <3>2
      <4>2. /\ new.sizes = sizes /\ new.requests = kept
            /\ new.rejection = Rejection(sizes, kept)
        BY <1>4
      <4> HIDE DEF c
      <4> QED  BY <1>6, <4>1, <4>2, Zenon
    <3> QED  BY <1>5, <1>7, <3>1, <3>2
  <2>2. split = 1 => DOMAIN rendered' \subseteq Of("train")
    BY <1>1, <1>5, <1>7, TheRoles DEF RenderOK, Of
  <2>3. split = 2 => Of("train") \subseteq DOMAIN rendered'
    BY <1>1, <1>5, <1>7 DEF RenderOK
  <2> QED  BY <1>1, <1>5, <1>7, <2>1, <2>2, <2>3 DEF RenderOK, Of
<1>9. PackOK'
  <2>1. RowsOK'
    <3> SUFFICES ASSUME NEW r \in SplitRoles, NEW row \in ToSet(rows[r])
                 PROVE  /\ RowLength(row)' <= ContextLength
                        /\ \A q \in ToSet(row) : q[1] \in DOMAIN rendered'
      BY <1>1 DEF PackOK, RowsOK, Flat
    <3>1. /\ RowLength(row) <= ContextLength
          /\ \A q \in ToSet(row) : q[1] \in DOMAIN rendered
      BY <1>1 DEF PackOK, RowsOK
    <3>2. \A i \in DOMAIN row : Length(row[i])' = Length(row[i])
      BY <1>7, <3>1 DEF ToSet, Length
    <3>3. RowLength(row)' = RowLength(row)
      BY <3>2, RowLengthStays
    <3> QED  BY <1>5, <1>7, <3>1, <3>3
  <2>2. split = 2 => RequestsOf("train")' = RequestsOf("train")
    <3> SUFFICES ASSUME split = 2 PROVE RequestsOf("train")' = RequestsOf("train")
      OBVIOUS
    <3>1. source[n + 1].role # "train"
      BY <1>1, TheRoles
    <3>2. {d \in DOMAIN rendered' : source[d].role = "train" /\ rendered'[d].rejection = "none"}
             = {d \in DOMAIN rendered : source[d].role = "train" /\ rendered[d].rejection = "none"}
      BY <1>5, <1>7, <3>1
    <3>3. \A d \in DOMAIN rendered : rendered'[d] = rendered[d]
      BY <1>7
    <3> QED  BY <1>1, <3>2, <3>3 DEF RequestsOf
  <2>3. split = 2 => Holds("train", <<>>)'
    BY <1>1, <2>2 DEF PackOK, Holds, Flat
  <2> QED  BY <1>1, <2>1, <2>3 DEF PackOK
<1> QED  BY <1>1, <1>2, <1>8, <1>9 DEF DatasetInv

(* All conversations of the split are rendered (prepare_dataset).          *)
LEMMA RenderedInv == ASSUME DatasetInv, Rendered PROVE DatasetInv'
<1>1. /\ UNCHANGED <<source, split, rendered, unpacked, rows>>
      /\ preparing = "render" /\ preparing' = "shuffle"
      /\ SourceOK /\ RenderOK /\ PackOK /\ split \in {1, 2}
      /\ Len(rendered) < Len(source) => source[Len(rendered) + 1].role # ROLES[split]
  BY DEF Rendered, DatasetInv, packing
<1>2. SourceOK'
  BY <1>1 DEF SourceOK
<1>3. /\ Len(rendered) \in Nat /\ Len(source) \in Nat /\ Len(rendered) <= Len(source)
      /\ DOMAIN source = 1 .. Len(source) /\ DOMAIN rendered = 1 .. Len(rendered)
      /\ \A d \in DOMAIN source : source[d].role \in SplitRoles
  <2>1. source \in Seq(SourceRecords) /\ rendered \in Seq(RenderedRecords)
    BY <1>1 DEF SourceOK, RenderOK
  <2>2. \A d \in DOMAIN source : source[d] \in SourceRecords
    BY <2>1
  <2>3. \A x \in SourceRecords : x.role \in SplitRoles
    BY DEF SourceRecords
  <2> QED  BY <1>1, <2>1, <2>2, <2>3 DEF RenderOK
<1>4. Of(ROLES[split]) \subseteq DOMAIN rendered
  <2> SUFFICES ASSUME NEW d \in DOMAIN source, source[d].role = ROLES[split],
                      d > Len(rendered)
               PROVE  FALSE
    BY <1>3 DEF Of
  <2> DEFINE next == Len(rendered) + 1
  <2>1. next \in DOMAIN source /\ next <= d /\ source[next].role # ROLES[split]
    BY <1>1, <1>3
  <2>2. CASE split = 1
    <3>1. source[next].role = "validation" /\ source[d].role = "train"
      BY <1>3, <2>1, <2>2, TheRoles DEF SplitRoles
    <3> QED  BY <1>1, <1>3, <2>1, <3>1 DEF SourceOK
  <2>3. CASE split = 2
    <3>1. source[next].role = "train"
      BY <1>3, <2>1, <2>3, TheRoles DEF SplitRoles
    <3> QED  BY <1>1, <1>3, <2>1, <2>3, <3>1 DEF RenderOK, Of
  <2> QED  BY <1>1, <2>2, <2>3
<1>5. RenderOK'
  BY <1>1, <1>4 DEF RenderOK, Of
<1>6. RowsOK'
  <2>1. \A row : RowLength(row)' = RowLength(row)
    BY <1>1, RowLengthStays DEF Length
  <2> QED  BY <1>1, <2>1 DEF PackOK, RowsOK, Flat
<1>7. PackOK'
  BY <1>1, <1>6 DEF PackOK, Holds, Flat, RequestsOf
<1> QED  BY <1>1, <1>2, <1>5, <1>7 DEF DatasetInv

\* A sequence without repetition of as many elements as a finite set has is all of it.
LEMMA ShuffledSet ==
    ASSUME NEW S, IsFiniteSet(S), NEW u \in SetToSeqs(S)
    PROVE  u \in Seq(S) /\ IsInjective(u) /\ ToSet(u) = S
<1> DEFINE D == 1 .. Cardinality(S)
<1>1. Cardinality(S) \in Nat
  BY FS_CardinalityType
<1>2. u \in [D -> S] /\ \A i, j \in D : i # j => u[i] # u[j]
  BY DEF SetToSeqs
<1>3. u \in Injection(D, S)
  BY <1>2 DEF Injection, IsInjective
<1>4. Cardinality(D) = Cardinality(S)
  BY <1>1, FS_Interval
<1>5. u \in Surjection(D, S)
  BY <1>3, <1>4, FS_Injection
<1>6. ToSet(u) = S
  BY <1>2, <1>5 DEF Surjection, ToSet
<1> QED  BY <1>1, <1>2, <1>6 DEF IsInjective

\* There are finitely many requests.
LEMMA FiniteRequests ==
    ASSUME SourceOK, RenderOK, NEW role
    PROVE  /\ IsFiniteSet(RequestsOf(role))
           /\ RequestsOf(role) \subseteq Nat \X Nat
           /\ \A q \in RequestsOf(role) : q[1] \in DOMAIN rendered
<1> DEFINE Req(c) == {<<c, i>> : i \in rendered[c].requests}
           C == {d \in DOMAIN rendered : source[d].role = role /\ rendered[d].rejection = "none"}
<1>1. /\ Len(rendered) \in Nat /\ DOMAIN rendered = 1 .. Len(rendered)
      /\ Len(source) \in Nat /\ DOMAIN source = 1 .. Len(source) /\ Len(rendered) <= Len(source)
  BY DEF SourceOK, RenderOK
<1>2. IsFiniteSet(C)
  <2>1. IsFiniteSet(1 .. Len(rendered))
    BY <1>1, FS_Interval
  <2>2. C \in SUBSET (1 .. Len(rendered))
    BY <1>1
  <2> QED  BY <2>1, <2>2, FS_Subset
<1>3. ASSUME NEW c \in C PROVE IsFiniteSet(Req(c)) /\ Req(c) \subseteq Nat \X Nat
  <2>1. source[c].messages \in Seq(Messages) /\ c \in Nat
    <3>1. c \in DOMAIN source /\ c \in Nat
      BY <1>1
    <3>2. source[c] \in SourceRecords
      BY <3>1 DEF SourceOK
    <3> QED  BY <3>1, <3>2 DEF SourceRecords
  <2> DEFINE k == Len(source[c].messages)
  <2>2. k \in Nat /\ DOMAIN source[c].messages = 1 .. k
    BY <2>1
  <2>3. rendered[c].requests \subseteq 1 .. k
    BY <2>2 DEF RenderOK, Replies
  <2>4. IsFiniteSet({c} \X (1 .. k))
    <3>1. IsFiniteSet({c})
      BY FS_Singleton, Zenon
    <3>2. IsFiniteSet(1 .. k)
      BY <2>2, FS_Interval
    <3> QED  BY <3>1, <3>2, FS_Product
  <2>5. Req(c) \subseteq {c} \X (1 .. k)
    BY <2>3
  <2>6. Req(c) \in SUBSET ({c} \X (1 .. k))
    BY <2>5
  <2>7. IsFiniteSet(Req(c))
    BY <2>4, <2>6, FS_Subset
  <2> QED  BY <2>1, <2>2, <2>5, <2>7
<1>4. IsFiniteSet({Req(c) : c \in C})
  <2> DEFINE T == {Req(c) : c \in C}
             f == [c \in C |-> Req(c)]
  <2>1. f \in Surjection(C, T)
    <3> HIDE DEF C, Req
    <3> QED  BY DEF Surjection
  <2> HIDE DEF C, T, f
  <2>2. IsFiniteSet(T)
    BY <1>2, <2>1, FS_Surjection
  <2> QED  BY <2>2 DEF T
<1>5. RequestsOf(role) = UNION {Req(c) : c \in C}
  BY DEF RequestsOf
<1>6. IsFiniteSet(UNION {Req(c) : c \in C})
  <2>1. \A T \in {Req(c) : c \in C} : IsFiniteSet(T)
    BY <1>3
  <2> HIDE DEF C, Req
  <2> QED  BY <1>4, <2>1, FS_UNION
<1>7. UNION {Req(c) : c \in C} \subseteq Nat \X Nat
  <2> HIDE DEF Req, C
  <2> QED  BY <1>3
<1>8. \A q \in UNION {Req(c) : c \in C} : q[1] \in DOMAIN rendered
  OBVIOUS
<1> QED  BY <1>5, <1>6, <1>7, <1>8

\* The lengths of requests do not change while what is rendered does not.
LEMMA RowsStay ==
    ASSUME RowsOK, rendered' = rendered, rows' = rows
    PROVE  RowsOK'
<1>1. \A row : RowLength(row)' = RowLength(row)
  BY RowLengthStays DEF Length
<1> QED  BY <1>1 DEF RowsOK, Flat

(* What is to be packed is every accepted request of the split, once       *)
(* (pack_conversations).                                                   *)
LEMMA ShuffleInv == ASSUME DatasetInv, Shuffle PROVE DatasetInv'
<1>1. /\ UNCHANGED <<source, split, rendered, rows>>
      /\ preparing = "shuffle"
      /\ SourceOK /\ RenderOK /\ PackOK /\ split \in {1, 2}
  BY DEF Shuffle, DatasetInv
<1>2. SourceOK'
  BY <1>1 DEF SourceOK
<1>3. CASE preparing' = "failed"
  BY <1>1, <1>2, <1>3 DEF DatasetInv
<1>4. CASE preparing' = "pack" /\ unpacked' \in SetToSeqs(AcceptedRequests)
  <2> DEFINE role == ROLES[split]
  <2>1. AcceptedRequests = RequestsOf(role)
    BY DEF AcceptedRequests, Accepted, RequestsOf
  <2>2. PICK u : u = unpacked'
    OBVIOUS
  <2>3. /\ u \in Seq(RequestsOf(role)) /\ IsInjective(u) /\ ToSet(u) = RequestsOf(role)
    BY <1>1, <1>4, <2>1, <2>2, FiniteRequests, ShuffledSet
  <2>4. u \in Seq(Nat \X Nat)
    BY <1>1, <2>3, FiniteRequests
  <2>5. Flat(role) = <<>>
    BY <1>1, FlattenEmpty DEF PackOK, Flat
  <2>6. <<>> \o u = u
    BY <2>4
  <2>7. RequestsOf(role)' = RequestsOf(role) /\ Flat(role)' = Flat(role)
    BY <1>1 DEF RequestsOf, Flat
  <2>8. Holds(role, unpacked)'
    <3>1. IsInjective(Flat(role) \o u) /\ ToSet(Flat(role) \o u) = RequestsOf(role)
      BY <2>3, <2>5, <2>6
    <3> HIDE DEF role
    <3> QED  BY <2>2, <2>4, <2>7, <3>1 DEF Holds
  <2>9. PackOK'
    <3>1. RowsOK'
      BY <1>1, RowsStay DEF PackOK
    <3>2. split = 2 => Holds("train", <<>>)'
      BY <1>1 DEF PackOK, Holds, Flat, RequestsOf
    <3> QED  BY <1>1, <1>4, <2>8, <3>1, <3>2 DEF PackOK
  <2>10. RenderOK'
    BY <1>1, <1>4 DEF RenderOK, Of
  <2> QED  BY <1>1, <1>2, <1>4, <2>9, <2>10 DEF DatasetInv
<1> QED  BY <1>3, <1>4 DEF Shuffle

\* What fits into a row is a beginning of what is to be packed.
LEMMA SplitSequence ==
    ASSUME NEW S, NEW u \in Seq(S), NEW n \in 1 .. Len(u)
    PROVE  /\ SubSeq(u, 1, n) \in Seq(S) /\ SubSeq(u, n + 1, Len(u)) \in Seq(S)
           /\ SubSeq(u, 1, n) # <<>>
           /\ SubSeq(u, 1, n) \o SubSeq(u, n + 1, Len(u)) = u
<1> DEFINE first == SubSeq(u, 1, n)
           rest == SubSeq(u, n + 1, Len(u))
<1>1. Len(u) \in Nat /\ n \in Nat /\ 1 <= n /\ n <= Len(u)
  OBVIOUS
<1>2. /\ first \in Seq(S) /\ Len(first) = n
      /\ \A i \in 1 .. n : first[i] = u[i]
  BY <1>1
<1>3. /\ rest \in Seq(S) /\ Len(rest) = Len(u) - n
      /\ \A i \in 1 .. Len(u) - n : rest[i] = u[n + i]
  BY <1>1
<1> HIDE DEF first, rest
<1>4. /\ first \o rest \in Seq(S) /\ Len(first \o rest) = Len(first) + Len(rest)
      /\ \A i \in 1 .. Len(first) + Len(rest) :
            (first \o rest)[i] = IF i <= Len(first) THEN first[i] ELSE rest[i - Len(first)]
  BY <1>2, <1>3, ConcatProperties
<1>5. \A i \in 1 .. Len(u) : (first \o rest)[i] = u[i]
  <2> SUFFICES ASSUME NEW i \in 1 .. Len(u) PROVE (first \o rest)[i] = u[i]
    OBVIOUS
  <2>1. CASE i <= n
    BY <1>1, <1>2, <1>3, <1>4, <2>1
  <2>2. CASE i > n
    <3>1. PICK j \in 1 .. Len(u) - n : i = n + j
      <4>1. i - n \in 1 .. Len(u) - n /\ i = n + (i - n)
        BY <1>1, <2>2
      <4> QED  BY <4>1
    <3>2. (first \o rest)[i] = rest[j]
      <4>1. i - Len(first) = j /\ ~(i <= Len(first)) /\ i \in 1 .. Len(first) + Len(rest)
        BY <1>1, <1>2, <1>3, <2>2, <3>1
      <4> QED  BY <1>4, <4>1
    <3>3. rest[j] = u[n + j]
      BY <1>3, <3>1
    <3> QED  BY <3>1, <3>2, <3>3
  <2>3. i <= n \/ i > n
    BY <1>1
  <2> QED  BY <2>1, <2>2, <2>3
<1>6. first \o rest = u
  <2>1. first \o rest \in Seq(S) /\ Len(first \o rest) = Len(u)
    BY <1>1, <1>2, <1>3, <1>4
  <2> QED  BY <1>5, <2>1, SeqEqual
<1>7. first # <<>>
  BY <1>1, <1>2
<1> QED  BY <1>2, <1>3, <1>6, <1>7 DEF first, rest

\* Three sequences, end to end.
InOrder(a, b, c) == (a \o b) \o c = a \o (b \o c)

\* Rows may be laid end to end from either end.
LEMMA ConcatInOrder ==
    ASSUME NEW S, NEW a \in Seq(S), NEW b \in Seq(S), NEW c \in Seq(S)
    PROVE  InOrder(a, b, c)
BY ConcatAssociative DEF InOrder

(* Rows laid end to end, and what is left, are what they were with what    *)
(* was left before (pack_conversations).                                   *)
LEMMA RowTaken ==
    ASSUME NEW S, NEW flat \in Seq(S), NEW u \in Seq(S), NEW n \in 1 .. Len(u)
    PROVE  (flat \o SubSeq(u, 1, n)) \o SubSeq(u, n + 1, Len(u)) = flat \o u
<1>1. /\ SubSeq(u, 1, n) \in Seq(S) /\ SubSeq(u, n + 1, Len(u)) \in Seq(S)
      /\ SubSeq(u, 1, n) \o SubSeq(u, n + 1, Len(u)) = u
  BY SplitSequence
<1>2. InOrder(flat, SubSeq(u, 1, n), SubSeq(u, n + 1, Len(u)))
  BY <1>1, ConcatInOrder, Zenon
<1> QED  BY <1>1, <1>2 DEF InOrder

\* Two sequences hold what each of them holds.
LEMMA ConcatHolds ==
    ASSUME NEW S, NEW a \in Seq(S), NEW b \in Seq(S)
    PROVE  ToSet(a) \subseteq ToSet(a \o b) /\ ToSet(b) \subseteq ToSet(a \o b)
<1> DEFINE all == a \o b
<1>1. /\ Len(a) \in Nat /\ Len(b) \in Nat /\ DOMAIN a = 1 .. Len(a) /\ DOMAIN b = 1 .. Len(b)
      /\ DOMAIN all = 1 .. Len(a) + Len(b)
      /\ \A i \in 1 .. Len(a) + Len(b) :
            all[i] = IF i <= Len(a) THEN a[i] ELSE b[i - Len(a)]
  BY ConcatProperties
<1> HIDE DEF all
<1>2. \A i \in DOMAIN a : i \in DOMAIN all /\ all[i] = a[i]
  BY <1>1
<1>3. \A i \in DOMAIN b : Len(a) + i \in DOMAIN all /\ all[Len(a) + i] = b[i]
  BY <1>1
<1> QED  BY <1>2, <1>3 DEF ToSet, all

\* A table of rows with one row more.
LEMMA AppendHolds ==
    ASSUME NEW S, NEW s \in Seq(S), NEW x \in S
    PROVE  ToSet(Append(s, x)) = ToSet(s) \cup {x}
<1>1. /\ Len(s) \in Nat /\ DOMAIN s = 1 .. Len(s)
      /\ DOMAIN Append(s, x) = 1 .. Len(s) + 1 /\ Append(s, x)[Len(s) + 1] = x
      /\ \A i \in 1 .. Len(s) : Append(s, x)[i] = s[i]
  OBVIOUS
<1>2. DOMAIN Append(s, x) = DOMAIN s \cup {Len(s) + 1}
  BY <1>1
<1> QED  BY <1>1, <1>2, Zenon DEF ToSet

(* A row takes what still fits from what is to be packed, and nothing is   *)
(* lost in between (pack_conversations).                                   *)
LEMMA FillRowInv == ASSUME DatasetInv, FillRow PROVE DatasetInv'
<1>0. PICK role : role = ROLES[split]
  OBVIOUS
<1>1. /\ UNCHANGED <<source, split, rendered, preparing>>
      /\ preparing = "pack"
      /\ SourceOK /\ RenderOK /\ PackOK /\ split \in {1, 2} /\ role \in SplitRoles
  BY <1>0, TheRoles DEF FillRow, DatasetInv
<1>2. SourceOK' /\ RenderOK'
  BY <1>1 DEF SourceOK, RenderOK, Of
<1>3. /\ RowsOK /\ Holds(role, unpacked)
  BY <1>0, <1>1 DEF PackOK
<1>4. PICK n \in 1 .. Len(unpacked) :
         /\ RowLength(SubSeq(unpacked, 1, n)) <= ContextLength
         /\ rows' = [rows EXCEPT ![role] = Append(@, SubSeq(unpacked, 1, n))]
         /\ unpacked' = SubSeq(unpacked, n + 1, Len(unpacked))
  BY <1>0 DEF FillRow
<1>5. PICK members : members = SubSeq(unpacked, 1, n)
  OBVIOUS
<1>6. /\ unpacked \in Seq(Nat \X Nat) /\ members \in Seq(Nat \X Nat) /\ members # <<>>
      /\ unpacked' \in Seq(Nat \X Nat) /\ members \o unpacked' = unpacked
  BY <1>3, <1>4, <1>5, SplitSequence DEF Holds
<1>7. /\ rows \in [SplitRoles -> Seq(Seq(Nat \X Nat))] /\ rows[role] \in Seq(Seq(Nat \X Nat))
      /\ Flat(role) \in Seq(Nat \X Nat)
  BY <1>1, <1>3 DEF RowsOK
<1>8. /\ rows'[role] = Append(rows[role], members)
      /\ \A r \in SplitRoles : r # role => rows'[r] = rows[r]
      /\ rows' \in [SplitRoles -> Seq(Seq(Nat \X Nat))]
  <2>1. Append(rows[role], members) \in Seq(Seq(Nat \X Nat))
    BY <1>6, <1>7, AppendProperties
  <2>2. rows' = [rows EXCEPT ![role] = Append(rows[role], members)]
    BY <1>4, <1>5
  <2> QED  BY <1>1, <1>7, <2>1, <2>2
<1>9. /\ Flat(role)' = Flat(role) \o members /\ Flat(role)' \in Seq(Nat \X Nat)
      /\ \A r \in SplitRoles : r # role => Flat(r)' = Flat(r)
  <2>1. /\ FlattenSeq(rows'[role]) = FlattenSeq(rows[role]) \o members
        /\ FlattenSeq(rows'[role]) \in Seq(Nat \X Nat)
    <3> QED  BY <1>6, <1>7, <1>8, FlattenAppend DEF Flat
  <2> QED  BY <1>1, <1>8, <2>1 DEF Flat
<1>10. Flat(role)' \o unpacked' = Flat(role) \o unpacked
  <2>1. PICK flat : flat = Flat(role)
    OBVIOUS
  <2>2. (flat \o SubSeq(unpacked, 1, n)) \o SubSeq(unpacked, n + 1, Len(unpacked))
           = flat \o unpacked
    BY <1>6, <1>7, <2>1, RowTaken
  <2> QED  BY <1>4, <1>5, <1>9, <2>1, <2>2
<1>11. \A r : RequestsOf(r)' = RequestsOf(r)
  BY <1>1 DEF RequestsOf
<1>12. Holds(role, unpacked)'
  <2>1. Flat(role)' = Flat(ROLES[split])' /\ RequestsOf(role)' = RequestsOf(role)
    BY <1>0, <1>1, <1>11
  <2>2. /\ IsInjective(Flat(role)' \o unpacked')
        /\ ToSet(Flat(role)' \o unpacked') = RequestsOf(role)
    BY <1>3, <1>10 DEF Holds
  <2> QED  BY <1>6, <2>1, <2>2 DEF Holds
<1>13. \A row : RowLength(row)' = RowLength(row)
  BY <1>1, RowLengthStays DEF Length
<1>14. \A q \in ToSet(members) : q[1] \in DOMAIN rendered
  <2>1. ToSet(members) \subseteq ToSet(unpacked)
    <3>1. PICK rest : rest = unpacked'
      OBVIOUS
    <3> QED  BY <1>6, <3>1, ConcatHolds
  <2>2. ToSet(unpacked) \subseteq ToSet(Flat(role) \o unpacked)
    BY <1>6, <1>7, ConcatHolds
  <2> QED  BY <1>1, <1>3, <2>1, <2>2, FiniteRequests DEF Holds
<1>15. RowsOK'
  <2>1. ASSUME NEW r \in SplitRoles
        PROVE  /\ Flat(r)' \in Seq(Nat \X Nat)
               /\ rows'[r] # <<>> => Flat(r)' # <<>>
               /\ \A row \in ToSet(rows'[r]) :
                     /\ RowLength(row)' <= ContextLength
                     /\ \A q \in ToSet(row) : q[1] \in DOMAIN rendered
    <3>1. CASE r # role
      BY <1>3, <1>8, <1>9, <1>13, <3>1 DEF RowsOK
    <3>2. CASE r = role
      <4>1. Flat(role) \o members # <<>>
        <5> QED  BY <1>6, <1>7, ConcatEqualIffEmpty
      <4>2. ToSet(rows'[role]) = ToSet(rows[role]) \cup {members}
        <5>1. ToSet(Append(rows[role], members)) = ToSet(rows[role]) \cup {members}
          <6>1. PICK table : table = rows[role]
            OBVIOUS
          <6>2. PICK T : T = Seq(Nat \X Nat)
            OBVIOUS
          <6>3. table \in Seq(T) /\ members \in T
            BY <1>6, <1>7, <6>1, <6>2
          <6>4. ToSet(Append(table, members)) = ToSet(table) \cup {members}
            BY <6>3, AppendHolds
          <6> QED  BY <6>1, <6>4
        <5> QED  BY <1>8, <5>1
      <4>3. RowLength(members) <= ContextLength
        BY <1>4, <1>5
      <4>4. Flat(r)' = Flat(role)'
        BY <3>2, <1>1 DEF Flat
      <4>5. \A row \in ToSet(rows[role]) :
               RowLength(row) <= ContextLength /\ \A q \in ToSet(row) : q[1] \in DOMAIN rendered
        BY <1>1, <1>3 DEF RowsOK
      <4> QED  BY <1>9, <1>13, <1>14, <3>2, <4>1, <4>2, <4>3, <4>4, <4>5
    <3> QED  BY <3>1, <3>2
  <2> QED  BY <1>1, <1>8, <2>1 DEF RowsOK, Flat
<1>16. PackOK'
  <2>1. split = 2 => Holds("train", <<>>)'
    <3> SUFFICES ASSUME split = 2 PROVE Holds("train", <<>>)'
      OBVIOUS
    <3>1. "train" # role /\ "train" \in SplitRoles
      BY <1>0, TheRoles DEF SplitRoles
    <3>2. Flat("train")' = Flat("train") /\ RequestsOf("train")' = RequestsOf("train")
      BY <1>9, <1>11, <3>1
    <3> QED  BY <1>1, <3>2 DEF PackOK, Holds
  <2>2. split = 1 => rows'["validation"] = <<>>
    <3>1. split = 1 => "validation" # role /\ "validation" \in SplitRoles
      BY <1>0, TheRoles DEF SplitRoles
    <3> QED  BY <1>1, <1>8, <3>1 DEF PackOK
  <2>3. Holds(ROLES[split], unpacked)'
    BY <1>0, <1>1, <1>12 DEF Holds, Flat, RequestsOf
  <2> QED  BY <1>1, <1>15, <2>1, <2>2, <2>3 DEF PackOK
<1> QED  BY <1>1, <1>2, <1>16 DEF DatasetInv

(* A split is packed when nothing of it is left, and the dataset prepared  *)
(* when both are (prepare_dataset).                                        *)
LEMMA PackedInv == ASSUME DatasetInv, Packed PROVE DatasetInv'
<1>1. /\ UNCHANGED <<source, rendered, unpacked, rows>>
      /\ preparing = "pack"
      /\ SourceOK /\ RenderOK /\ PackOK /\ split \in {1, 2}
  BY DEF Packed, DatasetInv, packing
<1>2. SourceOK'
  BY <1>1 DEF SourceOK
<1>3. CASE preparing' = "failed" /\ split' = split
  BY <1>1, <1>2, <1>3 DEF DatasetInv
<1>4. RowsOK'
  BY <1>1, RowsStay DEF PackOK
<1>5. /\ RowsOK /\ Holds(ROLES[split], unpacked)
      /\ split = 2 => Holds("train", <<>>)
      /\ split = 1 => rows["validation"] = <<>>
      /\ Of(ROLES[split]) \subseteq DOMAIN rendered
      /\ split = 2 => Of("train") \subseteq DOMAIN rendered
  BY <1>1 DEF PackOK, RenderOK
<1>6. \A role : Holds(role, <<>>)' <=> Holds(role, <<>>)
  BY <1>1 DEF Holds, Flat, RequestsOf
<1>7. CASE unpacked = <<>> /\ split = 1 /\ split' = 2 /\ preparing' = "render"
  <2>1. RenderOK'
    BY <1>1, <1>5, <1>7, TheRoles DEF RenderOK, Of
  <2>2. PackOK'
    BY <1>1, <1>4, <1>5, <1>6, <1>7, TheRoles DEF PackOK
  <2> QED  BY <1>2, <1>7, <2>1, <2>2 DEF DatasetInv
<1>8. CASE unpacked = <<>> /\ split = 2 /\ split' = 2 /\ BothSplits /\ preparing' = "prepared"
  <2>1. RenderOK'
    BY <1>1, <1>5, <1>8, TheRoles DEF RenderOK, Of
  <2>2. \A r \in SplitRoles : rows[r] # <<>>
    <3>1. DOMAIN rows = SplitRoles
      BY <1>5 DEF RowsOK
    <3> QED  BY <1>8, <3>1 DEF BothSplits
  <2>3. PackOK'
    BY <1>1, <1>4, <1>5, <1>6, <1>8, <2>2, TheRoles DEF PackOK
  <2> QED  BY <1>2, <1>8, <2>1, <2>3 DEF DatasetInv
<1> QED  BY <1>1, <1>3, <1>7, <1>8, TheRoles DEF Packed, AllPacked

(* DatasetInv is inductive.                                                *)
LEMMA ConversationNextInv ==
    ASSUME DatasetInv, [ConversationNext]_conversationVars, SourceAssumption
    PROVE  DatasetInv'
<1>1. CASE UNCHANGED conversationVars
  <2>1. /\ UNCHANGED <<source, split, rendered, unpacked, rows, preparing>>
        /\ UNCHANGED <<record, pending, calls, skipped, evaluated>>
    BY <1>1 DEF conversationVars, reading, packing
  <2>2. SourceOK' <=> SourceOK
    BY <2>1 DEF SourceOK
  <2>3. LoadOK' <=> LoadOK
    BY <2>1 DEF LoadOK, ReadOK
  <2>4. RenderOK' <=> RenderOK
    BY <2>1 DEF RenderOK, Of
  <2>5. \A role, rest : Holds(role, rest)' <=> Holds(role, rest)
    BY <2>1 DEF Holds, Flat, RequestsOf
  <2>6. PackOK => PackOK'
    <3>1. RowsOK => RowsOK'
      BY <2>1, RowsStay
    <3>2. Holds(ROLES[split], unpacked)' <=> Holds(ROLES[split], unpacked)
      BY <2>1 DEF Holds, Flat, RequestsOf
    <3> QED  BY <2>1, <2>5, <3>1, <3>2 DEF PackOK
  <2> QED  BY <2>1, <2>2, <2>3, <2>4, <2>6 DEF DatasetInv
<1>2. CASE LoadRecord     BY <1>2, LoadRecordInv
<1>3. CASE EndSplit       BY <1>3, EndSplitInv
<1>4. CASE ReadMessage    BY <1>4, ReadMessageInv
<1>5. CASE EndRecord      BY <1>5, EndRecordInv
<1>6. CASE RenderConversation  BY <1>6, RenderInv
<1>7. CASE Rendered       BY <1>7, RenderedInv
<1>8. CASE Shuffle        BY <1>8, ShuffleInv
<1>9. CASE FillRow        BY <1>9, FillRowInv
<1>10. CASE Packed        BY <1>10, PackedInv
<1> QED
  BY <1>1, <1>2, <1>3, <1>4, <1>5, <1>6, <1>7, <1>8, <1>9, <1>10 DEF ConversationNext

\* What is accepted of a conversation is what is worth learning of it.
LEMMA AcceptedIsLearned ==
    ASSUME SourceOK, RenderOK, SourceAssumption, NEW c \in DOMAIN rendered
    PROVE  Learned(c) = IF rendered[c].rejection = "none"
                        THEN {<<c, i>> : i \in rendered[c].requests} ELSE {}
<1> DEFINE sizes == rendered[c].sizes
           good == Replies(source[c]) \ Wrong(source[c].messages)
<1>1. c \in DOMAIN source
  BY DEF SourceOK, RenderOK
<1>2. /\ sizes \in [Replies(source[c]) -> Renderings]
      /\ rendered[c].requests = good
      /\ rendered[c].rejection = Rejection(sizes, good)
  BY <1>1 DEF SourceOK, RenderOK
<1>3. \A i \in DOMAIN sizes : sizes[i] \in Nat \X BOOLEAN
  BY <1>2 DEF SourceAssumption
<1>4. \A i \in DOMAIN sizes : ~(sizes[i][1] > ContextLength) <=> sizes[i][1] <= ContextLength
  BY <1>3 DEF SourceAssumption
<1>5. Learned(c) = IF /\ \A i \in DOMAIN sizes : sizes[i][1] <= ContextLength
                      /\ \A i \in good : sizes[i][2]
                   THEN {<<c, i>> : i \in good} ELSE {}
  BY DEF Learned
<1>6. Rejection(sizes, good) = "none" <=>
         /\ good # {}
         /\ \A i \in DOMAIN sizes : ~(sizes[i][1] > ContextLength)
         /\ \A i \in good : sizes[i][2]
  BY DEF Rejection
<1>7. good = {} => {<<c, i>> : i \in good} = {}
  OBVIOUS
<1> HIDE DEF sizes, good
<1> QED  BY <1>2, <1>4, <1>5, <1>6, <1>7

(* The rows of a prepared dataset are what is accepted, and that is what   *)
(* is worth learning (prepare_dataset).                                    *)
LEMMA DatasetIsLearned ==
    ASSUME DatasetInv, SourceAssumption
    PROVE  PackedIsWhatIsLearned
<1>1. \A c \in DOMAIN source :
         /\ WellFormed(source[c].messages)
         /\ source[c].task \in Selected[source[c].role]
         /\ \A d \in DOMAIN source : source[d].id = source[c].id => d = c
  BY DEF DatasetInv, SourceOK
<1>2. ASSUME preparing = "prepared", NEW role \in DOMAIN rows
      PROVE  LET flat == FlattenSeq(rows[role])
             IN  /\ flat # <<>> /\ IsInjective(flat)
                 /\ ToSet(flat) = UNION {Learned(c) : c \in {d \in DOMAIN source :
                                                             source[d].role = role}}
                 /\ \A row \in ToSet(rows[role]) : RowLength(row) <= ContextLength
  <2>1. SourceOK /\ RenderOK /\ PackOK /\ RowsOK /\ split = 2
    BY <1>2 DEF DatasetInv, PackOK
  <2>2. role \in SplitRoles
    BY <1>2, <2>1 DEF RowsOK
  <2>3. Holds(role, <<>>) /\ rows[role] # <<>>
    BY <1>2, <2>1, <2>2 DEF PackOK, SplitRoles
  <2>4. /\ Flat(role) \in Seq(Nat \X Nat) /\ Flat(role) # <<>>
        /\ \A row \in ToSet(rows[role]) : RowLength(row) <= ContextLength
    BY <2>1, <2>2, <2>3 DEF RowsOK
  <2>5. Flat(role) \o <<>> = Flat(role)
    BY <2>4, ConcatEmptySeq
  <2>6. IsInjective(Flat(role)) /\ ToSet(Flat(role)) = RequestsOf(role)
    BY <2>3, <2>5 DEF Holds
  <2>7. Of(role) \subseteq DOMAIN rendered /\ DOMAIN rendered \subseteq DOMAIN source
    <3>1. Of("train") \subseteq DOMAIN rendered /\ Of("validation") \subseteq DOMAIN rendered
      BY <1>2, <2>1, TheRoles DEF RenderOK
    <3>2. DOMAIN rendered \subseteq DOMAIN source
      BY <2>1 DEF RenderOK, SourceOK
    <3> QED  BY <2>2, <3>1, <3>2 DEF SplitRoles
  <2>8. {d \in DOMAIN source : source[d].role = role}
           = {d \in DOMAIN rendered : source[d].role = role}
    BY <2>7 DEF Of
  <2>9. \A c \in DOMAIN rendered :
           Learned(c) = IF rendered[c].rejection = "none"
                        THEN {<<c, i>> : i \in rendered[c].requests} ELSE {}
    BY <2>1, AcceptedIsLearned
  <2>10. RequestsOf(role) = UNION {Learned(c) : c \in {d \in DOMAIN rendered :
                                                         source[d].role = role}}
    BY <2>9 DEF RequestsOf
  <2> QED  BY <2>4, <2>6, <2>8, <2>10 DEF Flat
<1> QED  BY <1>1, <1>2 DEF PackedIsWhatIsLearned

(* What is packed is exactly what a policy may learn from: whole histories *)
(* of selected tasks, each once, and of those whose every reply fits, each *)
(* reply that was not wrong in one row that fits (load_source,             *)
(* render_conversation, pack_conversations).                               *)
THEOREM PackedInvariant == ConversationSpec => []PackedIsWhatIsLearned
<1>1. ConversationInit => DatasetInv
  BY ConversationInitInv
<1>2. DatasetInv /\ [ConversationNext]_conversationVars => DatasetInv'
  BY SourceAssumption, ConversationNextInv
<1>3. DatasetInv => PackedIsWhatIsLearned
  BY SourceAssumption, DatasetIsLearned
<1> QED  BY <1>1, <1>2, <1>3, PTL DEF ConversationSpec

-----------------------------------------------------------------------------
(* Sorting: a list whose items are all told apart by the order has one     *)
(* sorted arrangement, whatever the order they are listed in.              *)

\* R puts the indices 1 .. n of a list in a strict order, with no two alike.
Orders(R, n) ==
    /\ R \subseteq (1 .. n) \X (1 .. n)
    /\ \A i \in 1 .. n : <<i, i>> \notin R
    /\ \A i, j \in 1 .. n : i # j => <<i, j>> \in R \/ <<j, i>> \in R
    /\ \A i, j, k \in 1 .. n : <<i, j>> \in R /\ <<j, k>> \in R => <<i, k>> \in R

Turns(n) == {g \in [1 .. n -> 1 .. n] : \A i, j \in 1 .. n : g[i] = g[j] => i = j}

\* A turn of the indices reaches every one of them.
LEMMA TurnsReachAll ==
    ASSUME NEW n \in Nat, NEW g \in Turns(n), NEW i \in 1 .. n
    PROVE  \E k \in 1 .. n : g[k] = i
<1>1. IsFiniteSet(1 .. n)
  BY FS_Interval
<1>2. g \in Injection(1 .. n, 1 .. n)
  BY DEF Turns, Injection, IsInjective
<1>3. g \in Surjection(1 .. n, 1 .. n)
  BY <1>1, <1>2, FS_Injection
<1> QED  BY <1>3 DEF Surjection

\* A turn can be undone.
LEMMA TurnBack ==
    ASSUME NEW n \in Nat, NEW g \in Turns(n)
    PROVE  \E h \in Turns(n) : /\ \A i \in 1 .. n : g[h[i]] = i
                               /\ \A i \in 1 .. n : h[g[i]] = i
<1> DEFINE h == [i \in 1 .. n |-> CHOOSE k \in 1 .. n : g[k] = i]
<1>1. \A i \in 1 .. n : h[i] \in 1 .. n /\ g[h[i]] = i
  BY TurnsReachAll
<1>2. h \in [1 .. n -> 1 .. n]
  BY <1>1
<1> HIDE DEF h
<1>3. h \in Turns(n)
  BY <1>1, <1>2 DEF Turns
<1>4. \A i \in 1 .. n : h[g[i]] = i
  BY <1>1 DEF Turns
<1> QED  BY <1>1, <1>3, <1>4

\* What an order puts before an item of a list.
LEMMA AheadIsBefore ==
    ASSUME NEW n \in Nat, NEW R, Orders(R, n), NEW i \in 1 .. n
    PROVE  /\ Ahead(n, R, i) = {j \in 1 .. n : <<j, i>> \in R}
           /\ i \notin Ahead(n, R, i)
           /\ IsFiniteSet(Ahead(n, R, i))
           /\ Cardinality(Ahead(n, R, i)) \in 0 .. n - 1
<1>1. Ahead(n, R, i) = {j \in 1 .. n : <<j, i>> \in R}
  BY DEF Ahead, Orders
<1>2. i \notin Ahead(n, R, i)
  BY <1>1 DEF Orders
<1>3. IsFiniteSet(1 .. n) /\ Cardinality(1 .. n) = n
  BY FS_Interval
<1>4. IsFiniteSet((1 .. n) \ {i}) /\ Cardinality((1 .. n) \ {i}) = n - 1
  BY <1>3, FS_RemoveElement
<1>5. Ahead(n, R, i) \in SUBSET ((1 .. n) \ {i})
  BY <1>1, <1>2
<1>6. IsFiniteSet(Ahead(n, R, i)) /\ Cardinality(Ahead(n, R, i)) <= n - 1
  BY <1>4, <1>5, FS_Subset
<1>7. Cardinality(Ahead(n, R, i)) \in Nat
  BY <1>6, FS_CardinalityType
<1> QED  BY <1>1, <1>2, <1>6, <1>7

\* An item that comes before another has fewer before it.
LEMMA RanksFollowOrder ==
    ASSUME NEW n \in Nat, NEW R, Orders(R, n), NEW i \in 1 .. n, NEW j \in 1 .. n,
           <<i, j>> \in R
    PROVE  Cardinality(Ahead(n, R, i)) < Cardinality(Ahead(n, R, j))
<1> DEFINE A == Ahead(n, R, i)
           B == Ahead(n, R, j)
<1>1. /\ A = {k \in 1 .. n : <<k, i>> \in R} /\ i \notin A
      /\ IsFiniteSet(A) /\ Cardinality(A) \in 0 .. n - 1
  BY AheadIsBefore
<1>2. /\ B = {k \in 1 .. n : <<k, j>> \in R}
      /\ IsFiniteSet(B) /\ Cardinality(B) \in 0 .. n - 1
  BY AheadIsBefore
<1>3. A \cup {i} \in SUBSET B
  BY <1>1, <1>2 DEF Orders
<1>4. Cardinality(A \cup {i}) = Cardinality(A) + 1
  BY <1>1, FS_AddElement
<1>5. Cardinality(A \cup {i}) <= Cardinality(B)
  BY <1>2, <1>3, FS_Subset
<1> QED  BY <1>1, <1>2, <1>4, <1>5

\* No two items have as many before them.
LEMMA RanksDiffer ==
    ASSUME NEW n \in Nat, NEW R, Orders(R, n), NEW i \in 1 .. n, NEW j \in 1 .. n,
           Cardinality(Ahead(n, R, i)) = Cardinality(Ahead(n, R, j))
    PROVE  i = j
<1>1. SUFFICES ASSUME i # j
               PROVE  FALSE
  OBVIOUS
<1>2. <<i, j>> \in R \/ <<j, i>> \in R
  BY <1>1 DEF Orders
<1>3. /\ Cardinality(Ahead(n, R, i)) \in 0 .. n - 1
      /\ Cardinality(Ahead(n, R, j)) \in 0 .. n - 1
  BY AheadIsBefore
<1> QED  BY <1>2, <1>3, RanksFollowOrder

\* There is an item for every place, and the items are in order.
LEMMA ArrangementInOrder ==
    ASSUME NEW n \in Nat, NEW R, Orders(R, n)
    PROVE  /\ Arrangement(n, R) \in Turns(n)
           /\ \A k \in 1 .. n : Cardinality(Ahead(n, R, Arrangement(n, R)[k])) = k - 1
<1> DEFINE rank == [i \in 1 .. n |-> Cardinality(Ahead(n, R, i)) + 1]
           p == Arrangement(n, R)
<1>1. rank \in [1 .. n -> 1 .. n]
  BY AheadIsBefore
<1>2. \A i, j \in 1 .. n : rank[i] = rank[j] => i = j
  <2>1. SUFFICES ASSUME NEW i \in 1 .. n, NEW j \in 1 .. n, rank[i] = rank[j]
                 PROVE  i = j
    OBVIOUS
  <2>2. /\ Cardinality(Ahead(n, R, i)) \in 0 .. n - 1
        /\ Cardinality(Ahead(n, R, j)) \in 0 .. n - 1
    BY AheadIsBefore
  <2>3. Cardinality(Ahead(n, R, i)) = Cardinality(Ahead(n, R, j))
    BY <2>1, <2>2
  <2> QED  BY <2>3, RanksDiffer
<1>3. rank \in Turns(n)
  BY <1>1, <1>2 DEF Turns
<1>4. \A k \in 1 .. n : \E i \in 1 .. n : rank[i] = k
  BY <1>3, TurnsReachAll
<1>5. ASSUME NEW k \in 1 .. n
      PROVE  p[k] \in 1 .. n /\ Cardinality(Ahead(n, R, p[k])) = k - 1
  <2>1. PICK i \in 1 .. n : rank[i] = k
    BY <1>4
  <2>2. Cardinality(Ahead(n, R, i)) \in 0 .. n - 1
    BY AheadIsBefore
  <2>3. Cardinality(Ahead(n, R, i)) = k - 1
    BY <2>1, <2>2
  <2>4. p[k] = CHOOSE j \in 1 .. n : Cardinality(Ahead(n, R, j)) = k - 1
    BY DEF Arrangement
  <2> QED  BY <2>3, <2>4
<1>6. p \in [1 .. n -> 1 .. n]
  BY <1>5 DEF Arrangement
<1>7. \A k, l \in 1 .. n : p[k] = p[l] => k = l
  <2>1. SUFFICES ASSUME NEW k \in 1 .. n, NEW l \in 1 .. n, p[k] = p[l]
                 PROVE  k = l
    OBVIOUS
  <2>2. k - 1 = l - 1
    BY <1>5, <2>1
  <2> QED  BY <2>2
<1> QED  BY <1>5, <1>6, <1>7 DEF Turns

\* The arrangement is the only one in order.
LEMMA OneArrangement ==
    ASSUME NEW n \in Nat, NEW R, Orders(R, n), NEW q \in [1 .. n -> 1 .. n],
           \A k, l \in 1 .. n : k < l => <<q[k], q[l]>> \in R
    PROVE  q = Arrangement(n, R)
<1>1. q \in Turns(n)
  <2>1. ASSUME NEW k \in 1 .. n, NEW l \in 1 .. n, k < l
        PROVE  q[k] # q[l]
    BY <2>1 DEF Orders
  <2>2. \A k, l \in 1 .. n : q[k] = q[l] => k = l
    BY <2>1
  <2> QED  BY <2>2 DEF Turns
<1>2. ASSUME NEW k \in 1 .. n
      PROVE  Cardinality(Ahead(n, R, q[k])) = k - 1
  <2> DEFINE f == [l \in 1 .. k - 1 |-> q[l]]
  <2>1. q[k] \in 1 .. n /\ Ahead(n, R, q[k]) = {j \in 1 .. n : <<j, q[k]>> \in R}
    BY AheadIsBefore
  <2>2. \A l \in 1 .. k - 1 : l \in 1 .. n /\ q[l] \in Ahead(n, R, q[k])
    BY <2>1
  <2>3. ASSUME NEW j \in Ahead(n, R, q[k])
        PROVE  \E l \in 1 .. k - 1 : q[l] = j
    <3>1. j \in 1 .. n /\ <<j, q[k]>> \in R
      BY <2>1
    <3>2. PICK l \in 1 .. n : q[l] = j
      BY <1>1, <3>1, TurnsReachAll
    <3>3. ~(k < l)
      <4>1. k < l => <<q[k], j>> \in R
        BY <3>2
      <4>2. <<q[k], j>> \in R => <<q[k], q[k]>> \in R
        BY <2>1, <3>1 DEF Orders
      <4> QED  BY <2>1, <4>1, <4>2 DEF Orders
    <3>4. l # k
      BY <2>1, <3>1, <3>2 DEF Orders
    <3> QED  BY <3>2, <3>3, <3>4
  <2>4. f \in Bijection(1 .. k - 1, Ahead(n, R, q[k]))
    <3>1. f \in [1 .. k - 1 -> Ahead(n, R, q[k])]
      BY <2>2
    <3>2. \A l, m \in 1 .. k - 1 : f[l] = f[m] => l = m
      BY <1>1, <2>2 DEF Turns
    <3>3. \A j \in Ahead(n, R, q[k]) : \E l \in 1 .. k - 1 : f[l] = j
      BY <2>3
    <3> QED  BY <3>1, <3>2, <3>3 DEF Bijection, Injection, Surjection, IsInjective
  <2>5. IsFiniteSet(1 .. k - 1) /\ Cardinality(1 .. k - 1) = k - 1
    BY FS_Interval
  <2> QED  BY <2>4, <2>5, FS_Bijection DEF ExistsBijection
<1>3. ASSUME NEW k \in 1 .. n
      PROVE  q[k] = Arrangement(n, R)[k]
  <2>1. /\ Arrangement(n, R)[k] \in 1 .. n
        /\ Cardinality(Ahead(n, R, Arrangement(n, R)[k])) = k - 1
    BY ArrangementInOrder DEF Turns
  <2> QED  BY <1>2, <2>1, RanksDiffer
<1> QED  BY <1>3, ArrangementInOrder DEF Turns

\* t lists the items of s in another order.
Reordered(s, t) ==
    /\ Len(t) = Len(s)
    /\ \E g \in Turns(Len(s)) : \A k \in 1 .. Len(s) : t[k] = s[g[k]]

\* Of two listings each is a reordering of the other, and they have the same items.
LEMMA ReorderedBack ==
    ASSUME NEW s, NEW t, Len(s) \in Nat, Reordered(s, t)
    PROVE  Reordered(t, s)
<1>1. PICK g \in Turns(Len(s)) : \A k \in 1 .. Len(s) : t[k] = s[g[k]]
  BY DEF Reordered
<1>2. PICK h \in Turns(Len(s)) : \A i \in 1 .. Len(s) : g[h[i]] = i
  BY TurnBack
<1>3. \A k \in 1 .. Len(s) : s[k] = t[h[k]]
  BY <1>1, <1>2 DEF Turns
<1> QED  BY <1>3 DEF Reordered

\* A reordering has the same members.
LEMMA ReorderedSet ==
    ASSUME NEW S, NEW s \in Seq(S), NEW t \in Seq(S), Reordered(s, t)
    PROVE  ToSet(t) = ToSet(s)
<1>1. PICK g \in Turns(Len(s)) : \A k \in 1 .. Len(s) : t[k] = s[g[k]]
  BY DEF Reordered
<1>2. \A i \in 1 .. Len(s) : \E k \in 1 .. Len(s) : g[k] = i
  BY TurnsReachAll
<1>3. DOMAIN s = 1 .. Len(s) /\ DOMAIN t = 1 .. Len(s)
  BY DEF Reordered
<1>4. \A k \in 1 .. Len(s) : g[k] \in 1 .. Len(s)
  BY DEF Turns
<1>5. ASSUME NEW k \in 1 .. Len(s)
      PROVE  \E i \in 1 .. Len(s) : t[k] = s[i]
  BY ONLY <1>1, <1>4, k \in 1 .. Len(s)
<1>6. ASSUME NEW i \in 1 .. Len(s)
      PROVE  \E k \in 1 .. Len(s) : s[i] = t[k]
  <2>1. PICK k \in 1 .. Len(s) : g[k] = i
    BY <1>2, <1>6
  <2>2. t[k] = s[i]
    BY ONLY <1>1, <2>1
  <2> QED  BY ONLY <2>1, <2>2
<1>7. ToSet(t) = {t[k] : k \in 1 .. Len(s)} /\ ToSet(s) = {s[i] : i \in 1 .. Len(s)}
  BY <1>3 DEF ToSet
<1> QED  BY <1>5, <1>6, <1>7

\* An arrangement does not depend on the listing.
LEMMA ArrangedAlike ==
    ASSUME NEW s, NEW t, Len(s) \in Nat, Len(t) = Len(s), NEW g \in Turns(Len(s)),
           \A k \in 1 .. Len(s) : t[k] = s[g[k]],
           NEW R, Orders(R, Len(s)), NEW Q, Q \subseteq (1 .. Len(s)) \X (1 .. Len(s)),
           \A k, l \in 1 .. Len(s) : <<k, l>> \in Q <=> <<g[k], g[l]>> \in R
    PROVE  Orders(Q, Len(t)) /\ Arranged(t, Q) = Arranged(s, R)
<1> DEFINE n == Len(s)
           q == Arrangement(n, Q)
           p == [k \in 1 .. n |-> g[q[k]]]
<1>0. \A i \in 1 .. n : g[i] \in 1 .. n
  BY DEF Turns
<1>1. Orders(Q, n)
  <2>1. \A i \in 1 .. n : <<i, i>> \notin Q
    <3>1. \A i \in 1 .. n : <<g[i], g[i]>> \notin R
      BY <1>0 DEF Orders
    <3> QED  BY <3>1
  <2>2. \A i, j \in 1 .. n : i # j => <<i, j>> \in Q \/ <<j, i>> \in Q
    <3>1. \A i, j \in 1 .. n : i # j => g[i] # g[j]
      BY DEF Turns
    <3>2. \A i, j \in 1 .. n :
             g[i] # g[j] => <<g[i], g[j]>> \in R \/ <<g[j], g[i]>> \in R
      BY <1>0 DEF Orders
    <3> QED  BY <3>1, <3>2
  <2>3. ASSUME NEW i \in 1 .. n, NEW j \in 1 .. n, NEW k \in 1 .. n,
               <<i, j>> \in Q, <<j, k>> \in Q
        PROVE  <<i, k>> \in Q
    <3>1. <<g[i], g[j]>> \in R /\ <<g[j], g[k]>> \in R
      BY <2>3
    <3>2. <<g[i], g[k]>> \in R
      BY <1>0, <3>1 DEF Orders
    <3> QED  BY <3>2
  <2> QED  BY <2>1, <2>2, <2>3 DEF Orders
<1>2. /\ q \in Turns(n)
      /\ \A k \in 1 .. n : Cardinality(Ahead(n, Q, q[k])) = k - 1
  BY <1>1, ArrangementInOrder
<1>3. \A k \in 1 .. n : q[k] \in 1 .. n /\ p[k] \in 1 .. n
  BY <1>0, <1>2 DEF Turns
<1>4. \A k, l \in 1 .. n : k < l => <<p[k], p[l]>> \in R
  <2>1. SUFFICES ASSUME NEW k \in 1 .. n, NEW l \in 1 .. n, k < l
                 PROVE  <<p[k], p[l]>> \in R
    OBVIOUS
  <2>2. q[k] # q[l]
    BY <1>2, <2>1 DEF Turns
  <2>3. <<q[l], q[k]>> \notin Q
    <3>1. SUFFICES ASSUME <<q[l], q[k]>> \in Q
                   PROVE  FALSE
      OBVIOUS
    <3>2. Cardinality(Ahead(n, Q, q[l])) < Cardinality(Ahead(n, Q, q[k]))
      BY <1>1, <1>3, <3>1, RanksFollowOrder
    <3>3. l - 1 < k - 1
      BY <1>2, <3>2
    <3> QED  BY <2>1, <3>3
  <2>4. <<q[k], q[l]>> \in Q
    BY <1>1, <1>3, <2>2, <2>3 DEF Orders
  <2> QED  BY <1>3, <2>4
<1>5. p = Arrangement(n, R)
  <2>1. p \in [1 .. n -> 1 .. n]
    BY <1>3
  <2> HIDE DEF p
  <2> QED  BY <1>4, <2>1, OneArrangement
<1>6. \A k \in 1 .. n : t[q[k]] = s[Arrangement(n, R)[k]]
  BY <1>3, <1>5
<1>7. Arranged(t, Q) = Arranged(s, R)
  BY <1>6 DEF Arranged
<1> QED  BY <1>1, <1>7

\* It is itself a listing.
LEMMA ArrangedIsReordered ==
    ASSUME NEW S, NEW s \in Seq(S), NEW R, Orders(R, Len(s))
    PROVE  Arranged(s, R) \in Seq(S) /\ Reordered(s, Arranged(s, R))
<1>1. Arrangement(Len(s), R) \in Turns(Len(s))
  BY ArrangementInOrder
<1>2. Arranged(s, R) = [k \in 1 .. Len(s) |-> s[Arrangement(Len(s), R)[k]]]
  BY DEF Arranged
<1>3. \A k \in 1 .. Len(s) : s[Arrangement(Len(s), R)[k]] \in S
  BY <1>1 DEF Turns
<1>4. Arranged(s, R) \in Seq(S) /\ Len(Arranged(s, R)) = Len(s)
  BY <1>2, <1>3
<1> QED  BY <1>1, <1>2, <1>4 DEF Reordered

\* A list the other way round is a listing of the same items.
LEMMA ReversedIsReordered ==
    ASSUME NEW S, NEW s \in Seq(S)
    PROVE  Reverse(s) \in Seq(S) /\ Reordered(s, Reverse(s))
<1> DEFINE g == [k \in 1 .. Len(s) |-> (Len(s) - k) + 1]
<1>1. g \in Turns(Len(s))
  BY DEF Turns
<1>2. Reverse(s) \in Seq(S) /\ Len(Reverse(s)) = Len(s)
  BY DEF Reverse
<1>3. \A k \in 1 .. Len(s) : Reverse(s)[k] = s[g[k]]
  BY DEF Reverse
<1> QED  BY <1>1, <1>2, <1>3 DEF Reordered

-----------------------------------------------------------------------------
(* The orders that the lists of an action are sorted by.                   *)

SmallerNumber(s) == {p \in (1 .. Len(s)) \X (1 .. Len(s)) : s[p[1]] < s[p[2]]}
SmallerRelation(s) ==
    {p \in (1 .. Len(s)) \X (1 .. Len(s)) : s[p[1]].relation < s[p[2]].relation}
SmallerList(s) ==
    {p \in (1 .. Len(s)) \X (1 .. Len(s)) :
       Before(s[p[1]].relations, s[p[2]].relations)}

\* Numbers that differ are in an order.
LEMMA NumbersInOrder ==
    ASSUME NEW s \in Seq(Nat), \A i, j \in 1 .. Len(s) : s[i] = s[j] => i = j
    PROVE  Orders(SmallerNumber(s), Len(s))
<1>1. \A i \in 1 .. Len(s) : s[i] \in Nat
  OBVIOUS
<1>2. \A i, j \in 1 .. Len(s) : <<i, j>> \in SmallerNumber(s) <=> s[i] < s[j]
  BY DEF SmallerNumber
<1>3. SmallerNumber(s) \subseteq (1 .. Len(s)) \X (1 .. Len(s))
  BY DEF SmallerNumber
<1>4. \A i, j \in 1 .. Len(s) : i # j => s[i] < s[j] \/ s[j] < s[i]
  BY <1>1
<1>5. \A i, j, k \in 1 .. Len(s) : s[i] < s[j] /\ s[j] < s[k] => s[i] < s[k]
  BY <1>1
<1>6. \A i \in 1 .. Len(s) : ~(s[i] < s[i])
  BY <1>1
<1> QED  BY <1>2, <1>3, <1>4, <1>5, <1>6 DEF Orders

\* Lists are in an order: a list is not before itself, ...
LEMMA BeforeIrreflexive ==
    ASSUME NEW s \in Seq(Nat)
    PROVE  ~Before(s, s)
BY DEF Before

\* ... of two that differ one is before the other, by the first number that differs, ...
LEMMA BeforeTotal ==
    ASSUME NEW s \in Seq(Nat), NEW t \in Seq(Nat), s # t
    PROVE  Before(s, t) \/ Before(t, s)
<1> DEFINE T == {k \in Nat : \/ k \in DOMAIN s /\ k \notin DOMAIN t
                             \/ k \in DOMAIN t /\ k \notin DOMAIN s
                             \/ k \in DOMAIN s /\ k \in DOMAIN t /\ s[k] # t[k]}
<1>1. T # {}
  <2>1. SUFFICES ASSUME T = {}
                 PROVE  FALSE
    OBVIOUS
  <2>2. DOMAIN s = 1 .. Len(s) /\ DOMAIN t = 1 .. Len(t) /\ Len(s) \in Nat /\ Len(t) \in Nat
    OBVIOUS
  <2>3. Len(s) = Len(t)
    <3>1. ~(Len(s) > Len(t))
      <4>1. Len(s) > Len(t) => Len(s) \in T
        BY <2>2
      <4> QED  BY <2>1, <4>1
    <3>2. ~(Len(t) > Len(s))
      <4>1. Len(t) > Len(s) => Len(t) \in T
        BY <2>2
      <4> QED  BY <2>1, <4>1
    <3>3. \A m, n \in Nat : ~(m > n) /\ ~(n > m) => m = n
      OBVIOUS
    <3>4. Len(s) \in Nat /\ Len(t) \in Nat
      BY <2>2
    <3> QED  BY ONLY <3>1, <3>2, <3>3, <3>4
  <2>4. \A k \in 1 .. Len(s) : s[k] = t[k]
    <3>1. \A k \in 1 .. Len(s) : k \notin T /\ k \in DOMAIN s /\ k \in DOMAIN t
      BY <2>1, <2>2, <2>3
    <3> QED  BY <3>1
  <2> QED  BY <2>2, <2>3, <2>4
<1>2. PICK k \in T : \A i \in T : k <= i
  BY <1>1, Smallest
<1>3. DOMAIN s = 1 .. Len(s) /\ DOMAIN t = 1 .. Len(t) /\ Len(s) \in Nat /\ Len(t) \in Nat
  OBVIOUS
<1>4. k \in Nat /\ k >= 1
  BY <1>3
<1>5. ASSUME NEW i \in 1 .. k - 1
      PROVE  i \in DOMAIN s /\ i \in DOMAIN t /\ s[i] = t[i]
  <2>1. i \notin T
    BY <1>2, <1>4
  <2>2. k \in DOMAIN s \/ k \in DOMAIN t
    OBVIOUS
  <2> QED  BY <1>3, <1>4, <2>1, <2>2
<1>6. CASE k \in DOMAIN s /\ k \in DOMAIN t
  <2>1. s[k] \in Nat /\ t[k] \in Nat /\ s[k] # t[k]
    BY <1>6
  <2>2. s[k] < t[k] \/ t[k] < s[k]
    BY <2>1
  <2> QED  BY <1>5, <1>6, <2>2 DEF Before
<1>7. CASE k \in DOMAIN t /\ k \notin DOMAIN s
  BY <1>5, <1>7 DEF Before
<1>8. CASE k \in DOMAIN s /\ k \notin DOMAIN t
  BY <1>5, <1>8 DEF Before
<1> QED  BY <1>6, <1>7, <1>8

\* Less than a smaller number.
LEMMA LessThanLess ==
    ASSUME NEW i \in Nat, NEW j \in Nat, NEW k \in Nat, i < j, j < k
    PROVE  i < k
OBVIOUS

\* A list of numbers holds numbers, ...
LEMMA NumbersListed ==
    ASSUME NEW w \in Seq(Nat), NEW i \in DOMAIN w
    PROVE  w[i] \in Nat
OBVIOUS

\* ... and what is before is transitive.
LEMMA BeforeTransitive ==
    ASSUME NEW s \in Seq(Nat), NEW t \in Seq(Nat), NEW u \in Seq(Nat),
           Before(s, t), Before(t, u)
    PROVE  Before(s, u)
<1>1. PICK k \in DOMAIN t : /\ \A i \in 1 .. k - 1 : i \in DOMAIN s /\ s[i] = t[i]
                            /\ k \in DOMAIN s => s[k] < t[k]
  BY DEF Before
<1>2. PICK l \in DOMAIN u : /\ \A i \in 1 .. l - 1 : i \in DOMAIN t /\ t[i] = u[i]
                            /\ l \in DOMAIN t => t[l] < u[l]
  BY DEF Before
<1>3. /\ DOMAIN s = 1 .. Len(s) /\ DOMAIN t = 1 .. Len(t) /\ DOMAIN u = 1 .. Len(u)
      /\ Len(s) \in Nat /\ Len(t) \in Nat /\ Len(u) \in Nat
      /\ k \in Nat /\ l \in Nat /\ k >= 1 /\ l >= 1
  OBVIOUS
<1>4. /\ \A i \in DOMAIN s : s[i] \in Nat
      /\ \A i \in DOMAIN t : t[i] \in Nat
      /\ \A i \in DOMAIN u : u[i] \in Nat
  BY NumbersListed
<1>5. CASE k < l
  <2>1. k \in 1 .. l - 1 /\ k \in DOMAIN u
    BY <1>3, <1>5
  <2>4. t[k] = u[k]
    BY <1>2, <2>1
  <2>2. \A i \in 1 .. k - 1 : i \in DOMAIN s /\ s[i] = u[i]
    BY <1>1, <1>2, <1>3, <1>5
  <2>3. k \in DOMAIN s => s[k] < u[k]
    BY <1>1, <2>4
  <2> QED  BY <2>1, <2>2, <2>3 DEF Before
<1>6. CASE k = l
  <2>1. k \in DOMAIN s => s[k] < u[k]
    <3>1. SUFFICES ASSUME k \in DOMAIN s
                   PROVE  s[k] < u[k]
      OBVIOUS
    <3>2. s[k] < t[k] /\ t[k] < u[k]
      BY ONLY <1>1, <1>2, <1>6, <3>1, k \in DOMAIN t
    <3>3. s[k] \in Nat /\ t[k] \in Nat /\ u[k] \in Nat
      <4>1. k \in DOMAIN s /\ k \in DOMAIN t /\ k \in DOMAIN u
        BY <1>6, <3>1
      <4> QED  BY <4>1, NumbersListed
    <3> QED  BY ONLY <3>2, <3>3, LessThanLess
  <2>2. \A i \in 1 .. k - 1 : i \in DOMAIN s /\ s[i] = u[i]
    BY ONLY <1>1, <1>2, <1>6
  <2> QED  BY <1>6, <2>1, <2>2 DEF Before
<1>7. CASE l < k
  <2>1. l \in DOMAIN t /\ l \in DOMAIN s /\ s[l] = t[l] /\ t[l] < u[l]
    BY <1>1, <1>2, <1>3, <1>7
  <2>2. ASSUME NEW i \in 1 .. l - 1
        PROVE  i \in DOMAIN s /\ s[i] = u[i]
    <3>1. i \in 1 .. k - 1
      BY ONLY <1>3, <1>7, i \in 1 .. l - 1
    <3> QED  BY ONLY <1>1, <1>2, <3>1, i \in 1 .. l - 1
  <2>3. s[l] < u[l]
    BY <2>1
  <2> QED  BY <2>2, <2>3 DEF Before
<1> QED  BY <1>3, <1>5, <1>6, <1>7

\* Items about different relations are in a strict order by relation, ...
LEMMA RelationsInOrder ==
    ASSUME NEW S, NEW s \in Seq(S), \A x \in S : x.relation \in Nat,
           \A i, j \in 1 .. Len(s) : s[i].relation = s[j].relation => i = j
    PROVE  Orders(SmallerRelation(s), Len(s))
<1>1. \A i \in 1 .. Len(s) : s[i].relation \in Nat
  OBVIOUS
<1>2. /\ SmallerRelation(s) \subseteq (1 .. Len(s)) \X (1 .. Len(s))
      /\ \A i, j \in 1 .. Len(s) :
            <<i, j>> \in SmallerRelation(s) <=> s[i].relation < s[j].relation
  BY DEF SmallerRelation
<1>3. \A i, j \in 1 .. Len(s) :
         i # j => s[i].relation < s[j].relation \/ s[j].relation < s[i].relation
  BY <1>1
<1>4. \A i, j, k \in 1 .. Len(s) :
         s[i].relation < s[j].relation /\ s[j].relation < s[k].relation
         => s[i].relation < s[k].relation
  BY <1>1
<1>5. \A i \in 1 .. Len(s) : ~(s[i].relation < s[i].relation)
  BY <1>1
<1> QED  BY <1>2, <1>3, <1>4, <1>5 DEF Orders

\* ... and items about different lists of relations by their lists.
LEMMA ListsInOrder ==
    ASSUME NEW S, NEW s \in Seq(S), \A x \in S : x.relations \in Seq(Nat),
           \A i, j \in 1 .. Len(s) : s[i].relations = s[j].relations => i = j
    PROVE  Orders(SmallerList(s), Len(s))
<1>1. \A i \in 1 .. Len(s) : s[i].relations \in Seq(Nat)
  OBVIOUS
<1>2. /\ SmallerList(s) \subseteq (1 .. Len(s)) \X (1 .. Len(s))
      /\ \A i, j \in 1 .. Len(s) :
            <<i, j>> \in SmallerList(s) <=> Before(s[i].relations, s[j].relations)
  BY DEF SmallerList
<1>3. ASSUME NEW i \in 1 .. Len(s), NEW j \in 1 .. Len(s), i # j
      PROVE  <<i, j>> \in SmallerList(s) \/ <<j, i>> \in SmallerList(s)
  BY <1>1, <1>2, <1>3, BeforeTotal
<1>4. ASSUME NEW i \in 1 .. Len(s), NEW j \in 1 .. Len(s), NEW k \in 1 .. Len(s),
             <<i, j>> \in SmallerList(s), <<j, k>> \in SmallerList(s)
      PROVE  <<i, k>> \in SmallerList(s)
  <2>1. Before(s[i].relations, s[j].relations) /\ Before(s[j].relations, s[k].relations)
    BY <1>2, <1>4
  <2>2. Before(s[i].relations, s[k].relations)
    BY <1>1, <2>1, BeforeTransitive
  <2> QED  BY <1>2, <2>2
<1>5. \A i \in 1 .. Len(s) : <<i, i>> \notin SmallerList(s)
  BY <1>1, <1>2, BeforeIrreflexive
<1> QED  BY <1>2, <1>3, <1>4, <1>5 DEF Orders

-----------------------------------------------------------------------------
(* The sorted lists of an action.                                          *)

SortedNumbers(s) == Arranged(s, SmallerNumber(s))

\* t lists the items of s in another order, and Q puts it in the order R puts s.
OrderedAlike(s, R, t, Q) ==
    \E g \in Turns(Len(s)) :
       /\ \A k \in 1 .. Len(s) : t[k] = s[g[k]]
       /\ \A k, l \in 1 .. Len(s) : <<k, l>> \in Q <=> <<g[k], g[l]>> \in R

\* Two listings ordered alike are arranged alike.
LEMMA ArrangedAsOne ==
    ASSUME NEW s, NEW t, Len(s) \in Nat, Len(t) = Len(s),
           NEW R, Orders(R, Len(s)), NEW Q, Q \subseteq (1 .. Len(s)) \X (1 .. Len(s)),
           OrderedAlike(s, R, t, Q)
    PROVE  Arranged(t, Q) = Arranged(s, R)
<1>1. PICK g \in Turns(Len(s)) :
         /\ \A k \in 1 .. Len(s) : t[k] = s[g[k]]
         /\ \A k, l \in 1 .. Len(s) : <<k, l>> \in Q <=> <<g[k], g[l]>> \in R
  BY DEF OrderedAlike
<1> QED  BY <1>1, ArrangedAlike

\* A list of relations without duplicates, sorted.
LEMMA NumbersAlike ==
    ASSUME NEW s \in Seq(Nat), NEW t \in Seq(Nat), IsInjective(s), Reordered(s, t)
    PROVE  /\ IsInjective(t)
           /\ SortedNumbers(t) = SortedNumbers(s)
           /\ SortedNumbers(s) \in Seq(Nat) /\ Reordered(s, SortedNumbers(s))
<1>1. PICK g \in Turns(Len(s)) : \A k \in 1 .. Len(s) : t[k] = s[g[k]]
  BY DEF Reordered
<1>2. DOMAIN s = 1 .. Len(s) /\ DOMAIN t = 1 .. Len(s) /\ Len(t) = Len(s)
  BY DEF Reordered
<1>3. \A i, j \in 1 .. Len(s) : s[i] = s[j] => i = j
  BY <1>2 DEF IsInjective
<1>4. \A k \in 1 .. Len(s) : g[k] \in 1 .. Len(s)
  BY DEF Turns
<1>5. \A i, j \in 1 .. Len(s) : t[i] = t[j] => i = j
  <2>1. \A i, j \in 1 .. Len(s) : g[i] = g[j] => i = j
    BY DEF Turns
  <2> QED  BY ONLY <1>1, <1>3, <1>4, <2>1
<1>6. IsInjective(t)
  BY <1>2, <1>5 DEF IsInjective
<1>7. Orders(SmallerNumber(s), Len(s))
  BY <1>3, NumbersInOrder
<1>8. /\ SmallerNumber(t) \subseteq (1 .. Len(s)) \X (1 .. Len(s))
      /\ \A k, l \in 1 .. Len(s) : <<k, l>> \in SmallerNumber(t) <=> <<g[k], g[l]>> \in SmallerNumber(s)
  BY <1>1, <1>2, <1>4 DEF SmallerNumber
<1>9. OrderedAlike(s, SmallerNumber(s), t, SmallerNumber(t))
  BY <1>1, <1>8 DEF OrderedAlike
<1>10. Arranged(t, SmallerNumber(t)) = Arranged(s, SmallerNumber(s))
  <2>1. Len(s) \in Nat
    OBVIOUS
  <2> QED  BY <1>2, <1>7, <1>8, <1>9, <2>1, ArrangedAsOne
<1> QED  BY <1>6, <1>7, <1>10, ArrangedIsReordered DEF SortedNumbers

\* Sorting by relation is arranging by it.
LEMMA ByRelationIs ==
    ASSUME NEW s
    PROVE  ByRelation(s) = Arranged(s, SmallerRelation(s))
BY DEF ByRelation, Sort, SmallerRelation

\* Items about one relation each, sorted by it.
LEMMA ByRelationAlike ==
    ASSUME NEW S, \A x \in S : x.relation \in Nat, NEW s \in Seq(S), NEW t \in Seq(S),
           NoDuplicates(s, RelationOf), Reordered(s, t)
    PROVE  /\ NoDuplicates(t, RelationOf)
           /\ ByRelation(t) = ByRelation(s)
           /\ ByRelation(s) \in Seq(S) /\ Reordered(s, ByRelation(s))
<1>1. PICK g \in Turns(Len(s)) : \A k \in 1 .. Len(s) : t[k] = s[g[k]]
  BY DEF Reordered
<1>2. DOMAIN s = 1 .. Len(s) /\ DOMAIN t = 1 .. Len(s) /\ Len(t) = Len(s)
  BY DEF Reordered
<1>3. \A i, j \in 1 .. Len(s) : s[i].relation = s[j].relation => i = j
  BY <1>2 DEF NoDuplicates, RelationOf
<1>4. \A k \in 1 .. Len(s) : g[k] \in 1 .. Len(s)
  BY DEF Turns
<1>5. ASSUME NEW i \in 1 .. Len(s), NEW j \in 1 .. Len(s), t[i].relation = t[j].relation
      PROVE  i = j
  <2>1. s[g[i]].relation = s[g[j]].relation
    BY <1>1, <1>5
  <2>2. g[i] = g[j]
    BY <1>3, <1>4, <2>1
  <2> QED  BY <2>2 DEF Turns
<1>6. NoDuplicates(t, RelationOf)
  BY <1>2, <1>5 DEF NoDuplicates, RelationOf
<1>7. Orders(SmallerRelation(s), Len(s))
  BY <1>3, RelationsInOrder
<1>8. /\ SmallerRelation(t) \subseteq (1 .. Len(s)) \X (1 .. Len(s))
      /\ \A k, l \in 1 .. Len(s) :
            <<k, l>> \in SmallerRelation(t) <=> <<g[k], g[l]>> \in SmallerRelation(s)
  BY <1>1, <1>2, <1>4 DEF SmallerRelation
<1>9. OrderedAlike(s, SmallerRelation(s), t, SmallerRelation(t))
  BY <1>1, <1>8 DEF OrderedAlike
<1>10. ByRelation(t) = ByRelation(s)
  <2>1. Len(s) \in Nat
    OBVIOUS
  <2> QED  BY <1>2, <1>7, <1>8, <1>9, <2>1, ArrangedAsOne, ByRelationIs
<1>11. ByRelation(s) \in Seq(S) /\ Reordered(s, ByRelation(s))
  BY <1>7, ArrangedIsReordered, ByRelationIs
<1> QED  BY <1>6, <1>10, <1>11

\* Items about a list of relations each: x with another list is an item as well.
Respelt(x, list) == [x EXCEPT !.relations = list]
Listed(S) ==
    \A x \in S :
       /\ x.relations \in Seq(Nat) /\ Respelt(x, x.relations) = x
       /\ \A l \in Seq(Nat) :
             /\ Respelt(x, l) \in S /\ Respelt(x, l).relations = l
             /\ \A m \in Seq(Nat) : Respelt(Respelt(x, l), m) = Respelt(x, m)

\* Join constraints and row corrections are such items.
LEMMA JoinsAndRowsListed == Listed(JoinConstraint) /\ Listed(RowCorrection)
<1>1. Listed(JoinConstraint)
  BY ZenonT(30) DEF Listed, Respelt, JoinConstraint
<1>2. Listed(RowCorrection)
  BY ZenonT(30) DEF Listed, Respelt, RowCorrection
<1> QED  BY <1>1, <1>2

\* t lists the items of s in another order, and the relations of each.
SameItem(x, y) == y = Respelt(x, y.relations) /\ Reordered(x.relations, y.relations)
Rewritten(s, t) ==
    /\ Len(t) = Len(s)
    /\ \E g \in Turns(Len(s)) : \A k \in 1 .. Len(s) : SameItem(s[g[k]], t[k])

\* A list is a reordering of itself, ...
LEMMA ReorderedSelf ==
    ASSUME NEW s, Len(s) \in Nat
    PROVE  Reordered(s, s)
<1>1. [i \in 1 .. Len(s) |-> i] \in Turns(Len(s))
  BY DEF Turns
<1> QED  BY <1>1 DEF Reordered

\* ... and of two lists each is a rewriting of the other.
LEMMA RewrittenBack ==
    ASSUME NEW S, Listed(S), NEW s \in Seq(S), NEW t \in Seq(S), Rewritten(s, t)
    PROVE  Rewritten(t, s)
<1>1. PICK g \in Turns(Len(s)) : \A k \in 1 .. Len(s) : SameItem(s[g[k]], t[k])
  BY DEF Rewritten
<1>2. PICK h \in Turns(Len(s)) : \A i \in 1 .. Len(s) : g[h[i]] = i
  BY TurnBack
<1>3. ASSUME NEW i \in 1 .. Len(s)
      PROVE  SameItem(t[h[i]], s[i])
  <2>1. h[i] \in 1 .. Len(s) /\ Len(t) = Len(s)
    BY DEF Turns, Rewritten
  <2>2. s[i] \in S /\ t[h[i]] \in S
    BY <2>1
  <2>3. SameItem(s[i], t[h[i]])
    BY <1>1, <1>2, <2>1
  <2>4. s[i].relations \in Seq(Nat) /\ t[h[i]].relations \in Seq(Nat)
    BY <2>2 DEF Listed
  <2>5. Respelt(t[h[i]], s[i].relations) = Respelt(s[i], s[i].relations)
    BY <2>2, <2>3, <2>4 DEF Listed, SameItem
  <2>6. Respelt(s[i], s[i].relations) = s[i]
    BY <2>2 DEF Listed
  <2>7. Reordered(t[h[i]].relations, s[i].relations)
    BY <2>3, <2>4, ReorderedBack DEF SameItem
  <2> QED  BY <2>5, <2>6, <2>7 DEF SameItem
<1>4. Len(t) = Len(s)
  BY DEF Rewritten
<1> QED  BY <1>3, <1>4 DEF Rewritten

\* The walk over a connected set reaches all of it from wherever it starts.
LEMMA ReachedFromAny ==
    ASSUME NEW X, NEW a \in X, NEW b \in X, ReachesAll(a, X)
    PROVE  ReachesAll(b, X)
<1>1. SUFFICES ASSUME NEW V \in SUBSET X, b \in V,
                      \A r \in V, s \in X : Adjacent(r, s) => s \in V
               PROVE  V = X
  BY DEF ReachesAll
<1>2. CASE a \in V
  BY <1>1, <1>2 DEF ReachesAll
<1>3. CASE a \notin V
  <2> DEFINE W == X \ V
  <2>1. ASSUME NEW r \in W, NEW s \in X, Adjacent(r, s)
        PROVE  s \in W
    <3>1. Adjacent(s, r)
      <4>1. {r, s} = {s, r}
        OBVIOUS
      <4> QED  BY <2>1, <4>1 DEF Adjacent
    <3> QED  BY <1>1, <3>1
  <2>2. W \in SUBSET X /\ a \in W
    BY <1>3
  <2> HIDE DEF W
  <2>3. W = X
    BY <2>1, <2>2 DEF ReachesAll
  <2> QED  BY <1>1, <2>3 DEF W
<1> QED  BY <1>2, <1>3

\* So the order in which relations are listed does not matter to require_relations.
LEMMA RequireAlike ==
    ASSUME NEW s \in Seq(Nat), NEW t \in Seq(Nat), Reordered(s, t), RequireRelations(s)
    PROVE  RequireRelations(t) /\ ToSet(t) = ToSet(s) /\ IsInjective(s)
<1>1. IsInjective(s) /\ IsInjective(t)
  BY NumbersAlike DEF RequireRelations
<1>2. ToSet(t) = ToSet(s)
  BY ReorderedSet
<1>3. Len(t) = Len(s) /\ Len(s) >= 2
  BY DEF Reordered, RequireRelations, MIN_JOIN_RELATIONS
<1>4. s[1] \in ToSet(s) /\ t[1] \in ToSet(t)
  <2>1. 1 \in DOMAIN s /\ 1 \in DOMAIN t
    BY <1>3
  <2> QED  BY ONLY <2>1 DEF ToSet
<1>5. ReachesAll(t[1], ToSet(t))
  BY <1>2, <1>4, ReachedFromAny DEF RequireRelations
<1> QED  BY <1>1, <1>2, <1>3, <1>5 DEF RequireRelations, MIN_JOIN_RELATIONS

-----------------------------------------------------------------------------
(* Lists of joins and of rows.                                             *)

\* Sorting the relations of every item rewrites each by itself.
LEMMA SortRelationsIs ==
    ASSUME NEW s
    PROVE  SortRelations(s) = [i \in DOMAIN s |-> Respelt(s[i], SortedNumbers(s[i].relations))]
BY DEF SortRelations, Sort, Respelt, SortedNumbers, SmallerNumber

\* Sorting the relations of each item keeps the list as long as it was.
LEMMA SortRelationsLen ==
    ASSUME NEW S, NEW s \in Seq(S)
    PROVE  /\ DOMAIN SortRelations(s) = 1 .. Len(s) /\ Len(SortRelations(s)) = Len(s)
           /\ SortRelations(s) = [i \in 1 .. Len(s) |-> SortRelations(s)[i]]
<1>1. DOMAIN s = 1 .. Len(s) /\ Len(s) \in Nat
  OBVIOUS
<1>2. DOMAIN SortRelations(s) = 1 .. Len(s)
  BY <1>1, SortRelationsIs
<1>3. SortRelations(s) = [i \in 1 .. Len(s) |-> SortRelations(s)[i]]
  BY <1>1, SortRelationsIs
<1> QED  BY <1>1, <1>2, <1>3

\* An item keeps all but the order of its relations when these are sorted.
LEMMA SortedItem ==
    ASSUME NEW S, Listed(S), NEW s \in Seq(S), NEW i \in 1 .. Len(s),
           IsInjective(s[i].relations)
    PROVE  /\ Len(SortRelations(s)) = Len(s)
           /\ SortRelations(s)[i] = Respelt(s[i], SortedNumbers(s[i].relations))
           /\ SortRelations(s)[i] \in S
           /\ SortRelations(s)[i].relations = SortedNumbers(s[i].relations)
           /\ SameItem(s[i], SortRelations(s)[i])
<1>1. s[i] \in S /\ s[i].relations \in Seq(Nat)
  BY DEF Listed
<1>2. SortRelations(s)[i] = Respelt(s[i], SortedNumbers(s[i].relations))
  BY SortRelationsIs
<1>3. Len(SortRelations(s)) = Len(s)
  BY SortRelationsLen
<1>4. /\ SortedNumbers(s[i].relations) \in Seq(Nat)
      /\ Reordered(s[i].relations, SortedNumbers(s[i].relations))
  <2>1. Len(s[i].relations) \in Nat
    BY <1>1
  <2> QED  BY <1>1, <2>1, NumbersAlike, ReorderedSelf
<1>5. /\ SortRelations(s)[i] \in S
      /\ SortRelations(s)[i].relations = SortedNumbers(s[i].relations)
  BY <1>1, <1>2, <1>4 DEF Listed
<1> QED  BY <1>2, <1>3, <1>4, <1>5 DEF SameItem

\* Joins whose targets are told apart are told apart by their sorted relations as well.
LEMMA SortedInOrder ==
    ASSUME NEW S, Listed(S), NEW s \in Seq(S),
           \A i \in 1 .. Len(s) : IsInjective(s[i].relations),
           NoDuplicates(s, RelationsOf)
    PROVE  /\ SortRelations(s) \in Seq(S)
           /\ Orders(SmallerList(SortRelations(s)), Len(s))
<1> DEFINE u == SortRelations(s)
<1>1. u \in Seq(S) /\ Len(u) = Len(s)
  <2>1. u = [i \in 1 .. Len(s) |-> u[i]]
    BY SortRelationsLen
  <2>2. \A i \in 1 .. Len(s) : u[i] \in S
    BY SortedItem
  <2> HIDE DEF u
  <2> QED  BY <2>1, <2>2
<1>2. ASSUME NEW i \in 1 .. Len(s), NEW j \in 1 .. Len(s), u[i].relations = u[j].relations
      PROVE  i = j
  <2>1. \A k \in {i, j} : /\ u[k].relations = SortedNumbers(s[k].relations)
                          /\ SameItem(s[k], u[k]) /\ s[k] \in S /\ u[k] \in S
    BY SortedItem
  <2>2. \A k \in {i, j} : ToSet(u[k].relations) = ToSet(s[k].relations)
    BY <2>1, ReorderedSet DEF SameItem, Listed
  <2>3. RelationsOf(s[i]) = RelationsOf(s[j])
    BY <1>2, <2>2 DEF RelationsOf
  <2>4. i \in DOMAIN s /\ j \in DOMAIN s
    OBVIOUS
  <2> QED  BY <2>3, <2>4 DEF NoDuplicates
<1>3. \A x \in S : x.relations \in Seq(Nat)
  BY DEF Listed
<1> HIDE DEF u
<1>4. Orders(SmallerList(u), Len(u))
  BY <1>1, <1>2, <1>3, ListsInOrder
<1> QED  BY <1>1, <1>4 DEF u

\* Sorting by relations is sorting those of each item, then arranging.
LEMMA ByRelationsIs ==
    ASSUME NEW s
    PROVE  ByRelations(s) = Arranged(SortRelations(s), SmallerList(SortRelations(s)))
BY DEF ByRelations, Sort, SmallerList

\* Items about a list of relations each, sorted: one list for every listing of them.
LEMMA ByRelationsAlike ==
    ASSUME NEW S, Listed(S), NEW s \in Seq(S), NEW t \in Seq(S), Rewritten(s, t),
           \A i \in 1 .. Len(s) : IsInjective(s[i].relations),
           NoDuplicates(s, RelationsOf)
    PROVE  ByRelations(t) = ByRelations(s)
<1> DEFINE u == SortRelations(s)
           v == SortRelations(t)
<1>1. PICK g \in Turns(Len(s)) : \A k \in 1 .. Len(s) : SameItem(s[g[k]], t[k])
  BY DEF Rewritten
<1>2. Len(t) = Len(s) /\ Len(s) \in Nat
  BY DEF Rewritten
<1>3. /\ u \in Seq(S) /\ Len(u) = Len(s)
      /\ Orders(SmallerList(u), Len(s))
  <2>1. Len(u) = Len(s)
    BY SortRelationsLen
  <2> QED  BY <2>1, SortedInOrder
<1>4. ASSUME NEW k \in 1 .. Len(s)
      PROVE  v[k] = u[g[k]]
  <2>1. g[k] \in 1 .. Len(s) /\ k \in 1 .. Len(t)
    <3>1. \A i \in 1 .. Len(s) : g[i] \in 1 .. Len(s)
      BY DEF Turns
    <3> QED  BY <1>2, <3>1
  <2>2. /\ s[g[k]] \in S /\ t[k] \in S
        /\ s[g[k]].relations \in Seq(Nat) /\ t[k].relations \in Seq(Nat)
        /\ SameItem(s[g[k]], t[k]) /\ IsInjective(s[g[k]].relations)
    <3>1. s[g[k]] \in S /\ t[k] \in S /\ SameItem(s[g[k]], t[k])
      BY <1>1, <2>1
    <3>2. s[g[k]].relations \in Seq(Nat) /\ t[k].relations \in Seq(Nat)
      BY <3>1 DEF Listed
    <3>3. IsInjective(s[g[k]].relations)
      BY <2>1
    <3> QED  BY <3>1, <3>2, <3>3
  <2>3. /\ SortedNumbers(t[k].relations) = SortedNumbers(s[g[k]].relations)
        /\ IsInjective(t[k].relations)
        /\ SortedNumbers(s[g[k]].relations) \in Seq(Nat)
    <3>1. Reordered(s[g[k]].relations, t[k].relations)
      BY <2>2 DEF SameItem
    <3> QED  BY ONLY <2>2, <3>1, NumbersAlike
  <2>4. u[g[k]] = Respelt(s[g[k]], SortedNumbers(s[g[k]].relations))
    BY <2>1, <2>2, SortedItem
  <2>5. v[k] = Respelt(t[k], SortedNumbers(t[k].relations))
    BY <2>1, <2>3, SortedItem
  <2>6. t[k] = Respelt(s[g[k]], t[k].relations)
    BY <2>2 DEF SameItem
  <2> QED  BY <2>2, <2>3, <2>4, <2>5, <2>6 DEF Listed
<1>5. Len(v) = Len(s)
  BY <1>2, SortRelationsLen
<1> HIDE DEF u, v
<1>6. \A k \in 1 .. Len(s) : g[k] \in 1 .. Len(s)
  BY DEF Turns
<1>7. /\ SmallerList(v) \subseteq (1 .. Len(u)) \X (1 .. Len(u))
      /\ \A k, l \in 1 .. Len(u) :
            <<k, l>> \in SmallerList(v) <=> <<g[k], g[l]>> \in SmallerList(u)
  BY <1>3, <1>4, <1>5, <1>6 DEF SmallerList
<1>8. OrderedAlike(u, SmallerList(u), v, SmallerList(v))
  BY <1>3, <1>4, <1>7 DEF OrderedAlike
<1>9. Arranged(v, SmallerList(v)) = Arranged(u, SmallerList(u))
  <2>1. Len(u) \in Nat /\ Len(v) = Len(u) /\ Orders(SmallerList(u), Len(u))
    BY <1>2, <1>3, <1>5
  <2> QED  BY <1>7, <1>8, <2>1, ArrangedAsOne
<1> QED  BY <1>9, ByRelationsIs DEF u, v

\* It lists the items that were given.
LEMMA ByRelationsRewrites ==
    ASSUME NEW S, Listed(S), NEW s \in Seq(S),
           \A i \in 1 .. Len(s) : IsInjective(s[i].relations),
           NoDuplicates(s, RelationsOf)
    PROVE  ByRelations(s) \in Seq(S) /\ Rewritten(s, ByRelations(s))
<1> DEFINE u == SortRelations(s)
           p == Arrangement(Len(u), SmallerList(u))
<1>1. u \in Seq(S) /\ Len(u) = Len(s) /\ Orders(SmallerList(u), Len(u))
  <2>1. Len(u) = Len(s)
    BY SortRelationsLen
  <2> QED  BY <2>1, SortedInOrder
<1>2. \A i \in 1 .. Len(s) : SameItem(s[i], u[i])
  BY SortedItem
<1> HIDE DEF u
<1>3. Arranged(u, SmallerList(u)) \in Seq(S) /\ Reordered(u, Arranged(u, SmallerList(u)))
  BY <1>1, ArrangedIsReordered
<1>4. PICK g \in Turns(Len(u)) :
         \A k \in 1 .. Len(u) : Arranged(u, SmallerList(u))[k] = u[g[k]]
  BY <1>3 DEF Reordered
<1>5. \A k \in 1 .. Len(s) : SameItem(s[g[k]], Arranged(u, SmallerList(u))[k])
  BY <1>1, <1>2, <1>4 DEF Turns
<1>6. Rewritten(s, Arranged(u, SmallerList(u)))
  BY <1>1, <1>3, <1>5 DEF Rewritten, Reordered
<1> QED  BY <1>3, <1>6, ByRelationsIs DEF u

\* So does the list with everything the other way round.
LEMMA TurnedIsRewritten ==
    ASSUME NEW S, Listed(S), NEW s \in Seq(S)
    PROVE  Reverse(Turned(s)) \in Seq(S) /\ Rewritten(s, Reverse(Turned(s)))
<1> DEFINE u == Turned(s)
<1>1. Len(u) = Len(s)
  BY DEF Turned
<1>2. ASSUME NEW i \in 1 .. Len(s)
      PROVE  u[i] \in S /\ SameItem(s[i], u[i])
  <2>1. s[i] \in S /\ s[i].relations \in Seq(Nat)
    BY DEF Listed
  <2>2. u[i] = Respelt(s[i], Reverse(s[i].relations))
    BY DEF Turned, Respelt
  <2>3. /\ Reverse(s[i].relations) \in Seq(Nat)
        /\ Reordered(s[i].relations, Reverse(s[i].relations))
    BY <2>1, ReversedIsReordered
  <2> QED  BY <2>1, <2>2, <2>3 DEF SameItem, Listed
<1>3. u \in Seq(S)
  <2>1. u = [i \in 1 .. Len(s) |-> u[i]]
    BY DEF Turned
  <2> HIDE DEF u
  <2> QED  BY <1>2, <2>1
<1> HIDE DEF u
<1>4. Reverse(u) \in Seq(S) /\ Reordered(u, Reverse(u))
  BY <1>3, ReversedIsReordered
<1>5. PICK g \in Turns(Len(u)) : \A k \in 1 .. Len(u) : Reverse(u)[k] = u[g[k]]
  BY <1>4 DEF Reordered
<1>6. \A k \in 1 .. Len(s) : SameItem(s[g[k]], Reverse(u)[k])
  BY <1>1, <1>2, <1>5 DEF Turns
<1>7. Rewritten(s, Reverse(u))
  BY <1>1, <1>4, <1>5, <1>6 DEF Rewritten, Reordered
<1> QED  BY <1>4, <1>7 DEF u

-----------------------------------------------------------------------------
(* Actions that differ in the order of their lists.                        *)

ActionType(r) ==
    /\ r = [leading |-> r.leading, joins |-> r.joins, scans |-> r.scans,
            disabled |-> r.disabled, rows |-> r.rows, parallel |-> r.parallel,
            settings |-> r.settings]
    /\ r.joins \in Seq(JoinConstraint) /\ r.rows \in Seq(RowCorrection)
    /\ r.scans \in Seq(ScanConstraint) /\ r.disabled \in Seq(DisabledIndexes)
    /\ r.parallel \in Seq(ParallelRequest)

Rearranged(a, b) ==
    /\ b.leading = a.leading /\ b.settings = a.settings
    /\ Rewritten(a.joins, b.joins) /\ Rewritten(a.rows, b.rows)
    /\ Reordered(a.scans, b.scans) /\ Reordered(a.disabled, b.disabled)
    /\ Reordered(a.parallel, b.parallel)

\* Of two actions each is a rearrangement of the other.
LEMMA RearrangedBack ==
    ASSUME NEW a, NEW b, ActionType(a), ActionType(b), Rearranged(a, b)
    PROVE  Rearranged(b, a)
<1>1. Rewritten(b.joins, a.joins) /\ Rewritten(b.rows, a.rows)
  BY RewrittenBack, JoinsAndRowsListed DEF ActionType, Rearranged
<1>2. Len(a.scans) \in Nat /\ Len(a.disabled) \in Nat /\ Len(a.parallel) \in Nat
  BY DEF ActionType
<1>3. /\ Reordered(b.scans, a.scans) /\ Reordered(b.disabled, a.disabled)
      /\ Reordered(b.parallel, a.parallel)
  BY <1>2, ReorderedBack DEF Rearranged
<1> QED  BY <1>1, <1>3 DEF Rearranged

\* A join, or a correction of rows, with its relations in another order.
LEMMA JoinAlike ==
    ASSUME NEW x \in JoinConstraint, NEW y \in JoinConstraint, SameItem(x, y)
    PROVE  /\ y.force = x.force /\ y.forbid = x.forbid /\ y.memoize = x.memoize
           /\ JoinOk(x) => /\ JoinOk(y) /\ RelationsOf(y) = RelationsOf(x)
                           /\ IsInjective(x.relations)
<1>1. y.force = x.force /\ y.forbid = x.forbid /\ y.memoize = x.memoize
  BY DEF SameItem, Respelt, JoinConstraint
<1>2. /\ x.relations \in Seq(Nat) /\ y.relations \in Seq(Nat)
      /\ Reordered(x.relations, y.relations)
  BY DEF JoinConstraint, SameItem
<1>3. RequireRelations(x.relations) =>
         /\ RequireRelations(y.relations) /\ ToSet(y.relations) = ToSet(x.relations)
         /\ IsInjective(x.relations)
  BY <1>2, RequireAlike
<1>4. AllowedMethods(y, JoinMethod) = AllowedMethods(x, JoinMethod)
  BY <1>1 DEF AllowedMethods
<1>5. JoinOk(x) => RequireRelations(x.relations)
  BY DEF JoinOk
<1>6. JoinOk(x) => JoinOk(y)
  BY <1>1, <1>3, <1>4 DEF JoinOk
<1> QED  BY <1>1, <1>3, <1>5, <1>6 DEF RelationsOf

\* A row correction, its relations in another order, is as valid as it was.
LEMMA RowsAlike ==
    ASSUME NEW x \in RowCorrection, NEW y \in RowCorrection, SameItem(x, y), RowsOk(x)
    PROVE  RowsOk(y) /\ RelationsOf(y) = RelationsOf(x) /\ IsInjective(x.relations)
<1>1. y.mode = x.mode /\ y.value = x.value
  BY DEF SameItem, Respelt, RowCorrection
<1>2. /\ x.relations \in Seq(Nat) /\ y.relations \in Seq(Nat)
      /\ Reordered(x.relations, y.relations)
  BY DEF RowCorrection, SameItem
<1>3. /\ RequireRelations(y.relations) /\ ToSet(y.relations) = ToSet(x.relations)
      /\ IsInjective(x.relations)
  BY <1>2, RequireAlike DEF RowsOk
<1> QED  BY <1>1, <1>3 DEF RowsOk, RelationsOf

\* Every item of one listing is in the other.
LEMMA RewrittenItems ==
    ASSUME NEW S, NEW s \in Seq(S), NEW t \in Seq(S), Rewritten(s, t),
           NEW y \in ToSet(t)
    PROVE  \E x \in ToSet(s) : x \in S /\ y \in S /\ SameItem(x, y)
<1>1. PICK g \in Turns(Len(s)) : \A k \in 1 .. Len(s) : SameItem(s[g[k]], t[k])
  BY DEF Rewritten
<1>2. PICK k \in 1 .. Len(s) : y = t[k]
  BY DEF ToSet, Rewritten
<1>3. g[k] \in 1 .. Len(s) /\ Len(t) = Len(s)
  BY DEF Turns, Rewritten
<1>4. s[g[k]] \in S /\ t[k] \in S
  BY <1>3
<1>5. s[g[k]] \in ToSet(s)
  BY <1>3 DEF ToSet
<1> QED  BY <1>1, <1>2, <1>4, <1>5

\* Rewriting a list about different targets makes no two of them one.
LEMMA RewrittenTargets ==
    ASSUME NEW S, NEW s \in Seq(S), NEW t \in Seq(S), Rewritten(s, t),
           \A x, y \in S : x \in ToSet(s) /\ SameItem(x, y) => RelationsOf(y) = RelationsOf(x),
           NoDuplicates(s, RelationsOf)
    PROVE  NoDuplicates(t, RelationsOf)
<1>1. PICK g \in Turns(Len(s)) : \A k \in 1 .. Len(s) : SameItem(s[g[k]], t[k])
  BY DEF Rewritten
<1>2. DOMAIN s = 1 .. Len(s) /\ DOMAIN t = 1 .. Len(s) /\ Len(t) = Len(s)
  BY DEF Rewritten
<1>3. ASSUME NEW k \in 1 .. Len(s)
      PROVE  g[k] \in 1 .. Len(s) /\ RelationsOf(t[k]) = RelationsOf(s[g[k]])
  <2>1. g[k] \in 1 .. Len(s)
    BY DEF Turns
  <2>2. s[g[k]] \in S /\ t[k] \in S /\ s[g[k]] \in ToSet(s)
    BY <1>2, <2>1 DEF ToSet
  <2> QED  BY <1>1, <2>1, <2>2
<1>4. ASSUME NEW i \in 1 .. Len(s), NEW j \in 1 .. Len(s), i # j
      PROVE  RelationsOf(t[i]) # RelationsOf(t[j])
  <2>1. g[i] # g[j]
    BY <1>4 DEF Turns
  <2>2. RelationsOf(s[g[i]]) # RelationsOf(s[g[j]])
    BY <1>2, <1>3, <2>1 DEF NoDuplicates
  <2> QED  BY <1>3, <2>2
<1> QED  BY <1>2, <1>4 DEF NoDuplicates

\* A rearrangement of an accepted proposal is accepted.
LEMMA AcceptsRearranged ==
    ASSUME NEW a, NEW b, ActionType(a), ActionType(b), Rearranged(a, b), Accepts(a)
    PROVE  Accepts(b)
<1>1. /\ a.joins \in Seq(JoinConstraint) /\ b.joins \in Seq(JoinConstraint)
      /\ a.rows \in Seq(RowCorrection) /\ b.rows \in Seq(RowCorrection)
      /\ a.scans \in Seq(ScanConstraint) /\ b.scans \in Seq(ScanConstraint)
      /\ a.disabled \in Seq(DisabledIndexes) /\ b.disabled \in Seq(DisabledIndexes)
      /\ a.parallel \in Seq(ParallelRequest) /\ b.parallel \in Seq(ParallelRequest)
  BY DEF ActionType
<1>2. /\ ToSet(b.scans) = ToSet(a.scans) /\ ToSet(b.disabled) = ToSet(a.disabled)
      /\ ToSet(b.parallel) = ToSet(a.parallel)
  BY <1>1, ReorderedSet DEF Rearranged
<1>3. ASSUME NEW y \in ToSet(b.joins)
      PROVE  \E x \in ToSet(a.joins) :
                /\ SameItem(x, y) /\ JoinOk(y) /\ RelationsOf(y) = RelationsOf(x)
                /\ y.force = x.force /\ y.forbid = x.forbid /\ y.memoize = x.memoize
  <2>1. PICK x \in ToSet(a.joins) : x \in JoinConstraint /\ y \in JoinConstraint
                                    /\ SameItem(x, y)
    BY <1>1, RewrittenItems DEF Rearranged
  <2>2. JoinOk(x)
    BY DEF Accepts
  <2> QED  BY <2>1, <2>2, JoinAlike
<1>4. \A y \in ToSet(b.rows) : RowsOk(y)
  <2>1. SUFFICES ASSUME NEW y \in ToSet(b.rows)
                 PROVE  RowsOk(y)
    OBVIOUS
  <2>2. PICK x \in ToSet(a.rows) : x \in RowCorrection /\ y \in RowCorrection
                                   /\ SameItem(x, y)
    BY <1>1, RewrittenItems DEF Rearranged
  <2>3. RowsOk(x)
    BY DEF Accepts
  <2> QED  BY <2>2, <2>3, RowsAlike
<1>5. NoDuplicates(b.joins, RelationsOf)
  <2>1. \A x, y \in JoinConstraint :
           x \in ToSet(a.joins) /\ SameItem(x, y) => RelationsOf(y) = RelationsOf(x)
    BY JoinAlike DEF Accepts
  <2>2. NoDuplicates(a.joins, RelationsOf) /\ Rewritten(a.joins, b.joins)
    BY DEF Accepts, TargetsOnce, Rearranged
  <2> QED  BY <1>1, <2>1, <2>2, RewrittenTargets
<1>6. NoDuplicates(b.rows, RelationsOf)
  <2>1. \A x, y \in RowCorrection :
           x \in ToSet(a.rows) /\ SameItem(x, y) => RelationsOf(y) = RelationsOf(x)
    BY RowsAlike DEF Accepts
  <2>2. NoDuplicates(a.rows, RelationsOf) /\ Rewritten(a.rows, b.rows)
    BY DEF Accepts, TargetsOnce, Rearranged
  <2> QED  BY <1>1, <2>1, <2>2, RewrittenTargets
<1>7. /\ NoDuplicates(b.scans, RelationOf) /\ NoDuplicates(b.disabled, RelationOf)
      /\ NoDuplicates(b.parallel, RelationOf)
  <2>1. /\ NoDuplicates(a.scans, RelationOf) /\ NoDuplicates(a.disabled, RelationOf)
        /\ NoDuplicates(a.parallel, RelationOf)
    BY DEF Accepts, TargetsOnce
  <2>2. /\ \A x \in ScanConstraint : x.relation \in Nat
        /\ \A x \in DisabledIndexes : x.relation \in Nat
        /\ \A x \in ParallelRequest : x.relation \in Nat
    BY DEF ScanConstraint, DisabledIndexes, ParallelRequest
  <2>3. /\ Reordered(a.scans, b.scans) /\ Reordered(a.disabled, b.disabled)
        /\ Reordered(a.parallel, b.parallel)
    BY DEF Rearranged
  <2> QED  BY <1>1, <2>1, <2>2, <2>3, ByRelationAlike
<1>8. TargetsOnce(b)
  BY <1>5, <1>6, <1>7 DEF TargetsOnce
<1>9. JoinsInLeading(b)
  <2>1. JoinsInLeading(a) /\ b.leading = a.leading
    BY DEF Accepts, Rearranged
  <2> QED  BY <1>3, <2>1 DEF JoinsInLeading
<1>10. NoConflict(b)
  <2>1. NoConflict(a) /\ b.settings = a.settings
    BY DEF Accepts, Rearranged
  <2>2. \A y \in ToSet(b.joins) : JoinAgrees(b, y)
    <3>1. SUFFICES ASSUME NEW y \in ToSet(b.joins)
                   PROVE  JoinAgrees(b, y)
      OBVIOUS
    <3>2. PICK x \in ToSet(a.joins) :
             y.force = x.force /\ y.forbid = x.forbid /\ y.memoize = x.memoize
      BY <1>3
    <3>3. JoinAgrees(a, x)
      BY <2>1 DEF NoConflict
    <3>4. AllowedMethods(y, JoinMethod) = AllowedMethods(x, JoinMethod)
      BY <3>2 DEF AllowedMethods
    <3> QED  BY <2>1, <3>2, <3>3, <3>4 DEF JoinAgrees
  <2>3. \A s \in ToSet(b.scans) : ScanAgrees(b, s)
    <3>1. \A r : DisabledFor(b, r) = DisabledFor(a, r)
      BY <1>2 DEF DisabledFor
    <3>2. \A s : ScanAgrees(a, s) => ScanAgrees(b, s)
      BY <2>1, <3>1 DEF ScanAgrees
    <3> QED  BY <1>2, <2>1, <3>2 DEF NoConflict
  <2> QED  BY <2>2, <2>3 DEF NoConflict
<1>11. /\ b.leading # <<>> => LeadingOk(b.leading)
       /\ SettingsOk(b.settings)
       /\ \A s \in ToSet(b.scans) : ScanOk(s)
       /\ \A d \in ToSet(b.disabled) : DisabledOk(d)
       /\ \A p \in ToSet(b.parallel) : ParallelOk(p)
  BY <1>2 DEF Accepts, Rearranged
<1>12. \A y \in ToSet(b.joins) : JoinOk(y)
  BY <1>3
<1> QED  BY <1>4, <1>8, <1>9, <1>10, <1>11, <1>12 DEF Accepts

\* What makes the lists of an accepted proposal fit to be sorted.
LEMMA AcceptedIsSortable ==
    ASSUME NEW a, ActionType(a), Accepts(a)
    PROVE  /\ \A i \in 1 .. Len(a.joins) : IsInjective(a.joins[i].relations)
           /\ \A i \in 1 .. Len(a.rows) : IsInjective(a.rows[i].relations)
           /\ NoDuplicates(a.joins, RelationsOf) /\ NoDuplicates(a.rows, RelationsOf)
           /\ NoDuplicates(a.scans, RelationOf) /\ NoDuplicates(a.disabled, RelationOf)
           /\ NoDuplicates(a.parallel, RelationOf)
<1>1. a.joins \in Seq(JoinConstraint) /\ a.rows \in Seq(RowCorrection)
  BY DEF ActionType
<1>2. /\ \A i \in 1 .. Len(a.joins) : a.joins[i] \in ToSet(a.joins)
      /\ \A i \in 1 .. Len(a.rows) : a.rows[i] \in ToSet(a.rows)
  BY <1>1 DEF ToSet
<1>3. /\ \A i \in 1 .. Len(a.joins) : IsInjective(a.joins[i].relations)
      /\ \A i \in 1 .. Len(a.rows) : IsInjective(a.rows[i].relations)
  BY <1>2 DEF Accepts, JoinOk, RowsOk, RequireRelations
<1> QED  BY <1>3 DEF Accepts, TargetsOnce

\* The three families of items that are about one relation each.
LEMMA RelationsAreNumbers ==
    /\ \A x \in ScanConstraint : x.relation \in Nat
    /\ \A x \in DisabledIndexes : x.relation \in Nat
    /\ \A x \in ParallelRequest : x.relation \in Nat
BY DEF ScanConstraint, DisabledIndexes, ParallelRequest

\* It becomes the same action, ...
LEMMA NormalRearranged ==
    ASSUME NEW a, NEW b, ActionType(a), ActionType(b), Rearranged(a, b), Accepts(a)
    PROVE  Normal(b) = Normal(a)
<1>1. /\ ByRelations(b.joins) = ByRelations(a.joins)
      /\ ByRelations(b.rows) = ByRelations(a.rows)
  <2>1. /\ a.joins \in Seq(JoinConstraint) /\ b.joins \in Seq(JoinConstraint)
        /\ a.rows \in Seq(RowCorrection) /\ b.rows \in Seq(RowCorrection)
    BY DEF ActionType
  <2>2. Rewritten(a.joins, b.joins) /\ Rewritten(a.rows, b.rows)
    BY DEF Rearranged
  <2>3. /\ \A i \in 1 .. Len(a.joins) : IsInjective(a.joins[i].relations)
        /\ \A i \in 1 .. Len(a.rows) : IsInjective(a.rows[i].relations)
        /\ NoDuplicates(a.joins, RelationsOf) /\ NoDuplicates(a.rows, RelationsOf)
    BY AcceptedIsSortable
  <2>4. ByRelations(b.joins) = ByRelations(a.joins)
    BY ONLY <2>1, <2>2, <2>3, JoinsAndRowsListed, ByRelationsAlike
  <2>5. ByRelations(b.rows) = ByRelations(a.rows)
    BY ONLY <2>1, <2>2, <2>3, JoinsAndRowsListed, ByRelationsAlike
  <2> QED  BY <2>4, <2>5
<1>2. /\ ByRelation(b.scans) = ByRelation(a.scans)
      /\ ByRelation(b.disabled) = ByRelation(a.disabled)
      /\ ByRelation(b.parallel) = ByRelation(a.parallel)
  <2>1. /\ a.scans \in Seq(ScanConstraint) /\ b.scans \in Seq(ScanConstraint)
        /\ a.disabled \in Seq(DisabledIndexes) /\ b.disabled \in Seq(DisabledIndexes)
        /\ a.parallel \in Seq(ParallelRequest) /\ b.parallel \in Seq(ParallelRequest)
    BY DEF ActionType
  <2>2. /\ Reordered(a.scans, b.scans) /\ Reordered(a.disabled, b.disabled)
        /\ Reordered(a.parallel, b.parallel)
    BY DEF Rearranged
  <2>3. /\ NoDuplicates(a.scans, RelationOf) /\ NoDuplicates(a.disabled, RelationOf)
        /\ NoDuplicates(a.parallel, RelationOf)
    BY AcceptedIsSortable
  <2>4. ByRelation(b.scans) = ByRelation(a.scans)
    BY ONLY <2>1, <2>2, <2>3, RelationsAreNumbers, ByRelationAlike
  <2>5. ByRelation(b.disabled) = ByRelation(a.disabled)
    BY ONLY <2>1, <2>2, <2>3, RelationsAreNumbers, ByRelationAlike
  <2>6. ByRelation(b.parallel) = ByRelation(a.parallel)
    BY ONLY <2>1, <2>2, <2>3, RelationsAreNumbers, ByRelationAlike
  <2> QED  BY <2>4, <2>5, <2>6
<1>3. b.leading = a.leading /\ b.settings = a.settings
  BY DEF Rearranged
<1> QED  BY <1>1, <1>2, <1>3 DEF Normal

\* ... which is itself a rearrangement of the proposal, ...
LEMMA NormalIsRearranged ==
    ASSUME NEW a, ActionType(a), Accepts(a)
    PROVE  ActionType(Normal(a)) /\ Rearranged(a, Normal(a))
<1>1. /\ ByRelations(a.joins) \in Seq(JoinConstraint)
      /\ Rewritten(a.joins, ByRelations(a.joins))
      /\ ByRelations(a.rows) \in Seq(RowCorrection)
      /\ Rewritten(a.rows, ByRelations(a.rows))
  BY AcceptedIsSortable, JoinsAndRowsListed, ByRelationsRewrites DEF ActionType
<1>2. /\ Len(a.scans) \in Nat /\ Len(a.disabled) \in Nat /\ Len(a.parallel) \in Nat
  BY DEF ActionType
<1>3. /\ Reordered(a.scans, a.scans) /\ Reordered(a.disabled, a.disabled)
      /\ Reordered(a.parallel, a.parallel)
  BY <1>2, ReorderedSelf
<1>4. /\ ByRelation(a.scans) \in Seq(ScanConstraint)
      /\ Reordered(a.scans, ByRelation(a.scans))
      /\ ByRelation(a.disabled) \in Seq(DisabledIndexes)
      /\ Reordered(a.disabled, ByRelation(a.disabled))
      /\ ByRelation(a.parallel) \in Seq(ParallelRequest)
      /\ Reordered(a.parallel, ByRelation(a.parallel))
  BY <1>3, AcceptedIsSortable, RelationsAreNumbers, ByRelationAlike DEF ActionType
<1>5. /\ Normal(a).joins = ByRelations(a.joins) /\ Normal(a).rows = ByRelations(a.rows)
      /\ Normal(a).scans = ByRelation(a.scans) /\ Normal(a).disabled = ByRelation(a.disabled)
      /\ Normal(a).parallel = ByRelation(a.parallel)
      /\ Normal(a).leading = a.leading /\ Normal(a).settings = a.settings
  BY DEF Normal
<1>6. ActionType(Normal(a))
  <2>1. Normal(a) = [leading |-> Normal(a).leading, joins |-> Normal(a).joins,
                     scans |-> Normal(a).scans, disabled |-> Normal(a).disabled,
                     rows |-> Normal(a).rows, parallel |-> Normal(a).parallel,
                     settings |-> Normal(a).settings]
    BY DEF Normal
  <2> QED  BY <1>1, <1>4, <1>5, <2>1 DEF ActionType
<1>7. Rearranged(a, Normal(a))
  BY <1>1, <1>4, <1>5 DEF Rearranged
<1> QED  BY <1>6, <1>7

\* ... as are its lists the other way round.
LEMMA ShuffledIsRearranged ==
    ASSUME NEW a, ActionType(a)
    PROVE  ActionType(Shuffled(a)) /\ Rearranged(a, Shuffled(a))
<1>1. /\ Reverse(Turned(a.joins)) \in Seq(JoinConstraint)
      /\ Rewritten(a.joins, Reverse(Turned(a.joins)))
      /\ Reverse(Turned(a.rows)) \in Seq(RowCorrection)
      /\ Rewritten(a.rows, Reverse(Turned(a.rows)))
  BY JoinsAndRowsListed, TurnedIsRewritten DEF ActionType
<1>2. /\ Reverse(a.scans) \in Seq(ScanConstraint)
      /\ Reordered(a.scans, Reverse(a.scans))
      /\ Reverse(a.disabled) \in Seq(DisabledIndexes)
      /\ Reordered(a.disabled, Reverse(a.disabled))
      /\ Reverse(a.parallel) \in Seq(ParallelRequest)
      /\ Reordered(a.parallel, Reverse(a.parallel))
  BY ReversedIsReordered DEF ActionType
<1>3. /\ Shuffled(a).joins = Reverse(Turned(a.joins))
      /\ Shuffled(a).rows = Reverse(Turned(a.rows))
      /\ Shuffled(a).scans = Reverse(a.scans) /\ Shuffled(a).disabled = Reverse(a.disabled)
      /\ Shuffled(a).parallel = Reverse(a.parallel)
      /\ Shuffled(a).leading = a.leading /\ Shuffled(a).settings = a.settings
  BY DEF Shuffled
<1>4. ActionType(Shuffled(a))
  <2>1. Shuffled(a) = [leading |-> Shuffled(a).leading, joins |-> Shuffled(a).joins,
                       scans |-> Shuffled(a).scans, disabled |-> Shuffled(a).disabled,
                       rows |-> Shuffled(a).rows, parallel |-> Shuffled(a).parallel,
                       settings |-> Shuffled(a).settings]
    BY DEF Shuffled
  <2> QED  BY <1>1, <1>2, <1>3, <2>1 DEF ActionType
<1>5. Rearranged(a, Shuffled(a))
  BY <1>1, <1>2, <1>3 DEF Rearranged
<1> QED  BY <1>4, <1>5

(* Whatever the order in which a proposal lists its items, and each item    *)
(* its relations: the verdict of validation is the same, and so is the      *)
(* action (PlanAction.from_raw, which sorts).                               *)
THEOREM AnyOrder ==
    ASSUME NEW a, NEW b, ActionType(a), ActionType(b), Rearranged(a, b)
    PROVE  /\ Accepts(b) = Accepts(a)
           /\ Accepts(a) => Normal(b) = Normal(a)
<1>1. Accepts(a) <=> Accepts(b)
  BY AcceptsRearranged, RearrangedBack
<1>2. Accepts(a) \in BOOLEAN /\ Accepts(b) \in BOOLEAN
  BY DEF Accepts
<1> QED  BY <1>1, <1>2, NormalRearranged

\* A normal action is its own normal form.
LEMMA NormalOfNormal ==
    ASSUME NEW a, ActionType(a), Accepts(a)
    PROVE  Accepts(Normal(a)) = Accepts(a) /\ Normal(Normal(a)) = Normal(a)
<1>1. ActionType(Normal(a)) /\ Rearranged(a, Normal(a))
  BY NormalIsRearranged
<1> DEFINE b == Normal(a)
<1>2. ActionType(b) /\ Rearranged(a, b)
  BY <1>1
<1> HIDE DEF b
<1>3. Accepts(b) = Accepts(a) /\ Normal(b) = Normal(a)
  BY <1>2, AnyOrder
<1> QED  BY <1>3 DEF b

\* OrderIsIrrelevant of every proposal of the type.
LEMMA TypedOrder == ActionType(raw) => OrderIsIrrelevant
<1>1. SUFFICES ASSUME ActionType(raw)
               PROVE  OrderIsIrrelevant
  OBVIOUS
<1>2. /\ Accepts(Shuffled(raw)) = Accepts(raw)
      /\ Accepts(raw) => Normal(Shuffled(raw)) = Normal(raw)
  <2>1. ActionType(Shuffled(raw)) /\ Rearranged(raw, Shuffled(raw))
    BY <1>1, ShuffledIsRearranged
  <2> QED  BY ONLY <1>1, <2>1, AnyOrder
<1>3. ASSUME Accepts(raw)
      PROVE  /\ Accepts(Normal(raw)) = Accepts(raw)
             /\ Normal(Normal(raw)) = Normal(raw)
  BY <1>1, <1>3, NormalOfNormal
<1> QED  BY <1>2, <1>3 DEF OrderIsIrrelevant

-----------------------------------------------------------------------------
(* The hints of an action.                                                 *)

\* The hint for some of the methods of a join leaves PostgreSQL those methods.
LEMMA JoinHintPermits ==
    ASSUME NEW m \in DOMAIN JOIN_METHOD_HINTS
    PROVE  /\ MethodsUnder(JOIN_METHOD_HINTS[m]) = m
           /\ JOIN_METHOD_HINTS[m] \notin {"Memoize", "NoMemoize"}
<1>1. m \in SUBSET JoinMethod /\ m # {} /\ m # JoinMethod
  <2>1. DOMAIN JOIN_METHOD_HINTS = (SUBSET JoinMethod) \ {{}, JoinMethod}
    BY DEF JOIN_METHOD_HINTS
  <2> QED  BY <2>1
<1>2. \/ m = {"hash"} \/ m = {"merge", "nestloop"} \/ m = {"merge"}
      \/ m = {"hash", "nestloop"} \/ m = {"nestloop"} \/ m = {"hash", "merge"}
  BY <1>1 DEF JoinMethod
<1>3. CASE m = {"hash"}
  <2>1. JOIN_METHOD_HINTS[m] = "HashJoin"
    BY <1>1, <1>3 DEF JOIN_METHOD_HINTS
  <2> QED  BY <1>3, <2>1 DEF MethodsUnder
<1>4. CASE m = {"merge", "nestloop"}
  <2>1. m # {"hash"}
    BY <1>4
  <2>2. JOIN_METHOD_HINTS[m] = "NoHashJoin"
    BY <1>1, <1>4, <2>1 DEF JOIN_METHOD_HINTS
  <2>3. MethodsUnder("NoHashJoin") = JoinMethod \ {"hash"}
    BY DEF MethodsUnder
  <2> QED  BY <1>4, <2>2, <2>3 DEF JoinMethod
<1>5. CASE m = {"merge"}
  <2>1. m # {"hash"} /\ m # {"merge", "nestloop"}
    BY <1>5
  <2>2. JOIN_METHOD_HINTS[m] = "MergeJoin"
    BY <1>1, <1>5, <2>1 DEF JOIN_METHOD_HINTS
  <2> QED  BY <1>5, <2>2 DEF MethodsUnder
<1>6. CASE m = {"hash", "nestloop"}
  <2>1. m # {"hash"} /\ m # {"merge", "nestloop"} /\ m # {"merge"}
    BY <1>6
  <2>2. JOIN_METHOD_HINTS[m] = "NoMergeJoin"
    BY <1>1, <1>6, <2>1 DEF JOIN_METHOD_HINTS
  <2>3. MethodsUnder("NoMergeJoin") = JoinMethod \ {"merge"}
    BY DEF MethodsUnder
  <2> QED  BY <1>6, <2>2, <2>3 DEF JoinMethod
<1>7. CASE m = {"nestloop"}
  <2>1. /\ m # {"hash"} /\ m # {"merge", "nestloop"} /\ m # {"merge"}
        /\ m # {"hash", "nestloop"}
    BY <1>7
  <2>2. JOIN_METHOD_HINTS[m] = "NestLoop"
    BY <1>1, <1>7, <2>1 DEF JOIN_METHOD_HINTS
  <2> QED  BY <1>7, <2>2 DEF MethodsUnder
<1>8. CASE m = {"hash", "merge"}
  <2>1. /\ m # {"hash"} /\ m # {"merge", "nestloop"} /\ m # {"merge"}
        /\ m # {"hash", "nestloop"} /\ m # {"nestloop"}
    BY <1>8
  <2>2. JOIN_METHOD_HINTS[m] = "NoNestLoop"
    BY <1>1, <1>8, <2>1 DEF JOIN_METHOD_HINTS
  <2>3. MethodsUnder("NoNestLoop") = JoinMethod \ {"nestloop"}
    BY DEF MethodsUnder
  <2> QED  BY <1>8, <2>2, <2>3 DEF JoinMethod
<1> QED  BY <1>2, <1>3, <1>4, <1>5, <1>6, <1>7, <1>8

\* So does the hint for some of the methods of a scan, but for index_only alone.
LEMMA ScanHintPermits ==
    ASSUME NEW m \in DOMAIN SCAN_METHOD_HINTS
    PROVE  \/ MethodsUnder(SCAN_METHOD_HINTS[m]) = m
           \/ /\ m = {"index_only"}
              /\ MethodsUnder(SCAN_METHOD_HINTS[m]) = {"index", "index_only"}
<1> DEFINE notOnly == {"seq", "index", "bitmap"}
           notBitmap == {"seq", "index", "index_only"}
           index == {"index", "index_only", "bitmap"}
<1>1. /\ IndexMethod = index
      /\ ScanMethod \ {"index_only"} = notOnly /\ ScanMethod \ {"bitmap"} = notBitmap
  BY DEF IndexMethod, ScanMethod
<1>2. \/ m = {"seq"} \/ m = index \/ m = {"index"} \/ m = {"seq", "bitmap"}
      \/ m = {"index_only"} \/ m = {"index", "index_only"} \/ m = notOnly
      \/ m = {"bitmap"} \/ m = notBitmap
  BY <1>1 DEF SCAN_METHOD_HINTS
<1>3. SCAN_METHOD_HINTS[m] =
        CASE m = {"seq"} -> "SeqScan"       [] m = index -> "NoSeqScan"
          [] m = {"index"} -> "IndexScan"   [] m = {"seq", "bitmap"} -> "NoIndexScan"
          [] m \in {{"index_only"}, {"index", "index_only"}} -> "IndexOnlyScan"
          [] m = notOnly -> "NoIndexOnlyScan"
          [] m = {"bitmap"} -> "BitmapScan" [] m = notBitmap -> "NoBitmapScan"
  BY <1>1 DEF SCAN_METHOD_HINTS
<1>4. /\ MethodsUnder("SeqScan") = {"seq"} /\ MethodsUnder("NoSeqScan") = index
      /\ MethodsUnder("IndexScan") = {"index"} /\ MethodsUnder("NoIndexScan") = {"seq", "bitmap"}
      /\ MethodsUnder("IndexOnlyScan") = {"index", "index_only"}
      /\ MethodsUnder("NoIndexOnlyScan") = notOnly
      /\ MethodsUnder("BitmapScan") = {"bitmap"} /\ MethodsUnder("NoBitmapScan") = notBitmap
  BY <1>1 DEF MethodsUnder
<1>5. CASE m = {"seq"}
  BY <1>3, <1>4, <1>5
<1>6. CASE m = index
  <2>1. m # {"seq"}
    BY <1>6
  <2> QED  BY <1>3, <1>4, <1>6, <2>1
<1>7. CASE m = {"index"}
  <2>1. m # {"seq"} /\ m # index
    BY <1>7
  <2> QED  BY <1>3, <1>4, <1>7, <2>1
<1>8. CASE m = {"seq", "bitmap"}
  <2>1. m # {"seq"} /\ m # index /\ m # {"index"}
    BY <1>8
  <2> QED  BY <1>3, <1>4, <1>8, <2>1
<1>9. CASE m = {"index_only"} \/ m = {"index", "index_only"}
  <2>1. m # {"seq"} /\ m # index /\ m # {"index"} /\ m # {"seq", "bitmap"}
    BY <1>9
  <2>2. SCAN_METHOD_HINTS[m] = "IndexOnlyScan"
    BY <1>3, <1>9, <2>1
  <2> QED  BY <1>4, <1>9, <2>2
<1>10. CASE m = notOnly
  <2>1. /\ m # {"seq"} /\ m # index /\ m # {"index"} /\ m # {"seq", "bitmap"}
        /\ m \notin {{"index_only"}, {"index", "index_only"}}
    BY <1>10
  <2> QED  BY <1>3, <1>4, <1>10, <2>1
<1>11. CASE m = {"bitmap"}
  <2>1. /\ m # {"seq"} /\ m # index /\ m # {"index"} /\ m # {"seq", "bitmap"}
        /\ m \notin {{"index_only"}, {"index", "index_only"}} /\ m # notOnly
    BY <1>11
  <2> QED  BY <1>3, <1>4, <1>11, <2>1
<1>12. CASE m = notBitmap
  <2>1. /\ m # {"seq"} /\ m # index /\ m # {"index"} /\ m # {"seq", "bitmap"}
        /\ m \notin {{"index_only"}, {"index", "index_only"}} /\ m # notOnly
        /\ m # {"bitmap"}
    BY <1>12
  <2> QED  BY <1>3, <1>4, <1>12, <2>1
<1> QED  BY <1>2, <1>5, <1>6, <1>7, <1>8, <1>9, <1>10, <1>11, <1>12

\* The items of two lists, one behind the other.
LEMMA SetOfBoth ==
    ASSUME NEW S, NEW T, NEW s \in Seq(S), NEW t \in Seq(T)
    PROVE  ToSet(s \o t) = ToSet(s) \cup ToSet(t)
<1>1. /\ Len(s) \in Nat /\ Len(t) \in Nat
      /\ DOMAIN s = 1 .. Len(s) /\ DOMAIN t = 1 .. Len(t)
  OBVIOUS
<1>2. s \in Seq(S \cup T) /\ t \in Seq(S \cup T)
  OBVIOUS
<1>3. /\ DOMAIN (s \o t) = 1 .. Len(s) + Len(t)
      /\ \A i \in 1 .. Len(s) + Len(t) :
            (s \o t)[i] = IF i <= Len(s) THEN s[i] ELSE t[i - Len(s)]
  BY <1>2
<1>4. ASSUME NEW x \in ToSet(s \o t)
      PROVE  x \in ToSet(s) \cup ToSet(t)
  <2>1. PICK i \in 1 .. Len(s) + Len(t) : x = (s \o t)[i]
    BY <1>3 DEF ToSet
  <2>2. CASE i <= Len(s)
    <3>1. i \in 1 .. Len(s) /\ x = s[i]
      BY <1>1, <1>3, <2>1, <2>2
    <3> QED  BY <1>1, <3>1 DEF ToSet
  <2>3. CASE i > Len(s)
    <3>1. i - Len(s) \in 1 .. Len(t) /\ x = t[i - Len(s)]
      BY <1>1, <1>3, <2>1, <2>3
    <3> QED  BY <1>1, <3>1 DEF ToSet
  <2> QED  BY <1>1, <2>2, <2>3
<1>5. ASSUME NEW x \in ToSet(s)
      PROVE  x \in ToSet(s \o t)
  <2>1. PICK i \in 1 .. Len(s) : x = s[i]
    BY <1>1 DEF ToSet
  <2>2. i \in 1 .. Len(s) + Len(t) /\ x = (s \o t)[i]
    BY <1>1, <1>3, <2>1
  <2> QED  BY <1>3, <2>2 DEF ToSet
<1>6. ASSUME NEW x \in ToSet(t)
      PROVE  x \in ToSet(s \o t)
  <2>1. PICK i \in 1 .. Len(t) : x = t[i]
    BY <1>1 DEF ToSet
  <2>2. i + Len(s) \in 1 .. Len(s) + Len(t) /\ x = (s \o t)[i + Len(s)]
    BY <1>1, <1>3, <2>1
  <2> QED  BY <1>3, <2>2 DEF ToSet
<1> QED  BY <1>4, <1>5, <1>6

\* The two hints an accepted join may have: one for its methods, one for memoize.
LEMMA NamedHints ==
    ASSUME NEW j \in JoinConstraint
    PROVE  LET allowed == AllowedMethods(j, JoinMethod)
           IN  {h \in ToSet(JoinHints(j)) : h[1] \notin {"Memoize", "NoMemoize"}} =
                  IF allowed \in DOMAIN JOIN_METHOD_HINTS
                  THEN {<<JOIN_METHOD_HINTS[allowed], j.relations>>} ELSE {}
<1> DEFINE allowed == AllowedMethods(j, JoinMethod)
           hint == <<JOIN_METHOD_HINTS[allowed], j.relations>>
           s == IF allowed \in DOMAIN JOIN_METHOD_HINTS THEN <<hint>> ELSE <<>>
           t == CASE j.memoize = AUTO -> <<>>
                  [] j.memoize = "force" -> <<<<"Memoize", j.relations>>>>
                  [] j.memoize = "forbid" -> <<<<"NoMemoize", j.relations>>>>
<1>1. JoinHints(j) = s \o t
  BY DEF JoinHints
<1>2. j.memoize \in {AUTO, "force", "forbid"}
  BY DEF JoinConstraint
<1>3. /\ s \in Seq({hint})
      /\ ToSet(s) = IF allowed \in DOMAIN JOIN_METHOD_HINTS THEN {hint} ELSE {}
  <2>1. CASE allowed \in DOMAIN JOIN_METHOD_HINTS
    <3>1. s = <<hint>>
      BY <2>1
    <3> HIDE DEF s, hint
    <3> QED  BY <2>1, <3>1 DEF ToSet
  <2>2. CASE allowed \notin DOMAIN JOIN_METHOD_HINTS
    <3>1. s = <<>>
      BY <2>2
    <3> HIDE DEF s, hint
    <3> QED  BY <2>2, <3>1 DEF ToSet
  <2> QED  BY <2>1, <2>2
<1>4. /\ t \in Seq({<<"Memoize", j.relations>>, <<"NoMemoize", j.relations>>})
      /\ \A h \in ToSet(t) : h[1] \in {"Memoize", "NoMemoize"}
  <2>1. CASE j.memoize = AUTO
    <3>1. t = <<>>
      BY <2>1 DEF AUTO
    <3> HIDE DEF t
    <3> QED  BY <3>1 DEF ToSet
  <2>2. CASE j.memoize = "force"
    <3>1. t = <<<<"Memoize", j.relations>>>>
      BY <2>2 DEF AUTO
    <3> HIDE DEF t
    <3> QED  BY <3>1 DEF ToSet
  <2>3. CASE j.memoize = "forbid"
    <3>1. t = <<<<"NoMemoize", j.relations>>>>
      BY <2>3 DEF AUTO
    <3> HIDE DEF t
    <3> QED  BY <3>1 DEF ToSet
  <2> QED  BY <1>2, <2>1, <2>2, <2>3
<1>5. ToSet(s \o t) = ToSet(s) \cup ToSet(t)
  <2> HIDE DEF s, t
  <2> QED  BY <1>3, <1>4, SetOfBoth
<1>6. allowed \in DOMAIN JOIN_METHOD_HINTS => hint[1] \notin {"Memoize", "NoMemoize"}
  BY JoinHintPermits
<1> HIDE DEF s, t, hint
<1> QED  BY <1>1, <1>3, <1>4, <1>5, <1>6 DEF hint

\* What HintsSayTheAction says of a join, and of a scan, that validation let through.
LEMMA JoinSaid ==
    ASSUME NEW j \in JoinConstraint, JoinOk(j)
    PROVE  LET allowed == AllowedMethods(j, JoinMethod)
               named == {h \in ToSet(JoinHints(j)) : h[1] \notin {"Memoize", "NoMemoize"}}
           IN  /\ allowed # {}
               /\ named = {} => allowed = JoinMethod
               /\ \A h \in named : MethodsUnder(h[1]) = allowed
<1> DEFINE allowed == AllowedMethods(j, JoinMethod)
           named == {h \in ToSet(JoinHints(j)) : h[1] \notin {"Memoize", "NoMemoize"}}
<1>1. /\ j.force \in {AUTO} \cup JoinMethod /\ j.forbid \in SUBSET JoinMethod
      /\ j.forbid # JoinMethod /\ j.force \notin j.forbid
  BY DEF JoinConstraint, JoinOk
<1>2. allowed \in SUBSET JoinMethod /\ allowed # {}
  BY <1>1 DEF AllowedMethods
<1>3. DOMAIN JOIN_METHOD_HINTS = (SUBSET JoinMethod) \ {{}, JoinMethod}
  BY DEF JOIN_METHOD_HINTS
<1>4. named = IF allowed \in DOMAIN JOIN_METHOD_HINTS
              THEN {<<JOIN_METHOD_HINTS[allowed], j.relations>>} ELSE {}
  BY NamedHints
<1> HIDE DEF allowed, named
<1>5. named = {} => allowed = JoinMethod
  <2>1. CASE allowed \in DOMAIN JOIN_METHOD_HINTS
    <3>1. named # {}
      BY <1>4, <2>1
    <3> QED  BY <3>1
  <2>2. CASE allowed \notin DOMAIN JOIN_METHOD_HINTS
    BY <1>2, <1>3, <2>2
  <2> QED  BY <2>1, <2>2
<1>6. \A h \in named : MethodsUnder(h[1]) = allowed
  <2>1. SUFFICES ASSUME NEW h \in named
                 PROVE  MethodsUnder(h[1]) = allowed
    OBVIOUS
  <2>2. allowed \in DOMAIN JOIN_METHOD_HINTS /\ h[1] = JOIN_METHOD_HINTS[allowed]
    BY <1>4
  <2> QED  BY <2>2, JoinHintPermits
<1> QED  BY <1>2, <1>5, <1>6 DEF allowed, named

\* The hints of a valid scan constraint leave the methods it allows.
LEMMA ScanSaid ==
    ASSUME NEW s \in ScanConstraint, ScanOk(s)
    PROVE  LET allowed == AllowedMethods(s, ScanMethod)
               permitted == MethodsUnder(ScanHint(s)[1])
           IN  \/ permitted = allowed
               \/ /\ allowed = {"index_only"} /\ permitted = {"index", "index_only"}
                  /\ ~MethodMeets(s, "index")
<1> DEFINE allowed == AllowedMethods(s, ScanMethod)
<1>1. allowed \in DOMAIN SCAN_METHOD_HINTS
  BY DEF ScanOk
<1>2. ScanHint(s)[1] = SCAN_METHOD_HINTS[allowed]
  BY DEF ScanHint
<1>3. allowed = {"index_only"} => ~MethodMeets(s, "index")
  BY DEF AllowedMethods, MethodMeets, ScanMethod, IndexMethod
<1> HIDE DEF allowed
<1>4. \/ MethodsUnder(SCAN_METHOD_HINTS[allowed]) = allowed
      \/ /\ allowed = {"index_only"}
         /\ MethodsUnder(SCAN_METHOD_HINTS[allowed]) = {"index", "index_only"}
  BY <1>1, ScanHintPermits
<1> QED  BY <1>2, <1>3, <1>4 DEF allowed

-----------------------------------------------------------------------------
(* The two properties of every proposal and of every action.               *)

ActionInv ==
    /\ ActionType(raw)
    /\ stage \in {"drafted", "accepted", "rejected"}
    /\ stage = "accepted" => Accepts(raw)

\* HintsSayTheAction of the actions the invariant describes.
LEMMA SaidByInv == ActionInv => HintsSayTheAction
<1>1. SUFFICES ASSUME ActionInv, stage = "accepted"
               PROVE  HintsSayTheAction
  BY DEF HintsSayTheAction
<1>2. /\ \A j \in ToSet(raw.joins) : j \in JoinConstraint /\ JoinOk(j)
      /\ \A s \in ToSet(raw.scans) : s \in ScanConstraint /\ ScanOk(s)
  <2>1. raw.joins \in Seq(JoinConstraint) /\ raw.scans \in Seq(ScanConstraint)
    BY <1>1 DEF ActionInv, ActionType
  <2>2. /\ \A j \in ToSet(raw.joins) : j \in JoinConstraint
        /\ \A s \in ToSet(raw.scans) : s \in ScanConstraint
    BY <2>1 DEF ToSet
  <2> QED  BY <1>1, <2>2 DEF ActionInv, Accepts
<1> QED  BY <1>2, JoinSaid, ScanSaid DEF HintsSayTheAction

\* The invariant of the plan actions holds at the start, ...
LEMMA ActionStart == ActionInit => ActionInv
<1>1. SUFFICES ASSUME ActionInit
               PROVE  ActionInv
  OBVIOUS
<1>2. \A S : <<>> \in Seq(S)
  OBVIOUS
<1>3. ActionType(raw)
  BY <1>1, <1>2 DEF ActionInit, ActionType
<1> QED  BY <1>1, <1>3 DEF ActionInit, ActionInv

\* An action of typed parts.
LEMMA TypedParts ==
    ASSUME NEW leading, NEW joins \in Seq(JoinConstraint), NEW scans \in Seq(ScanConstraint),
           NEW disabled \in Seq(DisabledIndexes), NEW corrections \in Seq(RowCorrection),
           NEW parallel \in Seq(ParallelRequest), NEW words,
           NEW r, r = [leading |-> leading, joins |-> joins, scans |-> scans,
                       disabled |-> disabled, rows |-> corrections, parallel |-> parallel,
                       settings |-> words]
    PROVE  ActionType(r)
BY DEF ActionType

\* An item that the policy adds to one of the lists.
LEMMA ItemAdded ==
    ASSUME NEW r, ActionType(raw), NEW f \in Families, NEW item \in Proposals[f],
           r = [raw EXCEPT ![f] = Append(@, item)]
    PROVE  ActionType(r)
<1>1. raw = [leading |-> raw.leading, joins |-> raw.joins, scans |-> raw.scans,
             disabled |-> raw.disabled, rows |-> raw.rows, parallel |-> raw.parallel,
             settings |-> raw.settings]
  BY DEF ActionType
<1>2. /\ raw.joins \in Seq(JoinConstraint) /\ raw.scans \in Seq(ScanConstraint)
      /\ raw.disabled \in Seq(DisabledIndexes) /\ raw.rows \in Seq(RowCorrection)
      /\ raw.parallel \in Seq(ParallelRequest)
  BY DEF ActionType
<1>3. CASE f = "joins"
  <2>1. r = [leading |-> raw.leading, joins |-> Append(raw.joins, item),
                scans |-> raw.scans, disabled |-> raw.disabled, rows |-> raw.rows,
                parallel |-> raw.parallel, settings |-> raw.settings]
    BY <1>1, <1>3
  <2>2. Append(raw.joins, item) \in Seq(JoinConstraint)
    BY <1>3, <1>2, ProposalAssumption
  <2> QED  BY ONLY <1>2, <2>1, <2>2, TypedParts
<1>4. CASE f = "scans"
  <2>1. r = [leading |-> raw.leading, joins |-> raw.joins,
                scans |-> Append(raw.scans, item), disabled |-> raw.disabled,
                rows |-> raw.rows, parallel |-> raw.parallel, settings |-> raw.settings]
    BY <1>1, <1>4
  <2>2. Append(raw.scans, item) \in Seq(ScanConstraint)
    BY <1>4, <1>2, ProposalAssumption
  <2> QED  BY ONLY <1>2, <2>1, <2>2, TypedParts
<1>5. CASE f = "disabled"
  <2>1. r = [leading |-> raw.leading, joins |-> raw.joins, scans |-> raw.scans,
                disabled |-> Append(raw.disabled, item), rows |-> raw.rows,
                parallel |-> raw.parallel, settings |-> raw.settings]
    BY <1>1, <1>5
  <2>2. Append(raw.disabled, item) \in Seq(DisabledIndexes)
    BY <1>5, <1>2, ProposalAssumption
  <2> QED  BY ONLY <1>2, <2>1, <2>2, TypedParts
<1>6. CASE f = "rows"
  <2>1. r = [leading |-> raw.leading, joins |-> raw.joins, scans |-> raw.scans,
                disabled |-> raw.disabled, rows |-> Append(raw.rows, item),
                parallel |-> raw.parallel, settings |-> raw.settings]
    BY <1>1, <1>6
  <2>2. Append(raw.rows, item) \in Seq(RowCorrection)
    BY <1>6, <1>2, ProposalAssumption
  <2> QED  BY ONLY <1>2, <2>1, <2>2, TypedParts
<1>7. CASE f = "parallel"
  <2>1. r = [leading |-> raw.leading, joins |-> raw.joins, scans |-> raw.scans,
                disabled |-> raw.disabled, rows |-> raw.rows,
                parallel |-> Append(raw.parallel, item), settings |-> raw.settings]
    BY <1>1, <1>7
  <2>2. Append(raw.parallel, item) \in Seq(ParallelRequest)
    BY <1>7, <1>2, ProposalAssumption
  <2> QED  BY ONLY <1>2, <2>1, <2>2, TypedParts
<1> QED  BY <1>3, <1>4, <1>5, <1>6, <1>7 DEF Families

\* ... every step keeps it, ...
LEMMA ActionStep == ActionInv /\ [ActionNext]_actionVars => ActionInv'
<1>1. SUFFICES ASSUME ActionInv, [ActionNext]_actionVars
               PROVE  ActionInv'
  OBVIOUS
<1>2. ActionType(raw)
  BY <1>1 DEF ActionInv
<1>3. raw = [leading |-> raw.leading, joins |-> raw.joins, scans |-> raw.scans,
             disabled |-> raw.disabled, rows |-> raw.rows, parallel |-> raw.parallel,
             settings |-> raw.settings]
  BY <1>2 DEF ActionType
<1>4. CASE Draft
  <2>1. stage = "drafted" /\ stage' = stage
    BY <1>4 DEF Draft
  <2>2. ASSUME NEW t, raw' = [raw EXCEPT !.leading = t]
        PROVE  ActionType(raw')
    <3>1. raw' = [leading |-> t, joins |-> raw.joins, scans |-> raw.scans,
                  disabled |-> raw.disabled, rows |-> raw.rows,
                  parallel |-> raw.parallel, settings |-> raw.settings]
      BY <1>3, <2>2
    <3> QED  BY <1>2, <3>1 DEF ActionType
  <2>3. ASSUME NEW s, raw' = [raw EXCEPT !.settings = s]
        PROVE  ActionType(raw')
    <3>1. raw' = [leading |-> raw.leading, joins |-> raw.joins, scans |-> raw.scans,
                  disabled |-> raw.disabled, rows |-> raw.rows,
                  parallel |-> raw.parallel, settings |-> s]
      BY <1>3, <2>3
    <3> QED  BY <1>2, <3>1 DEF ActionType
  <2>4. ActionType(raw')
    BY <1>2, <1>4, <2>2, <2>3, ItemAdded DEF Draft
  <2> QED  BY <2>1, <2>4 DEF ActionInv
<1>5. CASE Validate
  <2>1. CASE Accepts(raw) /\ stage' = "accepted" /\ raw' = Normal(raw)
    <3>1. ActionType(Normal(raw)) /\ Rearranged(raw, Normal(raw))
      BY <1>2, <2>1, NormalIsRearranged
    <3>2. Accepts(Normal(raw))
      BY <1>2, <2>1, <3>1, AcceptsRearranged
    <3> QED  BY <2>1, <3>1, <3>2 DEF ActionInv
  <2>2. CASE stage' = "rejected" /\ UNCHANGED raw
    BY <1>2, <2>2 DEF ActionInv
  <2> QED  BY <1>5, <2>1, <2>2 DEF Validate
<1>6. CASE UNCHANGED actionVars
  BY <1>1, <1>6 DEF ActionInv, actionVars
<1> QED  BY <1>1, <1>4, <1>5, <1>6 DEF ActionNext

\* ... and it holds throughout.
LEMMA ActionInvariant == ActionSpec => []ActionInv
BY ActionStart, ActionStep, PTL DEF ActionSpec

(* The order in which a policy lists its items decides nothing, and an     *)
(* action is accepted again as it is (PlanAction.from_raw).                *)
THEOREM OrderInvariant == ActionSpec => []OrderIsIrrelevant
<1>1. ActionInv => OrderIsIrrelevant
  BY TypedOrder DEF ActionInv
<1> QED  BY <1>1, ActionInvariant, PTL

(* The hints of every accepted action leave PostgreSQL the methods that its *)
(* constraints allow (JOIN_METHOD_HINTS, SCAN_METHOD_HINTS).               *)
THEOREM HintsInvariant == ActionSpec => []HintsSayTheAction
BY SaidByInv, ActionInvariant, PTL

(* Both, which the run checks on a small instance.                         *)
THEOREM ActionsInvariant == ActionSpec => []ActionsAreSound
<1>1. HintsSayTheAction /\ OrderIsIrrelevant => ActionsAreSound
  BY DEF ActionsAreSound
<1> QED  BY <1>1, OrderInvariant, HintsInvariant, PTL
==============================================================================
