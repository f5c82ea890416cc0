------------------------------- MODULE HttpRetry -------------------------------
(***************************************************************************)
(* Requests to a model server through one transport                        *)
(* (qorl.model.client.HttpTransport): a bounded number at a time, retried  *)
(* when they fail in transit, with a backoff that the server's Retry-After *)
(* may lengthen.  A request is                                             *)
(*                                                                         *)
(*   "idle"      not made               "sleeping"  before the next one    *)
(*   "waiting"   for a permit           "answered"                         *)
(*   "sending"   in an attempt          "failed"                           *)
(*                                                                         *)
(* Times are whole units.  The server, here the proxy of a training run,   *)
(* records one completion for each idempotency key and answers a key that  *)
(* it has seen with the completion it has recorded.  It may finish what    *)
(* the client has given up waiting for.                                    *)
(***************************************************************************)
EXTENDS Integers, FiniteSets

CONSTANTS Requests,
          Permits,       \* max_concurrent_requests
          MaxAttempts,   \* retry.max_attempts
          InitialDelay,  \* retry.initial_delay_seconds
          MaximumDelay,  \* retry.maximum_delay_seconds
          Headers        \* the Retry-After headers a server may send

ASSUME RetryAssumption ==
    /\ IsFiniteSet(Requests)
    /\ {Permits, MaxAttempts, InitialDelay, MaximumDelay} \subseteq Nat \ {0}
    /\ InitialDelay <= MaximumDelay
    /\ \A h \in Headers :
          h.kind \in {"absent", "malformed", "infinite", "seconds", "date"}
          /\ h.value \in Int

RETRY_BACKOFF_FACTOR == 2

VARIABLES phase,        \* see above
          attempt,      \* attempts that have ended
          key,          \* the idempotency key, as a count of those drawn
          delay, wait,  \* the variables of the retry loop
          free,         \* permits of the semaphore
          flight,       \* keys on their way to the server, or in it
          completions,  \* keys of the completions the server has recorded
          asked,        \* history: what the last answer asked to wait, if anything
          slept         \* history: the sum of the waits

retryVars == <<attempt, key, delay, wait, asked, slept>>
vars == <<phase, retryVars, free, flight, completions>>

(* Types; a backoff stays within its cap (HttpTransport.request).          *)
TypeOK ==
    /\ phase \in [Requests -> {"idle", "waiting", "sending", "sleeping",
                               "answered", "failed"}]
    /\ attempt \in [Requests -> 0 .. MaxAttempts]
    /\ key \in [Requests -> Nat]
    /\ delay \in [Requests -> 0 .. MaximumDelay]
    /\ wait \in [Requests -> Nat]
    /\ free \in 0 .. Permits
    /\ flight \subseteq Requests \X Nat /\ completions \subseteq Requests \X Nat
    /\ asked \in [Requests -> SUBSET Nat] /\ slept \in [Requests -> Nat]

Init ==
    /\ phase = [r \in Requests |-> "idle"]
    /\ attempt = [r \in Requests |-> 0] /\ key = [r \in Requests |-> 0]
    /\ delay = [r \in Requests |-> 0] /\ wait = [r \in Requests |-> 0]
    /\ free = Permits /\ flight = {} /\ completions = {}
    /\ asked = [r \in Requests |-> {}] /\ slept = [r \in Requests |-> 0]

Larger(m, n) == IF m > n THEN m ELSE n
Smaller(m, n) == IF m < n THEN m ELSE n

\* What a Retry-After asks for: seconds from now, or a date that may have passed.
RetryAfterSeconds(header) ==
    IF header.kind \in {"seconds", "date"} THEN {Larger(0, header.value)} ELSE {}

Backoff(d) == Smaller(d * RETRY_BACKOFF_FACTOR, MaximumDelay)

Become(r, state) == phase' = [phase EXCEPT ![r] = state]

-----------------------------------------------------------------------------
Start(r) ==
    /\ phase[r] = "idle"
    /\ Become(r, "waiting")
    /\ key' = [key EXCEPT ![r] = @ + 1]
    /\ delay' = [delay EXCEPT ![r] = InitialDelay]
    /\ UNCHANGED <<attempt, wait, free, flight, completions, asked, slept>>

Acquire(r) ==
    /\ phase[r] = "waiting" /\ free > 0
    /\ Become(r, "sending") /\ free' = free - 1
    /\ flight' = flight \cup {<<r, key[r]>>}
    /\ UNCHANGED <<retryVars, completions>>

\* The reply of the server; the transport does not look into it.
Answer(r) ==
    /\ phase[r] = "sending" /\ <<r, key[r]>> \in completions
    /\ Become(r, "answered") /\ free' = free + 1
    /\ UNCHANGED <<retryVars, flight, completions>>

\* An error that is not retried: 4xx, invalid JSON, no credential.
Reject(r) ==
    /\ phase[r] = "sending"
    /\ Become(r, "failed") /\ free' = free + 1
    /\ UNCHANGED <<retryVars, flight, completions>>

MayRetry(r, seconds) ==
    /\ attempt[r] + 1 < MaxAttempts
    /\ \A n \in seconds : n <= MaximumDelay

\* Mutant: Retry-After bounds the wait from above.
WaitsShort(r, seconds) ==
    {Smaller(w, n) : w \in 0 .. delay[r], n \in seconds}
    \cup {w \in 0 .. delay[r] : seconds = {}}

\* A random part of the delay, or what the server asked for if that is more.
Waits(r, seconds) ==
    {Larger(w, n) : w \in 0 .. delay[r], n \in seconds}
    \cup {w \in 0 .. delay[r] : seconds = {}}

\* Mutant: the permit is not given back before the sleep.
KeepPermit(r) ==
    /\ phase[r] = "sending"
    /\ \E header \in Headers :
          LET seconds == RetryAfterSeconds(header)
          IN  /\ MayRetry(r, seconds)
              /\ \E w \in Waits(r, seconds) : wait' = [wait EXCEPT ![r] = w]
              /\ asked' = [asked EXCEPT ![r] = seconds]
    /\ Become(r, "sleeping")
    /\ UNCHANGED <<attempt, key, delay, free, slept, flight, completions>>

\* 429, 5xx, or a connection that fails or times out; the server may have the request
\* nevertheless.
Retry(r) ==
    /\ phase[r] = "sending"
    /\ \E header \in Headers :
          LET seconds == RetryAfterSeconds(header)
          IN  /\ MayRetry(r, seconds)
              /\ \E w \in Waits(r, seconds) : wait' = [wait EXCEPT ![r] = w]
              /\ asked' = [asked EXCEPT ![r] = seconds]
    /\ Become(r, "sleeping") /\ free' = free + 1
    /\ UNCHANGED <<attempt, key, delay, slept, flight, completions>>

GiveUp(r) ==
    /\ phase[r] = "sending"
    /\ \E header \in Headers : ~MayRetry(r, RetryAfterSeconds(header))
    /\ Become(r, "failed") /\ free' = free + 1
    /\ UNCHANGED <<retryVars, flight, completions>>

Wake(r) ==
    /\ phase[r] = "sleeping"
    /\ Become(r, "waiting")
    /\ slept' = [slept EXCEPT ![r] = @ + wait[r]]
    /\ attempt' = [attempt EXCEPT ![r] = @ + 1]
    /\ delay' = [delay EXCEPT ![r] = Backoff(@)]
    /\ UNCHANGED <<key, wait, free, flight, completions, asked>>

\* The server ends a request, or drops it.
Serve ==
    \E request \in flight :
        /\ flight' = flight \ {request}
        /\ completions' \in {completions, completions \cup {request}}
        /\ UNCHANGED <<phase, retryVars, free>>

-----------------------------------------------------------------------------
ClientStep(r) ==
    \/ Start(r) \/ Acquire(r) \/ Answer(r) \/ Reject(r) \/ Retry(r) \/ GiveUp(r)
    \/ Wake(r)

Next == Serve \/ \E r \in Requests : ClientStep(r)

Spec == Init /\ [][Next]_vars

\* The clients' threads run; an attempt ends by its timeout if not by an answer.
FairSpec == Spec /\ \A r \in Requests : WF_vars(ClientStep(r))

-----------------------------------------------------------------------------
(* "Retry transient failures without regenerating content"                 *)
(* (HttpTransport): a request leaves one completion at the server, however *)
(* many of its attempts got there, and the answer is that one.             *)
RecordedOnce ==
    \A r \in Requests : Cardinality({c \in completions : c[1] = r}) <= 1

(* A retry never comes earlier than the server asked, and what it may ask  *)
(* is bounded: a request sleeps no longer than its settings allow          *)
(* (HttpTransport.request).                                                *)
WaitsAreRight ==
    \A r \in Requests :
        /\ phase[r] = "sleeping" => \A n \in asked[r] : wait[r] >= n
        /\ slept[r] <= attempt[r] * MaximumDelay
        /\ attempt[r] < MaxAttempts

(* Only an attempt in progress holds a permit, and none is lost: a client  *)
(* that sleeps or has failed keeps nobody waiting (HttpTransport.request). *)
PermitsKept ==
    free + Cardinality({r \in Requests : phase[r] = "sending"}) = Permits

(* What holds of every request, of its completions at the server and of    *)
(* the permits the requests share.                                         *)
RetryInv == TypeOK /\ RecordedOnce /\ WaitsAreRight /\ PermitsKept

(* Every request is answered or fails, even if no server ever answers      *)
(* (HttpTransport.request).                                                *)
RequestsEnd == \A r \in Requests : <>(phase[r] \in {"answered", "failed"})
=============================================================================
