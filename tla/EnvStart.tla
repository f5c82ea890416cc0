------------------------------- MODULE EnvStart -------------------------------
(***************************************************************************)
(* The start and stop of the RL environment (qorl.rl.environment) around   *)
(* the pool of its runtime (qorl.rl.runtime): a coroutine that may be      *)
(* cancelled at any time, again and again, awaits threads that may not.    *)
(*                                                                         *)
(*   "new"        not started          "serving"   start has returned      *)
(*   "starting"   awaits the thread    "stopping"  stop awaits its thread  *)
(*   "cancelled"  and still awaits it  "ended"     start raised, or stop   *)
(*                                                 returned                *)
(*                                                                         *)
(* The drain that stop begins with is the subject of RlRuntime.  Threads   *)
(* other than the main one are not interrupted.  In a "script" there is no *)
(* coroutine: the main thread itself starts the pool, by start_pool, and   *)
(* interrupts may hit it anywhere.                                         *)
(***************************************************************************)
EXTENDS PoolLifecycle

VARIABLES env,        \* the coroutine
          registered  \* _runtime is the pool

vars == <<poolVars, env, registered>>

EnvTypeOK ==
    /\ PoolTypeOK
    /\ env \in {"script", "new", "starting", "cancelled", "serving", "stopping", "ended"}
    /\ registered \in BOOLEAN

Init == PoolInit /\ env \in {"script", "new"} /\ registered = FALSE

-----------------------------------------------------------------------------
(* The thread of runtime.start.                                            *)

Starting == env \in {"starting", "cancelled"}

ThreadStep ==
    \/ \E s \in Slots : SlotStep(s)
    \/ Open \/ Advance \/ LoadIndexes \/ Propagate \/ Unwound \/ Remove \/ Closed

RunThread ==
    /\ Starting \/ env = "stopping"
    /\ ThreadStep
    /\ UNCHANGED <<env, registered>>

Register ==
    /\ Starting /\ owner = "open" /\ ~registered
    /\ registered' = TRUE
    /\ UNCHANGED <<poolVars, env>>

\* The thread has returned, or raised after close.
ThreadDone == registered \/ owner = "closed"

-----------------------------------------------------------------------------
Start ==
    /\ env = "new" /\ env' = "starting"
    /\ UNCHANGED <<poolVars, registered>>

\* The first cancellation leaves the await; those that follow are suppressed.
CancelStart ==
    /\ env = "starting" /\ env' = "cancelled"
    /\ UNCHANGED <<poolVars, registered>>

\* start returns, or raises what the thread raised.
StartReturns ==
    /\ env = "starting" /\ ThreadDone
    /\ env' = IF registered THEN "serving" ELSE "ended"
    /\ UNCHANGED <<poolVars, registered>>

\* stop, up to its thread: _runtime is taken away before the pool is closed, and
\* if there is none stop has nothing to do.
StopRuntime ==
    /\ \/ env = "serving"
       \/ env = "cancelled" /\ ThreadDone
    /\ registered' = FALSE
    /\ IF registered
       THEN env' = "stopping" /\ CloseOpen
       ELSE env' = "ended" /\ UNCHANGED poolVars

\* stop returns; cancellations of it are suppressed until then.
StopReturns ==
    /\ env = "stopping" /\ owner = "closed"
    /\ env' = "ended"
    /\ UNCHANGED <<poolVars, registered>>

\* The main thread of a script, and those of the executor.
RunScript ==
    /\ env = "script"
    /\ ThreadStep \/ CloseOpen
    /\ UNCHANGED <<env, registered>>

InterruptScript ==
    /\ env = "script"
    /\ Interrupt \/ InterruptExit
    /\ UNCHANGED <<env, registered>>

Next ==
    \/ RunScript \/ InterruptScript
    \/ Start \/ CancelStart \/ StartReturns \/ StopRuntime \/ StopReturns
    \/ RunThread \/ Register

Spec == Init /\ [][Next]_vars

\* The threads and the event loop run; nobody has to start, cancel or stop.
FairSpec ==
    /\ Spec
    /\ WF_vars(RunScript) /\ WF_vars(RunThread) /\ WF_vars(Register)
    /\ WF_vars(StartReturns) /\ WF_vars(StopReturns)
    /\ WF_vars(env = "cancelled" /\ StopRuntime)

-----------------------------------------------------------------------------
(* An environment that is served has a pool that is ready; one whose start *)
(* raised, was cancelled or that was stopped leaves no pool open and none  *)
(* that anyone still works on (environment.start, environment.stop).       *)
EnvHasItsPool ==
    /\ EnvTypeOK
    /\ env # "script" => orphans = {}
    /\ env = "serving" => owner = "open" /\ registered
    /\ env = "ended" => owner = "closed" /\ ~registered
    /\ registered => owner = "open" /\ env # "script"

(* A start that is cancelled ends, when the thread it cannot stop has      *)
(* ended, with the pool removed (environment.start).                       *)
CancelledStartEnds == env = "cancelled" ~> env = "ended"

(* The pool's own invariant holds in every start: of a script, interrupted *)
(* or not, and of an environment, cancelled or not (environment.start,     *)
(* containers._parallel).                                                  *)
EnvInv == PoolInv /\ EnvHasItsPool
=============================================================================
