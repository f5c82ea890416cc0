------------------------------ MODULE RlRuntime ------------------------------
(***************************************************************************)
(* The reinforcement-learning runtime: one process serves episodes; every  *)
(* episode runs its rollout in a thread that borrows database workers from *)
(* the shared pool and model requests from a shared semaphore; the episode *)
(* service cancels and drains the threads before it acknowledges a cancel  *)
(* request and before it removes the containers.                           *)
(*                                                                         *)
(* An episode is an asyncio task (qorl.rl.server, qorl.rl.harness):        *)
(*                                                                         *)
(*   "none"       not requested                                            *)
(*   "admitted"   _run passed its checks and awaits the probe              *)
(*   "launched"   launch awaits the rollout's thread                       *)
(*   "unwinding"  launch was cancelled and still awaits the thread         *)
(*   "ended"      the task returned or raised                              *)
(*                                                                         *)
(* and its rollout a thread (qorl.rl.harness._run, qorl.rl.workers,        *)
(* qorl.agent.agent, qorl.model.client):                                   *)
(*                                                                         *)
(*   "none"       not submitted            "queued"   submitted            *)
(*   "idle"       between two operations   "leasing"  in claim_worker      *)
(*   "leased"     in a database operation  "sql"      a statement runs     *)
(*   "permit"     waits on the semaphore   "request"  a request runs       *)
(*   "reply"      the model answered       "done"     returned or raised   *)
(***************************************************************************)
EXTENDS ContainerPool

CONSTANTS WorkerLeaseScope,  \* rl.worker_lease_scope
          MaxRequests,       \* model.max_concurrent_requests
          MaxTurns,          \* agent.maximum_model_turns
          MaxAttempts,       \* model.retry.max_attempts
          MaxStatements      \* bound on the statements of one operation

ASSUME RuntimeAssumption ==
    /\ WorkerLeaseScope \in {"measurement", "episode"}
    /\ Cancellable = IF WorkerLeaseScope = "measurement" THEN Clients ELSE {}
    /\ {MaxRequests, MaxTurns, MaxAttempts, MaxStatements} \subseteq Nat \ {0}

Rollouts == Clients
PerOperation == WorkerLeaseScope = "measurement"

VARIABLES episode,       \* the asyncio task of each rollout
          thread,        \* the thread of each rollout
          stage,         \* the part of _run the thread is in
          turns,         \* model turns begun
          attempts,      \* attempts of the current model request
          statements,    \* statements of the current operation
          permits,       \* free permits of runtime.requests
          work,          \* runtime.work: the rollouts a drain cancels and awaits
          closedToWork,  \* the service accepts no more episodes
          cancelling,    \* the service's cancel operation
          awaited,       \* the rollouts it drains
          teardown,      \* environment.stop
          draining,      \* the rollouts teardown drains
          created        \* the workers whose containers exist

asyncVars == <<episode, work, closedToWork, cancelling, awaited, teardown,
               draining, created>>
countVars == <<turns, attempts, statements>>
vars == <<poolVars, asyncVars, thread, stage, countVars, permits>>

Stages == {"start", "search", "finish"}
Episodes == {"none", "admitted", "launched", "unwinding", "ended"}
Threads == {"none", "queued", "idle", "leasing", "leased", "sql", "permit",
            "request", "reply", "done"}

TypeOK ==
    /\ PoolTypeOK
    /\ episode \in [Rollouts -> Episodes]
    /\ thread \in [Rollouts -> Threads]
    /\ stage \in [Rollouts -> Stages]
    /\ turns \in [Rollouts -> 0 .. MaxTurns]
    /\ attempts \in [Rollouts -> 0 .. MaxAttempts]
    /\ statements \in [Rollouts -> 0 .. MaxStatements]
    /\ permits \in 0 .. MaxRequests
    /\ work \subseteq Rollouts /\ awaited \subseteq Rollouts
    /\ draining \subseteq Rollouts
    /\ closedToWork \in BOOLEAN
    /\ cancelling \in {"none", "waiting", "acknowledged"}
    /\ teardown \in {"none", "draining", "closing", "closed"}
    /\ created \subseteq Workers

Init ==
    /\ PoolInit
    /\ episode = [r \in Rollouts |-> "none"]
    /\ thread = [r \in Rollouts |-> "none"]
    /\ stage = [r \in Rollouts |-> "start"]
    /\ turns = [r \in Rollouts |-> 0]
    /\ attempts = [r \in Rollouts |-> 0]
    /\ statements = [r \in Rollouts |-> 0]
    /\ permits = MaxRequests
    /\ work = {} /\ awaited = {} /\ draining = {}
    /\ closedToWork = FALSE
    /\ cancelling = "none"
    /\ teardown = "none"
    /\ created = Workers

-----------------------------------------------------------------------------
(* The thread of a rollout.                                                *)

Become(r, point) == thread' = [thread EXCEPT ![r] = point]

\* The thread returns or raises; the worker of a lease goes back to the queue.
EndThread(r) ==
    /\ Become(r, "done")
    /\ IF claim[r] = "using" THEN ReleaseSlot(r) ELSE UNCHANGED poolVars

\* An executor thread picks the rollout up.  With one lease per episode it
\* claims its worker first, without a cancel event.
StartThread(r) ==
    /\ thread[r] = "queued"
    /\ IF PerOperation
       THEN Become(r, "idle") /\ UNCHANGED poolVars
       ELSE Become(r, "leasing") /\ EnterClaim(r)
    /\ UNCHANGED <<stage, countVars, permits>>

\* One step of claim_worker; a cancelled claim raises out of the rollout.
AwaitWorker(r) ==
    /\ thread[r] = "leasing"
    /\ ClaimStep(r)
    /\ \/ claim'[r] = "out" /\ Become(r, "done")
       \/ /\ claim'[r] = "using"
          /\ Become(r, IF PerOperation THEN "leased" ELSE "idle")
       \/ claim'[r] \notin {"out", "using"} /\ Become(r, "leasing")
    /\ UNCHANGED <<stage, countVars, permits>>

\* start, a candidate or inspection call of the search, or finish: each holds
\* one worker from its first statement to its last.
BeginOperation(r) ==
    /\ \/ thread[r] = "idle" /\ stage[r] \in {"start", "finish"}
       \/ thread[r] = "reply"
    /\ ~cancelled[r]
    /\ statements' = [statements EXCEPT ![r] = 0]
    /\ IF PerOperation
       THEN Become(r, "leasing") /\ EnterClaim(r)
       ELSE Become(r, "leased") /\ UNCHANGED poolVars
    /\ UNCHANGED <<stage, turns, attempts, permits>>

BeginStatement(r) ==
    /\ thread[r] = "leased"
    /\ ~cancelled[r]
    /\ statements[r] < MaxStatements
    /\ statements' = [statements EXCEPT ![r] = @ + 1]
    /\ Become(r, "sql")
    /\ UNCHANGED <<poolVars, stage, turns, attempts, permits>>

\* The statement returns or times out; an in-flight statement is never
\* abandoned.
EndStatement(r) ==
    /\ thread[r] = "sql"
    /\ Become(r, "leased")
    /\ UNCHANGED <<poolVars, stage, countVars, permits>>

\* Mutant: the lease outlives the operation that took it.
EndOperationKeepsWorker(r) ==
    /\ thread[r] = "leased"
    /\ stage[r] = "start" => statements[r] > 0
    /\ IF stage[r] = "finish"
       THEN EndThread(r) /\ UNCHANGED stage
       ELSE /\ Become(r, "idle")
            /\ stage' = [stage EXCEPT ![r] = "search"]
            /\ UNCHANGED poolVars
    /\ UNCHANGED <<countVars, permits>>

\* The operation returns.  start is followed by the search, the last finish by
\* the end of the thread.
EndOperation(r) ==
    /\ thread[r] = "leased"
    /\ stage[r] = "start" => statements[r] > 0
    /\ IF stage[r] = "finish"
       THEN EndThread(r) /\ UNCHANGED stage
       ELSE /\ Become(r, "idle")
            /\ stage' = [stage EXCEPT ![r] = "search"]
            /\ IF PerOperation THEN ReleaseSlot(r) ELSE UNCHANGED poolVars
    /\ UNCHANGED <<countVars, permits>>

BeginTurn(r) ==
    /\ thread[r] = "idle" /\ stage[r] = "search"
    /\ ~cancelled[r]
    /\ turns[r] < MaxTurns
    /\ turns' = [turns EXCEPT ![r] = @ + 1]
    /\ attempts' = [attempts EXCEPT ![r] = 0]
    /\ Become(r, "permit")
    /\ UNCHANGED <<poolVars, stage, statements, permits>>

\* HttpTransport.request enters the semaphore for one attempt at a time and
\* looks at no cancel event.
BeginRequest(r) ==
    /\ thread[r] = "permit"
    /\ permits > 0
    /\ permits' = permits - 1
    /\ attempts' = [attempts EXCEPT ![r] = @ + 1]
    /\ Become(r, "request")
    /\ UNCHANGED <<poolVars, stage, turns, statements>>

\* The attempt ends with a reply, or with a transient failure that another
\* attempt follows after the backoff, outside the semaphore.
EndRequest(r) ==
    /\ thread[r] = "request"
    /\ permits' = permits + 1
    /\ \/ Become(r, "reply")
       \/ attempts[r] < MaxAttempts /\ Become(r, "permit")
    /\ UNCHANGED <<poolVars, stage, countVars>>

\* Mutant: the error path leaves the semaphore without releasing it.
FailRequestKeepsPermit(r) ==
    /\ thread[r] = "request"
    /\ EndThread(r)
    /\ UNCHANGED <<stage, countVars, permits>>

\* A request fails for good, or every attempt has failed: the rollout raises.
FailRequest(r) ==
    /\ thread[r] = "request"
    /\ permits' = permits + 1
    /\ EndThread(r)
    /\ UNCHANGED <<stage, countVars>>

\* A turn without a database operation: no tool call, a cached inspection or a
\* rejected call.
EndTurn(r) ==
    /\ thread[r] = "reply"
    /\ ~cancelled[r]
    /\ Become(r, "idle")
    /\ UNCHANGED <<poolVars, stage, countVars, permits>>

\* finish or keep_default, a truncated reply, the context budget, or no turn
\* left.
EndSearch(r) ==
    /\ \/ thread[r] = "reply" /\ ~cancelled[r]
       \/ thread[r] = "idle" /\ stage[r] = "search" /\ turns[r] = MaxTurns
    /\ stage' = [stage EXCEPT ![r] = "finish"]
    /\ Become(r, "idle")
    /\ UNCHANGED <<poolVars, countVars, permits>>

\* check_cancelled or hold raises; so may any database or model error.
Fail(r) ==
    /\ thread[r] \in {"idle", "leased", "reply"}
    /\ EndThread(r)
    /\ UNCHANGED <<stage, countVars, permits>>

ThreadStep(r) ==
    \/ StartThread(r)    \/ AwaitWorker(r)
    \/ BeginOperation(r) \/ BeginStatement(r) \/ EndStatement(r)
    \/ EndOperation(r)   \/ BeginTurn(r)      \/ BeginRequest(r)
    \/ EndRequest(r)     \/ FailRequest(r)    \/ EndTurn(r)
    \/ EndSearch(r)      \/ Fail(r)

Run(r) == ThreadStep(r) /\ UNCHANGED asyncVars

-----------------------------------------------------------------------------
(* The event loop: the episode service, the harness and the environment.   *)

threadVars == <<available, claim, slot, thread, stage, countVars, permits>>

SetCancels(R) == cancelled' = [r \in Rollouts |-> cancelled[r] \/ r \in R]

\* The framework's request for one episode passes the checks of _run.
AdmitEpisode(r) ==
    /\ episode[r] = "none"
    /\ ~closedToWork
    /\ teardown = "none"
    /\ episode' = [episode EXCEPT ![r] = "admitted"]
    /\ UNCHANGED <<threadVars, cancelled, work, closedToWork, cancelling, awaited,
                   teardown, draining, created>>

\* launch submits the thread and registers it without an await in between.
LaunchHarness(r) ==
    /\ episode[r] = "admitted"
    /\ episode' = [episode EXCEPT ![r] = "launched"]
    /\ Become(r, "queued")
    /\ work' = work \cup {r}
    /\ UNCHANGED <<poolVars, stage, countVars, permits, closedToWork, cancelling,
                   awaited, teardown, draining, created>>

\* Mutant: only the tasks in the registry of running harnesses are cancelled.
UnwindLaunched(R) ==
    episode' = [r \in Rollouts |->
                  IF r \in R /\ episode[r] = "launched" THEN "unwinding"
                  ELSE episode[r]]

\* CancelledError reaches tasks: one that has not launched its harness raises;
\* launch sets the cancel event and goes on awaiting the thread.
Unwind(R) ==
    episode' = [r \in Rollouts |->
                  IF r \in R /\ episode[r] = "admitted" THEN "ended"
                  ELSE IF r \in R /\ episode[r] = "launched" THEN "unwinding"
                  ELSE episode[r]]

\* The framework cancels one episode, once or repeatedly.
CancelEpisode(r) ==
    /\ episode[r] \in {"admitted", "launched"}
    /\ Unwind({r})
    /\ SetCancels({r} \cap work)
    /\ UNCHANGED <<threadVars, work, closedToWork, cancelling, awaited, teardown,
                   draining, created>>

\* Mutant: a repeated cancellation ends the wait for the thread.
HarnessReturnsEarly(r) ==
    /\ \/ episode[r] = "launched" /\ thread[r] = "done"
       \/ episode[r] = "unwinding"
    /\ episode' = [episode EXCEPT ![r] = "ended"]
    /\ work' = work \ {r}
    /\ UNCHANGED <<poolVars, thread, stage, countVars, permits, closedToWork,
                   cancelling, awaited, teardown, draining, created>>

\* launch returns or raises once the thread is done, and only then takes the
\* rollout out of the registry.
HarnessReturns(r) ==
    /\ episode[r] \in {"launched", "unwinding"}
    /\ thread[r] = "done"
    /\ episode' = [episode EXCEPT ![r] = "ended"]
    /\ work' = work \ {r}
    /\ UNCHANGED <<poolVars, thread, stage, countVars, permits, closedToWork,
                   cancelling, awaited, teardown, draining, created>>

\* The control handler of "cancel", up to the first await inside drain.
CancelWork ==
    /\ cancelling # "waiting"
    /\ teardown = "none"
    /\ closedToWork' = TRUE
    /\ Unwind(Rollouts)
    /\ SetCancels(work)
    /\ awaited' = work
    /\ cancelling' = "waiting"
    /\ UNCHANGED <<threadVars, work, teardown, draining, created>>

Finished(R) == \A r \in R : thread[r] = "done"

AcknowledgeCancel ==
    /\ cancelling = "waiting"
    /\ Finished(awaited)
    /\ cancelling' = "acknowledged"
    /\ UNCHANGED <<threadVars, cancelled, episode, work, closedToWork, awaited,
                   teardown, draining, created>>

\* environment.stop: the framework has left its dispatch loop, so no episode
\* that still waits for its harness will get one; drain cancels the rest.
TearDown ==
    /\ teardown = "none"
    /\ teardown' = "draining"
    /\ episode' = [r \in Rollouts |->
                     IF episode[r] = "admitted" THEN "ended" ELSE episode[r]]
    /\ SetCancels(work)
    /\ draining' = work
    /\ UNCHANGED <<threadVars, work, closedToWork, cancelling, awaited, created>>

StopRuntime ==
    /\ teardown = "draining"
    /\ Finished(draining)
    /\ teardown' = "closing"
    /\ UNCHANGED <<threadVars, cancelled, episode, work, closedToWork, cancelling,
                   awaited, draining, created>>

\* ContainerPool.close removes the containers it can and logs the others.
RemoveContainer(w) ==
    /\ teardown = "closing"
    /\ w \in created
    /\ created' = created \ {w}
    /\ UNCHANGED <<threadVars, cancelled, episode, work, closedToWork, cancelling,
                   awaited, teardown, draining>>

CloseReturns ==
    /\ teardown = "closing"
    /\ teardown' = "closed"
    /\ UNCHANGED <<threadVars, cancelled, episode, work, closedToWork, cancelling,
                   awaited, draining, created>>

EpisodeStep(r) == AdmitEpisode(r) \/ LaunchHarness(r) \/ CancelEpisode(r)

Service ==
    \/ CancelWork \/ AcknowledgeCancel
    \/ TearDown \/ StopRuntime \/ CloseReturns
    \/ \E w \in Workers : RemoveContainer(w)

Next ==
    \/ \E r \in Rollouts : Run(r) \/ EpisodeStep(r) \/ HarnessReturns(r)
    \/ Service

Spec == Init /\ [][Next]_vars

\* Threads and the event loop are scheduled, statements and requests end within
\* their timeouts.  Nobody has to ask for an episode, a cancel or a teardown.
Fairness ==
    /\ \A r \in Rollouts : WF_vars(Run(r)) /\ WF_vars(HarnessReturns(r))
    /\ WF_vars(AcknowledgeCancel)
    /\ WF_vars(StopRuntime)
    /\ WF_vars(CloseReturns)

FairSpec == Spec /\ Fairness

-----------------------------------------------------------------------------
Active(r) == thread[r] \notin {"none", "done"}

(* A rollout's thread is alive only while its launch coroutine waits for   *)
(* it: cancelling an episode, even repeatedly, never frees its place in    *)
(* the service while its statements still run (harness.launch).            *)
HarnessOutlivesThread ==
    \A r \in Rollouts : Active(r) => episode[r] \in {"launched", "unwinding"}

(* Once the service has acknowledged a cancel request no rollout thread is *)
(* left and none will start, so the trainer may release its GPUs and the   *)
(* operator restart the service (server.control, runtime.drain).           *)
AcknowledgedIsQuiet ==
    cancelling = "acknowledged" =>
        \A r \in Rollouts : ~Active(r) /\ episode[r] # "admitted"

(* No thread is left when the containers are removed, and no statement     *)
(* runs on a container that is gone (environment.stop, runtime.stop).      *)
NoWorkAfterTeardown ==
    /\ teardown \in {"closing", "closed"} => \A r \in Rollouts : ~Active(r)
    /\ \A r \in Rollouts : thread[r] = "sql" => slot[r] \in created

(* What a drain is for: whoever has waited for it may rely on the quiet.   *)
QuietAfterDrain == AcknowledgedIsQuiet /\ NoWorkAfterTeardown

(* With one lease per operation a rollout that waits for the model, or for *)
(* its turn at the model, holds no worker that another rollout could use   *)
(* (workers.PooledExecutor).                                               *)
NoWorkerDuringModelTurn ==
    PerOperation =>
        \A r \in Rollouts :
            thread[r] \in {"permit", "request", "reply", "done"}
                => slot[r] = NoWorker

(* A statement runs on the worker its rollout leases, whatever the scope.  *)
StatementHoldsLease ==
    \A r \in Rollouts :
        thread[r] \in {"leased", "sql"} => claim[r] = "using" /\ slot[r] # NoWorker

(* A worker is leased exactly as long as statements may need it.           *)
WorkersAreLeased == StatementHoldsLease /\ NoWorkerDuringModelTurn

(* Every permit of the request semaphore is free or with a running         *)
(* request: retries and failures neither leak nor invent one.              *)
Requesting == {r \in Rollouts : thread[r] = "request"}

PermitsConserved ==
    /\ IsFiniteSet(Requesting)
    /\ permits + Cardinality(Requesting) = MaxRequests

(* The inductive invariant.  Every live thread is in the registry, so that *)
(* the snapshot a drain takes misses none; after the snapshot no episode   *)
(* can add one; a drain is over only when its snapshot is done.            *)
InClaim(r) == claim[r] \in {"checking", "getting", "taken"}

LeaseMatchesThread ==
    \A r \in Rollouts :
        /\ InClaim(r) <=> thread[r] = "leasing"
        /\ claim[r] = "using" <=>
              IF PerOperation
              THEN thread[r] \in {"leased", "sql"}
              ELSE Active(r) /\ thread[r] \notin {"queued", "leasing"}

RegistryComplete ==
    \A r \in Rollouts :
        /\ r \in work <=> episode[r] \in {"launched", "unwinding"}
        /\ episode[r] \in {"none", "admitted"} => thread[r] = "none"

DrainCovers ==
    /\ cancelling # "none" =>
          /\ closedToWork
          /\ \A r \in Rollouts : episode[r] # "admitted"
          /\ \A r \in Rollouts : Active(r) => r \in awaited
    /\ cancelling = "acknowledged" => Finished(awaited)
    /\ teardown # "none" =>
          /\ \A r \in Rollouts : episode[r] # "admitted"
          /\ \A r \in Rollouts : Active(r) => r \in draining
    /\ teardown \in {"closing", "closed"} => Finished(draining)
    /\ teardown \in {"none", "draining"} => created = Workers

RetriesLeft ==
    \A r \in Rollouts : thread[r] = "permit" => attempts[r] < MaxAttempts

RuntimeInv ==
    /\ TypeOK
    /\ PoolInv
    /\ PermitsConserved
    /\ RetriesLeft
    /\ HarnessOutlivesThread
    /\ LeaseMatchesThread
    /\ RegistryComplete
    /\ DrainCovers

(* Workers and permits are taken in no fixed order by many threads, yet    *)
(* every launched rollout ends.                                            *)
LaunchedRolloutsEnd ==
    \A r \in Rollouts : episode[r] = "launched" ~> episode[r] = "ended"

(* Draining waits for threads that wait for workers that other threads     *)
(* hold: it ends all the same.                                             *)
DrainEnds ==
    /\ cancelling = "waiting" ~> cancelling = "acknowledged"
    /\ teardown = "draining" ~> teardown = "closed"
=============================================================================
