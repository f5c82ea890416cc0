# A TLA+ verification of qorl

qorl trains and evaluates language models that steer PostgreSQL's optimizer.
A *rollout* measures the default plan of a query, lets a model propose
constrained plans (*candidates*), validates each of them with `EXPLAIN`, and
finally times the selected one against the default in randomised pairs. Many
rollouts run at once: they share a pool of database containers (*workers*) and
a bounded number of model requests. This directory holds TLA+ models of the
parts of the program where steps of several actors, cancellations and failures
interleave, and of the algorithms that decide what is measured and learned, the
TLC configurations that check them on small instances, and proofs checked by TLAPS
for every instance. Paths below are relative to `src/src/qorl/`.

## 1. Inventory

| Part | Source | State it keeps | Operations | What is hard | What makes it correct |
|---|---|---|---|---|---|
| Worker queue | `worker_pool/containers.py` `claim_worker` | FIFO of free workers | claim, poll, cancel, return | any thread between any two steps; a cancel between the queue and the body | no worker shared, none lost, a cancelled waiter leaves |
| Pool lifecycle | `worker_pool/containers.py` `create` ... `close` | `created`, `container_id` per slot | parallel create, restore, start; stop, close | one of several parallel steps fails; a removal fails | nothing created is forgotten or removed under a thread; another's project is not touched |
| RL runtime | `rl/runtime.py`, `rl/workers.py`, `rl/harness.py`, `rl/environment.py` | registry `work`, semaphore `requests`, lease `_slot` | launch, cancel, drain, stop | asyncio tasks and threads; repeated cancellation; two scarce resources | a task outlives its thread; a drain misses nobody; no deadlock |
| Environment service | `rl/server.py` | `claim`, `inference_ready`, `closed_to_work`, `episodes` | claim, probe, identity, cancel, run | control messages lost or late; restart; two trainers | one claim for ever; an acknowledged cancel is quiet |
| Trainer | `rl/train.py` | claim, monitor task, cleanup flag | launch, monitor, clean up | cleanup of a service that may be unreachable | its service is cancelled or reported as not confirmed |
| Rollout evaluator | `measure/validation.py`, `measure/rollout.py`, `measure/schemas.py` | baseline, candidates, selection, pairs, counts | start, evaluate, select, finish, record | long sequences of legal tool calls; timeouts; cancel between statements | every record satisfies its own validator; nothing is measured twice or erased |
| Agent loop | `agent/agent.py`, `agent/interface.py`, `agent/tool_runtime.py` | turns, transcript | turn, tool calls, forced stop | several calls in a reply; truncated replies; budgets | the first decision stands; a decision turn is always left |
| Model client | `model/client.py`, `model/schemas.py` | permits, transcript | request, retry, backoff; preflight, request, reply of three providers | permits across retries and errors; history that each provider wants in its own form | permits conserved; the history a provider sees is the one it had |
| Calibration | `measure/calibration.py`, `measure/run.py` | report, warmups | calibrate task, calibrate | failure of one of several | counts match the records |
| Evaluation | `evaluation/evaluate.py` | futures, report | schedule, record, summarise | first failure cancels the rest | real failure reported, every rollout accounted for |
| SFT generation | `sft/generate.py` | artifacts on disk | attempt, save, resume | crash and restart between steps | no attempt twice, none lost |
| Experiment runner | `experiment/run.py`, `experiment/create.py` | run directories, stage records | number, create, run stages | invocations side by side; failures and kills at any step; files that change between steps | outputs have one owner; records say what was used |
| Task sets | `taskset/*.py`, `experiment/create.py` | selections of an experiment | select, exclude, validate splits | catalogs share texts and topologies under other IDs | no task or topology in two splits |
| Plans | `plans/*.py` | - | validate, compile, verify, fingerprint | seven families of constraints that meet on one plan tree | hints say the action; the order of a proposal decides nothing; an accepted action can be met; the verdict is its meaning |
| PostgreSQL client | `postgres/*.py` | - | explain, inspect | timeouts | - |
| SFT dataset | `sft/dataset.py` | conversations, renderings, rows | read, render, reject, pack | late feedback on earlier replies; resumption | what is packed is what may be learned |
| SFT and RL training | `sft/train.py`, `rl/train.py`, `adapters/*.py` | attempt, snapshot, checkpoints, adapters | train, continue, export, select | check first, record later | no attempt replaced; adapters on their base |
| Local inference | `inference/*.py` | child process | start, wait, stop | the server may be another by the next turn | context checked at every turn |
| Prompts, reports, scripts | - | - | - | - | not modelled: data conversion, wording, external libraries |

## 2. Modules

```
WorkerLease                         what a pool of workers promises
   ^ refinement
ContainerPool  -----------------+   claim_worker and its queue
   ^ EXTENDS                    |
RlRuntime                       |   episodes, threads, permits, drain, teardown
                                |
Rollout                         |   one rollout: evaluator and agent loop
                                |
EnvControl                      |   environment service and trainers
                                |
PoolLifecycle                       create, restore, start and close of the pool
   ^ EXTENDS
EnvStart                            the coroutine that starts and stops it

Evaluation                          threads, records and report of an evaluation

AttemptLog                          what the records of a generation promise
   ^ refinement
Generation                          attempts over crashes and restarts

HttpRetry                           one transport: attempts, waits, permits

ExperimentRun                       invocations of an experiment, side by side

PlanActions                         actions: validation, order, hints
   ^ EXTENDS
Plans                               plans under an action: verdict, identity
TaskSelection                       the splits of an experiment
Conversations                       a dataset: read, rendered, packed
DrainTime                           the longest drain and the time it gets
ModelClients                        the turns of an agent with each provider
   ^ EXTENDS
MCAlgorithms                        the five, each in behaviours of its own
```

Each module `M` that TLC runs has a module `MCM`, which adds the symmetry sets
and, where needed, values that a `.cfg` cannot write, and `M_proofs`, which
holds its theorems. Those of ContainerPool are in `RlRuntime_proofs`, those of
EnvStart in `PoolLifecycle_proofs`, and those of HttpRetry, TaskSelection,
Conversations, DrainTime, ModelClients and PlanActions in `Algorithms_proofs`. The `.cfg` files
give the constants their values.

### WorkerLease

The abstract pool: every worker is lent to one client or to nobody. A step
lends one free worker or takes one back. It is the promise that the code above
`claim_worker` relies on.

### ContainerPool (`worker_pool/containers.py`)

The state is the queue `available`, and for each client where it is in
`claim_worker` (`claim`), the slot in its local variable (`slot`) and its cancel
event (`cancelled`). One action per point at which another thread may run:
`CheckBeforeWaiting` (the check at the head of the loop), `TakeSlot` and
`PollExpires` (`queue.get` with its 0.1 s timeout), `EnterBody` and
`AbandonSlot` (the check inside `try`), `ReleaseSlot` (`finally`). A client
outside `Cancellable` passes no event, as a rollout does that leases one worker
for its whole episode.

### RlRuntime (`rl/runtime.py`, `rl/workers.py`, `rl/harness.py`, `rl/server.py`, `agent/agent.py`, `model/client.py`)

It extends `ContainerPool`, whose clients are the rollouts. Two layers:

- the asyncio layer (`episode`, `work`, `closedToWork`, `cancelling`,
  `awaited`, `teardown`, `draining`, `created`): `AdmitEpisode`,
  `LaunchHarness`, `CancelEpisode`, `HarnessReturns`, `CancelWork`,
  `AcknowledgeCancel`, `TearDown`, `StopRuntime`, `CloseReturns`. An action
  runs from one `await` to the next, as the event loop does;
- the threads (`thread`, `stage`, `turns`, `attempts`, `statements`,
  `permits`): leases per operation or per episode, statements, model turns, the
  request semaphore with its retries, and the checks of the cancel event
  between them.

What the training framework does around an episode is external, and the limit
of the executor's threads is left out: it has one thread for each rollout that
the service admits.

### Rollout (`measure/validation.py`, `measure/rollout.py`, `measure/schemas.py`, `agent/agent.py`, `agent/interface.py`, `agent/tool_runtime.py`)

The evaluator's attributes keep their names (`baseline` is `evaluator.default`).
The actions follow the thread of one rollout: the default's `EXPLAIN` and
executions, the turns of the agent with every tool call that changes the
evaluator, the validation of an attempt, its feedback executions, and the final
pairs. `Cancel` sets the event at any time, and the code notices it where it
checks. Plans are reduced to the key under which timings are reused and times to
the fact that they were observed; a cutoff is known by what it was derived from.
Structural duplicates, which only the report reads, are left out, and every call
that changes no state of the evaluator is `OtherCall`. Calls that the driver
never makes (a second `start`, a `finish` inside the search) are not enumerated.

### EnvControl (`rl/server.py`, `rl/train.py`)

The other side of RlRuntime's `cancelling`: the service as its trainers see it.
Service: `claim`, `ready` (`inference_ready`), `closed` (`closed_to_work`),
`handling` (handlers that await) and the state of each episode. Trainer: `phase`
of `launch`, `answer` to each request, `known` (the service it claimed),
`monitor` and its `misses`, `process`, and the `cleanup` record. Requests other
than those of the monitor reach a service in the order sent; a service that
stops takes with it those it had not read, or leaves them to the next one, and a
trainer that ends may lose those it had not sent. A reply is found in `answer`,
or never comes; a reply to a request nobody awaits is dropped. Timeouts are
enabled whenever the reply is not there, so that every race of an answer with
its timeout is explored. That one service runs per host (`serve` takes a lock
and looks for containers) is the guard of `StartService`. The contract of
configuration, code and assets that a claim must match is one refusal that may
always happen.

### PoolLifecycle (`worker_pool/containers.py`)

The thread that runs `start_pool` (or `runtime.start`) is `owner`; `current` is
the operation it performs on all slots and `task` the future of each slot in it.
Docker appears as the sets `present` (projects of this pool) and `foreign`
(names already taken), beside the program's own view of it, `created`.
`SlotStep` is a thread of the executor: `Own` is the checks up to
`slot.created = True`, `Compose` the creation itself, which may fail half-way,
`Succeed` and `Fail` the rest of the operation. `OwnerStep` is the owner:
`Advance` asks the results and submits the next operation, `Propagate` leaves
the loop at the first failure and cancels what has not begun, `Unwound` is the
exit of the executor, which waits, and `Remove` one turn of the loop of `close`.
`Interrupt` is a KeyboardInterrupt of the owner anywhere but in the executor's
exit, and `InterruptExit` the one that hits it there; the history variable
`orphans` keeps the slots whose threads it leaves behind. `Recreate` is reachable
only then: Docker makes again what `close` has removed under a thread.

### EnvStart (`rl/environment.py`, `rl/runtime.py`)

It extends PoolLifecycle with the coroutine above it. `env` is where `start` and
`stop` of the environment are and `registered` whether `_runtime` is the pool.
`CancelStart` is the first cancellation of `start`; those that follow only make
it wait again. `StopRuntime` waits for the thread and takes `_runtime` away
before the pool is closed. The owner is a thread here, which no interrupt
reaches. The drain that `stop` begins with is in RlRuntime.

### Evaluation (`evaluation/evaluate.py`)

`main` is the phase of the main thread, `future` the executor's future of each
rollout, `stop` the event they share and `saved` the records on disk. A thread
takes `BeginRollout`, `EndRollout` (which sets `stop` on an error that is not the
query's, before the record is saved) and `Save`, which may fail. The main thread
takes `Submit`, `Collect` (results and the cancellations that follow from
`stop`), `Fail`, whose handler is `Handle`, `Drain` (`wait(futures)`), `Exit`,
`Capture`, `Close` and `Report`. `Interrupt` is a KeyboardInterrupt anywhere but
in the exit of the executor and in the report itself; in the handler it may leave
`stop` unset and nothing cancelled. A rollout is a result: what happens inside
is in Rollout.

### AttemptLog, Generation (`sft/generate.py`)

`AttemptLog` is the promise: every attempt's record goes from absent to running
to completed or failed, and nothing changes once the report exists. `Generation`
has the files (`output`, `disk`, `artifact`, `published`), the process (`main`,
`known`, `pending`, `future`, `seen`, `stop`) and two history variables.
`Crash` may take the process away between any two steps; it also stands for an
exception outside the block that collects, such as a write of the main thread
that fails, which ends the process in the same way. `Run` starts it again on the
same directory. `begun` counts how often an attempt's model was asked; a second
interrupt in the executor's exit is left out, as in Evaluation. One process at a
time works on a directory.

### HttpRetry (`model/client.py`)

Requests as the code that makes them sees them: `phase`, the loop's variables
`attempt`, `key`, `delay` and `wait`, the semaphore as `free`. The server is
external: `flight` is what is on its way to it, in it or abandoned by a client
that timed out, and `completions` what it has recorded, one for each key. RlRuntime has
the same request inside its thread, without keys, waits or headers, which do not
matter to who holds a permit. `RetryAfterSeconds` keeps what the header means:
absent, malformed and infinite ask for nothing, and a date that has passed for 0.
Times are whole units; `random.uniform` is any of them.

### ExperimentRun (`experiment/run.py`, `sft/dataset.py`, `sft/train.py`, `rl/train.py`, `adapters/export.py`)

`runs` is what the numbered directories hold: the copies of the inputs, a
dataset with its identity, renderings, rows and report, a training with the
snapshot of its initial adapter, identity, trainer configuration, checkpoints,
exported adapters and outcome, the slots of evaluations, a calibration. `proc` is
each process with the invocation it runs: where it is (`pc`), the run and number
it works on, and what it has read before (`inputs`, `world`, `adapter`, and its
trainer's `config`). An action is what a process does between two looks at files
that others may change: `ListRuns` and `MakeRun` are the listing and the `mkdir` of `numbered_output`, `Train` is the check that
there is no attempt and `RecordAttempt` the identity it writes later,
`WriteConfig` the second file, `configs/qorl.json`, and `StartTrainer` the
trainer's start, which reads that file by its path. `CheckpointModel` chooses a
checkpoint and `Export` renames the staged adapter to its name.
`Fail` is an exception at any step, which removes a run that is still being
copied, and `Kill` the end of the process together with its trainer.

Content is a version. `world` stands for base weights, tokenizer and code.
`Upgrade` and `EditRows`, by which the world and packed rows change, happen
between invocations; a change of either under a running process is not modelled.
`EditAdapter` happens when a snapshot is pending, the only time at which it
matters. An invocation that the arguments alone refuse is left out. The history
variables `by` and `began` of an attempt say who made it and which invocations
had begun by then: SFT's check and record are not one step, so `AttemptStands`
allows an attempt to be overwritten by an invocation that began before it was
recorded, and by none that began later. The docstring of `sft.train.train`
(`sft/train.py:402`, "without replacing an existing training attempt") promises
more than that.

Two attempts of SFT in one run also share the configuration: each writes the
identity, then the configuration, and its trainer reads what is there when it
starts. So a trainer may start from the adapter, or continue the run, that the
other attempt names. Of a configuration the model keeps what the invocation
decides (`Configuration`); everything else in it follows from the run. The code
meets the mix with a checksum: `checkpoint_model` and `continuation_source`
refuse a run whose configuration is not the one that the identity names
(`Checked`). `Provenance` states what this check is worth.

- The rows and the base are those of the record, with or without the check and
  whoever saved the checkpoint.
- A checkpoint of the recorded attempt, in a run that passes the check, has the
  adapter and the source of the record, provided the checksum tells attempts apart
  (`Telling`, over the history of attempts): nobody else in the run has the same
  settings, or everybody has. With two attempts that is always so. With three it
  need not be: A and C start from the base, B from an adapter; A's trainer reads
  B's configuration, C writes its own over that, and A's identity passes the check.
- A checkpoint of the other attempt, which the identity does not mention, may
  have another adapter or source even if the check passes. The code does not record
  which attempt saved a checkpoint, so such a checkpoint may be exported and
  evaluated under the identity that stands. `Provenance` does not speak of its
  adapter and source.

`checkpoint_model` reads the configuration and the identity one after the other and
`CheckpointModel` in one step; `TrainerEnds` allows the trainer to have failed, and the
set of validation losses to be wrong, whatever it saved.

### PlanActions, Plans (`plans/*.py`)

In PlanActions a policy drafts an action (`Draft`) and `Validate` is
`PlanAction.from_raw`; in Plans, which extends it, `Explain` is PostgreSQL, which may answer with any plan of `PlanSpace` whatever
the hints say, and `Verify` is `verify_action`. `Accepts` is the whole of the
validators, family by family, then across families (`NoConflict`); `Normal` is
the order in which an accepted action is kept, by Python's stable sort (`Sort`);
`Compile` its hints. `CatalogAssumption` and `ProposalAssumption` say which values
the fields of the schemas let through before the validators run. The
references are written without the code's algorithms: `MethodsUnder` is what
pg_hint_plan leaves to PostgreSQL under a hint, `PlanFor` builds a plan that
meets an accepted action, `Obeys` says of a plan, by sets of its nodes, what an
action asks for. Costs and counts are exponents of two or ten, kept on both sides of
each limit.

### TaskSelection (`taskset/selection.py`, `experiment/create.py`)

`Request` is what a user asks for, `SelectTasks` one expression of it
(`select_tasks`, the sample any of those the random choice can give) and
`ValidateSplits` the check at the end. Tasks are records, so that two of them
may share a text and two templates a topology. A selection lists its tasks by ID
(`Sorted`). `TaskAssumption` says what a catalog is, that an ID is of one task and a
text of one topology, and what `validate_task_ids` and `TaskSet.resolve` let through
of an imported dataset: another one is refused before it is read.

### Conversations (`sft/dataset.py`)

`LoadRecord`, `ReadMessage` and `EndRecord` read a source one message at a time,
with the local variables of `validate_conversation`; `RenderConversation`,
`Shuffle`, `FillRow` and `Packed` render and pack one split and then the other.
The renderer and the native packer are external: a rendering is any length with
or without targets, and a row any prefix of what is left that fits. That the
calls with invalid arguments, and those that evaluate a candidate, are among the calls
of a message is `SourceAssumption`; the code finds both by going through its calls.

### DrainTime (`rl/train.py`, `measure/timeouts.py`)

`CancellationTimeout` is computed as the launcher computes it. Beside it the
episodes of a drain spend time: in a statement up to its limit, in the two
requests of a model turn, each with its attempts, waits and the permits they
share; after a sleep (`Resume`) a request waits for a permit again. `Tick` lets a unit
pass only if nobody has to act first. `SettingsAssumption` is what the schemas of the
settings demand: positive counts and times, a retry's delay at least 0. Statement limits
and request timeouts are taken to hold, and everything else of an episode, its
inspections among it, to take no time; the grace period is for that.

### ModelClients (`model/client.py`, `model/schemas.py`, `agent/agent.py`)

`Connect` makes a client and, for a run that starts its server, looks at it;
`Count` builds the request and counts it where the provider can, `Generate` is the
provider, `ReadReply` and `RefuseReply` the rest of `generate`, `Act` the agent
until the next turn. `heard` is what the provider has seen and said. Items, the
parts of a request, differ by provider. `RestartServer` puts another local server
under the same address between two turns; within one turn, between counting and
generating, it stays. `ReplyAssumption` ties what a provider has produced to the
fields that the client reads of it: a local server and OpenRouter produce one item
of those fields, OpenAI a list of output items, which the client keeps as it is.

## 3. Runs

| Run | Question | Instance |
|---|---|---|
| `pool` | Is a worker ever shared or lost, wherever a cancel lands in `claim_worker`? Does the queue do what `WorkerLease` promises, and does a cancelled client leave although no worker ever comes back? | 2 workers, 3 cancellable clients, 1 other |
| `runtime` | Can a drain, a teardown or an acknowledgement miss a thread? Does a thread keep a worker while the model thinks, run a statement without a lease, or leak a permit? Do rollouts and drains end when everything is contended? | 2 rollouts, 1 worker, 1 permit, 2 turns |
| `rollout` | Is every record valid, does it follow the first decision, is nothing measured twice or erased, can the agent always still decide, and does it end? | 3 attempts, 5 turns, 3 plan keys, 2 pairs |
| `control` | Is an acknowledged cancel final, does a service run only its owner's episodes, can another trainer close it, does a trainer train on a service that is not its own? | 2 trainers, 1 episode, 2 starts |
| `control_live` | Does the cleanup end and is the loss of a service noticed? | 1 trainer, 2 starts, 2 timeouts to fail |
| `http_retry` | Does a request leave one completion however often it is sent, does it wait as the server asks and within its settings, is a permit lost, does it end if nobody answers? | 2 requests, 1 permit, 3 attempts |
| `lifecycle` | Is anything in Docker forgotten, someone else's removed, a project removed under a thread, or a pool lent that is not ready, whichever threads fail? Does a failed start close the pool? Can a cancelled start of the environment leave a pool open, or end before its thread? | 3 slots; a script, interrupted anywhere, or an environment, cancelled anywhere |
| `lifecycle_interrupt` | Does `_parallel` "finish active operations before ... allowing cleanup" if a second interrupt ends the wait for the threads? It does not. | 2 slots |
| `evaluation` | Is a report whole, final and honest about what failed, is nothing torn down under a rollout, and does an evaluation end, whatever fails or interrupts it? | 4 rollouts, 2 threads |
| `generation` | Is every attempt made and ended at most once over crashes, is what is published final, does the generator implement `AttemptLog`, does a generation that is run again reach its report? | 3 attempts, 2 threads, 1 slot, 2 crashes |
| `algorithms` | Do hints say what an action means? Is a proposal accepted, and as the same action, whatever its order, and only if a plan can meet it? Is the verdict on a plan its meaning? Are splits disjoint in text and topology? Is what is packed exactly what may be learned? Does the cancellation timeout cover every drain? Does each provider get its own history back? | 3 relations, 2 items; 3 expressions; 3 conversations of 4 messages; 2 or 3 episodes; 3 turns |
| `experiment` | Do outputs have one owner, is what is recorded of a training what it used although two attempts share its files, is an attempt ever replaced by a later one, does every invocation end? | 2 processes; 2 invocations of SFT and RL from three pasts, 3 of the others |

Most runs check a module's inductive invariant (`PoolInv`, `RuntimeInv`,
`ControlInv`, `EnvInv`, `EvaluationInv`, `GenerationInv`), or the conjunction of its
state properties (`RolloutInv`, `RetryInv`, `ExperimentInv`), whose named
parts are the module's safety properties, and beside it what depends on more than
one of them. No run uses symmetry but `control`, which has no liveness property.

All of them pass but `lifecycle_interrupt`, which is a finding. The docstring of
`ContainerPool._parallel` says that active operations finish before cleanup is
allowed. The wait for them is the exit of the executor, in the thread that was
interrupted; a second Ctrl-C there leaves it, and `start_pool` goes on to
`close` beside threads that still create, restore or start. They may create in
Docker what nobody removes any more: without `orphans = {}`, `NothingForgotten`
would fail too. `lifecycle` shows what holds in any case: nobody else's project
is removed and no pool is lent that is not ready. In the RL environment the owner
is not the main thread, and the case does not arise (`EnvHasItsPool`).

Two rollouts and one of each resource are the least for a contended wait: one
waits while the other leases, thinks or is drained. Three attempts let one
duplicate another that itself reused a third; the three plan keys are the
default's, one that repeats and one that does not. The third slot of
`lifecycle` is still queued while one fails and another runs. The fourth
rollout of `evaluation` is queued while others fail, stop and are stopped. Two
crashes of `generation` make a run that finds records of two earlier ones. A
second trainer is the one that is refused, and a second start is the service
that replaces a claimed one; more of either repeats what those do, and the
theorems of section 4 hold for any number.

The five components of `algorithms` have nothing to do with each other; a
behaviour is of one of them, and one run holds them all. Two items of an action
are the least that can contradict each other, and the least that have an order;
three relations in a chain have joins that are trees of two shapes and one that
is a cross product. The plans are all of those shapes, with every join method and
every scan of the middle relation, under a Gather or not. Three expressions select for three roles. Four
messages hold a reply with two calls, its answers and a second reply; a third
conversation lets one split have two. The settings of `DrainTime` have a case
for each term of the maximum. Three turns send a reply back twice.

A dataset and a training that `experiment` finds in run 0 stand for what longer
histories would have left there: with two more invocations a preparation is
resumed, trained on by two at once (with and without an initial adapter, so that
their configurations differ), continued, exported and evaluated. Three attempts
at once, of which a checksum may be that of two, are left to the theorem.

`MaxStatements`, `MaxTurns`, `MaxAttempts` of RlRuntime and `MaxCandidates`,
`MaxTurns`, `InspectionTurns` and the run counts of Rollout stand for settings
of the program. `MaxStarts` of EnvControl bounds restarts; only the model has
such a bound, and it enters no other guard; so has `MaxCrashes` of Generation.
`MaxStatements` bounds the statements of one operation, which the code bounds
by its settings.

Deadlock is checked only in `pool`, whose clients come back for ever. The other
systems end: a rollout at its record, a runtime when it is torn down, a trainer
after its cleanup.

### Fairness

- ContainerPool: each client's step inside `claim_worker` is weakly fair: its
  thread runs and `queue.get` returns by its timeout. The body of the `with`
  statement need not end.
- RlRuntime: each thread and each coroutine is weakly fair: it runs, and
  statements and model requests end (both have timeouts). No order among the
  waiters of the queue or of the semaphore is assumed; a waiter that is passed
  over gets its turn because the rollouts that pass it are finitely many and
  each of them ends.
- Rollout: the rollout's thread runs.
- PoolLifecycle, EnvStart: the threads and the coroutine run, and Docker's
  commands end. Nobody has to start, cancel, stop or interrupt anything.
- Evaluation: the threads and the main thread run, and rollouts end.
- Generation: the same, and a generation that was cut off is run again. A crash
  in the moment between the creation of the directory and of `identity.json`
  leaves a directory that every later run refuses; `GenerationFinishes` starts
  after it.
- HttpRetry: the requests' threads run, and an attempt ends by its timeout. The
  server may never answer.
- ExperimentRun: each process runs until its invocation ends: trainings,
  evaluations and calibrations end. Nothing has to be invoked, edited or killed.
- EnvControl: only the trainer's event loop runs and its timeouts expire.
  Nothing is assumed of the service, of the training process or of the network;
  both liveness properties are about their absence.

## 4. Proofs

For every value of the constants that satisfies the module's assumption:

**RlRuntime_proofs, the pool.** `PoolInv` is inductive: a slot is held exactly by
clients at the points `taken` and `using` (`SlotMatchesClaim`), the queue has no
repetition and nothing that is held (`QueueIsFree`), and each worker is in one
of both (`NoWorkerLost`). Exclusiveness alone is not inductive: the queue might
repeat a worker. `PoolImplementsLease` shows that every step lends one free
worker, takes one back or stutters. The lemma of each action is used again for
the threads of rollouts.

**RlRuntime_proofs, the runtime.** `RuntimeInv` adds to `PoolInv` that the episode outlives
its thread (`HarnessOutlivesThread`), that a thread's position determines what it
holds (`LeaseMatchesThread`), that the registry `work` contains every thread that
is not done (`RegistryComplete`), that what a drain waits for contains every such
thread from when the drain began (`DrainCovers`), and that permits are
free or with a thread in a request (`PermitsConserved`). It holds for both
scopes of a lease; the run has leases of one measurement. The two on drains are
what makes it inductive: that teardown removes containers only under no thread
follows from the snapshot the drain takes, because no episode is launched after
it. Its consequences are theorems of their own: `DrainsAreQuiet` and
`LeasesFitTheWork`, and their parts `HarnessOutlivesItsThread`,
`AcknowledgementIsFinal`, `TeardownIsSafe`, `StatementsAreLeased`,
`ModelTurnsHoldNoWorker`, `PermitsAreConserved`.

**EnvControl_proofs.** `ControlInv` has to say what is on its way. A trainer
sends at most one claim and sends it first (`RequestsInOrder`); a closed service
admits nothing more (`ServiceCoherent`); so, once a cancel is being drained or
was confirmed, no claim of that run is left that could give a later service to
it (`CancelIsFinal`), which is why an acknowledgement holds after a restart too.
That a reply names the service that gave it, and no later one
(`RepliesNameTheirService`), ties what the trainer believes to the service that
runs now. `AcknowledgementHolds`, `EpisodesAreTheClaims`, `OnlyTheOwnerCloses`
and `TrainingHasItsService` follow.

**PoolLifecycle_proofs.** `PoolInv` is inductive. What it says of the cleanup
is guarded by `orphans = {}`, and what it says of a pool that is lent is not. That a
pool which opens is ready does not follow from the last stage alone:
`LevelsFollow` ties what each slot has gone through to the stage and the slot's
own future, and says that it is in Docker until the pool closes. `EnvInvariant`
carries it over to EnvStart, where no thread is ever left behind, and adds what the
coroutine knows: a registered pool is open, and one whose thread has ended
without being registered is closed.

**Evaluation_proofs.** `EvaluationInv` is inductive. That a completed run is whole
needs `CauseIsNamed`: the main thread passes over cancelled rollouts while `stop`
is set; but `stop` is set only with a failure of the main thread or a fatal
result, and a rollout with a fatal result raises, so that the main thread cannot
have collected every future without noticing.

**Generation_proofs.** `GenerationInv` is inductive. An attempt with no record has
not begun and only those are queued; hence none is made twice. The process's
copy of a record that has ended is the record; hence what is published was made
from the files. `GenerationImplementsLog` maps each step to a step of
`AttemptLog` or to a stutter, under that invariant.

**Rollout_proofs.** `RolloutInv` speaks of the record at the end, `DecisionHolds`
of what a decision leads to and `EvidenceKept` of all attempts at once; none of
them is inductive. `IInv` adds what has been done when the thread gets to a point
(`Control`), that an attempt whose evaluation is over has the evidence its plan
calls for (`Attempts`), that an accepted decision can be scored and no attempt
comes after it (`Decision`), that only the decided candidate is executed in pairs
(`Pairs`), that a duplicate names the first attempt with its plan and has its
evidence (`Reuse`), and that a statement which was begun is running or kept
(`Counted`). `Reuse` is the hard part. It quantifies over two attempts, and the
one that is named must stay the first and keep its evidence while later ones come
to name it. `DecisionStands` shows of every step that a decision, once accepted,
is neither replaced nor withdrawn.

**Algorithms_proofs, requests.** `RetryInv` needs to know why a request leaves one
completion: its key is drawn once, before its first attempt, and all that is on
its way or recorded carries it, an attempt that the client has given up included
(`OneKey`). A request that sleeps has an attempt left and a wait within its cap
(`SleepsWithin`). Permits are counted: those that are free and the requests being
sent make up the limit.

**Algorithms_proofs, model turns.** `HistoryIsWhole` speaks of a request that has
been made. `TurnInv` says the same of the one that the transcript would make now
(`Continues`): what the provider has heard is a beginning of it, and nothing is
missing when a reply has been read. A message more adds its items at the end
(`OneMessageMore`), whatever came before. That is a fact about `FlattenSeq`, which
the community modules define by a recursive function. `FlattenUnique` and
`FlattenExists` say that its equation has one solution, by the least index at which
two solutions differ and the least length that has none, since the induction
theorems cannot be used; `FlattenAppend` follows.

**Algorithms_proofs, drains.** `DrainInv` bounds what is still to come. A statement
has what is left of its limit (`StatementsFit`). When there is a permit for each
episode, a turn has its own attempts and sleeps (`TurnsFit`). When there are fewer
it also waits for others, for which there is no bound episode by episode;
`QueuedTurnsFit` bounds the turns together. An account sums up, episode by episode,
what they still need. In every unit of time somebody who holds a permit, or sleeps,
goes on, so that what all of them need falls as the clock rises. The rest is
arithmetic: the launcher's three terms cover those bounds for all settings
(`LimitIsLongEnough`).

**Algorithms_proofs, splits.** `SelectionInv` says of each selection by itself that
it is of its benchmark, lists each task once and none that is excluded (`Sound`). That
two of them share nothing is what `ValidateSplits` has found at the end. It goes
over the roles and collects owners of topologies; `OwnersOfSplits` unfolds it for the
three roles, and by `TopologiesApart` no topology has two owners. Tasks of one text
have one topology, so no text is shared either.

**Algorithms_proofs, datasets.** `PackedIsWhatIsLearned` speaks of a dataset that is
prepared; `DatasetInv` says how it gets there. `calls`, `pending`, `evaluated` and
`skipped` are what `WellFormed` and `Wrong`, which look at a whole history, say of the
messages so far (`ReadOK`). Here it matters that an answer has its call waiting: the
first answer to a call is the only one, so that whether a candidate was refused is
decided once. What is rendered is all of the splits done and a beginning of the next,
which is contiguous because a source lists one split after the other (`SourceOK`,
`RenderOK`). The rows of a split laid end to end, followed by what is still to be
packed, are its accepted requests, each once (`Holds`): a shuffle lists a finite set
(`FiniteRequests`, `ShuffledSet`), and a row takes a beginning of what is left
(`SplitSequence`, `RowTaken`). `AcceptedIsLearned` compares the code's rejections
with what is worth learning.

**Algorithms_proofs, plan actions.** `OrderIsIrrelevant` compares a proposal with one
shuffle of it; `AnyOrder` says the same of any two listings of the same items
(`Rearranged`), from which the property follows, since a shuffle and the action itself
are such listings. In a list whose items are all told apart by the order they are sorted
by (`Orders`), the place of an item is the number of items before it (`Ahead`): ranks
follow the order and differ, so every place is taken (`ArrangementInOrder`), and a list
in order is the only one (`OneArrangement`). Lists of relations are in a total order
(`BeforeTotal`, `BeforeTransitive`), and targets that are told apart as sets are told
apart as sorted lists, which is why the rejection of duplicates, after the relations
of each item are sorted, makes the sort of the items unique. Validation asks of a list
what is true of the set of its items or of pairs of them; only the walk over the join
graph starts at the first relation listed, and in an undirected graph it reaches all
from any (`ReachedFromAny`). `ActionInv` adds the types of the items, and that an
accepted action would be accepted again. `HintsSayTheAction` then needs no more than
what the validators ask of one constraint (`JoinSaid`, `ScanSaid`) and, hint by hint,
what the two tables say (`JoinHintPermits`, `ScanHintPermits`).

**ExperimentRun_proofs.** `ExperimentInv` follows from `IInv`, which is inductive
for finitely many processes. `IInv` says what a process has found or made in its
run (`Placed`), what a run is whoever uses it (`RunStands`) and what two processes
in one run do not share (`Apart`); a step keeps it when the others in the run keep
what they rely on. `mkdir` decides who has a run, a dataset or a slot. A run that
is being copied, and may be removed again, has nobody else in it: its inputs are
not there to be compared. Whoever renders finds the tokenizer of the identity that
one process has recorded. That a number for each invocation suffices is a count:
a number that is taken or tried is at most the invocations so far less those that
still want one. `AttemptsStand` adds `AttemptInv`: an identity is only there with
its training directory; who has passed the check for that directory was invoked
before any identity found there later was recorded; of RL only the process that
made the directory gets so far. `ProvenanceInvariant` adds `ProvInv`. Two
attempts of SFT may be in one run at once, and the checkpoints there may be of
either. Each of them is nevertheless of the base that the identity names, because
no base changes under a process (an assumption of the model, see section 2), and
of its rows. Its adapter and source are those of the settings of its own attempt,
or that attempt is `Overtaken`: the configuration in the run is no longer its own,
or is also that of another attempt (`Configured`; `Configures` says the same of a
trainer that has read its configuration). No step undoes that, because an attempt
writes its configuration before its trainer starts and an invocation saves nothing
before that (`OvertakenGrows`). An identity that passes the check, where the
checksum tells, is not overtaken. Rows that a report
names are packed again as they were: whoever packs again renders with the same
tokenizer (`IInv`). So what a process has found in its run lasts until it acts on
it, whatever the others do there (`Grown`, `GrownTrains`).

TLC checked each inductive invariant before it was relied on, those that a run lists
as an invariant of the run, the others (`IInv` of Rollout, HttpRetry and
ExperimentRun, `ProvInv`, and `TurnInv`, `DrainInv`, `SelectionInv`, `DatasetInv`,
`ActionInv`) on
the instances of `rollout`, `http_retry`, `experiment` and `algorithms`. For TLC the
account of `DrainInv` was the least one, a list that continues another was compared
at its beginning, and the type of `rendered`, an infinite set of functions, was left out.

Every action property, the two refinements and every invariant but the two of
Plans are theorems. Only model-checked:

- the liveness properties: TLAPS proves neither fairness nor `ENABLED`;
- `AcceptedIsSatisfiable`, `VerdictIsMeaning` (Plans): they say what functions compute
  of trees of any depth, which would be an induction over them, and Plans declares
  RECURSIVE operators, with which TLAPS has no SMT backend. What an action is before
  there is a plan is apart, in PlanActions, so that it can be proved about.

## 5. Not modelled

`PROJECT.json` lists every component with its status. Wording, prompts, reports
and serialisation carry no state; the optimisation loop, tokenisation and packing
are external libraries; Docker, PostgreSQL and the inference server appear by
their outcomes (a statement succeeds, times out or fails; a service answers or
not). The configurations written for a trainer or a server are pure mappings of
settings. Of calibration only its ownership in a run is modelled.

That drains end when a lease lasts a whole episode (`rl/harness.py:129`), where a
waiting thread hears no cancel, is not checked; the safety properties are proved
for it. Nothing says that a directory which a crash left without its identity
(`sft/generate.py:308`, `sft/dataset.py:601`) can be used again: every later run
refuses it.

## 6. Plan

Next: **Calibration** (`measure/calibration.py`: adaptive warmups, failure of one
task of several); the numbering and rollback of `create_experiment` beside other
creations; start-up, polling and stop of the local server (`inference/local.py`).

Theorems to add: the invariants of those components. Of the others the two invariants
of Plans are left; recursive functions over the nodes of a plan in place of its
RECURSIVE operators would allow lemmas about one level of a tree.
