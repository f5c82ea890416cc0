------------------------------ MODULE EnvControl ------------------------------
(***************************************************************************)
(* The control exchange between the environment service of one host        *)
(* (qorl.rl.server) and the trainers that would use it (qorl.rl.train).  A *)
(* trainer claims the service for its run, has it probe the inference      *)
(* server, monitors its identity while it trains, and cancels its work     *)
(* before it ends.  Either side may stop at any time, the service may be   *)
(* restarted, and a request or a reply may come too late.                  *)
(*                                                                         *)
(* A trainer is                                                            *)
(*                                                                         *)
(*   "waiting"     for the service      "cleanup"     about to cancel      *)
(*   "claiming"    until the reply      "cancelling"  until the reply      *)
(*   "starting"    until the probe      "stopping"    its process          *)
(*   "training"                         "ended"                            *)
(*                                                                         *)
(* and an episode of its run "none", "sent", "probing" (admitted by _run), *)
(* "running", "unwinding" (cancelled) or "over".  How a drain waits for    *)
(* the threads of its episodes is the subject of RlRuntime.                *)
(***************************************************************************)
EXTENDS Integers, Sequences

CONSTANTS Trainers,     \* one training invocation each, with its own run_id
          Episodes,     \* the episodes that their processes may request
          HealthLimit,  \* HEALTH_TIMEOUT_LIMIT
          MaxStarts,    \* bound on the times the service is started
          NoRun         \* no claim

ASSUME ControlAssumption ==
    /\ {HealthLimit, MaxStarts} \subseteq Nat \ {0}
    /\ NoRun \notin Trainers

VARIABLES up,         \* a service process runs
          serviceId,  \* its service_id; a restarted service has a new one
          claim,      \* server.claim, by the run that made it
          ready,      \* server.inference_ready
          closed,     \* server.closed_to_work
          handling,   \* control requests whose handler awaits
          episode,    \* the state of each episode
          run,        \* the run each episode belongs to
          inbox,      \* control requests on their way, per trainer; those of
                      \* the monitor, which change nothing, have no order
          phase,      \* the launch coroutine of each trainer
          answer,     \* the reply to each request a trainer awaits
          known,      \* the service_id it claimed
          monitor,    \* its monitor task
          misses,     \* consecutive timeouts of the monitor
          process,    \* the native training and inference process
          cleanup     \* the cleanup record

serviceVars == <<up, serviceId, claim, ready, closed, handling>>
episodeVars == <<episode, run>>
monitorVars == <<known, monitor, misses>>
vars == <<serviceVars, episodeVars, inbox, phase, answer, monitorVars, process,
          cleanup>>

Operations == {"claim", "probe", "identity", "cancel"}
Ids == 1 .. MaxStarts

\* Nobody awaits the reply; it is awaited; it is an error; the service that
\* answered.
Answers == {"idle", "awaited", "error"} \X {0} \cup {"identity"} \X Ids

Idle == <<"idle", 0>>
Awaited == <<"awaited", 0>>
Error == <<"error", 0>>
From(id) == <<"identity", id>>

TypeOK ==
    /\ {up, ready, closed} \subseteq BOOLEAN
    /\ serviceId \in 0 .. MaxStarts
    /\ claim \in Trainers \cup {NoRun}
    /\ handling \subseteq {"probe", "cancel"} \X Trainers
    /\ episode \in [Episodes -> {"none", "sent", "probing", "running",
                                 "unwinding", "over"}]
    /\ run \in [Episodes -> Trainers \cup {NoRun}]
    /\ inbox \in [Trainers -> Seq(Operations \ {"identity"})]
    /\ phase \in [Trainers -> {"waiting", "claiming", "starting", "training",
                               "cleanup", "cancelling", "stopping", "ended"}]
    /\ answer \in [Trainers -> [Operations -> Answers]]
    /\ known \in [Trainers -> 0 .. MaxStarts]
    /\ monitor \in [Trainers -> {"off", "asking", "asleep", "failed"}]
    /\ misses \in [Trainers -> 0 .. HealthLimit]
    /\ process \in [Trainers -> {"none", "running", "exited"}]
    /\ cleanup \in [Trainers -> {"none", "acknowledged", "unknown"}]

Init ==
    /\ up = FALSE /\ serviceId = 0
    /\ claim = NoRun /\ ready = FALSE /\ closed = FALSE /\ handling = {}
    /\ episode = [e \in Episodes |-> "none"]
    /\ run = [e \in Episodes |-> NoRun]
    /\ inbox = [t \in Trainers |-> <<>>]
    /\ phase = [t \in Trainers |-> "waiting"]
    /\ answer = [t \in Trainers |-> [o \in Operations |-> Idle]]
    /\ known = [t \in Trainers |-> 0]
    /\ monitor = [t \in Trainers |-> "off"]
    /\ misses = [t \in Trainers |-> 0]
    /\ process = [t \in Trainers |-> "none"]
    /\ cleanup = [t \in Trainers |-> "none"]

-----------------------------------------------------------------------------
(* Requests and replies.  A reply to a request that nobody awaits any more *)
(* is dropped; the request itself may still be handled.                    *)

Send(t, o) ==
    /\ inbox' = [inbox EXCEPT ![t] = Append(@, o)]
    /\ answer' = [answer EXCEPT ![t][o] = Awaited]

Reply(t, o, a) ==
    answer' = [answer EXCEPT ![t][o] = IF @ = Awaited THEN a ELSE @]

Answered(t, o) == answer[t][o][1] = "identity"
GivesUp(t, o) == answer[t][o] \in {Awaited, Error}

-----------------------------------------------------------------------------
(* The service.                                                            *)

TrainerUnchanged == UNCHANGED <<phase, monitorVars, process, cleanup>>

InService == {"probing", "running", "unwinding"}

\* serve: a lock of the host allows one service at a time.
StartService ==
    /\ ~up /\ serviceId < MaxStarts
    /\ up' = TRUE /\ serviceId' = serviceId + 1
    /\ UNCHANGED <<claim, ready, closed, handling, episodeVars, inbox, answer>>
    /\ TrainerUnchanged

\* The service stops or crashes, its episodes with it (RlRuntime: a service that
\* stops waits for their threads).  What was on its way is
\* lost, or delivered to the next one.
StopService ==
    /\ up
    /\ up' = FALSE
    /\ claim' = NoRun /\ ready' = FALSE /\ closed' = FALSE /\ handling' = {}
    /\ episode' = [e \in Episodes |-> IF episode[e] \in InService THEN "over"
                                      ELSE episode[e]]
    /\ \E lost \in SUBSET Trainers :
          inbox' = [t \in Trainers |-> IF t \in lost THEN <<>> ELSE inbox[t]]
    /\ UNCHANGED <<serviceId, run, answer>> /\ TrainerUnchanged

\* Mutant: a service that is claimed accepts another claim.
ClaimableAgain(t) == ~closed

Claimable(t) == ~closed /\ claim \in {NoRun, t}

\* Refused, or accepted; the record of a claim that was accepted may fail to be
\* written, and the reply is then an error.
HandleClaim(t) ==
    /\ \/ UNCHANGED claim /\ Reply(t, "claim", Error)
       \/ /\ Claimable(t)
          /\ claim' = t
          /\ \E a \in {From(serviceId), Error} : Reply(t, "claim", a)
    /\ UNCHANGED <<ready, closed, handling, episode>>

\* An identity request changes nothing but its reply.
HandleIdentity(t) ==
    /\ up /\ answer[t]["identity"] = Awaited
    /\ Reply(t, "identity", From(serviceId))
    /\ UNCHANGED <<serviceVars, episodeVars, inbox>> /\ TrainerUnchanged

\* Mutant: probe and cancel do not compare the run.
OwnsClaimed(t) == claim # NoRun

Owns(t) == claim = t

HandleProbe(t) ==
    /\ IF Owns(t)
       THEN handling' = handling \cup {<<"probe", t>>} /\ UNCHANGED answer
       ELSE Reply(t, "probe", Error) /\ UNCHANGED handling
    /\ UNCHANGED <<claim, ready, closed, episode>>

CancelEpisodes ==
    episode' = [e \in Episodes |->
                  IF episode[e] = "probing" THEN "over"
                  ELSE IF episode[e] = "running" THEN "unwinding"
                  ELSE episode[e]]

\* Mutant: a cancelled service goes on admitting episodes.
HandleCancelOpen(t) ==
    /\ IF Owns(t)
       THEN /\ handling' = handling \cup {<<"cancel", t>>}
            /\ CancelEpisodes
            /\ UNCHANGED <<answer, closed>>
       ELSE Reply(t, "cancel", Error) /\ UNCHANGED <<closed, handling, episode>>
    /\ UNCHANGED <<claim, ready>>

HandleCancel(t) ==
    /\ IF Owns(t)
       THEN /\ closed' = TRUE
            /\ handling' = handling \cup {<<"cancel", t>>}
            /\ CancelEpisodes
            /\ UNCHANGED answer
       ELSE Reply(t, "cancel", Error) /\ UNCHANGED <<closed, handling, episode>>
    /\ UNCHANGED <<claim, ready>>

\* _handle, up to the first await of the request's handler.
Receive(t) ==
    /\ up /\ inbox[t] # <<>>
    /\ inbox' = [inbox EXCEPT ![t] = Tail(@)]
    /\ \/ Head(inbox[t]) = "claim" /\ HandleClaim(t)
       \/ Head(inbox[t]) = "probe" /\ HandleProbe(t)
       \/ Head(inbox[t]) = "cancel" /\ HandleCancel(t)
    /\ UNCHANGED <<up, serviceId, run>> /\ TrainerUnchanged

\* The inference server, which the claiming trainer's process starts, serves
\* the claimed model.
Reachable == claim # NoRun /\ process[claim] = "running"

\* Mutant: the probe answers before the inference server does.
ProbedAnyway == UNCHANGED ready

Probed == (ready \/ Reachable) /\ ready' = TRUE

ProbeReturns(t) ==
    /\ up /\ <<"probe", t>> \in handling
    /\ handling' = handling \ {<<"probe", t>>}
    /\ \/ Probed /\ Reply(t, "probe", From(serviceId))
       \/ ~ready /\ Reply(t, "probe", Error) /\ UNCHANGED ready
    /\ UNCHANGED <<up, serviceId, claim, closed, episodeVars, inbox>>
    /\ TrainerUnchanged

\* drain returns when no thread is left of the harnesses it cancelled.
Drained == \A e \in Episodes : episode[e] \notin {"running", "unwinding"}

\* The reply is an error if the identity cannot be written.
DrainReturns(t) ==
    /\ up /\ <<"cancel", t>> \in handling
    /\ Drained
    /\ handling' = handling \ {<<"cancel", t>>}
    /\ \E a \in {From(serviceId), Error} : Reply(t, "cancel", a)
    /\ UNCHANGED <<up, serviceId, claim, ready, closed, episodeVars, inbox>>
    /\ TrainerUnchanged

-----------------------------------------------------------------------------
(* Episodes.                                                               *)

EpisodeUnchanged == UNCHANGED <<up, serviceId, claim, closed, handling, inbox,
                                answer>> /\ TrainerUnchanged

\* The orchestrator does not wait for the trainer to have verified readiness.
SendEpisode(e, t) ==
    /\ episode[e] = "none" /\ process[t] = "running"
    /\ episode' = [episode EXCEPT ![e] = "sent"]
    /\ run' = [run EXCEPT ![e] = t]
    /\ UNCHANGED ready /\ EpisodeUnchanged

Admissible(e) == ~closed /\ run[e] = claim

\* The checks of _run; those of the task and of its client may fail too.
AdmitEpisode(e) ==
    /\ up /\ episode[e] = "sent"
    /\ \/ Admissible(e) /\ episode' = [episode EXCEPT ![e] = "probing"]
       \/ episode' = [episode EXCEPT ![e] = "over"]
    /\ UNCHANGED <<run, ready>> /\ EpisodeUnchanged

EpisodeProbed(e) ==
    /\ episode[e] = "probing"
    /\ \/ Probed /\ episode' = [episode EXCEPT ![e] = "running"]
       \/ ~ready /\ UNCHANGED ready /\ episode' = [episode EXCEPT ![e] = "over"]
    /\ UNCHANGED run /\ EpisodeUnchanged

EpisodeEnds(e) ==
    /\ episode[e] \in {"running", "unwinding"}
    /\ episode' = [episode EXCEPT ![e] = "over"]
    /\ UNCHANGED <<run, ready>> /\ EpisodeUnchanged

-----------------------------------------------------------------------------
(* The trainer's monitor task.                                             *)

Become(t, p) == phase' = [phase EXCEPT ![t] = p]
MonitorStep == UNCHANGED <<serviceVars, episodeVars, inbox, phase, known,
                           process, cleanup>>

AskIdentity(t) ==
    /\ monitor[t] = "asleep"
    /\ monitor' = [monitor EXCEPT ![t] = "asking"]
    /\ answer' = [answer EXCEPT ![t]["identity"] = Awaited]
    /\ UNCHANGED misses /\ MonitorStep

\* Mutant: any service that answers is the claimed one.
SameServiceAny(t) == TRUE

SameService(t) == answer[t]["identity"] = From(known[t])

HearIdentity(t) ==
    /\ monitor[t] = "asking" /\ Answered(t, "identity")
    /\ answer' = [answer EXCEPT ![t]["identity"] = Idle]
    /\ IF SameService(t)
       THEN /\ monitor' = [monitor EXCEPT ![t] = "asleep"]
            /\ misses' = [misses EXCEPT ![t] = 0]
       ELSE /\ monitor' = [monitor EXCEPT ![t] = "failed"]
            /\ UNCHANGED misses
    /\ MonitorStep

MissIdentity(t) ==
    /\ monitor[t] = "asking" /\ answer[t]["identity"] = Awaited
    /\ answer' = [answer EXCEPT ![t]["identity"] = Idle]
    /\ misses' = [misses EXCEPT ![t] = @ + 1]
    /\ monitor' = [monitor EXCEPT ![t] = IF misses'[t] >= HealthLimit
                                         THEN "failed" ELSE "asleep"]
    /\ MonitorStep

-----------------------------------------------------------------------------
(* launch.                                                                 *)

LaunchStep == UNCHANGED <<serviceVars, episodeVars>>

SendClaim(t) ==
    /\ phase[t] = "waiting" /\ up
    /\ Become(t, "claiming")
    /\ Send(t, "claim")
    /\ UNCHANGED <<monitorVars, process, cleanup>> /\ LaunchStep

\* The monitor, the process and the probe start together.
Claimed(t) ==
    /\ phase[t] = "claiming" /\ Answered(t, "claim")
    /\ Become(t, "starting")
    /\ known' = [known EXCEPT ![t] = answer[t]["claim"][2]]
    /\ monitor' = [monitor EXCEPT ![t] = "asleep"]
    /\ process' = [process EXCEPT ![t] = "running"]
    /\ Send(t, "probe")
    /\ UNCHANGED <<misses, cleanup>> /\ LaunchStep

Verified(t) ==
    /\ phase[t] = "starting" /\ Answered(t, "probe")
    /\ Become(t, "training")
    /\ UNCHANGED <<inbox, answer, monitorVars, process, cleanup>> /\ LaunchStep

ProcessExits(t) ==
    /\ process[t] = "running"
    /\ process' = [process EXCEPT ![t] = "exited"]
    /\ UNCHANGED <<inbox, phase, answer, monitorVars, cleanup>> /\ LaunchStep

\* The service does not start, refuses or does not answer; the monitor fails;
\* the process exits, after its training or before.
Leaving(t) ==
    \/ phase[t] = "waiting" /\ ~up
    \/ phase[t] = "claiming" /\ GivesUp(t, "claim")
    \/ phase[t] = "starting" /\ GivesUp(t, "probe")
    \/ phase[t] \in {"starting", "training"} /\ monitor[t] = "failed"
    \/ phase[t] \in {"starting", "training"} /\ process[t] = "exited"

BeforeCleanup == {"waiting", "claiming", "starting", "training"}

LeaveTry(t) ==
    /\ Become(t, "cleanup")
    /\ UNCHANGED <<inbox, answer, monitorVars, process, cleanup>> /\ LaunchStep

Leaves(t) == Leaving(t) /\ LeaveTry(t)

\* An interrupt, or an error of the launch itself.
Interrupt(t) == phase[t] \in BeforeCleanup /\ LeaveTry(t)

SendCancel(t) ==
    /\ phase[t] = "cleanup"
    /\ Become(t, "cancelling")
    /\ Send(t, "cancel")
    /\ UNCHANGED <<monitorVars, process, cleanup>> /\ LaunchStep

Settle(t, record) ==
    /\ Become(t, "stopping")
    /\ cleanup' = [cleanup EXCEPT ![t] = record]
    /\ UNCHANGED <<inbox, answer, monitorVars, process>> /\ LaunchStep

CancelAcknowledged(t) ==
    /\ phase[t] = "cancelling" /\ Answered(t, "cancel")
    /\ Settle(t, "acknowledged")

\* Mutant: only an answer ends the wait.
CancelRefused(t) ==
    /\ phase[t] = "cancelling" /\ answer[t]["cancel"] = Error
    /\ Settle(t, "unknown")

\* The cancel is refused, its reply does not come in time, or the monitor that
\* was healthy has failed.
CancelUnknown(t) ==
    /\ phase[t] = "cancelling" /\ GivesUp(t, "cancel")
    /\ Settle(t, "unknown")

\* The process is terminated or killed and every task is cancelled; requests
\* that were not sent yet are lost with the socket, or sent.
StopProcess(t) ==
    /\ phase[t] = "stopping"
    /\ Become(t, "ended")
    /\ process' = [process EXCEPT ![t] = IF @ = "running" THEN "exited" ELSE @]
    /\ monitor' = [monitor EXCEPT ![t] = "off"]
    /\ answer' = [answer EXCEPT ![t] = [o \in Operations |-> Idle]]
    /\ \/ UNCHANGED inbox
       \/ inbox' = [inbox EXCEPT ![t] = <<>>]
    /\ UNCHANGED <<known, misses, cleanup>> /\ LaunchStep

-----------------------------------------------------------------------------
Monitor(t) == AskIdentity(t) \/ HearIdentity(t) \/ MissIdentity(t)

Launch(t) ==
    \/ SendClaim(t) \/ Claimed(t) \/ Verified(t) \/ Leaves(t)
    \/ SendCancel(t) \/ CancelAcknowledged(t) \/ CancelUnknown(t)
    \/ StopProcess(t)

EpisodeStep(e) ==
    \/ (\E t \in Trainers : SendEpisode(e, t))
    \/ AdmitEpisode(e) \/ EpisodeProbed(e) \/ EpisodeEnds(e)

Next ==
    \/ StartService \/ StopService
    \/ \E t \in Trainers :
          \/ Receive(t) \/ HandleIdentity(t) \/ ProbeReturns(t) \/ DrainReturns(t)
          \/ Monitor(t) \/ Launch(t) \/ ProcessExits(t) \/ Interrupt(t)
    \/ \E e \in Episodes : EpisodeStep(e)

Spec == Init /\ [][Next]_vars

\* The trainer's event loop runs and its timeouts expire.  Nothing is assumed of
\* the service, of the process or of the network.
FairSpec ==
    /\ Spec
    /\ \A t \in Trainers : WF_vars(Monitor(t)) /\ WF_vars(Launch(t))

-----------------------------------------------------------------------------
(* The trainer that reads an acknowledgement in its cleanup record may     *)
(* rely on it: no episode of its run is in any service, nor will be, also  *)
(* when the service restarts or a request of the run is still on its way.  *)
AcknowledgedIsFinal ==
    \A t \in Trainers, e \in Episodes :
        cleanup[t] = "acknowledged" /\ run[e] = t => episode[e] \notin InService

(* The episodes in a service are those of the run that claimed it, started *)
(* after the probe of its inference server (server._run, server.probe).    *)
EpisodesOfTheClaim ==
    \A e \in Episodes :
        /\ episode[e] \in InService => up /\ run[e] = claim
        /\ episode[e] \in {"running", "unwinding"} => ready

(* A service stops taking work only for the trainer that claimed it, and   *)
(* only when that trainer is done: a refused trainer cleans up too, and    *)
(* its cancel leaves the owner alone (server.control).                     *)
ClosedByOwner ==
    up /\ closed => claim # NoRun /\ phase[claim] \notin BeforeCleanup

(* A trainer that trains is the owner of the service it knows, whose       *)
(* inference server was verified for its run, unless that service has been *)
(* replaced (train.launch).                                                *)
TrainingIsBacked ==
    \A t \in Trainers :
        phase[t] \in {"starting", "training"} /\ up /\ serviceId = known[t]
            => claim = t /\ ~closed /\ (phase[t] = "training" => ready)

(* The inductive invariant.  A trainer's claim travels before its cancel,  *)
(* so that once the cancel is handled no claim of the run can reopen a     *)
(* service; a closed service is quiet but for the episodes the drain waits *)
(* for; a reply names the service that gave it.                            *)
Pending(t, o) == \E i \in DOMAIN inbox[t] : inbox[t][i] = o

RequestsInOrder ==
    \A t \in Trainers :
        /\ phase[t] = "waiting" => inbox[t] = <<>> /\ claim # t
        /\ \A i \in DOMAIN inbox[t] : inbox[t][i] = "claim" => i = 1
        /\ Pending(t, "cancel") => phase[t] \in {"cancelling", "stopping", "ended"}

ServiceCoherent ==
    /\ up => serviceId > 0
    /\ ~up => claim = NoRun /\ ~ready /\ ~closed /\ handling = {}
    /\ closed => /\ claim # NoRun
                 /\ phase[claim] \in {"cancelling", "stopping", "ended"}
                 /\ \A e \in Episodes : episode[e] # "probing"
    /\ \A h \in handling : h[2] = claim
    /\ \A t \in Trainers : <<"cancel", t>> \in handling => closed
    /\ \A e \in Episodes : episode[e] # "none" => run[e] # NoRun

Confirmed(t) == Answered(t, "cancel") \/ cleanup[t] = "acknowledged"

AwaitsInCleanup(t) ==
    /\ answer[t]["cancel"] # Idle => phase[t] \in {"cancelling", "stopping"}
    /\ cleanup[t] # "none" => phase[t] \in {"stopping", "ended"}

NoClaimAfterCancel(t) ==
    <<"cancel", t>> \in handling \/ Confirmed(t) => ~Pending(t, "claim")

QuietAfterCancel(t) ==
    Confirmed(t) =>
        /\ claim = t => closed
        /\ \A e \in Episodes : run[e] = t => episode[e] \notin InService

CancelIsFinal ==
    \A t \in Trainers :
        AwaitsInCleanup(t) /\ NoClaimAfterCancel(t) /\ QuietAfterCancel(t)

RepliesAreKnown(t) ==
    /\ \A o \in Operations : Answered(t, o) => answer[t][o][2] <= serviceId
    /\ known[t] <= serviceId

ClaimReply(t) ==
    /\ Answered(t, "claim") /\ up /\ answer[t]["claim"][2] = serviceId => claim = t
    /\ phase[t] \in {"starting", "training"} =>
          Answered(t, "claim") /\ known[t] = answer[t]["claim"][2]

ProbeReply(t) ==
    /\ answer[t]["probe"] # Idle => phase[t] \notin {"waiting", "claiming"}
    /\ phase[t] = "training" => Answered(t, "probe")
    /\ Answered(t, "probe") =>
          /\ known[t] <= answer[t]["probe"][2]
          /\ up /\ answer[t]["probe"][2] = serviceId => ready

RepliesNameTheirService ==
    \A t \in Trainers : RepliesAreKnown(t) /\ ClaimReply(t) /\ ProbeReply(t)

MonitorCounts ==
    \A t \in Trainers :
        /\ phase[t] \in {"waiting", "claiming", "ended"} => monitor[t] = "off"
        /\ monitor[t] # "failed" /\ phase[t] # "ended" => misses[t] < HealthLimit

ControlInv ==
    /\ TypeOK
    /\ EpisodesOfTheClaim
    /\ RequestsInOrder
    /\ ServiceCoherent
    /\ CancelIsFinal
    /\ RepliesNameTheirService
    /\ MonitorCounts

(* Cleaning up ends, also when the service is gone or never answers        *)
(* (train.launch, cleanup).                                                *)
CleanupEnds ==
    \A t \in Trainers : phase[t] = "cleanup" ~> phase[t] = "ended"

(* A service that stops, or is replaced, while a trainer relies on it is   *)
(* noticed: the trainer does not train against it for ever                 *)
(* (server.QorlEnvClient.monitor).                                         *)
LossIsNoticed ==
    \A t \in Trainers :
        phase[t] \in {"starting", "training"} /\ (~up \/ serviceId # known[t])
            ~> phase[t] = "ended"
=============================================================================
