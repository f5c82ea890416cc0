-------------------------- MODULE EnvControl_proofs --------------------------
(***************************************************************************)
(* What a trainer knows of its service stays true, for every number of     *)
(* trainers, episodes, restarts and every health limit.  What is hard is   *)
(* the control messages that are still on their way when things change:    *)
(*                                                                         *)
(*   RequestsInOrder          a claim is sent once, before anything else,  *)
(*                            and a cancel only in the cleanup;            *)
(*   CancelIsFinal            so, when a cancel is handled, no claim of    *)
(*                            its run is left for this service or a later  *)
(*                            one, and none of its episodes is in it;      *)
(*   RepliesNameTheirService  a reply names the service that gave it, so   *)
(*                            it speaks of the one that runs only if the   *)
(*                            two are the same.                            *)
(*                                                                         *)
(* There is a lemma for each action.  The conjuncts that mention nothing   *)
(* of what it changes are one step of the lemma.                           *)
(***************************************************************************)
EXTENDS EnvControl, TLAPS

(* The answers are told apart by their first component.                    *)
LEMMA AnswerFacts ==
    /\ {Idle, Awaited, Error} \subseteq Answers
    /\ \A id \in Ids : From(id) \in Answers
    /\ \A id : From(id)[1] = "identity" /\ From(id)[2] = id
    /\ \A id : From(id) \notin {Idle, Awaited, Error}
    /\ Idle[1] # "identity" /\ Awaited[1] # "identity" /\ Error[1] # "identity"
    /\ Idle # Awaited /\ Idle # Error /\ Awaited # Error
    /\ \A a \in Answers : a[1] = "identity" => a[2] \in Ids
  BY DEF Answers, Idle, Awaited, Error, From

(* A reply reaches only a request that is awaited.                         *)
LEMMA ReplyFacts ==
    ASSUME TypeOK, NEW t \in Trainers, NEW o \in Operations, NEW a \in Answers,
           Reply(t, o, a)
    PROVE  /\ answer' \in [Trainers -> [Operations -> Answers]]
           /\ answer'[t][o] = IF answer[t][o] = Awaited THEN a ELSE answer[t][o]
           /\ \A u \in Trainers, p \in Operations :
                 u # t \/ p # o => answer'[u][p] = answer[u][p]
  BY DEF Reply, TypeOK

(* Reading the head of an inbox leaves the others, and what follows it.    *)
LEMMA TailFacts ==
    ASSUME TypeOK, NEW t \in Trainers, inbox[t] # <<>>,
           inbox' = [inbox EXCEPT ![t] = Tail(@)]
    PROVE  /\ inbox' \in [Trainers -> Seq(Operations \ {"identity"})]
           /\ \A u \in Trainers : u # t => inbox'[u] = inbox[u]
           /\ \A i \in DOMAIN inbox'[t] :
                 /\ i \in Nat \ {0}
                 /\ i + 1 \in DOMAIN inbox[t] /\ inbox'[t][i] = inbox[t][i + 1]
           /\ 1 \in DOMAIN inbox[t] /\ inbox[t][1] = Head(inbox[t])
           /\ \A u \in Trainers : \A i \in DOMAIN inbox[u] : i \in Nat
  <1> DEFINE S == Seq(Operations \ {"identity"})
  <1>1. inbox \in [Trainers -> S]
    BY DEF TypeOK
  <1>2. \A s \in S : s # <<>> =>
           /\ Tail(s) \in S
           /\ \A i \in DOMAIN Tail(s) : /\ i \in Nat \ {0} /\ i + 1 \in DOMAIN s
                                       /\ Tail(s)[i] = s[i + 1]
           /\ 1 \in DOMAIN s /\ s[1] = Head(s)
    OBVIOUS
  <1>3. \A s \in S : \A i \in DOMAIN s : i \in Nat
    OBVIOUS
  <1>4. inbox'[t] = Tail(inbox[t])
    BY <1>1
  <1> HIDE DEF S
  <1>5. inbox' \in [Trainers -> S] /\ \A u \in Trainers : u # t => inbox'[u] = inbox[u]
    BY <1>1, <1>2
  <1> QED
    BY <1>1, <1>2, <1>3, <1>4, <1>5 DEF S

(* The service stops and starts.  A new one is later than every reply, and *)
(* has no claim.                                                           *)
LEMMA StartServicePreservesInv ==
    ASSUME ControlInv, StartService
    PROVE  ControlInv'
  <1>0. TypeOK /\ EpisodesOfTheClaim /\ RequestsInOrder /\ ServiceCoherent
        /\ CancelIsFinal /\ RepliesNameTheirService /\ MonitorCounts
    BY DEF ControlInv
  <1>1. /\ UNCHANGED <<claim, ready, closed, handling, episode, run>>
        /\ UNCHANGED <<inbox, phase, answer, known, monitor, misses>>
        /\ UNCHANGED <<process, cleanup>>
    BY DEF StartService, TrainerUnchanged, serviceVars, episodeVars,
       monitorVars
  <1>2. TypeOK'
    BY <1>0, <1>1, ControlAssumption DEF StartService, TypeOK, Ids
  <1>3. EpisodesOfTheClaim'
    BY <1>0, <1>1 DEF StartService, EpisodesOfTheClaim, InService
  <1>4. ServiceCoherent'
    BY <1>0, <1>1 DEF StartService, ServiceCoherent, InService, TypeOK
  <1>5. RepliesNameTheirService'
    <2> SUFFICES ASSUME NEW u \in Trainers
                 PROVE  RepliesAreKnown(u)' /\ ClaimReply(u)' /\ ProbeReply(u)'
      BY DEF RepliesNameTheirService
    <2>0. RepliesAreKnown(u) /\ ClaimReply(u) /\ ProbeReply(u)
      BY <1>0 DEF RepliesNameTheirService
    <2>1. RepliesAreKnown(u)'
      BY <1>0, <1>1, <2>0, AnswerFacts DEF StartService, RepliesAreKnown,
         Answered, TypeOK, Ids
    <2>2. ClaimReply(u)'
      BY <1>0, <1>1, <2>0 DEF StartService, ClaimReply, Answered,
         RepliesAreKnown, TypeOK, Operations
    <2>3. ProbeReply(u)'
      BY <1>0, <1>1, <2>0 DEF StartService, ProbeReply, Answered,
         RepliesAreKnown, TypeOK, Operations
    <2> QED
      BY <2>1, <2>2, <2>3
  <1>6. RequestsInOrder' /\ CancelIsFinal' /\ MonitorCounts'
    BY <1>0, <1>1 DEF RequestsInOrder, Pending, CancelIsFinal, AwaitsInCleanup,
       NoClaimAfterCancel, Confirmed, Answered, QuietAfterCancel, MonitorCounts
  <1> QED
    BY <1>2, <1>3, <1>4, <1>5, <1>6 DEF ControlInv

\* ControlInv survives StopService.
LEMMA StopServicePreservesInv ==
    ASSUME ControlInv, StopService
    PROVE  ControlInv'
  <1>0. TypeOK /\ EpisodesOfTheClaim /\ RequestsInOrder /\ ServiceCoherent
        /\ CancelIsFinal /\ RepliesNameTheirService /\ MonitorCounts
    BY DEF ControlInv
  <1>1. /\ UNCHANGED <<serviceId, run, phase, answer, known, monitor>>
        /\ UNCHANGED <<misses, process, cleanup>>
    BY DEF StopService, TrainerUnchanged, serviceVars, episodeVars, monitorVars
  <1>2. TypeOK'
    <2>1. inbox' \in [Trainers -> Seq(Operations \ {"identity"})]
      BY <1>0 DEF StopService, TypeOK
    <2>2. episode' \in [Episodes -> {"none", "sent", "probing", "running",
                                   "unwinding", "over"}]
      BY <1>0 DEF StopService, TypeOK
    <2> QED
      BY <1>0, <1>1, <2>1, <2>2 DEF StopService, TypeOK
  <1>3. EpisodesOfTheClaim'
    BY <1>0, <1>1 DEF StopService, InService, EpisodesOfTheClaim
  <1>4. RequestsInOrder'
    BY <1>0, <1>1, ControlAssumption DEF StopService, RequestsInOrder, Pending
  <1>5. ServiceCoherent'
    BY <1>0, <1>1 DEF StopService, InService, ServiceCoherent
  <1>6. CancelIsFinal'
    <2> SUFFICES ASSUME NEW u \in Trainers
                 PROVE  /\ AwaitsInCleanup(u)' /\ NoClaimAfterCancel(u)'
                        /\ QuietAfterCancel(u)'
      BY DEF CancelIsFinal
    <2>0. AwaitsInCleanup(u) /\ NoClaimAfterCancel(u) /\ QuietAfterCancel(u)
      BY <1>0 DEF CancelIsFinal
    <2>1. AwaitsInCleanup(u)'
      BY <1>1, <2>0 DEF AwaitsInCleanup
    <2>2. NoClaimAfterCancel(u)'
      BY <1>1, <2>0 DEF StopService, NoClaimAfterCancel, Confirmed, Answered,
         Pending
    <2>3. QuietAfterCancel(u)'
      BY ControlAssumption DEF StopService, InService, QuietAfterCancel
    <2> QED
      BY <2>1, <2>2, <2>3
  <1>7. RepliesNameTheirService'
    <2> SUFFICES ASSUME NEW u \in Trainers
                 PROVE  RepliesAreKnown(u)' /\ ClaimReply(u)' /\ ProbeReply(u)'
      BY DEF RepliesNameTheirService
    <2>0. RepliesAreKnown(u) /\ ClaimReply(u) /\ ProbeReply(u)
      BY <1>0 DEF RepliesNameTheirService
    <2>1. RepliesAreKnown(u)'
      BY <1>1, <2>0 DEF RepliesAreKnown, Answered
    <2>2. ClaimReply(u)'
      BY <1>0, <1>1, <2>0 DEF StopService, InService, ClaimReply, Answered
    <2>3. ProbeReply(u)'
      BY <1>0, <1>1, <2>0 DEF StopService, InService, ProbeReply, Answered
    <2> QED
      BY <2>1, <2>2, <2>3
  <1>8. MonitorCounts'
    BY <1>0, <1>1 DEF MonitorCounts
  <1> QED
    BY <1>2, <1>3, <1>4, <1>5, <1>6, <1>7, <1>8 DEF ControlInv

(* The service reads one control message (server.control).  A run whose    *)
(* cancel is drained or confirmed has no claim left to be accepted.        *)
LEMMA ReceiveClaimPreservesInv ==
    ASSUME ControlInv, NEW t \in Trainers, Receive(t), Head(inbox[t]) = "claim"
    PROVE  ControlInv'
  <1>0. TypeOK /\ EpisodesOfTheClaim /\ RequestsInOrder /\ ServiceCoherent
        /\ CancelIsFinal /\ RepliesNameTheirService /\ MonitorCounts
    BY DEF ControlInv
  <1>1. /\ UNCHANGED <<up, serviceId, ready, closed, handling, episode>>
        /\ UNCHANGED <<run, phase, known, monitor, misses, process>>
        /\ UNCHANGED <<cleanup>>
    BY DEF Receive, HandleClaim, Claimable, TrainerUnchanged, serviceVars,
       episodeVars, monitorVars
  <1>2. \/ UNCHANGED answer
        \/ \E a \in {Error, From(serviceId)} :
              Reply(t, "claim", a) /\ (a # Error => claim' = t)
    BY DEF Receive, HandleClaim, Claimable, TrainerUnchanged
  <1>3. up /\ Error \in Answers /\ From(serviceId) \in Answers
    BY <1>0, AnswerFacts DEF TypeOK, ServiceCoherent, Ids, Receive
  <1>4. /\ answer' \in [Trainers -> [Operations -> Answers]]
        /\ \A u \in Trainers, p \in Operations :
              \/ answer'[u][p] = answer[u][p]
              \/ /\ u = t /\ p = "claim" /\ answer[u][p] = Awaited
                 /\ \/ answer'[u][p] = Error
                    \/ answer'[u][p] = From(serviceId) /\ claim' = t
    <2>1. CASE UNCHANGED answer
      BY <1>0, <2>1 DEF TypeOK
    <2>2. CASE \E a \in {Error, From(serviceId)} :
                  Reply(t, "claim", a) /\ (a # Error => claim' = t)
      <3>1. PICK a \in {Error, From(serviceId)} :
                  Reply(t, "claim", a) /\ (a # Error => claim' = t)
        BY <2>2
      <3>2. "claim" \in Operations
        BY DEF Operations
      <3> QED
        BY <1>0, <1>3, <3>1, <3>2, ReplyFacts
    <2> QED
      BY <1>2, <2>1, <2>2
  <1>5. /\ inbox[t] # <<>> /\ phase[t] # "waiting"
        /\ \/ claim' = claim
           \/ claim' = t /\ ~closed /\ claim \in {NoRun, t}
    BY <1>0 DEF Receive, HandleClaim, Claimable, TrainerUnchanged,
       RequestsInOrder
  <1>6. /\ inbox' \in [Trainers -> Seq(Operations \ {"identity"})]
        /\ \A u \in Trainers : u # t => inbox'[u] = inbox[u]
        /\ \A i \in DOMAIN inbox'[t] :
              /\ i \in Nat \ {0}
              /\ i + 1 \in DOMAIN inbox[t] /\ inbox'[t][i] = inbox[t][i + 1]
        /\ 1 \in DOMAIN inbox[t] /\ inbox[t][1] = Head(inbox[t])
        /\ \A u \in Trainers : \A i \in DOMAIN inbox[u] : i \in Nat
    BY <1>0, TailFacts DEF Receive
  <1>7. TypeOK'
    BY SMTT(30), <1>0, <1>1, <1>3, <1>4, <1>5, <1>6 DEF TypeOK
  <1>8. EpisodesOfTheClaim'
    BY <1>0, <1>1, <1>5 DEF EpisodesOfTheClaim, InService, ServiceCoherent
  <1>9. RequestsInOrder'
    BY <1>0, <1>1, <1>5, <1>6 DEF RequestsInOrder, Pending, TypeOK
  <1>10. ServiceCoherent'
    BY <1>0, <1>1, <1>3, <1>5, ControlAssumption DEF ServiceCoherent, TypeOK
  <1>11. CancelIsFinal'
    <2> SUFFICES ASSUME NEW u \in Trainers
                 PROVE  /\ AwaitsInCleanup(u)' /\ NoClaimAfterCancel(u)'
                        /\ QuietAfterCancel(u)'
      BY DEF CancelIsFinal
    <2>0. AwaitsInCleanup(u) /\ NoClaimAfterCancel(u) /\ QuietAfterCancel(u)
      BY <1>0 DEF CancelIsFinal
    <2>1. AwaitsInCleanup(u)'
      BY <1>1, <1>4, <2>0 DEF AwaitsInCleanup, Operations
    <2>2. NoClaimAfterCancel(u)'
      BY <1>1, <1>4, <1>6, <2>0 DEF NoClaimAfterCancel, Confirmed, Answered,
         Pending, Operations
    <2>3. QuietAfterCancel(u)'
      BY <1>1, <1>4, <1>5, <1>6, <2>0 DEF QuietAfterCancel, Confirmed,
         Answered, NoClaimAfterCancel, Pending, Operations
    <2> QED
      BY <2>1, <2>2, <2>3
  <1>12. RepliesNameTheirService'
    <2> SUFFICES ASSUME NEW u \in Trainers
                 PROVE  RepliesAreKnown(u)' /\ ClaimReply(u)' /\ ProbeReply(u)'
      BY DEF RepliesNameTheirService
    <2>0. RepliesAreKnown(u) /\ ClaimReply(u) /\ ProbeReply(u)
      BY <1>0 DEF RepliesNameTheirService
    <2>1. RepliesAreKnown(u)'
      <3>1. \A p \in Operations : Answered(u, p)' => answer'[u][p][2] <= serviceId
        <4> SUFFICES ASSUME NEW p \in Operations, answer'[u][p][1] = "identity"
                     PROVE  answer'[u][p][2] <= serviceId
          BY DEF Answered
        <4>1. CASE answer'[u][p] = answer[u][p]
          BY <2>0, <4>1 DEF RepliesAreKnown, Answered
        <4>2. CASE answer'[u][p] = From(serviceId)
          BY <1>0, <4>2, ControlAssumption, AnswerFacts DEF TypeOK
        <4>3. CASE answer'[u][p] = Error
          BY <4>3, AnswerFacts
        <4> QED
          BY <1>4, <4>1, <4>2, <4>3
      <3> QED
        BY <1>1, <2>0, <3>1 DEF RepliesAreKnown
    <2>2. ClaimReply(u)'
      <3>1. Answered(u, "claim")' /\ up' /\ answer'[u]["claim"][2] = serviceId'
              => claim' = u
        <4>1. CASE u = t
          BY <1>1, <1>4, <1>5, <2>0, <4>1, AnswerFacts
             DEF ClaimReply, Answered, Operations
        <4>2. CASE u # t
          <5>1. answer'[u]["claim"] = answer[u]["claim"]
            BY <1>4, <4>2 DEF Operations
          <5>2. claim = u => claim' = u
            BY <1>5, <4>2, ControlAssumption
          <5> QED
            BY <1>1, <2>0, <5>1, <5>2 DEF ClaimReply, Answered
        <4> QED
          BY <4>1, <4>2
      <3>2. Answered(u, "claim") => answer'[u]["claim"] = answer[u]["claim"]
        BY <1>4, AnswerFacts DEF Answered, Operations
      <3> QED
        BY <1>1, <2>0, <3>1, <3>2 DEF ClaimReply, Answered
    <2>3. ProbeReply(u)'
      BY <1>1, <1>4, <2>0 DEF ProbeReply, Answered, Operations
    <2> QED
      BY <2>1, <2>2, <2>3
  <1>13. MonitorCounts'
    BY <1>0, <1>1 DEF MonitorCounts
  <1> QED
    BY <1>7, <1>8, <1>9, <1>10, <1>11, <1>12, <1>13 DEF ControlInv

\* ControlInv survives the receipt of a probe.
LEMMA ReceiveProbePreservesInv ==
    ASSUME ControlInv, NEW t \in Trainers, Receive(t), Head(inbox[t]) = "probe"
    PROVE  ControlInv'
  <1>0. TypeOK /\ EpisodesOfTheClaim /\ RequestsInOrder /\ ServiceCoherent
        /\ CancelIsFinal /\ RepliesNameTheirService /\ MonitorCounts
    BY DEF ControlInv
  <1>1. /\ UNCHANGED <<up, serviceId, claim, ready, closed, episode>>
        /\ UNCHANGED <<run, phase, known, monitor, misses, process>>
        /\ UNCHANGED <<cleanup>>
    BY DEF Receive, HandleProbe, Owns, TrainerUnchanged, serviceVars,
       episodeVars, monitorVars
  <1>2. \/ UNCHANGED answer
        \/ Reply(t, "probe", Error)
    BY DEF Receive, HandleProbe, Owns, TrainerUnchanged
  <1>3. up /\ Error \in Answers /\ From(serviceId) \in Answers
    BY <1>0, AnswerFacts DEF TypeOK, ServiceCoherent, Ids, Receive
  <1>4. /\ answer' \in [Trainers -> [Operations -> Answers]]
        /\ \A u \in Trainers, p \in Operations :
              \/ answer'[u][p] = answer[u][p]
              \/ /\ u = t /\ p = "probe" /\ answer[u][p] = Awaited
                 /\ answer'[u][p] = Error
    <2>1. CASE UNCHANGED answer
      BY <1>0, <2>1 DEF TypeOK
    <2>2. CASE Reply(t, "probe", Error)
      <3>1. "probe" \in Operations
        BY DEF Operations
      <3> QED
        BY <1>0, <1>3, <2>2, <3>1, ReplyFacts
    <2> QED
      BY <1>2, <2>1, <2>2
  <1>5. \/ handling' = handling
        \/ claim = t /\ handling' = handling \cup {<<"probe", t>>}
    BY DEF Receive, HandleProbe, Owns, TrainerUnchanged
  <1>6. /\ inbox' \in [Trainers -> Seq(Operations \ {"identity"})]
        /\ \A u \in Trainers : u # t => inbox'[u] = inbox[u]
        /\ \A i \in DOMAIN inbox'[t] :
              /\ i \in Nat \ {0}
              /\ i + 1 \in DOMAIN inbox[t] /\ inbox'[t][i] = inbox[t][i + 1]
        /\ 1 \in DOMAIN inbox[t] /\ inbox[t][1] = Head(inbox[t])
        /\ \A u \in Trainers : \A i \in DOMAIN inbox[u] : i \in Nat
    BY <1>0, TailFacts DEF Receive
  <1>7. TypeOK'
    BY <1>0, <1>1, <1>3, <1>4, <1>5, <1>6 DEF TypeOK
  <1>8. RequestsInOrder'
    BY <1>0, <1>1, <1>6 DEF RequestsInOrder, Pending, TypeOK
  <1>9. ServiceCoherent'
    BY <1>0, <1>1, <1>3, <1>5 DEF ServiceCoherent
  <1>10. CancelIsFinal'
    <2> SUFFICES ASSUME NEW u \in Trainers
                 PROVE  /\ AwaitsInCleanup(u)' /\ NoClaimAfterCancel(u)'
                        /\ QuietAfterCancel(u)'
      BY DEF CancelIsFinal
    <2>0. AwaitsInCleanup(u) /\ NoClaimAfterCancel(u) /\ QuietAfterCancel(u)
      BY <1>0 DEF CancelIsFinal
    <2>1. AwaitsInCleanup(u)'
      BY <1>1, <1>4, <2>0 DEF AwaitsInCleanup, Operations
    <2>2. NoClaimAfterCancel(u)'
      <3>1. <<"cancel", u>> \in handling' => <<"cancel", u>> \in handling
        BY <1>5
      <3>2. Confirmed(u)' => Confirmed(u)
        BY <1>1, <1>4 DEF Confirmed, Answered, Operations
      <3>3. Pending(u, "claim")' => Pending(u, "claim")
        <4>1. CASE u = t
          BY <1>6, <4>1 DEF Pending
        <4>2. CASE u # t
          BY <1>6, <4>2 DEF Pending
        <4> QED
          BY <4>1, <4>2
      <3> QED
        BY <2>0, <3>1, <3>2, <3>3 DEF NoClaimAfterCancel
    <2>3. QuietAfterCancel(u)'
      BY <1>1, <1>4, <2>0 DEF QuietAfterCancel, Confirmed, Answered, Operations
    <2> QED
      BY <2>1, <2>2, <2>3
  <1>11. RepliesNameTheirService'
    <2> SUFFICES ASSUME NEW u \in Trainers
                 PROVE  RepliesAreKnown(u)' /\ ClaimReply(u)' /\ ProbeReply(u)'
      BY DEF RepliesNameTheirService
    <2>0. RepliesAreKnown(u) /\ ClaimReply(u) /\ ProbeReply(u)
      BY <1>0 DEF RepliesNameTheirService
    <2>1. RepliesAreKnown(u)'
      <3>1. \A p \in Operations : Answered(u, p)' => answer'[u][p][2] <= serviceId
        <4> SUFFICES ASSUME NEW p \in Operations, answer'[u][p][1] = "identity"
                     PROVE  answer'[u][p][2] <= serviceId
          BY DEF Answered
        <4>1. CASE answer'[u][p] = answer[u][p]
          BY <2>0, <4>1 DEF RepliesAreKnown, Answered
        <4>2. CASE answer'[u][p] = From(serviceId)
          BY <1>0, <4>2, ControlAssumption, AnswerFacts DEF TypeOK
        <4>3. CASE answer'[u][p] = Error
          BY <4>3, AnswerFacts
        <4> QED
          BY <1>4, <4>1, <4>2, <4>3
      <3> QED
        BY <1>1, <2>0, <3>1 DEF RepliesAreKnown
    <2>2. ClaimReply(u)'
      BY <1>1, <1>4, <2>0 DEF ClaimReply, Answered, Operations
    <2>3. ProbeReply(u)'
      BY <1>0, <1>1, <1>4, <1>6, <2>0, AnswerFacts DEF ProbeReply, Answered,
         TypeOK
    <2> QED
      BY <2>1, <2>2, <2>3
  <1>12. EpisodesOfTheClaim' /\ MonitorCounts'
    BY <1>0, <1>1 DEF EpisodesOfTheClaim, InService, MonitorCounts
  <1> QED
    BY <1>7, <1>8, <1>9, <1>10, <1>11, <1>12 DEF ControlInv

\* ControlInv survives the receipt of a cancel.
LEMMA ReceiveCancelPreservesInv ==
    ASSUME ControlInv, NEW t \in Trainers, Receive(t),
           Head(inbox[t]) = "cancel"
    PROVE  ControlInv'
  <1>0. TypeOK /\ EpisodesOfTheClaim /\ RequestsInOrder /\ ServiceCoherent
        /\ CancelIsFinal /\ RepliesNameTheirService /\ MonitorCounts
    BY DEF ControlInv
  <1>1. /\ UNCHANGED <<up, serviceId, claim, ready, run, phase, known>>
        /\ UNCHANGED <<monitor, misses, process, cleanup>>
    BY DEF Receive, HandleCancel, Owns, TrainerUnchanged, serviceVars,
       episodeVars, monitorVars
  <1>2. \/ UNCHANGED answer
        \/ Reply(t, "cancel", Error)
    BY DEF Receive, HandleCancel, Owns, TrainerUnchanged
  <1>3. up /\ Error \in Answers /\ From(serviceId) \in Answers
    BY <1>0, AnswerFacts DEF TypeOK, ServiceCoherent, Ids, Receive
  <1>4. /\ answer' \in [Trainers -> [Operations -> Answers]]
        /\ \A u \in Trainers, p \in Operations :
              \/ answer'[u][p] = answer[u][p]
              \/ /\ u = t /\ p = "cancel" /\ answer[u][p] = Awaited
                 /\ answer'[u][p] = Error
    <2>1. CASE UNCHANGED answer
      BY <1>0, <2>1 DEF TypeOK
    <2>2. CASE Reply(t, "cancel", Error)
      <3>1. "cancel" \in Operations
        BY DEF Operations
      <3> QED
        BY <1>0, <1>3, <2>2, <3>1, ReplyFacts
    <2> QED
      BY <1>2, <2>1, <2>2
  <1>5. \/ UNCHANGED <<closed, handling, episode>>
        \/ /\ claim = t /\ closed' = TRUE
           /\ handling' = handling \cup {<<"cancel", t>>}
           /\ CancelEpisodes
    BY DEF Receive, HandleCancel, Owns, TrainerUnchanged
  <1>6. /\ inbox' \in [Trainers -> Seq(Operations \ {"identity"})]
        /\ \A u \in Trainers : u # t => inbox'[u] = inbox[u]
        /\ \A i \in DOMAIN inbox'[t] :
              /\ i \in Nat \ {0}
              /\ i + 1 \in DOMAIN inbox[t] /\ inbox'[t][i] = inbox[t][i + 1]
        /\ 1 \in DOMAIN inbox[t] /\ inbox[t][1] = Head(inbox[t])
        /\ \A u \in Trainers : \A i \in DOMAIN inbox[u] : i \in Nat
    BY <1>0, TailFacts DEF Receive
  <1>7. /\ episode' \in [Episodes -> {"none", "sent", "probing", "running",
                                 "unwinding", "over"}]
        /\ \A e \in Episodes :
              \/ episode'[e] = episode[e] /\ (closed' => closed \/ episode[e] # "probing")
              \/ episode[e] = "probing" /\ episode'[e] = "over"
              \/ episode[e] = "running" /\ episode'[e] = "unwinding"
    BY <1>0, <1>5 DEF TypeOK, CancelEpisodes
  <1>8. TypeOK'
    <2>1. handling' \subseteq {"probe", "cancel"} \X Trainers
      <3>1. <<"cancel", t>> \in {"probe", "cancel"} \X Trainers
        OBVIOUS
      <3>2. handling' = handling \/ handling' = handling \cup {<<"cancel", t>>}
        BY <1>5
      <3> QED
        BY <1>0, <3>1, <3>2 DEF TypeOK
    <2>2. closed' \in BOOLEAN
      <3>1. closed \in BOOLEAN
        BY <1>0 DEF TypeOK
      <3>2. closed' = closed \/ closed' = TRUE
        BY <1>5
      <3> QED
        BY <3>1, <3>2
    <2> QED
      BY <1>0, <1>1, <1>4, <1>6, <1>7, <2>1, <2>2 DEF TypeOK
  <1>9. EpisodesOfTheClaim'
    BY <1>0, <1>1, <1>7 DEF EpisodesOfTheClaim, InService
  <1>10. RequestsInOrder'
    BY <1>0, <1>1, <1>3, <1>6 DEF RequestsInOrder, Pending, TypeOK
  <1>11. ServiceCoherent'
    <2>1. Pending(t, "cancel")
      BY <1>6 DEF Pending
    <2>2. phase[t] \in {"cancelling", "stopping", "ended"}
      BY <1>0, <2>1 DEF RequestsInOrder
    <2>3. CASE UNCHANGED <<closed, handling, episode>>
      BY <1>0, <1>1, <2>3 DEF ServiceCoherent
    <2>4. CASE claim = t /\ closed' = TRUE
               /\ handling' = handling \cup {<<"cancel", t>>} /\ CancelEpisodes
      <3>1. \A e \in Episodes : /\ episode'[e] # "probing"
                                /\ episode'[e] # "none" => episode[e] # "none"
        BY <1>0, <2>4 DEF TypeOK, CancelEpisodes
      <3>2. \A h \in handling' : h[2] = claim
        BY <1>0, <2>4 DEF ServiceCoherent
      <3>3. claim # NoRun
        BY <2>4, ControlAssumption
      <3>4. up' /\ serviceId' > 0
        BY <1>0, <1>1, <1>3 DEF ServiceCoherent
      <3> QED
        <4>1. closed' /\ claim' = t /\ claim' # NoRun
          BY <1>1, <2>4, <3>3
        <4>2. phase'[claim'] \in {"cancelling", "stopping", "ended"}
          BY <1>1, <2>2, <4>1
        <4>3. \A h \in handling' : h[2] = claim'
          BY <1>1, <3>2
        <4>4. \A e \in Episodes : /\ episode'[e] # "probing"
                                  /\ episode'[e] # "none" => run'[e] # NoRun
          BY <1>0, <1>1, <3>1 DEF ServiceCoherent
        <4> QED
          BY <3>4, <4>1, <4>2, <4>3, <4>4 DEF ServiceCoherent
    <2> QED
      BY <1>5, <2>3, <2>4
  <1>12. CancelIsFinal'
    <2> SUFFICES ASSUME NEW u \in Trainers
                 PROVE  /\ AwaitsInCleanup(u)' /\ NoClaimAfterCancel(u)'
                        /\ QuietAfterCancel(u)'
      BY DEF CancelIsFinal
    <2>0. AwaitsInCleanup(u) /\ NoClaimAfterCancel(u) /\ QuietAfterCancel(u)
      BY <1>0 DEF CancelIsFinal
    <2>1. AwaitsInCleanup(u)'
      BY <1>0, <1>1, <1>4, <1>6, <2>0, AnswerFacts DEF AwaitsInCleanup, TypeOK
    <2>2. NoClaimAfterCancel(u)'
      <3>1. ~Pending(t, "claim")'
        BY <1>0, <1>6 DEF RequestsInOrder, Pending
      <3>2. CASE u = t
        BY <3>1, <3>2 DEF NoClaimAfterCancel
      <3>3. CASE u # t
        <4>1. <<"cancel", u>> \in handling' => <<"cancel", u>> \in handling
          BY <1>5, <3>3
        <4>2. Confirmed(u)' => Confirmed(u)
          BY <1>1, <1>4, <3>3 DEF Confirmed, Answered, Operations
        <4>3. Pending(u, "claim")' => Pending(u, "claim")
          BY <1>6, <3>3 DEF Pending
        <4> QED
          BY <2>0, <4>1, <4>2, <4>3 DEF NoClaimAfterCancel
      <3> QED
        BY <3>2, <3>3
    <2>3. QuietAfterCancel(u)'
      BY <1>1, <1>4, <1>5, <1>7, <2>0, AnswerFacts DEF QuietAfterCancel,
         Confirmed, Answered, InService, Operations, Ids, ServiceCoherent
    <2> QED
      BY <2>1, <2>2, <2>3
  <1>13. RepliesNameTheirService'
    <2> SUFFICES ASSUME NEW u \in Trainers
                 PROVE  RepliesAreKnown(u)' /\ ClaimReply(u)' /\ ProbeReply(u)'
      BY DEF RepliesNameTheirService
    <2>0. RepliesAreKnown(u) /\ ClaimReply(u) /\ ProbeReply(u)
      BY <1>0 DEF RepliesNameTheirService
    <2>1. RepliesAreKnown(u)'
      <3>1. \A p \in Operations : Answered(u, p)' => answer'[u][p][2] <= serviceId
        <4> SUFFICES ASSUME NEW p \in Operations, answer'[u][p][1] = "identity"
                     PROVE  answer'[u][p][2] <= serviceId
          BY DEF Answered
        <4>1. CASE answer'[u][p] = answer[u][p]
          BY <2>0, <4>1 DEF RepliesAreKnown, Answered
        <4>2. CASE answer'[u][p] = From(serviceId)
          BY <1>0, <4>2, ControlAssumption, AnswerFacts DEF TypeOK
        <4>3. CASE answer'[u][p] = Error
          BY <4>3, AnswerFacts
        <4> QED
          BY <1>4, <4>1, <4>2, <4>3
      <3> QED
        BY <1>1, <2>0, <3>1 DEF RepliesAreKnown
    <2>2. ClaimReply(u)'
      BY <1>1, <1>4, <2>0 DEF ClaimReply, Answered, Operations
    <2>3. ProbeReply(u)'
      BY <1>1, <1>4, <2>0 DEF ProbeReply, Answered, Operations
    <2> QED
      BY <2>1, <2>2, <2>3
  <1>14. MonitorCounts'
    BY <1>0, <1>1 DEF MonitorCounts
  <1> QED
    BY <1>8, <1>9, <1>10, <1>11, <1>12, <1>13, <1>14 DEF ControlInv

(* Handlers that reply or return from their wait.                          *)
LEMMA HandleIdentityPreservesInv ==
    ASSUME ControlInv, NEW t \in Trainers, HandleIdentity(t)
    PROVE  ControlInv'
  <1>0. TypeOK /\ EpisodesOfTheClaim /\ RequestsInOrder /\ ServiceCoherent
        /\ CancelIsFinal /\ RepliesNameTheirService /\ MonitorCounts
    BY DEF ControlInv
  <1>1. /\ UNCHANGED <<up, serviceId, claim, ready, closed, handling>>
        /\ UNCHANGED <<episode, run, inbox, phase, known, monitor>>
        /\ UNCHANGED <<misses, process, cleanup>>
    BY DEF HandleIdentity, TrainerUnchanged, serviceVars, episodeVars,
       monitorVars
  <1>2. \/ UNCHANGED answer
        \/ \E a \in {Error, From(serviceId)} :
              Reply(t, "identity", a) /\ (a # Error => TRUE)
    BY DEF HandleIdentity, TrainerUnchanged
  <1>3. up /\ Error \in Answers /\ From(serviceId) \in Answers
    BY <1>0, AnswerFacts DEF TypeOK, ServiceCoherent, Ids, HandleIdentity
  <1>4. /\ answer' \in [Trainers -> [Operations -> Answers]]
        /\ \A u \in Trainers, p \in Operations :
              \/ answer'[u][p] = answer[u][p]
              \/ /\ u = t /\ p = "identity" /\ answer[u][p] = Awaited
                 /\ \/ answer'[u][p] = Error
                    \/ answer'[u][p] = From(serviceId) /\ TRUE
    <2>1. CASE UNCHANGED answer
      BY <1>0, <2>1 DEF TypeOK
    <2>2. CASE \E a \in {Error, From(serviceId)} :
                  Reply(t, "identity", a) /\ (a # Error => TRUE)
      <3>1. PICK a \in {Error, From(serviceId)} :
                  Reply(t, "identity", a) /\ (a # Error => TRUE)
        BY <2>2
      <3>2. "identity" \in Operations
        BY DEF Operations
      <3> QED
        BY <1>0, <1>3, <3>1, <3>2, ReplyFacts
    <2> QED
      BY <1>2, <2>1, <2>2
  <1>5. TypeOK'
    BY <1>0, <1>1, <1>3, <1>4 DEF TypeOK
  <1>6. CancelIsFinal'
    <2> SUFFICES ASSUME NEW u \in Trainers
                 PROVE  /\ AwaitsInCleanup(u)' /\ NoClaimAfterCancel(u)'
                        /\ QuietAfterCancel(u)'
      BY DEF CancelIsFinal
    <2>0. AwaitsInCleanup(u) /\ NoClaimAfterCancel(u) /\ QuietAfterCancel(u)
      BY <1>0 DEF CancelIsFinal
    <2>1. AwaitsInCleanup(u)'
      BY <1>1, <1>4, <2>0 DEF AwaitsInCleanup, Operations
    <2>2. NoClaimAfterCancel(u)'
      BY <1>1, <1>4, <2>0 DEF NoClaimAfterCancel, Confirmed, Answered, Pending,
         Operations
    <2>3. QuietAfterCancel(u)'
      BY <1>1, <1>4, <2>0 DEF QuietAfterCancel, Confirmed, Answered, Operations
    <2> QED
      BY <2>1, <2>2, <2>3
  <1>7. RepliesNameTheirService'
    <2> SUFFICES ASSUME NEW u \in Trainers
                 PROVE  RepliesAreKnown(u)' /\ ClaimReply(u)' /\ ProbeReply(u)'
      BY DEF RepliesNameTheirService
    <2>0. RepliesAreKnown(u) /\ ClaimReply(u) /\ ProbeReply(u)
      BY <1>0 DEF RepliesNameTheirService
    <2>1. RepliesAreKnown(u)'
      <3>1. \A p \in Operations : Answered(u, p)' => answer'[u][p][2] <= serviceId
        <4> SUFFICES ASSUME NEW p \in Operations, answer'[u][p][1] = "identity"
                     PROVE  answer'[u][p][2] <= serviceId
          BY DEF Answered
        <4>1. CASE answer'[u][p] = answer[u][p]
          BY <2>0, <4>1 DEF RepliesAreKnown, Answered
        <4>2. CASE answer'[u][p] = From(serviceId)
          BY <1>0, <4>2, ControlAssumption, AnswerFacts DEF TypeOK
        <4>3. CASE answer'[u][p] = Error
          BY <4>3, AnswerFacts
        <4> QED
          BY <1>4, <4>1, <4>2, <4>3
      <3> QED
        BY <1>1, <2>0, <3>1 DEF RepliesAreKnown
    <2>2. ClaimReply(u)'
      BY <1>1, <1>4, <2>0 DEF ClaimReply, Answered, Operations
    <2>3. ProbeReply(u)'
      BY <1>1, <1>4, <2>0 DEF ProbeReply, Answered, Operations
    <2> QED
      BY <2>1, <2>2, <2>3
  <1>8. EpisodesOfTheClaim' /\ RequestsInOrder' /\ ServiceCoherent' /\
        MonitorCounts'
    BY <1>0, <1>1 DEF EpisodesOfTheClaim, RequestsInOrder, Pending,
       ServiceCoherent, MonitorCounts
  <1> QED
    BY <1>5, <1>6, <1>7, <1>8 DEF ControlInv

\* ControlInv survives ProbeReturns.
LEMMA ProbeReturnsPreservesInv ==
    ASSUME ControlInv, NEW t \in Trainers, ProbeReturns(t)
    PROVE  ControlInv'
  <1>0. TypeOK /\ EpisodesOfTheClaim /\ RequestsInOrder /\ ServiceCoherent
        /\ CancelIsFinal /\ RepliesNameTheirService /\ MonitorCounts
    BY DEF ControlInv
  <1>1. /\ UNCHANGED <<up, serviceId, claim, closed, episode, run>>
        /\ UNCHANGED <<inbox, phase, known, monitor, misses, process>>
        /\ UNCHANGED <<cleanup>>
    BY DEF ProbeReturns, Probed, TrainerUnchanged, serviceVars, episodeVars,
       monitorVars
  <1>2. \/ UNCHANGED answer
        \/ \E a \in {Error, From(serviceId)} :
              Reply(t, "probe", a) /\ (a # Error => ready')
    BY DEF ProbeReturns, Probed, TrainerUnchanged
  <1>3. up /\ Error \in Answers /\ From(serviceId) \in Answers
    BY <1>0, AnswerFacts DEF TypeOK, ServiceCoherent, Ids, ProbeReturns
  <1>4. /\ answer' \in [Trainers -> [Operations -> Answers]]
        /\ \A u \in Trainers, p \in Operations :
              \/ answer'[u][p] = answer[u][p]
              \/ /\ u = t /\ p = "probe" /\ answer[u][p] = Awaited
                 /\ \/ answer'[u][p] = Error
                    \/ answer'[u][p] = From(serviceId) /\ ready'
    <2>1. CASE UNCHANGED answer
      BY <1>0, <2>1 DEF TypeOK
    <2>2. CASE \E a \in {Error, From(serviceId)} :
                  Reply(t, "probe", a) /\ (a # Error => ready')
      <3>1. PICK a \in {Error, From(serviceId)} :
                  Reply(t, "probe", a) /\ (a # Error => ready')
        BY <2>2
      <3>2. "probe" \in Operations
        BY DEF Operations
      <3> QED
        BY <1>0, <1>3, <3>1, <3>2, ReplyFacts
    <2> QED
      BY <1>2, <2>1, <2>2
  <1>5. /\ handling' = handling \ {<<"probe", t>>}
        /\ ready' = ready \/ ready' = TRUE
        /\ claim = t
    BY <1>0 DEF ProbeReturns, Probed, TrainerUnchanged, ServiceCoherent
  <1>6. TypeOK'
    BY <1>0, <1>1, <1>3, <1>4, <1>5 DEF TypeOK
  <1>7. EpisodesOfTheClaim'
    BY <1>0, <1>1, <1>3, <1>4, <1>5 DEF EpisodesOfTheClaim, InService
  <1>8. ServiceCoherent'
    BY <1>0, <1>1, <1>3, <1>4, <1>5 DEF ServiceCoherent, InService
  <1>9. CancelIsFinal'
    <2> SUFFICES ASSUME NEW u \in Trainers
                 PROVE  /\ AwaitsInCleanup(u)' /\ NoClaimAfterCancel(u)'
                        /\ QuietAfterCancel(u)'
      BY DEF CancelIsFinal
    <2>0. AwaitsInCleanup(u) /\ NoClaimAfterCancel(u) /\ QuietAfterCancel(u)
      BY <1>0 DEF CancelIsFinal
    <2>1. AwaitsInCleanup(u)'
      BY <1>1, <1>4, <2>0 DEF AwaitsInCleanup, Operations
    <2>2. NoClaimAfterCancel(u)'
      BY <1>1, <1>4, <1>5, <2>0 DEF NoClaimAfterCancel, Confirmed, Answered,
         Pending, Operations
    <2>3. QuietAfterCancel(u)'
      BY <1>1, <1>4, <2>0 DEF QuietAfterCancel, Confirmed, Answered, Operations
    <2> QED
      BY <2>1, <2>2, <2>3
  <1>10. RepliesNameTheirService'
    <2> SUFFICES ASSUME NEW u \in Trainers
                 PROVE  RepliesAreKnown(u)' /\ ClaimReply(u)' /\ ProbeReply(u)'
      BY DEF RepliesNameTheirService
    <2>0. RepliesAreKnown(u) /\ ClaimReply(u) /\ ProbeReply(u)
      BY <1>0 DEF RepliesNameTheirService
    <2>1. RepliesAreKnown(u)'
      <3>1. \A p \in Operations : Answered(u, p)' => answer'[u][p][2] <= serviceId
        <4> SUFFICES ASSUME NEW p \in Operations, answer'[u][p][1] = "identity"
                     PROVE  answer'[u][p][2] <= serviceId
          BY DEF Answered
        <4>1. CASE answer'[u][p] = answer[u][p]
          BY <2>0, <4>1 DEF RepliesAreKnown, Answered
        <4>2. CASE answer'[u][p] = From(serviceId)
          BY <1>0, <4>2, ControlAssumption, AnswerFacts DEF TypeOK
        <4>3. CASE answer'[u][p] = Error
          BY <4>3, AnswerFacts
        <4> QED
          BY <1>4, <4>1, <4>2, <4>3
      <3> QED
        BY <1>1, <2>0, <3>1 DEF RepliesAreKnown
    <2>2. ClaimReply(u)'
      BY <1>1, <1>4, <2>0 DEF ClaimReply, Answered, Operations
    <2>3. ProbeReply(u)'
      BY <1>1, <1>4, <1>5, <2>0, AnswerFacts DEF ProbeReply, Answered,
         RepliesAreKnown, Operations
    <2> QED
      BY <2>1, <2>2, <2>3
  <1>11. RequestsInOrder' /\ MonitorCounts'
    BY <1>0, <1>1 DEF RequestsInOrder, Pending, MonitorCounts
  <1> QED
    BY <1>6, <1>7, <1>8, <1>9, <1>10, <1>11 DEF ControlInv

\* ControlInv survives DrainReturns.
LEMMA DrainReturnsPreservesInv ==
    ASSUME ControlInv, NEW t \in Trainers, DrainReturns(t)
    PROVE  ControlInv'
  <1>0. TypeOK /\ EpisodesOfTheClaim /\ RequestsInOrder /\ ServiceCoherent
        /\ CancelIsFinal /\ RepliesNameTheirService /\ MonitorCounts
    BY DEF ControlInv
  <1>1. /\ UNCHANGED <<up, serviceId, claim, ready, closed, episode>>
        /\ UNCHANGED <<run, inbox, phase, known, monitor, misses>>
        /\ UNCHANGED <<process, cleanup>>
    BY DEF DrainReturns, Drained, TrainerUnchanged, serviceVars, episodeVars,
       monitorVars
  <1>2. \/ UNCHANGED answer
        \/ \E a \in {Error, From(serviceId)} :
              Reply(t, "cancel", a) /\ (a # Error => TRUE)
    BY DEF DrainReturns, Drained, TrainerUnchanged
  <1>3. up /\ Error \in Answers /\ From(serviceId) \in Answers
    BY <1>0, AnswerFacts DEF TypeOK, ServiceCoherent, Ids, DrainReturns
  <1>4. /\ answer' \in [Trainers -> [Operations -> Answers]]
        /\ \A u \in Trainers, p \in Operations :
              \/ answer'[u][p] = answer[u][p]
              \/ /\ u = t /\ p = "cancel" /\ answer[u][p] = Awaited
                 /\ \/ answer'[u][p] = Error
                    \/ answer'[u][p] = From(serviceId) /\ TRUE
    <2>1. CASE UNCHANGED answer
      BY <1>0, <2>1 DEF TypeOK
    <2>2. CASE \E a \in {Error, From(serviceId)} :
                  Reply(t, "cancel", a) /\ (a # Error => TRUE)
      <3>1. PICK a \in {Error, From(serviceId)} :
                  Reply(t, "cancel", a) /\ (a # Error => TRUE)
        BY <2>2
      <3>2. "cancel" \in Operations
        BY DEF Operations
      <3> QED
        BY <1>0, <1>3, <3>1, <3>2, ReplyFacts
    <2> QED
      BY <1>2, <2>1, <2>2
  <1>5. /\ <<"cancel", t>> \in handling /\ Drained
        /\ handling' = handling \ {<<"cancel", t>>}
    BY DEF DrainReturns, Drained, TrainerUnchanged
  <1>6. TypeOK'
    BY <1>0, <1>1, <1>3, <1>4, <1>5 DEF Drained, TypeOK
  <1>7. ServiceCoherent'
    BY <1>0, <1>1, <1>5 DEF ServiceCoherent
  <1>8. CancelIsFinal'
    <2> SUFFICES ASSUME NEW u \in Trainers
                 PROVE  /\ AwaitsInCleanup(u)' /\ NoClaimAfterCancel(u)'
                        /\ QuietAfterCancel(u)'
      BY DEF CancelIsFinal
    <2>0. AwaitsInCleanup(u) /\ NoClaimAfterCancel(u) /\ QuietAfterCancel(u)
      BY <1>0 DEF CancelIsFinal
    <2>1. AwaitsInCleanup(u)'
      BY <1>1, <1>4, <2>0, AnswerFacts DEF AwaitsInCleanup, Operations
    <2>2. NoClaimAfterCancel(u)'
      BY <1>1, <1>4, <1>5, <2>0 DEF NoClaimAfterCancel, Confirmed, Answered,
         Pending, Operations
    <2>3. QuietAfterCancel(u)'
      BY <1>0, <1>1, <1>5 DEF Drained, QuietAfterCancel, InService,
         ServiceCoherent
    <2> QED
      BY <2>1, <2>2, <2>3
  <1>9. RepliesNameTheirService'
    <2> SUFFICES ASSUME NEW u \in Trainers
                 PROVE  RepliesAreKnown(u)' /\ ClaimReply(u)' /\ ProbeReply(u)'
      BY DEF RepliesNameTheirService
    <2>0. RepliesAreKnown(u) /\ ClaimReply(u) /\ ProbeReply(u)
      BY <1>0 DEF RepliesNameTheirService
    <2>1. RepliesAreKnown(u)'
      <3>1. \A p \in Operations : Answered(u, p)' => answer'[u][p][2] <= serviceId
        <4> SUFFICES ASSUME NEW p \in Operations, answer'[u][p][1] = "identity"
                     PROVE  answer'[u][p][2] <= serviceId
          BY DEF Answered
        <4>1. CASE answer'[u][p] = answer[u][p]
          BY <2>0, <4>1 DEF RepliesAreKnown, Answered
        <4>2. CASE answer'[u][p] = From(serviceId)
          BY <1>0, <4>2, ControlAssumption, AnswerFacts DEF TypeOK
        <4>3. CASE answer'[u][p] = Error
          BY <4>3, AnswerFacts
        <4> QED
          BY <1>4, <4>1, <4>2, <4>3
      <3> QED
        BY <1>1, <2>0, <3>1 DEF RepliesAreKnown
    <2>2. ClaimReply(u)'
      BY <1>1, <1>4, <2>0 DEF ClaimReply, Answered, Operations
    <2>3. ProbeReply(u)'
      BY <1>1, <1>4, <2>0 DEF ProbeReply, Answered, Operations
    <2> QED
      BY <2>1, <2>2, <2>3
  <1>10. EpisodesOfTheClaim' /\ RequestsInOrder' /\ MonitorCounts'
    BY <1>0, <1>1 DEF EpisodesOfTheClaim, InService, RequestsInOrder, Pending,
       MonitorCounts
  <1> QED
    BY <1>6, <1>7, <1>8, <1>9, <1>10 DEF ControlInv

(* An episode is sent, admitted, probed and ends (server._run).            *)
LEMMA SendEpisodePreservesInv ==
    ASSUME ControlInv, NEW e \in Episodes, NEW t \in Trainers, SendEpisode(e,
       t)
    PROVE  ControlInv'
  <1>0. TypeOK /\ EpisodesOfTheClaim /\ RequestsInOrder /\ ServiceCoherent
        /\ CancelIsFinal /\ RepliesNameTheirService /\ MonitorCounts
    BY DEF ControlInv
  <1>1. /\ UNCHANGED <<up, serviceId, claim, ready, closed, handling>>
        /\ UNCHANGED <<inbox, phase, answer, known, monitor, misses>>
        /\ UNCHANGED <<process, cleanup>>
    BY DEF SendEpisode, EpisodeUnchanged, TrainerUnchanged, serviceVars,
       episodeVars, monitorVars
  <1>2. TypeOK'
    BY <1>0, <1>1 DEF SendEpisode, TypeOK
  <1>3. EpisodesOfTheClaim'
    BY <1>0, <1>1 DEF SendEpisode, EpisodesOfTheClaim, InService
  <1>4. ServiceCoherent'
    BY <1>0, <1>1, ControlAssumption DEF SendEpisode, ServiceCoherent,
       InService, TypeOK
  <1>5. CancelIsFinal'
    <2> SUFFICES ASSUME NEW u \in Trainers
                 PROVE  /\ AwaitsInCleanup(u)' /\ NoClaimAfterCancel(u)'
                        /\ QuietAfterCancel(u)'
      BY DEF CancelIsFinal
    <2>0. AwaitsInCleanup(u) /\ NoClaimAfterCancel(u) /\ QuietAfterCancel(u)
      BY <1>0 DEF CancelIsFinal
    <2>1. AwaitsInCleanup(u)' /\ NoClaimAfterCancel(u)'
      BY <1>1, <2>0 DEF AwaitsInCleanup, NoClaimAfterCancel, Confirmed,
         Answered, Pending
    <2>2. QuietAfterCancel(u)'
      BY <1>1, <2>0 DEF SendEpisode, QuietAfterCancel, Confirmed, Answered,
         InService
    <2> QED
      BY <2>1, <2>2
  <1>6. RequestsInOrder' /\ RepliesNameTheirService' /\ MonitorCounts'
    BY <1>0, <1>1 DEF RequestsInOrder, Pending, RepliesNameTheirService,
       RepliesAreKnown, Answered, ClaimReply, ProbeReply, MonitorCounts
  <1> QED
    BY <1>2, <1>3, <1>4, <1>5, <1>6 DEF ControlInv

\* ControlInv survives AdmitEpisode.
LEMMA AdmitEpisodePreservesInv ==
    ASSUME ControlInv, NEW e \in Episodes, AdmitEpisode(e)
    PROVE  ControlInv'
  <1>0. TypeOK /\ EpisodesOfTheClaim /\ RequestsInOrder /\ ServiceCoherent
        /\ CancelIsFinal /\ RepliesNameTheirService /\ MonitorCounts
    BY DEF ControlInv
  <1>1. /\ UNCHANGED <<up, serviceId, claim, ready, closed, handling>>
        /\ UNCHANGED <<run, inbox, phase, answer, known, monitor>>
        /\ UNCHANGED <<misses, process, cleanup>>
    BY DEF AdmitEpisode, EpisodeUnchanged, TrainerUnchanged, serviceVars,
       episodeVars, monitorVars
  <1>2. TypeOK'
    BY <1>0, <1>1 DEF AdmitEpisode, Admissible, TypeOK
  <1>3. EpisodesOfTheClaim'
    BY <1>0, <1>1 DEF AdmitEpisode, Admissible, EpisodesOfTheClaim, InService,
       TypeOK
  <1>4. ServiceCoherent'
    BY <1>0, <1>1 DEF AdmitEpisode, Admissible, ServiceCoherent, InService,
       TypeOK
  <1>5. CancelIsFinal'
    <2> SUFFICES ASSUME NEW u \in Trainers
                 PROVE  /\ AwaitsInCleanup(u)' /\ NoClaimAfterCancel(u)'
                        /\ QuietAfterCancel(u)'
      BY DEF CancelIsFinal
    <2>0. AwaitsInCleanup(u) /\ NoClaimAfterCancel(u) /\ QuietAfterCancel(u)
      BY <1>0 DEF CancelIsFinal
    <2>1. AwaitsInCleanup(u)' /\ NoClaimAfterCancel(u)'
      BY <1>1, <2>0 DEF AwaitsInCleanup, NoClaimAfterCancel, Confirmed,
         Answered, Pending
    <2>2. QuietAfterCancel(u)'
      BY <1>0, <1>1, <2>0 DEF AdmitEpisode, Admissible, QuietAfterCancel,
         Confirmed, Answered, InService, TypeOK
    <2> QED
      BY <2>1, <2>2
  <1>6. RequestsInOrder' /\ RepliesNameTheirService' /\ MonitorCounts'
    BY <1>0, <1>1 DEF RequestsInOrder, Pending, RepliesNameTheirService,
       RepliesAreKnown, Answered, ClaimReply, ProbeReply, MonitorCounts
  <1> QED
    BY <1>2, <1>3, <1>4, <1>5, <1>6 DEF ControlInv

\* ControlInv survives EpisodeProbed.
LEMMA EpisodeProbedPreservesInv ==
    ASSUME ControlInv, NEW e \in Episodes, EpisodeProbed(e)
    PROVE  ControlInv'
  <1>0. TypeOK /\ EpisodesOfTheClaim /\ RequestsInOrder /\ ServiceCoherent
        /\ CancelIsFinal /\ RepliesNameTheirService /\ MonitorCounts
    BY DEF ControlInv
  <1>1. /\ UNCHANGED <<up, serviceId, claim, closed, handling, run>>
        /\ UNCHANGED <<inbox, phase, answer, known, monitor, misses>>
        /\ UNCHANGED <<process, cleanup>>
    BY DEF EpisodeProbed, EpisodeUnchanged, TrainerUnchanged, serviceVars,
       episodeVars, monitorVars
  <1>2. TypeOK'
    BY <1>0, <1>1 DEF EpisodeProbed, Probed, TypeOK
  <1>3. EpisodesOfTheClaim'
    BY <1>0, <1>1 DEF EpisodeProbed, Probed, EpisodesOfTheClaim, InService,
       TypeOK
  <1>4. ServiceCoherent'
    BY <1>0, <1>1 DEF EpisodeProbed, ServiceCoherent, InService, TypeOK,
       EpisodesOfTheClaim
  <1>5. CancelIsFinal'
    <2> SUFFICES ASSUME NEW u \in Trainers
                 PROVE  /\ AwaitsInCleanup(u)' /\ NoClaimAfterCancel(u)'
                        /\ QuietAfterCancel(u)'
      BY DEF CancelIsFinal
    <2>0. AwaitsInCleanup(u) /\ NoClaimAfterCancel(u) /\ QuietAfterCancel(u)
      BY <1>0 DEF CancelIsFinal
    <2>1. AwaitsInCleanup(u)' /\ NoClaimAfterCancel(u)'
      BY <1>1, <2>0 DEF AwaitsInCleanup, NoClaimAfterCancel, Confirmed,
         Answered, Pending
    <2>2. QuietAfterCancel(u)'
      BY <1>0, <1>1, <2>0 DEF EpisodeProbed, QuietAfterCancel, Confirmed,
         Answered, InService, TypeOK
    <2> QED
      BY <2>1, <2>2
  <1>6. RepliesNameTheirService'
    <2> SUFFICES ASSUME NEW u \in Trainers
                 PROVE  RepliesAreKnown(u)' /\ ClaimReply(u)' /\ ProbeReply(u)'
      BY DEF RepliesNameTheirService
    <2>0. RepliesAreKnown(u) /\ ClaimReply(u) /\ ProbeReply(u)
      BY <1>0 DEF RepliesNameTheirService
    <2>1. RepliesAreKnown(u)' /\ ClaimReply(u)'
      BY <1>1, <2>0 DEF RepliesAreKnown, Answered, ClaimReply
    <2>2. ProbeReply(u)'
      BY <1>0, <1>1, <2>0 DEF EpisodeProbed, Probed, ProbeReply, Answered
    <2> QED
      BY <2>1, <2>2
  <1>7. RequestsInOrder' /\ MonitorCounts'
    BY <1>0, <1>1 DEF RequestsInOrder, Pending, MonitorCounts
  <1> QED
    BY <1>2, <1>3, <1>4, <1>5, <1>6, <1>7 DEF ControlInv

\* ControlInv survives EpisodeEnds.
LEMMA EpisodeEndsPreservesInv ==
    ASSUME ControlInv, NEW e \in Episodes, EpisodeEnds(e)
    PROVE  ControlInv'
  <1>0. TypeOK /\ EpisodesOfTheClaim /\ RequestsInOrder /\ ServiceCoherent
        /\ CancelIsFinal /\ RepliesNameTheirService /\ MonitorCounts
    BY DEF ControlInv
  <1>1. /\ UNCHANGED <<up, serviceId, claim, ready, closed, handling>>
        /\ UNCHANGED <<run, inbox, phase, answer, known, monitor>>
        /\ UNCHANGED <<misses, process, cleanup>>
    BY DEF EpisodeEnds, EpisodeUnchanged, TrainerUnchanged, serviceVars,
       episodeVars, monitorVars
  <1>2. TypeOK'
    BY <1>0, <1>1 DEF EpisodeEnds, TypeOK
  <1>3. EpisodesOfTheClaim'
    BY <1>0, <1>1 DEF EpisodeEnds, EpisodesOfTheClaim, InService
  <1>4. ServiceCoherent'
    BY <1>0, <1>1 DEF EpisodeEnds, ServiceCoherent, InService
  <1>5. CancelIsFinal'
    <2> SUFFICES ASSUME NEW u \in Trainers
                 PROVE  /\ AwaitsInCleanup(u)' /\ NoClaimAfterCancel(u)'
                        /\ QuietAfterCancel(u)'
      BY DEF CancelIsFinal
    <2>0. AwaitsInCleanup(u) /\ NoClaimAfterCancel(u) /\ QuietAfterCancel(u)
      BY <1>0 DEF CancelIsFinal
    <2>1. AwaitsInCleanup(u)' /\ NoClaimAfterCancel(u)'
      BY <1>1, <2>0 DEF AwaitsInCleanup, NoClaimAfterCancel, Confirmed,
         Answered, Pending
    <2>2. QuietAfterCancel(u)'
      BY <1>1, <2>0 DEF EpisodeEnds, QuietAfterCancel, Confirmed, Answered,
         InService
    <2> QED
      BY <2>1, <2>2
  <1>6. RequestsInOrder' /\ RepliesNameTheirService' /\ MonitorCounts'
    BY <1>0, <1>1 DEF RequestsInOrder, Pending, RepliesNameTheirService,
       RepliesAreKnown, Answered, ClaimReply, ProbeReply, MonitorCounts
  <1> QED
    BY <1>2, <1>3, <1>4, <1>5, <1>6 DEF ControlInv

(* The trainer's monitor (server.QorlEnvClient.monitor).                    *)
LEMMA AskIdentityPreservesInv ==
    ASSUME ControlInv, NEW t \in Trainers, AskIdentity(t)
    PROVE  ControlInv'
  <1>0. TypeOK /\ EpisodesOfTheClaim /\ RequestsInOrder /\ ServiceCoherent
        /\ CancelIsFinal /\ RepliesNameTheirService /\ MonitorCounts
    BY DEF ControlInv
  <1>1. /\ UNCHANGED <<up, serviceId, claim, ready, closed, handling>>
        /\ UNCHANGED <<episode, run, inbox, phase, known, misses>>
        /\ UNCHANGED <<process, cleanup>>
    BY DEF AskIdentity, MonitorStep, serviceVars, episodeVars, monitorVars
  <1>2. TypeOK'
    BY <1>0, <1>1, AnswerFacts DEF AskIdentity, TypeOK
  <1>3. CancelIsFinal'
    <2> SUFFICES ASSUME NEW u \in Trainers
                 PROVE  /\ AwaitsInCleanup(u)' /\ NoClaimAfterCancel(u)'
                        /\ QuietAfterCancel(u)'
      BY DEF CancelIsFinal
    <2>0. AwaitsInCleanup(u) /\ NoClaimAfterCancel(u) /\ QuietAfterCancel(u)
      BY <1>0 DEF CancelIsFinal
    <2>1. AwaitsInCleanup(u)'
      BY <1>0, <1>1, <2>0 DEF AskIdentity, AwaitsInCleanup
    <2>2. NoClaimAfterCancel(u)'
      BY <1>1, <2>0 DEF AskIdentity, NoClaimAfterCancel, Confirmed, Answered,
         Pending
    <2>3. QuietAfterCancel(u)'
      BY <1>1, <2>0 DEF AskIdentity, QuietAfterCancel, Confirmed, Answered
    <2> QED
      BY <2>1, <2>2, <2>3
  <1>4. RepliesNameTheirService'
    <2> SUFFICES ASSUME NEW u \in Trainers
                 PROVE  RepliesAreKnown(u)' /\ ClaimReply(u)' /\ ProbeReply(u)'
      BY DEF RepliesNameTheirService
    <2>0. RepliesAreKnown(u) /\ ClaimReply(u) /\ ProbeReply(u)
      BY <1>0 DEF RepliesNameTheirService
    <2>1. RepliesAreKnown(u)'
      BY <1>1, <2>0, AnswerFacts DEF AskIdentity, RepliesAreKnown, Answered
    <2>2. ClaimReply(u)'
      BY <1>0, <1>1, <2>0 DEF AskIdentity, ClaimReply, Answered
    <2>3. ProbeReply(u)'
      BY <1>0, <1>1, <2>0 DEF AskIdentity, ProbeReply, Answered
    <2> QED
      BY <2>1, <2>2, <2>3
  <1>5. MonitorCounts'
    BY <1>0, <1>1 DEF AskIdentity, MonitorCounts
  <1>6. EpisodesOfTheClaim' /\ RequestsInOrder' /\ ServiceCoherent'
    BY <1>0, <1>1 DEF EpisodesOfTheClaim, InService, RequestsInOrder, Pending,
       ServiceCoherent
  <1> QED
    BY <1>2, <1>3, <1>4, <1>5, <1>6 DEF ControlInv

\* ControlInv survives HearIdentity.
LEMMA HearIdentityPreservesInv ==
    ASSUME ControlInv, NEW t \in Trainers, HearIdentity(t)
    PROVE  ControlInv'
  <1>0. TypeOK /\ EpisodesOfTheClaim /\ RequestsInOrder /\ ServiceCoherent
        /\ CancelIsFinal /\ RepliesNameTheirService /\ MonitorCounts
    BY DEF ControlInv
  <1>1. /\ UNCHANGED <<up, serviceId, claim, ready, closed, handling>>
        /\ UNCHANGED <<episode, run, inbox, phase, known, process>>
        /\ UNCHANGED <<cleanup>>
    BY DEF HearIdentity, MonitorStep, serviceVars, episodeVars, monitorVars
  <1>2. TypeOK'
    <2>1. answer' \in [Trainers -> [Operations -> Answers]]
      BY <1>0, AnswerFacts DEF HearIdentity, TypeOK
    <2>2. monitor' \in [Trainers -> {"off", "asking", "asleep", "failed"}]
      <3>1. \E m \in {"asleep", "failed"} : monitor' = [monitor EXCEPT ![t] = m]
        BY DEF HearIdentity
      <3> QED
        BY <1>0, <3>1 DEF TypeOK
    <2>3. misses' \in [Trainers -> 0 .. HealthLimit]
      <3>1. misses[t] \in 0 .. HealthLimit /\ misses[t] < HealthLimit
        BY <1>0 DEF HearIdentity, TypeOK, MonitorCounts
      <3>2. 0 \in 0 .. HealthLimit /\ misses[t] + 1 \in 0 .. HealthLimit
        BY <3>1, ControlAssumption
      <3> QED
        BY <1>0, <3>2 DEF HearIdentity, TypeOK
    <2> QED
      BY <1>0, <1>1, <2>1, <2>2, <2>3 DEF TypeOK
  <1>3. CancelIsFinal'
    <2> SUFFICES ASSUME NEW u \in Trainers
                 PROVE  /\ AwaitsInCleanup(u)' /\ NoClaimAfterCancel(u)'
                        /\ QuietAfterCancel(u)'
      BY DEF CancelIsFinal
    <2>0. AwaitsInCleanup(u) /\ NoClaimAfterCancel(u) /\ QuietAfterCancel(u)
      BY <1>0 DEF CancelIsFinal
    <2>1. AwaitsInCleanup(u)'
      BY <1>0, <1>1, <2>0 DEF HearIdentity, AwaitsInCleanup
    <2>2. NoClaimAfterCancel(u)'
      BY <1>1, <2>0 DEF HearIdentity, NoClaimAfterCancel, Confirmed, Answered,
         Pending
    <2>3. QuietAfterCancel(u)'
      BY <1>1, <2>0 DEF HearIdentity, QuietAfterCancel, Confirmed, Answered
    <2> QED
      BY <2>1, <2>2, <2>3
  <1>4. RepliesNameTheirService'
    <2> SUFFICES ASSUME NEW u \in Trainers
                 PROVE  RepliesAreKnown(u)' /\ ClaimReply(u)' /\ ProbeReply(u)'
      BY DEF RepliesNameTheirService
    <2>0. RepliesAreKnown(u) /\ ClaimReply(u) /\ ProbeReply(u)
      BY <1>0 DEF RepliesNameTheirService
    <2>1. RepliesAreKnown(u)'
      BY <1>1, <2>0, AnswerFacts DEF HearIdentity, RepliesAreKnown, Answered
    <2>2. ClaimReply(u)'
      BY <1>0, <1>1, <2>0 DEF HearIdentity, ClaimReply, Answered
    <2>3. ProbeReply(u)'
      BY <1>0, <1>1, <2>0 DEF HearIdentity, ProbeReply, Answered
    <2> QED
      BY <2>1, <2>2, <2>3
  <1>5. MonitorCounts'
    BY <1>0, <1>1, ControlAssumption DEF HearIdentity, MonitorCounts, TypeOK
  <1>6. EpisodesOfTheClaim' /\ RequestsInOrder' /\ ServiceCoherent'
    BY <1>0, <1>1 DEF EpisodesOfTheClaim, InService, RequestsInOrder, Pending,
       ServiceCoherent
  <1> QED
    BY <1>2, <1>3, <1>4, <1>5, <1>6 DEF ControlInv

\* ControlInv survives MissIdentity.
LEMMA MissIdentityPreservesInv ==
    ASSUME ControlInv, NEW t \in Trainers, MissIdentity(t)
    PROVE  ControlInv'
  <1>0. TypeOK /\ EpisodesOfTheClaim /\ RequestsInOrder /\ ServiceCoherent
        /\ CancelIsFinal /\ RepliesNameTheirService /\ MonitorCounts
    BY DEF ControlInv
  <1>1. /\ UNCHANGED <<up, serviceId, claim, ready, closed, handling>>
        /\ UNCHANGED <<episode, run, inbox, phase, known, process>>
        /\ UNCHANGED <<cleanup>>
    BY DEF MissIdentity, MonitorStep, serviceVars, episodeVars, monitorVars
  <1>2. TypeOK'
    <2>1. answer' \in [Trainers -> [Operations -> Answers]]
      BY <1>0, AnswerFacts DEF MissIdentity, TypeOK
    <2>2. monitor' \in [Trainers -> {"off", "asking", "asleep", "failed"}]
      <3>1. \E m \in {"asleep", "failed"} : monitor' = [monitor EXCEPT ![t] = m]
        BY DEF MissIdentity
      <3> QED
        BY <1>0, <3>1 DEF TypeOK
    <2>3. misses' \in [Trainers -> 0 .. HealthLimit]
      <3>1. misses[t] \in 0 .. HealthLimit /\ misses[t] < HealthLimit
        BY <1>0 DEF MissIdentity, TypeOK, MonitorCounts
      <3>2. 0 \in 0 .. HealthLimit /\ misses[t] + 1 \in 0 .. HealthLimit
        BY <3>1, ControlAssumption
      <3> QED
        BY <1>0, <3>2 DEF MissIdentity, TypeOK
    <2> QED
      BY <1>0, <1>1, <2>1, <2>2, <2>3 DEF TypeOK
  <1>3. CancelIsFinal'
    <2> SUFFICES ASSUME NEW u \in Trainers
                 PROVE  /\ AwaitsInCleanup(u)' /\ NoClaimAfterCancel(u)'
                        /\ QuietAfterCancel(u)'
      BY DEF CancelIsFinal
    <2>0. AwaitsInCleanup(u) /\ NoClaimAfterCancel(u) /\ QuietAfterCancel(u)
      BY <1>0 DEF CancelIsFinal
    <2>1. AwaitsInCleanup(u)'
      BY <1>0, <1>1, <2>0 DEF MissIdentity, AwaitsInCleanup
    <2>2. NoClaimAfterCancel(u)'
      BY <1>1, <2>0 DEF MissIdentity, NoClaimAfterCancel, Confirmed, Answered,
         Pending
    <2>3. QuietAfterCancel(u)'
      BY <1>1, <2>0 DEF MissIdentity, QuietAfterCancel, Confirmed, Answered
    <2> QED
      BY <2>1, <2>2, <2>3
  <1>4. RepliesNameTheirService'
    <2> SUFFICES ASSUME NEW u \in Trainers
                 PROVE  RepliesAreKnown(u)' /\ ClaimReply(u)' /\ ProbeReply(u)'
      BY DEF RepliesNameTheirService
    <2>0. RepliesAreKnown(u) /\ ClaimReply(u) /\ ProbeReply(u)
      BY <1>0 DEF RepliesNameTheirService
    <2>1. RepliesAreKnown(u)'
      BY <1>1, <2>0, AnswerFacts DEF MissIdentity, RepliesAreKnown, Answered
    <2>2. ClaimReply(u)'
      BY <1>0, <1>1, <2>0 DEF MissIdentity, ClaimReply, Answered
    <2>3. ProbeReply(u)'
      BY <1>0, <1>1, <2>0 DEF MissIdentity, ProbeReply, Answered
    <2> QED
      BY <2>1, <2>2, <2>3
  <1>5. MonitorCounts'
    BY <1>0, <1>1, ControlAssumption DEF MissIdentity, MonitorCounts, TypeOK
  <1>6. EpisodesOfTheClaim' /\ RequestsInOrder' /\ ServiceCoherent'
    BY <1>0, <1>1 DEF EpisodesOfTheClaim, InService, RequestsInOrder, Pending,
       ServiceCoherent
  <1> QED
    BY <1>2, <1>3, <1>4, <1>5, <1>6 DEF ControlInv

(* The trainer claims, verifies and trains (train.launch).                 *)
LEMMA SendClaimPreservesInv ==
    ASSUME ControlInv, NEW t \in Trainers, SendClaim(t)
    PROVE  ControlInv'
  <1>0. TypeOK /\ EpisodesOfTheClaim /\ RequestsInOrder /\ ServiceCoherent
        /\ CancelIsFinal /\ RepliesNameTheirService /\ MonitorCounts
    BY DEF ControlInv
  <1>1. /\ UNCHANGED <<up, serviceId, claim, ready, closed, handling>>
        /\ UNCHANGED <<episode, run, known, monitor, misses, process>>
        /\ UNCHANGED <<cleanup>>
    BY DEF SendClaim, LaunchStep, serviceVars, episodeVars, monitorVars
  <1>2. TypeOK'
    BY <1>0, <1>1, AnswerFacts DEF SendClaim, Become, Send, TypeOK, Operations
  <1>3. RequestsInOrder'
    BY <1>0, <1>1 DEF SendClaim, Become, Send, RequestsInOrder, Pending, TypeOK
  <1>4. ServiceCoherent'
    BY <1>0, <1>1 DEF SendClaim, Become, Send, ServiceCoherent, InService
  <1>5. CancelIsFinal'
    <2> SUFFICES ASSUME NEW u \in Trainers
                 PROVE  /\ AwaitsInCleanup(u)' /\ NoClaimAfterCancel(u)'
                        /\ QuietAfterCancel(u)'
      BY DEF CancelIsFinal
    <2>0. AwaitsInCleanup(u) /\ NoClaimAfterCancel(u) /\ QuietAfterCancel(u)
      BY <1>0 DEF CancelIsFinal
    <2>1. AwaitsInCleanup(u)'
      BY <1>0, <1>1, <2>0 DEF SendClaim, Become, Send, AwaitsInCleanup
    <2>2. NoClaimAfterCancel(u)'
      BY <1>0, <1>1, <2>0, AnswerFacts DEF SendClaim, Send, NoClaimAfterCancel,
         Confirmed, Answered, Pending, AwaitsInCleanup, ServiceCoherent
    <2>3. QuietAfterCancel(u)'
      BY <1>1, <2>0 DEF SendClaim, Send, QuietAfterCancel, Confirmed, Answered
    <2> QED
      BY <2>1, <2>2, <2>3
  <1>6. RepliesNameTheirService'
    <2> SUFFICES ASSUME NEW u \in Trainers
                 PROVE  RepliesAreKnown(u)' /\ ClaimReply(u)' /\ ProbeReply(u)'
      BY DEF RepliesNameTheirService
    <2>0. RepliesAreKnown(u) /\ ClaimReply(u) /\ ProbeReply(u)
      BY <1>0 DEF RepliesNameTheirService
    <2>1. RepliesAreKnown(u)'
      BY <1>1, <2>0, AnswerFacts DEF SendClaim, Send, RepliesAreKnown, Answered
    <2>2. ClaimReply(u)'
      BY <1>1, <2>0, AnswerFacts DEF SendClaim, Become, Send, ClaimReply,
         Answered
    <2>3. ProbeReply(u)'
      BY <1>1, <2>0 DEF SendClaim, Become, Send, ProbeReply, Answered
    <2> QED
      BY <2>1, <2>2, <2>3
  <1>7. MonitorCounts'
    BY <1>0, <1>1 DEF SendClaim, Become, Send, MonitorCounts
  <1>8. EpisodesOfTheClaim'
    BY <1>0, <1>1 DEF EpisodesOfTheClaim, InService
  <1> QED
    BY <1>2, <1>3, <1>4, <1>5, <1>6, <1>7, <1>8 DEF ControlInv

\* ControlInv survives Claimed.
LEMMA ClaimedPreservesInv ==
    ASSUME ControlInv, NEW t \in Trainers, Claimed(t)
    PROVE  ControlInv'
  <1>0. TypeOK /\ EpisodesOfTheClaim /\ RequestsInOrder /\ ServiceCoherent
        /\ CancelIsFinal /\ RepliesNameTheirService /\ MonitorCounts
    BY DEF ControlInv
  <1>1. /\ UNCHANGED <<up, serviceId, claim, ready, closed, handling>>
        /\ UNCHANGED <<episode, run, misses, cleanup>>
    BY DEF Claimed, LaunchStep, serviceVars, episodeVars, monitorVars
  <1>2. TypeOK'
    <2>1. answer[t]["claim"][2] \in 0 .. MaxStarts
      BY <1>0, AnswerFacts, ControlAssumption
         DEF Claimed, Answered, TypeOK, Operations, Ids
    <2>2. known' \in [Trainers -> 0 .. MaxStarts]
      BY <1>0, <2>1 DEF Claimed, TypeOK
    <2>3. inbox' \in [Trainers -> Seq(Operations \ {"identity"})]
      BY <1>0 DEF Claimed, Send, TypeOK, Operations
    <2>4. answer' \in [Trainers -> [Operations -> Answers]]
      BY <1>0, AnswerFacts DEF Claimed, Send, TypeOK
    <2> QED
      BY <1>0, <1>1, <2>2, <2>3, <2>4 DEF Claimed, Become, TypeOK
  <1>3. RequestsInOrder'
    BY <1>0, <1>1 DEF Claimed, Become, Send, RequestsInOrder, Pending
  <1>4. ServiceCoherent'
    BY <1>0, <1>1 DEF Claimed, Become, ServiceCoherent
  <1>5. CancelIsFinal'
    <2> SUFFICES ASSUME NEW u \in Trainers
                 PROVE  /\ AwaitsInCleanup(u)' /\ NoClaimAfterCancel(u)'
                        /\ QuietAfterCancel(u)'
      BY DEF CancelIsFinal
    <2>0. AwaitsInCleanup(u) /\ NoClaimAfterCancel(u) /\ QuietAfterCancel(u)
      BY <1>0 DEF CancelIsFinal
    <2>1. AwaitsInCleanup(u)'
      BY <2>0 DEF Claimed, Become, Send, AwaitsInCleanup
    <2>2. NoClaimAfterCancel(u)'
      BY <1>1, <2>0 DEF Claimed, Send, Answered, NoClaimAfterCancel, Confirmed,
         Pending
    <2>3. QuietAfterCancel(u)'
      BY <1>1, <2>0 DEF Claimed, Send, Answered, QuietAfterCancel, Confirmed
    <2> QED
      BY <2>1, <2>2, <2>3
  <1>6. RepliesNameTheirService'
    <2> SUFFICES ASSUME NEW u \in Trainers
                 PROVE  RepliesAreKnown(u)' /\ ClaimReply(u)' /\ ProbeReply(u)'
      BY DEF RepliesNameTheirService
    <2>0. RepliesAreKnown(u) /\ ClaimReply(u) /\ ProbeReply(u)
      BY <1>0 DEF RepliesNameTheirService
    <2>1. RepliesAreKnown(u)'
      BY <1>1, <2>0, AnswerFacts DEF Claimed, Send, Answered, RepliesAreKnown,
         Operations
    <2>2. ClaimReply(u)'
      BY <1>0, <1>1, <2>0 DEF Claimed, Become, Send, Answered, ClaimReply,
         TypeOK
    <2>3. ProbeReply(u)'
      BY <1>0, <1>1, <2>0, AnswerFacts DEF Claimed, Become, Send, Answered,
         ProbeReply, TypeOK
    <2> QED
      BY <2>1, <2>2, <2>3
  <1>7. MonitorCounts'
    BY <1>0 DEF Claimed, Become, MonitorCounts, TypeOK
  <1>8. EpisodesOfTheClaim'
    BY <1>0, <1>1 DEF EpisodesOfTheClaim, InService
  <1> QED
    BY <1>2, <1>3, <1>4, <1>5, <1>6, <1>7, <1>8 DEF ControlInv

\* ControlInv survives Verified.
LEMMA VerifiedPreservesInv ==
    ASSUME ControlInv, NEW t \in Trainers, Verified(t)
    PROVE  ControlInv'
  <1>0. TypeOK /\ EpisodesOfTheClaim /\ RequestsInOrder /\ ServiceCoherent
        /\ CancelIsFinal /\ RepliesNameTheirService /\ MonitorCounts
    BY DEF ControlInv
  <1>1. /\ UNCHANGED <<up, serviceId, claim, ready, closed, handling>>
        /\ UNCHANGED <<episode, run, inbox, answer, known, monitor>>
        /\ UNCHANGED <<misses, process, cleanup>>
    BY DEF Verified, LaunchStep, serviceVars, episodeVars, monitorVars
  <1>2. TypeOK'
    BY <1>0, <1>1 DEF Verified, Become, Answered, TypeOK
  <1>3. RequestsInOrder'
    BY <1>0, <1>1 DEF Verified, Become, RequestsInOrder, Pending
  <1>4. ServiceCoherent'
    BY <1>0, <1>1 DEF Verified, Become, Answered, ServiceCoherent, InService
  <1>5. CancelIsFinal'
    <2> SUFFICES ASSUME NEW u \in Trainers
                 PROVE  /\ AwaitsInCleanup(u)' /\ NoClaimAfterCancel(u)'
                        /\ QuietAfterCancel(u)'
      BY DEF CancelIsFinal
    <2>0. AwaitsInCleanup(u) /\ NoClaimAfterCancel(u) /\ QuietAfterCancel(u)
      BY <1>0 DEF CancelIsFinal
    <2>1. NoClaimAfterCancel(u)' /\ QuietAfterCancel(u)'
      BY <1>1, <2>0 DEF NoClaimAfterCancel, Confirmed, Answered, Pending,
         QuietAfterCancel
    <2>2. AwaitsInCleanup(u)'
      BY <1>0, <1>1, <2>0 DEF Verified, Become, Answered, AwaitsInCleanup
    <2> QED
      BY <2>1, <2>2
  <1>6. RepliesNameTheirService'
    <2> SUFFICES ASSUME NEW u \in Trainers
                 PROVE  RepliesAreKnown(u)' /\ ClaimReply(u)' /\ ProbeReply(u)'
      BY DEF RepliesNameTheirService
    <2>0. RepliesAreKnown(u) /\ ClaimReply(u) /\ ProbeReply(u)
      BY <1>0 DEF RepliesNameTheirService
    <2>1. RepliesAreKnown(u)'
      BY <1>1, <2>0 DEF RepliesAreKnown, Answered
    <2>2. ClaimReply(u)'
      BY <1>0, <1>1, <2>0 DEF Verified, Become, Answered, ClaimReply
    <2>3. ProbeReply(u)'
      BY <1>0, <1>1, <2>0 DEF Verified, Become, Answered, ProbeReply
    <2> QED
      BY <2>1, <2>2, <2>3
  <1>7. MonitorCounts'
    BY <1>0, <1>1 DEF Verified, Become, Answered, MonitorCounts
  <1>8. EpisodesOfTheClaim'
    BY <1>0, <1>1 DEF EpisodesOfTheClaim, InService
  <1> QED
    BY <1>2, <1>3, <1>4, <1>5, <1>6, <1>7, <1>8 DEF ControlInv

\* ControlInv survives ProcessExits.
LEMMA ProcessExitsPreservesInv ==
    ASSUME ControlInv, NEW t \in Trainers, ProcessExits(t)
    PROVE  ControlInv'
  <1>0. TypeOK /\ EpisodesOfTheClaim /\ RequestsInOrder /\ ServiceCoherent
        /\ CancelIsFinal /\ RepliesNameTheirService /\ MonitorCounts
    BY DEF ControlInv
  <1>1. /\ UNCHANGED <<up, serviceId, claim, ready, closed, handling>>
        /\ UNCHANGED <<episode, run, inbox, phase, answer, known>>
        /\ UNCHANGED <<monitor, misses, cleanup>>
    BY DEF ProcessExits, LaunchStep, serviceVars, episodeVars, monitorVars
  <1>2. TypeOK'
    BY <1>0, <1>1 DEF ProcessExits, TypeOK
  <1>3. EpisodesOfTheClaim' /\ RequestsInOrder' /\ ServiceCoherent' /\
        CancelIsFinal' /\ RepliesNameTheirService' /\ MonitorCounts'
    BY <1>0, <1>1 DEF EpisodesOfTheClaim, RequestsInOrder, Pending,
       ServiceCoherent, CancelIsFinal, AwaitsInCleanup, NoClaimAfterCancel,
       Confirmed, Answered, QuietAfterCancel, RepliesNameTheirService,
       RepliesAreKnown, ClaimReply, ProbeReply, MonitorCounts
  <1> QED
    BY <1>2, <1>3 DEF ControlInv

\* ControlInv survives Leaves.
LEMMA LeavesPreservesInv ==
    ASSUME ControlInv, NEW t \in Trainers, Leaves(t)
    PROVE  ControlInv'
  <1>0. TypeOK /\ EpisodesOfTheClaim /\ RequestsInOrder /\ ServiceCoherent
        /\ CancelIsFinal /\ RepliesNameTheirService /\ MonitorCounts
    BY DEF ControlInv
  <1>1. /\ UNCHANGED <<up, serviceId, claim, ready, closed, handling>>
        /\ UNCHANGED <<episode, run, inbox, answer, known, monitor>>
        /\ UNCHANGED <<misses, process, cleanup>>
    BY DEF Leaves, LaunchStep, LeaveTry, serviceVars, episodeVars, monitorVars
  <1>2. TypeOK'
    BY <1>0, <1>1 DEF Leaves, LeaveTry, Become, TypeOK
  <1>3. RequestsInOrder'
    BY <1>0, <1>1 DEF Leaves, Leaving, LeaveTry, Become, RequestsInOrder,
       Pending
  <1>4. ServiceCoherent'
    BY <1>0, <1>1 DEF Leaves, Leaving, LeaveTry, Become, ServiceCoherent
  <1>5. CancelIsFinal'
    <2> SUFFICES ASSUME NEW u \in Trainers
                 PROVE  /\ AwaitsInCleanup(u)' /\ NoClaimAfterCancel(u)'
                        /\ QuietAfterCancel(u)'
      BY DEF CancelIsFinal
    <2>0. AwaitsInCleanup(u) /\ NoClaimAfterCancel(u) /\ QuietAfterCancel(u)
      BY <1>0 DEF CancelIsFinal
    <2>1. NoClaimAfterCancel(u)' /\ QuietAfterCancel(u)'
      BY <1>1, <2>0 DEF NoClaimAfterCancel, Confirmed, Answered, Pending,
         QuietAfterCancel
    <2>2. AwaitsInCleanup(u)'
      BY <2>0 DEF Leaves, Leaving, LeaveTry, Become, AwaitsInCleanup
    <2> QED
      BY <2>1, <2>2
  <1>6. RepliesNameTheirService'
    <2> SUFFICES ASSUME NEW u \in Trainers
                 PROVE  RepliesAreKnown(u)' /\ ClaimReply(u)' /\ ProbeReply(u)'
      BY DEF RepliesNameTheirService
    <2>0. RepliesAreKnown(u) /\ ClaimReply(u) /\ ProbeReply(u)
      BY <1>0 DEF RepliesNameTheirService
    <2>1. RepliesAreKnown(u)'
      BY <1>1, <2>0 DEF RepliesAreKnown, Answered
    <2>2. ClaimReply(u)'
      BY <1>1, <2>0 DEF Leaves, LeaveTry, Become, ClaimReply, Answered
    <2>3. ProbeReply(u)'
      BY <1>1, <2>0 DEF Leaves, LeaveTry, Become, ProbeReply, Answered
    <2> QED
      BY <2>1, <2>2, <2>3
  <1>7. MonitorCounts'
    BY <1>0, <1>1 DEF Leaves, Leaving, LeaveTry, Become, MonitorCounts
  <1>8. EpisodesOfTheClaim'
    BY <1>0, <1>1 DEF EpisodesOfTheClaim, InService
  <1> QED
    BY <1>2, <1>3, <1>4, <1>5, <1>6, <1>7, <1>8 DEF ControlInv

\* ControlInv survives Interrupt.
LEMMA InterruptPreservesInv ==
    ASSUME ControlInv, NEW t \in Trainers, Interrupt(t)
    PROVE  ControlInv'
  <1>0. TypeOK /\ EpisodesOfTheClaim /\ RequestsInOrder /\ ServiceCoherent
        /\ CancelIsFinal /\ RepliesNameTheirService /\ MonitorCounts
    BY DEF ControlInv
  <1>1. /\ UNCHANGED <<up, serviceId, claim, ready, closed, handling>>
        /\ UNCHANGED <<episode, run, inbox, answer, known, monitor>>
        /\ UNCHANGED <<misses, process, cleanup>>
    BY DEF Interrupt, LaunchStep, LeaveTry, serviceVars, episodeVars,
       monitorVars
  <1>2. TypeOK'
    BY <1>0, <1>1 DEF Interrupt, BeforeCleanup, LeaveTry, Become, TypeOK
  <1>3. RequestsInOrder'
    BY <1>0, <1>1 DEF Interrupt, BeforeCleanup, LeaveTry, Become,
       RequestsInOrder, Pending
  <1>4. ServiceCoherent'
    BY <1>0, <1>1 DEF Interrupt, BeforeCleanup, LeaveTry, Become,
       ServiceCoherent
  <1>5. CancelIsFinal'
    <2> SUFFICES ASSUME NEW u \in Trainers
                 PROVE  /\ AwaitsInCleanup(u)' /\ NoClaimAfterCancel(u)'
                        /\ QuietAfterCancel(u)'
      BY DEF CancelIsFinal
    <2>0. AwaitsInCleanup(u) /\ NoClaimAfterCancel(u) /\ QuietAfterCancel(u)
      BY <1>0 DEF CancelIsFinal
    <2>1. NoClaimAfterCancel(u)' /\ QuietAfterCancel(u)'
      BY <1>1, <2>0 DEF NoClaimAfterCancel, Confirmed, Answered, Pending,
         QuietAfterCancel
    <2>2. AwaitsInCleanup(u)'
      BY <2>0 DEF Interrupt, BeforeCleanup, LeaveTry, Become, AwaitsInCleanup
    <2> QED
      BY <2>1, <2>2
  <1>6. RepliesNameTheirService'
    <2> SUFFICES ASSUME NEW u \in Trainers
                 PROVE  RepliesAreKnown(u)' /\ ClaimReply(u)' /\ ProbeReply(u)'
      BY DEF RepliesNameTheirService
    <2>0. RepliesAreKnown(u) /\ ClaimReply(u) /\ ProbeReply(u)
      BY <1>0 DEF RepliesNameTheirService
    <2>1. RepliesAreKnown(u)'
      BY <1>1, <2>0 DEF RepliesAreKnown, Answered
    <2>2. ClaimReply(u)'
      BY <1>1, <2>0 DEF Interrupt, LeaveTry, Become, ClaimReply, Answered
    <2>3. ProbeReply(u)'
      BY <1>1, <2>0 DEF Interrupt, LeaveTry, Become, ProbeReply, Answered
    <2> QED
      BY <2>1, <2>2, <2>3
  <1>7. MonitorCounts'
    BY <1>0, <1>1 DEF Interrupt, BeforeCleanup, LeaveTry, Become, MonitorCounts
  <1>8. EpisodesOfTheClaim'
    BY <1>0, <1>1 DEF EpisodesOfTheClaim, InService
  <1> QED
    BY <1>2, <1>3, <1>4, <1>5, <1>6, <1>7, <1>8 DEF ControlInv

(* The cleanup of the trainer (train.launch).                              *)
LEMMA SendCancelPreservesInv ==
    ASSUME ControlInv, NEW t \in Trainers, SendCancel(t)
    PROVE  ControlInv'
  <1>0. TypeOK /\ EpisodesOfTheClaim /\ RequestsInOrder /\ ServiceCoherent
        /\ CancelIsFinal /\ RepliesNameTheirService /\ MonitorCounts
    BY DEF ControlInv
  <1>1. /\ UNCHANGED <<up, serviceId, claim, ready, closed, handling>>
        /\ UNCHANGED <<episode, run, known, monitor, misses, process>>
        /\ UNCHANGED <<cleanup>>
    BY DEF SendCancel, LaunchStep, serviceVars, episodeVars, monitorVars
  <1>2. TypeOK'
    BY <1>0, <1>1, AnswerFacts DEF SendCancel, Become, Send, TypeOK, Operations
  <1>3. RequestsInOrder'
    BY <1>0, <1>1 DEF SendCancel, Become, Send, RequestsInOrder, Pending,
       TypeOK
  <1>4. ServiceCoherent'
    BY <1>0, <1>1 DEF SendCancel, Become, Send, ServiceCoherent, InService
  <1>5. CancelIsFinal'
    <2> SUFFICES ASSUME NEW u \in Trainers
                 PROVE  /\ AwaitsInCleanup(u)' /\ NoClaimAfterCancel(u)'
                        /\ QuietAfterCancel(u)'
      BY DEF CancelIsFinal
    <2>0. AwaitsInCleanup(u) /\ NoClaimAfterCancel(u) /\ QuietAfterCancel(u)
      BY <1>0 DEF CancelIsFinal
    <2>1. AwaitsInCleanup(u)'
      BY <1>0, <2>0 DEF SendCancel, Become, Send, AwaitsInCleanup, TypeOK
    <2>2. NoClaimAfterCancel(u)'
      BY <1>1, <2>0, AnswerFacts DEF SendCancel, Send, NoClaimAfterCancel,
         Confirmed, Answered, Pending
    <2>3. QuietAfterCancel(u)'
      BY <1>1, <2>0, AnswerFacts DEF SendCancel, Send, QuietAfterCancel,
         Confirmed, Answered
    <2> QED
      BY <2>1, <2>2, <2>3
  <1>6. RepliesNameTheirService'
    <2> SUFFICES ASSUME NEW u \in Trainers
                 PROVE  RepliesAreKnown(u)' /\ ClaimReply(u)' /\ ProbeReply(u)'
      BY DEF RepliesNameTheirService
    <2>0. RepliesAreKnown(u) /\ ClaimReply(u) /\ ProbeReply(u)
      BY <1>0 DEF RepliesNameTheirService
    <2>1. RepliesAreKnown(u)'
      BY <1>1, <2>0, AnswerFacts DEF SendCancel, Send, RepliesAreKnown,
         Answered
    <2>2. ClaimReply(u)'
      BY <1>1, <2>0 DEF SendCancel, Become, Send, ClaimReply, Answered
    <2>3. ProbeReply(u)'
      BY <1>1, <2>0 DEF SendCancel, Become, Send, ProbeReply, Answered
    <2> QED
      BY <2>1, <2>2, <2>3
  <1>7. MonitorCounts'
    BY <1>0, <1>1 DEF SendCancel, Become, Send, MonitorCounts
  <1>8. EpisodesOfTheClaim'
    BY <1>0, <1>1 DEF EpisodesOfTheClaim, InService
  <1> QED
    BY <1>2, <1>3, <1>4, <1>5, <1>6, <1>7, <1>8 DEF ControlInv

\* ControlInv survives CancelAcknowledged.
LEMMA CancelAcknowledgedPreservesInv ==
    ASSUME ControlInv, NEW t \in Trainers, CancelAcknowledged(t)
    PROVE  ControlInv'
  <1>0. TypeOK /\ EpisodesOfTheClaim /\ RequestsInOrder /\ ServiceCoherent
        /\ CancelIsFinal /\ RepliesNameTheirService /\ MonitorCounts
    BY DEF ControlInv
  <1>1. /\ UNCHANGED <<up, serviceId, claim, ready, closed, handling>>
        /\ UNCHANGED <<episode, run, inbox, answer, known, monitor>>
        /\ UNCHANGED <<misses, process>>
    BY DEF CancelAcknowledged, LaunchStep, Settle, serviceVars, episodeVars,
       monitorVars
  <1>2. TypeOK'
    BY <1>0, <1>1 DEF CancelAcknowledged, Settle, Become, Answered, TypeOK
  <1>3. RequestsInOrder'
    BY <1>0, <1>1 DEF CancelAcknowledged, Settle, Become, RequestsInOrder,
       Pending
  <1>4. ServiceCoherent'
    BY <1>0, <1>1 DEF CancelAcknowledged, Settle, Become, ServiceCoherent
  <1>5. CancelIsFinal'
    <2> SUFFICES ASSUME NEW u \in Trainers
                 PROVE  /\ AwaitsInCleanup(u)' /\ NoClaimAfterCancel(u)'
                        /\ QuietAfterCancel(u)'
      BY DEF CancelIsFinal
    <2>0. AwaitsInCleanup(u) /\ NoClaimAfterCancel(u) /\ QuietAfterCancel(u)
      BY <1>0 DEF CancelIsFinal
    <2>1. AwaitsInCleanup(u)'
      BY <1>0, <2>0 DEF CancelAcknowledged, Settle, Become, AwaitsInCleanup,
         TypeOK
    <2>2. NoClaimAfterCancel(u)'
      BY <1>1, <2>0 DEF CancelAcknowledged, Settle, Answered,
         NoClaimAfterCancel, Confirmed, Pending
    <2>3. QuietAfterCancel(u)'
      BY <1>1, <2>0 DEF CancelAcknowledged, Settle, Answered, QuietAfterCancel,
         Confirmed
    <2> QED
      BY <2>1, <2>2, <2>3
  <1>6. RepliesNameTheirService'
    <2> SUFFICES ASSUME NEW u \in Trainers
                 PROVE  RepliesAreKnown(u)' /\ ClaimReply(u)' /\ ProbeReply(u)'
      BY DEF RepliesNameTheirService
    <2>0. RepliesAreKnown(u) /\ ClaimReply(u) /\ ProbeReply(u)
      BY <1>0 DEF RepliesNameTheirService
    <2>1. RepliesAreKnown(u)'
      BY <1>1, <2>0 DEF RepliesAreKnown, Answered
    <2>2. ClaimReply(u)'
      BY <1>1, <2>0 DEF CancelAcknowledged, Settle, Become, Answered,
         ClaimReply
    <2>3. ProbeReply(u)'
      BY <1>1, <2>0 DEF CancelAcknowledged, Settle, Become, Answered,
         ProbeReply
    <2> QED
      BY <2>1, <2>2, <2>3
  <1>7. MonitorCounts'
    BY <1>0, <1>1 DEF CancelAcknowledged, Settle, Become, Answered,
       MonitorCounts
  <1>8. EpisodesOfTheClaim'
    BY <1>0, <1>1 DEF EpisodesOfTheClaim, InService
  <1> QED
    BY <1>2, <1>3, <1>4, <1>5, <1>6, <1>7, <1>8 DEF ControlInv

\* ControlInv survives CancelUnknown.
LEMMA CancelUnknownPreservesInv ==
    ASSUME ControlInv, NEW t \in Trainers, CancelUnknown(t)
    PROVE  ControlInv'
  <1>0. TypeOK /\ EpisodesOfTheClaim /\ RequestsInOrder /\ ServiceCoherent
        /\ CancelIsFinal /\ RepliesNameTheirService /\ MonitorCounts
    BY DEF ControlInv
  <1>1. /\ UNCHANGED <<up, serviceId, claim, ready, closed, handling>>
        /\ UNCHANGED <<episode, run, inbox, answer, known, monitor>>
        /\ UNCHANGED <<misses, process>>
    BY DEF CancelUnknown, LaunchStep, Settle, serviceVars, episodeVars,
       monitorVars
  <1>2. TypeOK'
    BY <1>0, <1>1 DEF CancelUnknown, Settle, Become, TypeOK
  <1>3. RequestsInOrder'
    BY <1>0, <1>1 DEF CancelUnknown, Settle, Become, RequestsInOrder, Pending
  <1>4. ServiceCoherent'
    BY <1>0, <1>1 DEF CancelUnknown, Settle, Become, ServiceCoherent, InService
  <1>5. CancelIsFinal'
    <2> SUFFICES ASSUME NEW u \in Trainers
                 PROVE  /\ AwaitsInCleanup(u)' /\ NoClaimAfterCancel(u)'
                        /\ QuietAfterCancel(u)'
      BY DEF CancelIsFinal
    <2>0. AwaitsInCleanup(u) /\ NoClaimAfterCancel(u) /\ QuietAfterCancel(u)
      BY <1>0 DEF CancelIsFinal
    <2>1. AwaitsInCleanup(u)'
      BY <1>0, <2>0 DEF CancelUnknown, Settle, Become, AwaitsInCleanup, TypeOK
    <2>2. NoClaimAfterCancel(u)'
      BY <1>1, <2>0 DEF CancelUnknown, Settle, NoClaimAfterCancel, Confirmed,
         Answered, Pending
    <2>3. QuietAfterCancel(u)'
      BY <1>1, <2>0 DEF CancelUnknown, Settle, QuietAfterCancel, Confirmed,
         Answered
    <2> QED
      BY <2>1, <2>2, <2>3
  <1>6. RepliesNameTheirService'
    <2> SUFFICES ASSUME NEW u \in Trainers
                 PROVE  RepliesAreKnown(u)' /\ ClaimReply(u)' /\ ProbeReply(u)'
      BY DEF RepliesNameTheirService
    <2>0. RepliesAreKnown(u) /\ ClaimReply(u) /\ ProbeReply(u)
      BY <1>0 DEF RepliesNameTheirService
    <2>1. RepliesAreKnown(u)'
      BY <1>1, <2>0 DEF RepliesAreKnown, Answered
    <2>2. ClaimReply(u)'
      BY <1>1, <2>0 DEF CancelUnknown, Settle, Become, ClaimReply, Answered
    <2>3. ProbeReply(u)'
      BY <1>1, <2>0 DEF CancelUnknown, Settle, Become, ProbeReply, Answered
    <2> QED
      BY <2>1, <2>2, <2>3
  <1>7. MonitorCounts'
    BY <1>0, <1>1 DEF CancelUnknown, Settle, Become, MonitorCounts
  <1>8. EpisodesOfTheClaim'
    BY <1>0, <1>1 DEF EpisodesOfTheClaim, InService
  <1> QED
    BY <1>2, <1>3, <1>4, <1>5, <1>6, <1>7, <1>8 DEF ControlInv

\* ControlInv survives StopProcess.
LEMMA StopProcessPreservesInv ==
    ASSUME ControlInv, NEW t \in Trainers, StopProcess(t)
    PROVE  ControlInv'
  <1>0. TypeOK /\ EpisodesOfTheClaim /\ RequestsInOrder /\ ServiceCoherent
        /\ CancelIsFinal /\ RepliesNameTheirService /\ MonitorCounts
    BY DEF ControlInv
  <1>1. /\ UNCHANGED <<up, serviceId, claim, ready, closed, handling>>
        /\ UNCHANGED <<episode, run, known, misses, cleanup>>
    BY DEF StopProcess, LaunchStep, serviceVars, episodeVars, monitorVars
  <1>2. TypeOK'
    <2>1. answer' \in [Trainers -> [Operations -> Answers]]
      <3>1. [o \in Operations |-> Idle] \in [Operations -> Answers]
        BY AnswerFacts
      <3> QED
        BY <1>0, <3>1 DEF StopProcess, TypeOK
    <2>2. process' \in [Trainers -> {"none", "running", "exited"}]
      BY <1>0 DEF StopProcess, TypeOK
    <2>3. inbox' \in [Trainers -> Seq(Operations \ {"identity"})]
      <3>1. <<>> \in Seq(Operations \ {"identity"})
        OBVIOUS
      <3> QED
        BY <1>0, <3>1 DEF StopProcess, TypeOK
    <2> QED
      BY <1>0, <1>1, <2>1, <2>2, <2>3 DEF StopProcess, Become, TypeOK
  <1>3. RequestsInOrder'
    BY <1>0, <1>1 DEF StopProcess, Become, RequestsInOrder, Pending, TypeOK
  <1>4. ServiceCoherent'
    BY <1>0, <1>1 DEF StopProcess, Become, ServiceCoherent, InService
  <1>5. CancelIsFinal'
    <2> SUFFICES ASSUME NEW u \in Trainers
                 PROVE  /\ AwaitsInCleanup(u)' /\ NoClaimAfterCancel(u)'
                        /\ QuietAfterCancel(u)'
      BY DEF CancelIsFinal
    <2>0. AwaitsInCleanup(u) /\ NoClaimAfterCancel(u) /\ QuietAfterCancel(u)
      BY <1>0 DEF CancelIsFinal
    <2>1. AwaitsInCleanup(u)'
      BY <1>0, <2>0 DEF StopProcess, Become, AwaitsInCleanup, Operations,
         TypeOK
    <2>2. NoClaimAfterCancel(u)'
      BY <1>0, <1>1, <2>0, AnswerFacts DEF StopProcess, NoClaimAfterCancel,
         Confirmed, Answered, Pending, Operations, TypeOK
    <2>3. QuietAfterCancel(u)'
      BY <1>1, <2>0, AnswerFacts DEF StopProcess, QuietAfterCancel, Confirmed,
         Answered, Operations
    <2> QED
      BY <2>1, <2>2, <2>3
  <1>6. RepliesNameTheirService'
    <2> SUFFICES ASSUME NEW u \in Trainers
                 PROVE  RepliesAreKnown(u)' /\ ClaimReply(u)' /\ ProbeReply(u)'
      BY DEF RepliesNameTheirService
    <2>0. RepliesAreKnown(u) /\ ClaimReply(u) /\ ProbeReply(u)
      BY <1>0 DEF RepliesNameTheirService
    <2>1. RepliesAreKnown(u)'
      BY <1>1, <2>0, AnswerFacts DEF StopProcess, RepliesAreKnown, Answered
    <2>2. ClaimReply(u)'
      BY <1>1, <2>0, AnswerFacts DEF StopProcess, Become, ClaimReply, Answered,
         Operations
    <2>3. ProbeReply(u)'
      BY <1>1, <2>0, AnswerFacts DEF StopProcess, Become, ProbeReply, Answered,
         Operations
    <2> QED
      BY <2>1, <2>2, <2>3
  <1>7. MonitorCounts'
    BY <1>0, <1>1 DEF StopProcess, Become, MonitorCounts, TypeOK
  <1>8. EpisodesOfTheClaim'
    BY <1>0, <1>1 DEF EpisodesOfTheClaim, InService
  <1> QED
    BY <1>2, <1>3, <1>4, <1>5, <1>6, <1>7, <1>8 DEF ControlInv

\* ControlInv holds initially.
LEMMA InitEstablishesInv == Init => ControlInv
  <1> SUFFICES ASSUME Init
               PROVE  ControlInv
    OBVIOUS
  <1>1. TypeOK
    <2>1. [o \in Operations |-> Idle] \in [Operations -> Answers]
      BY AnswerFacts
    <2>2. <<>> \in Seq(Operations \ {"identity"})
      OBVIOUS
    <2>3. 0 \in 0 .. MaxStarts /\ 0 \in 0 .. HealthLimit
      BY ControlAssumption
    <2> QED
      BY <2>1, <2>2, <2>3 DEF Init, TypeOK
  <1>2. EpisodesOfTheClaim /\ RequestsInOrder /\ ServiceCoherent
    BY ControlAssumption DEF Init, EpisodesOfTheClaim, RequestsInOrder,
       ServiceCoherent, InService, Pending
  <1>3. CancelIsFinal /\ RepliesNameTheirService
    BY ControlAssumption, AnswerFacts DEF Init, CancelIsFinal, AwaitsInCleanup,
       NoClaimAfterCancel, QuietAfterCancel, Confirmed, Answered, Operations,
       RepliesNameTheirService, RepliesAreKnown, ClaimReply, ProbeReply
  <1>4. MonitorCounts
    <2>1. 0 < HealthLimit
      BY ControlAssumption
    <2> QED
      BY <2>1 DEF Init, MonitorCounts
  <1> QED
    BY <1>1, <1>2, <1>3, <1>4 DEF ControlInv

\* ControlInv survives Receive.
LEMMA ReceivePreservesInv ==
    ASSUME ControlInv, NEW t \in Trainers, Receive(t)
    PROVE  ControlInv'
  <1>1. Head(inbox[t]) \in {"claim", "probe", "cancel"}
    BY DEF Receive
  <1> QED
    BY <1>1, ReceiveClaimPreservesInv, ReceiveProbePreservesInv,
       ReceiveCancelPreservesInv

\* ControlInv survives a step that changes nothing.
LEMMA StutterPreservesInv == ControlInv /\ UNCHANGED vars => ControlInv'
  BY DEF ControlInv, vars, serviceVars, episodeVars, monitorVars, TypeOK,
     EpisodesOfTheClaim, RequestsInOrder, ServiceCoherent, CancelIsFinal,
     AwaitsInCleanup, NoClaimAfterCancel, QuietAfterCancel, Confirmed, Answered,
     Pending, RepliesNameTheirService, RepliesAreKnown, ClaimReply, ProbeReply,
     MonitorCounts

(* Whatever the order in which services stop and start, requests and       *)
(* replies travel and trainers give up, the claim of a service, the state  *)
(* of its episodes and what each trainer believes of it agree              *)
(* (server.control, train.launch).                                         *)
THEOREM ControlInvariant == Spec => []ControlInv
  <1>1. ControlInv /\ [Next]_vars => ControlInv'
    <2> SUFFICES ASSUME ControlInv, [Next]_vars
                 PROVE  ControlInv'
      OBVIOUS
    <2>1. CASE StartService
      BY <2>1, StartServicePreservesInv
    <2>2. CASE StopService
      BY <2>2, StopServicePreservesInv
    <2>3. ASSUME NEW t \in Trainers,
                 Receive(t) \/ HandleIdentity(t) \/ ProbeReturns(t) \/ DrainReturns(t)
          PROVE  ControlInv'
      BY <2>3, ReceivePreservesInv, HandleIdentityPreservesInv,
         ProbeReturnsPreservesInv, DrainReturnsPreservesInv
    <2>4. ASSUME NEW t \in Trainers, Monitor(t)
          PROVE  ControlInv'
      BY <2>4, AskIdentityPreservesInv, HearIdentityPreservesInv,
         MissIdentityPreservesInv DEF Monitor
    <2>5. ASSUME NEW t \in Trainers, Launch(t)
          PROVE  ControlInv'
      BY <2>5, SendClaimPreservesInv, ClaimedPreservesInv, VerifiedPreservesInv,
         LeavesPreservesInv, SendCancelPreservesInv,
         CancelAcknowledgedPreservesInv, CancelUnknownPreservesInv,
         StopProcessPreservesInv DEF Launch
    <2>6. ASSUME NEW t \in Trainers, ProcessExits(t) \/ Interrupt(t)
          PROVE  ControlInv'
      BY <2>6, ProcessExitsPreservesInv, InterruptPreservesInv
    <2>7. ASSUME NEW e \in Episodes, EpisodeStep(e)
          PROVE  ControlInv'
      BY <2>7, SendEpisodePreservesInv, AdmitEpisodePreservesInv,
         EpisodeProbedPreservesInv, EpisodeEndsPreservesInv DEF EpisodeStep
    <2>8. CASE UNCHANGED vars
      BY <2>8, StutterPreservesInv
    <2> QED
      BY <2>1, <2>2, <2>3, <2>4, <2>5, <2>6, <2>7, <2>8 DEF Next
  <1> QED
    BY <1>1, InitEstablishesInv, PTL DEF Spec

(* Once a trainer has recorded an acknowledged cleanup, no episode of its  *)
(* run is in a service, at any later time (server.control, train.launch).  *)
THEOREM AcknowledgementHolds == Spec => []AcknowledgedIsFinal
  <1>1. ControlInv => AcknowledgedIsFinal
    BY DEF ControlInv, CancelIsFinal, QuietAfterCancel, Confirmed, AcknowledgedIsFinal
  <1> QED
    BY <1>1, ControlInvariant, PTL

(* A service runs episodes of the claiming run only, after the probe of    *)
(* its inference server (server._run).                                     *)
THEOREM EpisodesAreTheClaims == Spec => []EpisodesOfTheClaim
  <1>1. ControlInv => EpisodesOfTheClaim
    BY DEF ControlInv
  <1> QED
    BY <1>1, ControlInvariant, PTL

(* A trainer that is refused a service does not close it for its owner     *)
(* (server.control).                                                       *)
THEOREM OnlyTheOwnerCloses == Spec => []ClosedByOwner
  <1>1. ControlInv => ClosedByOwner
    BY DEF ControlInv, ServiceCoherent, ClosedByOwner, BeforeCleanup
  <1> QED
    BY <1>1, ControlInvariant, PTL

(* A trainer that trains owns the open, verified service it knows, as long *)
(* as that service runs (train.launch).                                    *)
THEOREM TrainingHasItsService == Spec => []TrainingIsBacked
  <1>1. ASSUME ControlInv
        PROVE  TrainingIsBacked
    <2> SUFFICES ASSUME NEW t \in Trainers, phase[t] \in {"starting", "training"},
                        up, serviceId = known[t]
                 PROVE  claim = t /\ ~closed /\ (phase[t] = "training" => ready)
      BY DEF TrainingIsBacked
    <2>1. ClaimReply(t) /\ ProbeReply(t) /\ RepliesAreKnown(t) /\ TypeOK
          /\ ServiceCoherent
      BY <1>1 DEF ControlInv, RepliesNameTheirService
    <2>2. claim = t
      BY <2>1 DEF ClaimReply
    <2>3. ~closed
      BY <2>1, <2>2 DEF ServiceCoherent
    <2>4. phase[t] = "training" => ready
      <3> SUFFICES ASSUME phase[t] = "training"
                   PROVE  ready
        OBVIOUS
      <3>1. Answered(t, "probe") /\ known[t] <= answer[t]["probe"][2]
        BY <2>1 DEF ProbeReply
      <3>2. answer[t]["probe"][2] <= serviceId
        BY <2>1, <3>1 DEF RepliesAreKnown, Operations
      <3>3. answer[t]["probe"] \in Answers /\ serviceId \in Nat
        BY <2>1, ControlAssumption DEF TypeOK, Operations
      <3>4. answer[t]["probe"][2] \in Nat
        BY <3>1, <3>3, AnswerFacts, ControlAssumption DEF Answered, Ids
      <3>5. answer[t]["probe"][2] = serviceId
        BY <3>1, <3>2, <3>3, <3>4
      <3> QED
        BY <2>1, <3>1, <3>5 DEF ProbeReply
    <2> QED
      BY <2>2, <2>3, <2>4
  <1> QED
    BY <1>1, ControlInvariant, PTL

=============================================================================
