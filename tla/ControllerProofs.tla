----------------------------- MODULE ControllerProofs -----------------------------
(* Theorems about Controller for every value of its constants: passes and    *)
(* events together.                                                          *)
EXTENDS Controller, ReconcilerProofs, SequenceTheorems

-----------------------------------------------------------------------------
(* The types of a pass when others change the pods too.  MaxPodsRespected  *)
(* no longer holds, so that activePods stays a number has to follow from   *)
(* the snapshots alone: it bounds the pods the pass may still count down.  *)

ScanInv ==
  pc \in {"visit", "spawn"} /\ Wanted # {} => Cardinality(Examined) <= activePods

PassInv == TypeOK /\ ScanInv

\* The examined pods are agents, and a subset of them is no more.
LEMMA ExaminedCount ==
  /\ Examined \subseteq Agents /\ Wanted \subseteq Agents
  /\ Cardinality(Examined) \in Nat
  /\ \A S \in SUBSET Examined : Cardinality(S) \in Nat /\ Cardinality(S) <= Cardinality(Examined)
<1>1. Examined \subseteq Agents /\ Wanted \subseteq Agents
  BY DEF Examined, Wanted
<1>2. QED BY <1>1, SubsetCount

\* A pass that returned.
LEMMA PassReturned ==
  ASSUME TypeOK, Return, K8sTypeOK', UNCHANGED beads,
         upgrading' \subseteq Agents, replacing' \subseteq Agents,
         digests' \in [Images -> Digests \cup {NoDigest}]
  PROVE  PassInv'
<1>1. pc' = "idle" /\ activePods' = 0 /\ created' = 0 /\ current' = NoAgent
  BY DEF Return
<1>2. /\ desired' \in [Agents -> Images \cup {NoBead}]
      /\ actual' \in [Agents -> Pod \cup {NoPod}]
  BY DEF Return, NoBeads, NoPods
<1>3. PassTypeOK'
  BY <1>1, <1>2, LimitsAssumption DEF PassTypeOK
<1>4. QED BY <1>1, <1>3 DEF PassInv, TypeOK, ScanInv

\* Only the pods, the registry, the beads, the digests and the history moved.
LEMMA PassUntouched ==
  ASSUME PassInv, UNCHANGED <<pc, passVars>>, K8sTypeOK',
         upgrading' \subseteq Agents, replacing' \subseteq Agents,
         beads' \in [Agents -> Images \cup {NoBead}],
         digests' \in [Images -> Digests \cup {NoDigest}]
  PROVE  PassInv'
<1>1. PassTypeOK'
  BY PassKept DEF PassInv
<1>2. pc' = pc /\ activePods' = activePods /\ Wanted' = Wanted /\ Examined' = Examined
  BY DEF passVars, Wanted, Examined
<1>3. ScanInv'
  BY <1>2 DEF PassInv, ScanInv
<1>4. QED BY <1>1, <1>3 DEF PassInv, TypeOK

LEMMA PassDelete ==
  ASSUME PassInv, NEW a \in Agents, DeleteOrphan(a) \/ DeleteTerminal(a) \/ DeleteDrifted(a)
  PROVE  PassInv'
<1>1. PICK r \in Results : DeleteAgentPod(a, r) /\ (r # "ok" => Return) /\
        (r = "ok" => \/ pc = "orphans" /\ actual' = [actual EXCEPT ![a] = NoPod]
                       /\ UNCHANGED <<pc, desired, current, activePods, created, upgrading>>
                     \/ pc = "visit" /\ a \in Wanted /\ Visited(a) /\ UNCHANGED upgrading
                       /\ UNCHANGED activePods
                     \/ pc = "visit" /\ a \in Examined /\ Visited(a) /\ MarkUpgrading(a)
                       /\ activePods' = activePods - 1)
  BY DEF DeleteOrphan, DeleteTerminal, DeleteDrifted
<1>2. UNCHANGED <<registry, beads, digests>> /\ replacing' \subseteq Agents
        /\ upgrading' \subseteq Agents
  BY DEF DeleteOrphan, DeleteTerminal, DeleteDrifted, MarkUpgrading, PassInv, TypeOK
<1>3. pods' \in [Agents -> Pod \cup {NoPod}]
  BY <1>1, DeleteEffect DEF PassInv, TypeOK
<1>4. K8sTypeOK' /\ beads' \in [Agents -> Images \cup {NoBead}]
        /\ digests' \in [Images -> Digests \cup {NoDigest}]
  BY <1>2, <1>3 DEF PassInv, TypeOK, K8sTypeOK
<1>5. /\ actual \in [Agents -> Pod \cup {NoPod}]
      /\ activePods \in Nat /\ created \in 0..BurstLimit
  BY DEF PassInv, TypeOK, PassTypeOK
<1>6. CASE r # "ok"
  BY <1>1, <1>2, <1>4, <1>6, PassReturned DEF PassInv, TypeOK
<1>7. CASE r = "ok" /\ pc = "orphans" /\ actual' = [actual EXCEPT ![a] = NoPod]
             /\ UNCHANGED <<pc, desired, current, activePods, created, upgrading>>
  <2>1. PassTypeOK'
    BY <1>5, <1>7 DEF PassInv, TypeOK, PassTypeOK
  <2>2. ScanInv'
    BY <1>7 DEF ScanInv
  <2>3. QED BY <1>2, <1>4, <2>1, <2>2 DEF PassInv, TypeOK
<1>8. CASE r = "ok" /\ pc = "visit" /\ a \in Wanted /\ Visited(a)
  <2>1. /\ desired' = desired /\ created' = created /\ current' = a /\ pc' = "spawn"
        /\ actual' = [actual EXCEPT ![a] = NoPod]
    BY <1>8 DEF Visited
  <2>2. Wanted' = Wanted
    BY <2>1 DEF Wanted
  <2>3. Examined' \subseteq Examined \ {a}
    BY <1>5, <2>1, <2>2, ExaminedCount DEF Examined, Active
  <2>4. Cardinality(Examined) <= activePods
    BY <1>8 DEF PassInv, ScanInv
  <2>5. activePods' \in Nat /\ Cardinality(Examined') <= activePods'
    <3>1. CASE UNCHANGED activePods
      <4>1. Cardinality(Examined') \in Nat /\ Cardinality(Examined') <= Cardinality(Examined)
        BY <2>3, ExaminedCount
      <4>2. QED BY <4>1, <3>1, <2>4, <1>5, ExaminedCount
    <3>2. CASE a \in Examined /\ activePods' = activePods - 1
      <4>1. Cardinality(Examined') \in Nat
              /\ Cardinality(Examined') <= Cardinality(Examined) - 1
        BY <2>3, <3>2, RemoveCount, ExaminedCount
      <4>2. QED BY <4>1, <3>2, <2>4, <1>5, ExaminedCount
    <3>3. QED BY <1>1, <1>8, <3>1, <3>2
  <2>6. PassTypeOK'
    BY <1>5, <1>8, <2>1, <2>2, <2>5 DEF PassInv, TypeOK, PassTypeOK
  <2>7. QED BY <1>2, <1>4, <2>5, <2>6 DEF PassInv, TypeOK, ScanInv
<1>9. QED BY <1>1, <1>6, <1>7, <1>8 DEF Examined

LEMMA PassScan ==
  ASSUME PassInv, NEW stale \in SUBSET upgrading, Scan(stale)
  PROVE  PassInv'
<1>1. /\ UNCHANGED <<k8sVars, beads, current, created>>
      /\ pc = "orphans" /\ pc' = "visit"
      /\ activePods' = Cardinality(Examined)
      /\ digests' \in [Images -> Digests \cup {NoDigest}]
      /\ replacing' \subseteq Agents /\ upgrading' \subseteq Agents
  BY DEF Scan, CountActive, RecordedDigests, CleanAndClear, PassInv, TypeOK
<1>2. PICK fine \in SUBSET Examined :
        /\ desired' = [a \in Agents |-> IF a \in fine THEN NoBead ELSE desired[a]]
        /\ actual' = [a \in Agents |-> IF a \in Wanted \ fine THEN actual[a] ELSE NoPod]
  <2> DEFINE fine == {a \in Examined : ~podDriftReason(desired[a], actual[a], digests')}
  <2>1. fine \in SUBSET Examined
    OBVIOUS
  <2>2. QED BY <2>1 DEF Scan
<1>3. Examined' \subseteq Examined
  BY <1>2 DEF Wanted, Examined, Active
<1>4. ScanInv' /\ activePods' \in Nat
  BY <1>1, <1>3, ExaminedCount DEF ScanInv
<1>5. PassTypeOK'
  BY <1>1, <1>2, <1>4 DEF PassInv, TypeOK, PassTypeOK
<1>6. QED BY <1>1, <1>4, <1>5 DEF PassInv, TypeOK, K8sTypeOK, k8sVars

LEMMA PassLocal ==
  ASSUME PassInv, \/ ListAgentBeads \/ ListAgentPods \/ DeferSpawn
                  \/ \E a \in Agents : DeferUpgrade(a) \/ VisitMissing(a)
  PROVE  PassInv'
<1>1. UNCHANGED <<k8sVars, upgrading, beads, digests, activePods, created, replacing>>
  BY DEF ListAgentBeads, ListAgentPods, DeferSpawn, DeferUpgrade, VisitMissing, Visited, NextAgent
<1>2. CASE ListAgentBeads \/ ListAgentPods
  <2>1. NoBeads \in [Agents -> Images \cup {NoBead}]
    BY DEF NoBeads
  <2>2. PassTypeOK' /\ pc' \in {"list pods", "orphans"}
    BY <1>1, <1>2, <2>1 DEF ListAgentBeads, ListAgentPods, K8sTypeOK,
         PassInv, TypeOK, PassTypeOK
  <2>3. QED BY <1>1, <2>2 DEF ScanInv, PassInv, TypeOK, K8sTypeOK, k8sVars
<1>3. CASE DeferSpawn \/ \E a \in Agents : DeferUpgrade(a) \/ VisitMissing(a)
  <2>1. pc \in {"visit", "spawn"} /\ Wanted # {}
    BY <1>3 DEF DeferSpawn, DeferUpgrade, VisitMissing, Examined, PassInv, TypeOK, PassTypeOK
  <2>2. PassTypeOK'
    BY <1>3 DEF DeferSpawn, DeferUpgrade, VisitMissing, Visited, NextAgent, Examined, Wanted,
         PassInv, TypeOK, PassTypeOK
  <2>3. Examined' \subseteq Examined
    BY <1>3 DEF DeferSpawn, DeferUpgrade, VisitMissing, Visited, NextAgent, Examined, Wanted, Active,
         PassInv, TypeOK, PassTypeOK
  <2>4. Cardinality(Examined') <= activePods'
    <3>1. Cardinality(Examined) <= activePods
      BY <2>1 DEF PassInv, ScanInv
    <3>2. Cardinality(Examined') \in Nat /\ Cardinality(Examined) \in Nat
            /\ Cardinality(Examined') <= Cardinality(Examined)
      BY <2>3, ExaminedCount
    <3>3. activePods' = activePods /\ activePods \in Nat
      BY <1>1 DEF PassInv, TypeOK, PassTypeOK
    <3>4. QED BY <3>1, <3>2, <3>3
  <2>5. QED BY <1>1, <2>2, <2>4 DEF PassInv, TypeOK, ScanInv, K8sTypeOK, k8sVars
<1>4. QED BY <1>2, <1>3

LEMMA PassCreate == ASSUME PassInv, CreatePod PROVE PassInv'
<1>1. /\ pc = "spawn" /\ current \in Wanted /\ current \in Agents
      /\ desired[current] \in Images
      /\ activePods \in Nat /\ created \in Nat
  BY DEF CreatePod, PassInv, TypeOK, PassTypeOK, Wanted
<1>2. PICK r \in Results : CreateAgentPod(current, desired[current], r) /\
        \/ /\ r = "ok"
           /\ created' = created + 1 /\ activePods' = activePods + 1
           /\ NextAgent
        \/ r # "ok" /\ Return
  BY DEF CreatePod
<1>3. UNCHANGED <<registry, upgrading, beads, digests, replacing>> /\ created < BurstLimit
  BY DEF CreatePod, MaySpawn
<1>4. K8sTypeOK'
  <2>1. pods' \in [Agents -> Pod \cup {NoPod}]
    BY <1>1, <1>2, CreateEffect DEF PassInv, TypeOK
  <2>2. QED BY <1>3, <2>1 DEF PassInv, TypeOK, K8sTypeOK
<1>5. CASE r # "ok"
  BY <1>2, <1>3, <1>4, <1>5, PassReturned DEF PassInv, TypeOK
<1>6. CASE r = "ok"
  <2>1. /\ created' = created + 1 /\ activePods' = activePods + 1
        /\ current' = NoAgent /\ pc' = "visit" /\ actual' = actual
        /\ desired' = [desired EXCEPT ![current] = NoBead]
    BY <1>2, <1>6 DEF NextAgent
  <2>2. PassTypeOK'
    BY <1>1, <1>3, <2>1, LimitsAssumption DEF PassInv, TypeOK, PassTypeOK
  <2>3. Examined' \subseteq Examined
    BY <2>1 DEF Examined, Wanted, PassInv, TypeOK, PassTypeOK
  <2>4. Cardinality(Examined') <= activePods'
    <3>1. Cardinality(Examined) <= activePods
      BY <1>1 DEF PassInv, ScanInv
    <3>2. QED BY <1>1, <2>1, <2>3, <3>1, ExaminedCount
  <2>5. QED BY <1>3, <1>4, <2>2, <2>4 DEF PassInv, TypeOK, ScanInv
<1>7. QED BY <1>5, <1>6

LEMMA PassEnd == ASSUME PassInv, Finish \/ PodListingFails \/ Restart PROVE PassInv'
<1>1. Return /\ UNCHANGED <<k8sVars, beads>>
  BY DEF Finish, PodListingFails, Restart
<1>2. /\ upgrading' \subseteq Agents /\ replacing' \subseteq Agents
      /\ digests' \in [Images -> Digests \cup {NoDigest}]
  BY DEF Finish, PodListingFails, Restart, PassInv, TypeOK
<1>3. K8sTypeOK'
  BY <1>1 DEF PassInv, TypeOK, K8sTypeOK, k8sVars
<1>4. QED BY <1>1, <1>2, <1>3, PassReturned DEF PassInv

\* A step of Reconciler, whatever the limit.
LEMMA PassStep == ASSUME PassInv, [Next]_vars PROVE PassInv'
<1>1. CASE Reconcile
  <2>1. CASE \E a \in Agents : DeleteOrphan(a) \/ DeleteTerminal(a) \/ DeleteDrifted(a)
    BY <2>1, PassDelete
  <2>2. CASE \E stale \in SUBSET upgrading : Scan(stale)
    BY <2>2, PassScan
  <2>3. QED BY <1>1, <2>1, <2>2, PassLocal, PassCreate, PassEnd DEF Reconcile, Visit
<1>2. CASE Restart
  BY <1>2, PassEnd
<1>3. CASE \/ Cluster
           \/ \E a \in Agents : ChangeBead(a)
           \/ \E i \in Images : LearnDigest(i)
           \/ UNCHANGED vars
  <2>1. UNCHANGED <<pc, passVars, upgrading>>
    BY <1>3 DEF Cluster, ChangeBead, LearnDigest, vars
  <2>2. K8sTypeOK'
    <3>1. CASE \E a \in Agents : Kubelet(a)
      BY <3>1, KubeletEffect DEF PassInv, TypeOK
    <3>2. CASE \E i \in Images : PushImage(i)
      BY <3>2 DEF PassInv, TypeOK, PushImage, K8sTypeOK
    <3>3. CASE UNCHANGED k8sVars
      BY <3>3 DEF PassInv, TypeOK, K8sTypeOK, k8sVars
    <3>4. QED BY <1>3, <3>1, <3>2, <3>3 DEF Cluster, ChangeBead, LearnDigest, vars
  <2>3. /\ beads' \in [Agents -> Images \cup {NoBead}]
        /\ digests' \in [Images -> Digests \cup {NoDigest}]
        /\ replacing' \subseteq Agents
    BY <1>3 DEF PassInv, TypeOK, Cluster, ChangeBead, LearnDigest, vars
  <2>4. QED BY <2>1, <2>2, <2>3, PassUntouched DEF PassInv, TypeOK
<1>4. QED BY <1>1, <1>2, <1>3 DEF Next

-----------------------------------------------------------------------------
(* The stream and the main loop.                                           *)

LEMMA MessageType == ASSUME NEW m \in Message PROVE [type |-> mapBeadEvent(m), agent |-> m.agent] \in Event
BY DEF Message, Event, EventType, mapBeadEvent

\* A full channel takes nothing.
LEMMA ProcessType ==
  ASSUME StreamTypeOK, NEW m \in Message, processMessage(m)
  PROVE  channel' \in Seq(Event) /\ Len(channel') <= ChannelSize
<1> DEFINE event == [type |-> mapBeadEvent(m), agent |-> m.agent]
<1>1. event \in Event
  BY MessageType
<1> HIDE DEF event
<1>2. channel' \in {channel, IF Len(channel) < ChannelSize THEN Append(channel, event) ELSE channel}
  BY DEF processMessage, event
<1>3. channel \in Seq(Event) /\ Len(channel) \in Nat /\ Len(channel) <= ChannelSize
  BY DEF StreamTypeOK
<1>4. QED BY <1>1, <1>2, <1>3, ChannelSizeAssumption

LEMMA WatchType == ASSUME StreamTypeOK, Watch PROVE StreamTypeOK'
<1>1. ASSUME NEW acked \in BOOLEAN, Deliver(acked) PROVE StreamTypeOK'
  <2>1. Head(stream) \in Message /\ Tail(stream) \in Seq(Message)
    BY <1>1 DEF Deliver, StreamTypeOK
  <2>2. QED BY <1>1, <2>1, ProcessType DEF Deliver, StreamTypeOK
<1>2. ASSUME NEW acked \in BOOLEAN, NEW m \in unacked, Redeliver(m, acked) PROVE StreamTypeOK'
  <2>1. m \in Message
    BY <1>2 DEF Redeliver, StreamTypeOK
  <2>2. QED BY <1>2, <2>1, ProcessType DEF Redeliver, StreamTypeOK
<1>3. QED BY <1>1, <1>2 DEF Watch

LoopInv == PassInv /\ ControllerTypeOK

\* An event the main loop takes is about an agent, and the channel gets shorter.
LEMMA TakenEvent ==
  ASSUME StreamTypeOK, channel # <<>>
  PROVE  Head(channel).agent \in Agents /\ Tail(channel) \in Seq(Event)
           /\ Len(Tail(channel)) <= ChannelSize
<1>1. channel \in Seq(Event) /\ Head(channel) \in Event /\ Tail(channel) \in Seq(Event)
  BY DEF StreamTypeOK
<1>2. Head(channel).agent \in Agents
  BY <1>1, EventsAssumption DEF Event
<1>3. Len(Tail(channel)) = Len(channel) - 1 /\ Len(channel) \in Nat
  BY <1>1, HeadTailProperties
<1>4. QED BY <1>1, <1>2, <1>3, ChannelSizeAssumption DEF StreamTypeOK

LEMMA EventKept == ASSUME LoopInv, HandleEvent PROVE LoopInv'
<1>1. channel # <<>> /\ channel' = Tail(channel) /\ UNCHANGED <<stream, unacked, started, stopping>>
  BY DEF HandleEvent, HandleSpawn, HandleRemoval, HandleUpdate, Handles
<1>2. StreamTypeOK' /\ Head(channel).agent \in Agents
  BY <1>1, TakenEvent DEF LoopInv, ControllerTypeOK, StreamTypeOK
<1>3. UNCHANGED <<registry, beads, passesVars>>
  BY DEF HandleEvent, HandleSpawn, HandleRemoval, HandleUpdate, vars, k8sVars, passesVars
<1>4. pods' \in [Agents -> Pod \cup {NoPod}]
  <2>1. K8sTypeOK
    BY DEF LoopInv, PassInv, TypeOK
  <2>2. CASE HandleSpawn
    <3>1. PICK image \in Images, r \in Results : CreateAgentPod(Head(channel).agent, image, r)
      BY <2>2, EventsAssumption DEF HandleSpawn
    <3>2. QED BY <2>1, <3>1, <1>2, CreateEffect
  <2>3. CASE HandleRemoval
    BY <2>1, <2>3, <1>2, DeleteEffect DEF HandleRemoval
  <2>4. CASE HandleUpdate
    BY <2>1, <2>4 DEF HandleUpdate, vars, k8sVars, K8sTypeOK
  <2>5. QED BY <2>2, <2>3, <2>4 DEF HandleEvent
<1>5. K8sTypeOK'
  BY <1>3, <1>4 DEF LoopInv, PassInv, TypeOK, K8sTypeOK
<1>6. PassInv'
  BY <1>3, <1>5, PassUntouched DEF LoopInv, PassInv, TypeOK, passesVars
<1>7. QED BY <1>1, <1>2, <1>6 DEF LoopInv, PassInv, ControllerTypeOK

\* What the daemon publishes is a message, and the change of a bead one of its type.
LEMMA DaemonType == ASSUME LoopInv, NEW a \in Agents, Daemon(a) PROVE LoopInv'
<1>1. PICK action \in {"created", "updated", "closed", "deleted"}, inProgress \in BOOLEAN,
           complete \in BOOLEAN : Announce(a, action, inProgress, complete)
  BY DEF Daemon, OpenBead, UpdateBead, EndBead
<1>2. /\ UNCHANGED <<k8sVars, passesVars, unacked, channel, started>>
      /\ stream' = Append(stream, [agent |-> a, action |-> action, stopping |-> a \in stopping',
                                   toInProgress |-> inProgress, complete |-> complete])
  BY <1>1 DEF Announce, Publish
<1>3. beads' \in [Agents -> Images \cup {NoBead}] /\ stopping' \subseteq Agents
  BY DEF Daemon, OpenBead, UpdateBead, EndBead, LoopInv, ControllerTypeOK, PassInv, TypeOK
<1>4. stream' \in Seq(Message)
  <2>1. [agent |-> a, action |-> action, stopping |-> a \in stopping',
         toInProgress |-> inProgress, complete |-> complete] \in Message
    BY EventsAssumption DEF Message
  <2>2. QED BY <1>2, <2>1 DEF LoopInv, ControllerTypeOK, StreamTypeOK
<1>5. PassInv'
  BY <1>2, <1>3, PassUntouched DEF LoopInv, PassInv, TypeOK, K8sTypeOK, passesVars, k8sVars
<1>6. QED BY <1>2, <1>3, <1>4, <1>5 DEF LoopInv, PassInv, ControllerTypeOK, StreamTypeOK

LEMMA LoopInit == ControllerInit => LoopInv
<1> SUFFICES ASSUME ControllerInit PROVE LoopInv
  OBVIOUS
<1>1. TypeOK
  BY LimitInit DEF ControllerInit, LimitInv
<1>2. pc = "idle"
  BY DEF ControllerInit, Init
<1>3. StreamTypeOK
  BY ChannelSizeAssumption DEF ControllerInit, StreamInit, StreamTypeOK
<1>4. QED BY <1>1, <1>2, <1>3 DEF ControllerInit, LoopInv, PassInv, ScanInv, ControllerTypeOK

\* What a step is for Reconciler: one of its own, an event, or a change of a bead.
LEMMA LoopStep == ASSUME LoopInv, [ControllerNext]_allVars PROVE LoopInv'
<1>1. CASE \/ Pass \/ Crash \/ StartLoop \/ WatcherStep \/ UNCHANGED allVars
           \/ (Cluster \/ \E i \in Images : LearnDigest(i)) /\ UNCHANGED loopVars
  <2>1. [Next]_vars
    BY <1>1 DEF Pass, Crash, StartLoop, WatcherStep, Next, allVars
  <2>2. PassInv'
    BY <2>1, PassStep DEF LoopInv
  <2>3. started' \in BOOLEAN /\ stopping' \subseteq Agents
    BY <1>1 DEF Pass, Crash, StartLoop, WatcherStep, loopVars, allVars, LoopInv, ControllerTypeOK
  <2>4. StreamTypeOK'
    <3>1. CASE WatcherStep
      BY <3>1, WatchType DEF WatcherStep, LoopInv, ControllerTypeOK
    <3>2. CASE Crash
      BY <3>2, ChannelSizeAssumption DEF Crash, LoseChannel, LoopInv, ControllerTypeOK, StreamTypeOK
    <3>3. CASE UNCHANGED streamVars
      BY <3>3 DEF streamVars, LoopInv, ControllerTypeOK, StreamTypeOK
    <3>4. QED BY <1>1, <3>1, <3>2, <3>3 DEF Pass, StartLoop, loopVars, allVars
  <2>5. QED BY <2>2, <2>3, <2>4 DEF LoopInv, PassInv, ControllerTypeOK
<1>2. CASE HandleEvent
  BY <1>2, EventKept
<1>3. CASE \E a \in Agents : Daemon(a)
  BY <1>3, DaemonType
<1>4. QED BY <1>1, <1>2, <1>3 DEF ControllerNext, Running

\* Events that create and delete pods in the middle of a pass leave its counters
\* numbers, the channel within its capacity, and every event about an agent.
THEOREM ControllerTypeCorrect == ControllerSpec => []ControllerTypeOK
<1>1. LoopInv => ControllerTypeOK
  BY DEF LoopInv
<1>2. LoopInv /\ [ControllerNext]_allVars => LoopInv'
  BY LoopStep
<1>3. QED BY <1>1, <1>2, LoopInit, PTL DEF ControllerSpec

-----------------------------------------------------------------------------
(* Rolling upgrades.                                                       *)

\* An event makes no pod ready, and what it deletes is terminating or gone.
LEMMA UpgradeEvent == ASSUME LoopInv, UpgradeInv, HandleEvent PROVE UpgradeInv'
<1>1. UNCHANGED <<passesVars>> /\ channel # <<>>
  BY DEF HandleEvent, HandleSpawn, HandleRemoval, HandleUpdate, Handles, vars, k8sVars, passesVars
<1>2. Head(channel).agent \in Agents /\ K8sTypeOK
  BY <1>1, TakenEvent DEF LoopInv, PassInv, TypeOK, ControllerTypeOK
<1>3. \A b \in Agents : pods'[b] = pods[b] \/ ~Ready(pods'[b])
                          \/ (Ready(pods[b]) /\ pods'[b].terminating)
  <2>1. CASE HandleSpawn
    <3>1. PICK image \in Images, r \in Results : CreateAgentPod(Head(channel).agent, image, r)
      BY <2>1, EventsAssumption DEF HandleSpawn
    <3>2. QED BY <1>2, <3>1, CreateEffect
  <2>2. CASE HandleRemoval
    <3> DEFINE a == Head(channel).agent
    <3>1. PICK r \in Results : DeleteAgentPod(a, r)
      BY <2>2 DEF HandleRemoval
    <3>2. \A b \in Agents : b # a => pods'[b] = pods[b]
      BY <1>2, <3>1, DeleteEffect
    <3>3. pods'[a] = pods[a] \/ ~Ready(pods'[a]) \/ (Ready(pods[a]) /\ pods'[a].terminating)
      BY <1>2, <3>1 DEF DeleteAgentPod, AfterDelete, Ready, K8sTypeOK, Pod
    <3>4. QED BY <3>2, <3>3
  <2>3. CASE HandleUpdate
    BY <2>3 DEF HandleUpdate, vars, k8sVars
  <2>4. QED BY <2>1, <2>2, <2>3 DEF HandleEvent
<1>4. pc' = pc /\ actual' = actual /\ upgrading' = upgrading /\ replacing' = replacing
  BY <1>1 DEF passesVars, passVars
<1>5. \A b \in replacing' : Ready(pods'[b]) => Ready(pods[b]) /\ pods'[b].terminating
  BY <1>3, <1>4 DEF UpgradeInv, LoopInv, PassInv, TypeOK
<1>6. QED BY <1>4, <1>5, UpgradeKept DEF LoopInv, PassInv

\* "It ensures only one pod per role is being upgraded at a time" (upgrade.go:42) also
\* when events create and delete pods in the middle of the passes, under the
\* assumptions of RollingUpgrades: the process does not crash among them.
THEOREM UpgradesWithEvents ==
  ASSUME ~Restarts, GraceEndsFirst, "lost" \notin Faults, NameMode = Mode
  PROVE  ControllerSpec => []OneUpgradePerMode
<1>1. ControllerInit => UpgradeInv
  BY DEF ControllerInit, Init, UpgradeInv
<1>2. UpgradeInv => OneUpgradePerMode
  BY DEF UpgradeInv, OneUpgradePerMode
<1>3. LoopInv /\ UpgradeInv /\ [ControllerNext]_allVars => UpgradeInv'
  <2> SUFFICES ASSUME LoopInv, UpgradeInv, [ControllerNext]_allVars PROVE UpgradeInv'
    OBVIOUS
  <2>1. CASE \/ Pass \/ Crash \/ StartLoop \/ WatcherStep \/ UNCHANGED allVars
             \/ (Cluster \/ \E i \in Images : LearnDigest(i)) /\ UNCHANGED loopVars
    <3>1. [Next]_vars
      BY <2>1 DEF Pass, Crash, StartLoop, WatcherStep, Next, allVars
    <3>2. QED BY <3>1, UpgradeStep DEF LoopInv, PassInv
  <2>2. CASE HandleEvent
    BY <2>2, UpgradeEvent
  <2>3. CASE \E a \in Agents : Daemon(a)
    <3>1. UNCHANGED <<k8sVars, passesVars>>
      BY <2>3 DEF Daemon, OpenBead, UpdateBead, EndBead, Announce
    <3>2. QED BY <3>1 DEF UpgradeInv, passesVars, passVars, k8sVars
  <2>4. QED BY <2>1, <2>2, <2>3 DEF ControllerNext, Running
<1>4. LoopInv /\ [ControllerNext]_allVars => LoopInv'
  BY LoopStep
<1>5. QED BY <1>1, <1>2, <1>3, <1>4, LoopInit, PTL DEF ControllerSpec
===============================================================================
