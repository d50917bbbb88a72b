--------------------------- MODULE ReconcilerProofs ---------------------------
(* Theorems about Reconciler for every value of its constants. *)
EXTENDS Reconciler, FiniteSetTheorems, TLAPS

-----------------------------------------------------------------------------
(* Counting agents.                                                        *)

\* A subset of a set of agents is finite and has no more elements.
LEMMA SubsetCount ==
  ASSUME NEW T, T \subseteq Agents, NEW S, S \subseteq T
  PROVE  /\ IsFiniteSet(S) /\ IsFiniteSet(T)
         /\ Cardinality(S) \in Nat /\ Cardinality(T) \in Nat
         /\ Cardinality(S) <= Cardinality(T)
<1>1. IsFiniteSet(T)
  BY AgentsFinite, FS_Subset
<1>2. IsFiniteSet(S) /\ Cardinality(S) <= Cardinality(T)
  BY <1>1, FS_Subset
<1>3. QED BY <1>1, <1>2, FS_CardinalityType

\* One agent more.
LEMMA AddCount ==
  ASSUME NEW T, T \subseteq Agents, NEW a \in Agents, NEW S, S \subseteq T \cup {a}
  PROVE  Cardinality(S) \in Nat /\ Cardinality(S) <= Cardinality(T) + 1
<1>1. IsFiniteSet(T) /\ Cardinality(T) \in Nat
  BY SubsetCount
<1>2. Cardinality(T \cup {a}) <= Cardinality(T) + 1
  <2>1. Cardinality(T \cup {a}) = IF a \in T THEN Cardinality(T) ELSE Cardinality(T) + 1
    BY <1>1, FS_AddElement, Zenon
  <2>2. QED BY <2>1, <1>1
<1>3. Cardinality(S) \in Nat /\ Cardinality(S) <= Cardinality(T \cup {a})
        /\ Cardinality(T \cup {a}) \in Nat
  <2>1. T \cup {a} \subseteq Agents
    OBVIOUS
  <2>2. QED BY <2>1, SubsetCount
<1>4. QED BY <1>1, <1>2, <1>3

\* One agent less.
LEMMA RemoveCount ==
  ASSUME NEW T, T \subseteq Agents, NEW a \in T, NEW S, S \subseteq T \ {a}
  PROVE  Cardinality(S) \in Nat /\ Cardinality(S) <= Cardinality(T) - 1
<1>1. IsFiniteSet(T) /\ Cardinality(T) \in Nat
  BY SubsetCount
<1>2. Cardinality(T \ {a}) = Cardinality(T) - 1
  BY <1>1, FS_RemoveElement
<1>3. Cardinality(S) \in Nat /\ Cardinality(S) <= Cardinality(T \ {a})
  BY SubsetCount
<1>4. QED BY <1>2, <1>3

-----------------------------------------------------------------------------
(* What the API calls and the kubelet do to the pods.                      *)

\* A delete touches one pod; unless it failed, that pod is no longer live.
LEMMA DeleteEffect ==
  ASSUME K8sTypeOK, NEW a \in Agents, NEW r \in Results, DeleteAgentPod(a, r)
  PROVE  /\ pods' \in [Agents -> Pod \cup {NoPod}]
         /\ \A b \in Agents : b # a => pods'[b] = pods[b]
         /\ r # "failed" => ~Live(pods'[a])
         /\ pods'[a] = pods[a] \/ pods'[a] = NoPod \/ (pods[a] # NoPod /\ pods'[a].terminating)
         /\ LivePods' \subseteq LivePods
<1>1. CASE r = "failed"
  BY <1>1 DEF DeleteAgentPod, K8sTypeOK, LivePods
<1>2. CASE r # "failed"
  <2>1. PICK after \in AfterDelete(pods[a]) :
          pods[a] # NoPod /\ pods' = [pods EXCEPT ![a] = after]
    BY <1>2 DEF DeleteAgentPod
  <2>2. pods[a] \in Pod
    BY <2>1 DEF K8sTypeOK
  <2>3. after = NoPod \/ (after \in Pod /\ after.terminating)
    BY <2>1, <2>2 DEF AfterDelete, Pod
  <2>4. ~Live(after)
    BY <2>3 DEF Live, Active
  <2>5. QED BY <2>1, <2>2, <2>3, <2>4, <1>2 DEF K8sTypeOK, LivePods
<1>3. QED BY <1>1, <1>2

\* A create touches one name, free before, and makes a Pending pod there.
LEMMA CreateEffect ==
  ASSUME K8sTypeOK, NEW a \in Agents, NEW i \in Images, NEW r \in Results,
         CreateAgentPod(a, i, r)
  PROVE  /\ pods' \in [Agents -> Pod \cup {NoPod}]
         /\ \A b \in Agents : b # a => pods'[b] = pods[b]
         /\ \/ pods'[a] = pods[a]
            \/ pods[a] = NoPod /\ pods'[a] = NewPod(i)
         /\ ~Ready(NewPod(i)) /\ Live(NewPod(i)) /\ ~Terminal(NewPod(i))
         /\ LivePods' \subseteq LivePods \cup {a}
<1>1. NewPod(i) \in Pod /\ NewPod(i) # NoPod
  <2>1. NewPod(i) \in Pod
    BY DEF NewPod, Pod
  <2>2. QED BY <2>1, NoPodAssumption
<1>2. ~Ready(NewPod(i)) /\ Live(NewPod(i)) /\ ~Terminal(NewPod(i))
  BY <1>1 DEF NewPod, Ready, Live, Active, Terminal
<1>3. QED BY <1>1, <1>2 DEF CreateAgentPod, K8sTypeOK, LivePods

\* The kubelet makes no pod live, keeps terminating pods terminating and ended
\* pods ended, and changes one pod.
LEMMA KubeletEffect ==
  ASSUME K8sTypeOK, NEW a \in Agents, Kubelet(a)
  PROVE  /\ K8sTypeOK'
         /\ \A b \in Agents : b # a => pods'[b] = pods[b]
         /\ pods[a] # NoPod
         /\ pods'[a] = NoPod \/ pods'[a].terminating = pods[a].terminating
         /\ Live(pods'[a]) => Live(pods[a])
         /\ pods'[a] = NoPod => pods[a].terminating
         /\ LivePods' \subseteq LivePods
<1>1. pods[a] # NoPod /\ pods[a] \in Pod
  BY DEF Kubelet, StartPod, BecomeReady, LoseReadiness, EndPod, FinalizePod, Live, Active,
         K8sTypeOK
<1>2. pods[a].image \in Images /\ registry[pods[a].image] \in Digests
  BY <1>1 DEF Pod, K8sTypeOK
<1> DEFINE P == pods'[a]
<1>3. /\ registry' = registry
      /\ \E p \in Pod \cup {NoPod} :
           /\ pods' = [pods EXCEPT ![a] = p]
           /\ p # NoPod => p.terminating = pods[a].terminating /\ Live(pods[a])
           /\ p = NoPod => pods[a].terminating
  <2>1. CASE StartPod(a)
    <3>1. [pods[a] EXCEPT !.phase = "Running", !.digest = registry[pods[a].image]] \in Pod
      BY <1>1, <1>2 DEF Pod
    <3>2. pods' = [pods EXCEPT ![a] =
             [pods[a] EXCEPT !.phase = "Running", !.digest = registry[pods[a].image]]]
      BY <2>1, <1>1 DEF StartPod, K8sTypeOK
    <3>3. QED BY <2>1, <3>1, <3>2, <1>1, NoPodAssumption DEF StartPod, Pod
  <2>2. CASE BecomeReady(a)
    <3>1. [pods[a] EXCEPT !.ready = TRUE] \in Pod
      BY <1>1, <1>2 DEF Pod
    <3>2. QED BY <2>2, <3>1, <1>1, NoPodAssumption DEF BecomeReady, Pod
  <2>3. CASE LoseReadiness(a)
    <3>1. PICK d \in {pods[a].digest} \cup
                     (IF a \in JobAgents THEN {} ELSE {registry[pods[a].image]}) :
            pods' = [pods EXCEPT ![a].ready = FALSE, ![a].digest = d]
      BY <2>3 DEF LoseReadiness
    <3>2. d \in Digests \cup {NoDigest}
      BY <3>1, <1>1, <1>2 DEF Pod
    <3>3. [pods[a] EXCEPT !.ready = FALSE, !.digest = d] \in Pod
      BY <1>1, <3>2 DEF Pod
    <3>4. pods' = [pods EXCEPT ![a] = [pods[a] EXCEPT !.ready = FALSE, !.digest = d]]
      BY <3>1, <1>1 DEF K8sTypeOK
    <3>5. QED BY <2>3, <3>3, <3>4, <1>1, NoPodAssumption DEF LoseReadiness, Pod
  <2>4. CASE EndPod(a)
    <3>1. PICK ph \in {"Failed", "Succeeded"} :
            pods' = [pods EXCEPT ![a].phase = ph, ![a].ready = FALSE]
      BY <2>4 DEF EndPod
    <3>2. [pods[a] EXCEPT !.phase = ph, !.ready = FALSE] \in Pod
      BY <1>1, <3>1 DEF Pod
    <3>3. pods' = [pods EXCEPT ![a] = [pods[a] EXCEPT !.phase = ph, !.ready = FALSE]]
      BY <3>1, <1>1 DEF K8sTypeOK
    <3>4. QED BY <2>4, <3>2, <3>3, <1>1, NoPodAssumption DEF EndPod, Pod
  <2>5. CASE FinalizePod(a)
    BY <2>5 DEF FinalizePod
  <2>6. QED BY <2>1, <2>2, <2>3, <2>4, <2>5 DEF Kubelet
<1>4. QED BY <1>1, <1>3 DEF K8sTypeOK, Live, Active, LivePods

-----------------------------------------------------------------------------
(* The pod limit.  A pod that lives while a pass deletes orphans was listed *)
(* by it; from the scan on, activePods bounds the live pods together with   *)
(* the drifted ones the pass may still count down.                          *)

CountInv ==
  /\ pc = "orphans" => \A a \in LivePods : Active(actual[a])
  /\ pc \in {"visit", "spawn"} /\ Wanted # {} =>
       Cardinality(LivePods \cup Examined) <= activePods

LimitInv == TypeOK /\ CountInv /\ MaxPodsRespected

LEMMA LimitInit == Init => LimitInv
<1> SUFFICES ASSUME Init PROVE LimitInv
  OBVIOUS
<1>1. TypeOK
  BY LimitsAssumption DEF Init, TypeOK, PassTypeOK, K8sInit, K8sTypeOK, NoBeads, NoPods
<1>2. LivePods = {}
  BY DEF Init, K8sInit, LivePods, Live, Active
<1>3. Cardinality(LivePods) = 0
  BY <1>2, FS_EmptySet
<1>4. QED BY <1>1, <1>3, LimitsAssumption DEF Init, LimitInv, CountInv, MaxPodsRespected

\* Steps that make no pod live keep the limit.
LEMMA LimitKept ==
  ASSUME MaxPodsRespected, LivePods' \subseteq LivePods
  PROVE  MaxPodsRespected'
<1>1. LivePods \subseteq Agents
  BY DEF LivePods
<1>2. Cardinality(LivePods') \in Nat /\ Cardinality(LivePods) \in Nat
        /\ Cardinality(LivePods') <= Cardinality(LivePods)
  BY <1>1, SubsetCount
<1>3. QED BY <1>2, LimitsAssumption DEF MaxPodsRespected

\* So do they keep the count, unless the pass itself moved.
LEMMA CountKept ==
  ASSUME TypeOK, CountInv, LivePods' \subseteq LivePods,
         UNCHANGED <<pc, desired, actual, activePods>>
  PROVE  CountInv'
<1>1. Wanted' = Wanted /\ Examined' = Examined
  BY DEF Wanted, Examined
<1>2. LivePods \cup Examined \subseteq Agents
  BY DEF LivePods, Examined, Wanted
<1>3. LivePods' \cup Examined \subseteq LivePods \cup Examined
  OBVIOUS
<1>4. /\ Cardinality(LivePods' \cup Examined) \in Nat
      /\ Cardinality(LivePods \cup Examined) \in Nat
      /\ Cardinality(LivePods' \cup Examined) <= Cardinality(LivePods \cup Examined)
  BY <1>2, <1>3, SubsetCount
<1>5. pc' = pc /\ actual' = actual /\ activePods' = activePods
  OBVIOUS
<1>6. pc' = "orphans" => \A a \in LivePods' : Active(actual'[a])
  BY <1>5 DEF CountInv
<1>7. pc' \in {"visit", "spawn"} /\ Wanted' # {} =>
        Cardinality(LivePods' \cup Examined') <= activePods'
  <2>1. activePods \in Nat
    BY DEF TypeOK, PassTypeOK
  <2>2. QED BY <1>1, <1>4, <1>5, <2>1 DEF CountInv
<1>8. QED BY <1>6, <1>7 DEF CountInv, Active

\* A pass that returned has an empty state.
LEMMA Returned ==
  ASSUME TypeOK, Return, pods' \in [Agents -> Pod \cup {NoPod}], UNCHANGED <<registry, beads>>,
         upgrading' \subseteq Agents, replacing' \subseteq Agents,
         digests' \in [Images -> Digests \cup {NoDigest}]
  PROVE  TypeOK' /\ CountInv'
<1>1. registry' = registry /\ beads' = beads
  OBVIOUS
<1>2. K8sTypeOK'
  BY <1>1 DEF TypeOK, K8sTypeOK
<1>3. /\ desired' \in [Agents -> Images \cup {NoBead}]
      /\ actual' \in [Agents -> Pod \cup {NoPod}]
  BY DEF Return, NoBeads, NoPods
<1>4. current' = NoAgent /\ pc' = "idle" /\ activePods' = 0 /\ created' = 0
  BY DEF Return
<1>5. PassTypeOK'
  BY <1>3, <1>4, LimitsAssumption DEF PassTypeOK
<1>6. QED BY <1>1, <1>2, <1>4, <1>5 DEF CountInv, TypeOK

\* What stays as it is in a step of the environment or of another step of the pass.
LEMMA PassKept ==
  ASSUME TypeOK, UNCHANGED <<pc, passVars>>
  PROVE  PassTypeOK'
<1>1. /\ pc' = pc /\ desired' = desired /\ actual' = actual /\ current' = current
      /\ activePods' = activePods /\ created' = created
  BY DEF passVars
<1>2. Wanted' = Wanted
  BY <1>1 DEF Wanted
<1>3. QED BY <1>1, <1>2 DEF TypeOK, PassTypeOK

LEMMA LimitEnvironment ==
  ASSUME LimitInv, \/ Cluster
                   \/ \E a \in Agents : ChangeBead(a)
                   \/ \E i \in Images : LearnDigest(i)
                   \/ UNCHANGED vars
  PROVE  LimitInv'
<1>1. K8sTypeOK
  BY DEF LimitInv, TypeOK
<1>2. UNCHANGED <<upgrading, pc, passVars>>
  BY DEF Cluster, ChangeBead, LearnDigest, vars
<1>3. K8sTypeOK' /\ LivePods' \subseteq LivePods
  <2>1. CASE \E a \in Agents : Kubelet(a)
    BY <2>1, <1>1, KubeletEffect
  <2>2. CASE \E i \in Images : PushImage(i)
    BY <2>2, <1>1 DEF PushImage, K8sTypeOK, LivePods
  <2>3. CASE UNCHANGED k8sVars
    BY <2>3, <1>1 DEF k8sVars, K8sTypeOK, LivePods
  <2>4. QED BY <2>1, <2>2, <2>3 DEF Cluster, ChangeBead, LearnDigest, vars
<1>4. /\ beads' \in [Agents -> Images \cup {NoBead}]
      /\ digests' \in [Images -> Digests \cup {NoDigest}]
      /\ replacing' \subseteq Agents
  BY DEF LimitInv, TypeOK, K8sTypeOK, Cluster, ChangeBead, LearnDigest, vars
<1>5. PassTypeOK'
  BY <1>2, PassKept DEF LimitInv
<1>6. UNCHANGED <<pc, desired, actual, activePods>>
  BY <1>2 DEF passVars
<1>7. CountInv' /\ MaxPodsRespected'
  BY <1>3, <1>6, CountKept, LimitKept DEF LimitInv
<1>8. QED BY <1>2, <1>3, <1>4, <1>5, <1>7 DEF LimitInv, TypeOK

\* A delete that succeeds or fails, with what follows it in the pass.
LEMMA LimitDelete ==
  ASSUME LimitInv, NEW a \in Agents, DeleteOrphan(a) \/ DeleteTerminal(a) \/ DeleteDrifted(a)
  PROVE  LimitInv'
<1>1. PICK r \in Results : DeleteAgentPod(a, r) /\ (r # "ok" => Return) /\
        (r = "ok" => \/ pc = "orphans" /\ actual' = [actual EXCEPT ![a] = NoPod]
                       /\ UNCHANGED <<pc, desired, current, activePods, created, upgrading>>
                     \/ pc = "visit" /\ a \in Wanted /\ Visited(a) /\ UNCHANGED upgrading
                       /\ UNCHANGED activePods
                     \/ pc = "visit" /\ a \in Examined /\ Visited(a) /\ MarkUpgrading(a)
                       /\ activePods' = activePods - 1)
  BY DEF DeleteOrphan, DeleteTerminal, DeleteDrifted
<1>2. UNCHANGED <<registry, beads, digests>> /\ replacing' \subseteq Agents
        /\ upgrading' \subseteq Agents
  BY DEF DeleteOrphan, DeleteTerminal, DeleteDrifted, MarkUpgrading, LimitInv, TypeOK
<1>3. /\ pods' \in [Agents -> Pod \cup {NoPod}]
      /\ LivePods' \subseteq LivePods
      /\ r = "ok" => a \notin LivePods'
  BY <1>1, DeleteEffect DEF LimitInv, TypeOK, LivePods
<1>4. MaxPodsRespected'
  BY <1>3, LimitKept DEF LimitInv
<1>5. K8sTypeOK' /\ beads' \in [Agents -> Images \cup {NoBead}]
        /\ digests' \in [Images -> Digests \cup {NoDigest}]
  BY <1>2, <1>3 DEF LimitInv, TypeOK, K8sTypeOK
<1>6. /\ actual \in [Agents -> Pod \cup {NoPod}]
      /\ activePods \in Nat /\ created \in 0..BurstLimit
  BY DEF LimitInv, TypeOK, PassTypeOK
<1>7. LivePods \cup Examined \subseteq Agents /\ Wanted \subseteq Agents
  BY DEF LivePods, Examined, Wanted
<1>8. CASE r # "ok"
  BY <1>1, <1>2, <1>3, <1>4, <1>5, <1>8, Returned DEF LimitInv
<1>9. CASE r = "ok" /\ pc = "orphans" /\ actual' = [actual EXCEPT ![a] = NoPod]
             /\ UNCHANGED <<pc, desired, current, activePods, created, upgrading>>
  <2>1. Wanted' = Wanted
    BY <1>9 DEF Wanted
  <2>2. PassTypeOK'
    BY <1>6, <1>9, <2>1 DEF LimitInv, TypeOK, PassTypeOK
  <2>3. \A b \in LivePods' : Active(actual'[b])
    <3>1. ASSUME NEW b \in LivePods' PROVE b \in LivePods /\ actual'[b] = actual[b]
      BY <1>3, <1>6, <1>7, <1>9
    <3>2. QED BY <3>1, <1>9 DEF LimitInv, CountInv, Active
  <2>4. CountInv'
    BY <1>9, <2>3 DEF CountInv
  <2>5. QED BY <1>2, <1>4, <1>5, <2>2, <2>4 DEF LimitInv, TypeOK
<1>10. CASE r = "ok" /\ pc = "visit" /\ a \in Wanted /\ Visited(a)
  <2>1. /\ desired' = desired /\ created' = created /\ current' = a /\ pc' = "spawn"
        /\ actual' = [actual EXCEPT ![a] = NoPod]
    BY <1>10 DEF Visited
  <2>2. Wanted' = Wanted
    BY <2>1 DEF Wanted
  <2>3. Examined' \subseteq Examined \ {a}
    BY <1>6, <1>7, <2>1, <2>2 DEF Examined, Active
  <2>4. LivePods' \subseteq LivePods \ {a}
    BY <1>3, <1>10
  <2>5. Cardinality(LivePods \cup Examined) <= activePods
    BY <1>10 DEF LimitInv, CountInv
  <2>6. activePods' \in Nat /\ Cardinality(LivePods' \cup Examined') <= activePods'
    <3>1. CASE UNCHANGED activePods
      <4>1. /\ Cardinality(LivePods' \cup Examined') \in Nat
            /\ Cardinality(LivePods \cup Examined) \in Nat
            /\ Cardinality(LivePods' \cup Examined') <= Cardinality(LivePods \cup Examined)
        BY <1>7, <2>3, <2>4, SubsetCount
      <4>2. QED BY <4>1, <3>1, <2>5, <1>6
    <3>2. CASE a \in Examined /\ activePods' = activePods - 1
      <4>1. /\ Cardinality(LivePods' \cup Examined') \in Nat
            /\ Cardinality(LivePods' \cup Examined') <= Cardinality(LivePods \cup Examined) - 1
        BY <1>7, <2>3, <2>4, <3>2, RemoveCount
      <4>2. Cardinality(LivePods \cup Examined) \in Nat
        BY <1>7, SubsetCount
      <4>3. QED BY <4>1, <4>2, <3>2, <2>5, <1>6
    <3>3. QED BY <1>1, <1>10, <3>1, <3>2
  <2>7. PassTypeOK'
    BY <1>6, <1>10, <2>1, <2>2, <2>6 DEF LimitInv, TypeOK, PassTypeOK
  <2>8. CountInv'
    BY <2>1, <2>6 DEF CountInv
  <2>9. QED BY <1>2, <1>4, <1>5, <2>7, <2>8 DEF LimitInv, TypeOK
<1>11. QED BY <1>1, <1>8, <1>9, <1>10 DEF Examined

\* The steps of a pass that leave the pods alone.
LEMMA LimitLocal ==
  ASSUME LimitInv, UNCHANGED k8sVars, PassTypeOK', CountInv',
         upgrading' \subseteq Agents, replacing' \subseteq Agents, beads' = beads,
         digests' \in [Images -> Digests \cup {NoDigest}]
  PROVE  LimitInv'
<1>1. LivePods' \subseteq LivePods /\ K8sTypeOK'
  BY DEF LimitInv, TypeOK, K8sTypeOK, LivePods, k8sVars
<1>2. MaxPodsRespected'
  BY <1>1, LimitKept DEF LimitInv
<1>3. QED BY <1>1, <1>2 DEF LimitInv, TypeOK

LEMMA LimitLists ==
  ASSUME LimitInv, ListAgentBeads \/ ListAgentPods
  PROVE  LimitInv'
<1>1. /\ UNCHANGED <<k8sVars, upgrading, beads, digests, current, activePods, created, replacing>>
      /\ pc' \in {"list pods", "orphans"} /\ pc \in {"idle", "list pods"}
  BY DEF ListAgentBeads, ListAgentPods
<1>2. NoBeads \in [Agents -> Images \cup {NoBead}]
  BY DEF NoBeads
<1>3. PassTypeOK'
  BY <1>1, <1>2 DEF ListAgentBeads, ListAgentPods, LimitInv, TypeOK, PassTypeOK, K8sTypeOK
<1>4. pc' = "orphans" => \A a \in LivePods' : Active(actual'[a])
  BY <1>1 DEF ListAgentBeads, ListAgentPods, LivePods, Live, Active, k8sVars
<1>5. CountInv'
  BY <1>1, <1>4 DEF CountInv, Active
<1>6. QED BY <1>1, <1>3, <1>5, LimitLocal DEF LimitInv, TypeOK

LEMMA LimitScan ==
  ASSUME LimitInv, NEW stale \in SUBSET upgrading, Scan(stale)
  PROVE  LimitInv'
<1>1. /\ UNCHANGED <<k8sVars, beads, current, created>>
      /\ pc = "orphans" /\ pc' = "visit" /\ Orphans = {}
      /\ activePods' = Cardinality(Examined)
      /\ digests' \in [Images -> Digests \cup {NoDigest}]
      /\ replacing' \subseteq Agents /\ upgrading' \subseteq Agents
  BY DEF Scan, CountActive, RecordedDigests, CleanAndClear, LimitInv, TypeOK
<1>2. PICK fine \in SUBSET Examined :
        /\ desired' = [a \in Agents |-> IF a \in fine THEN NoBead ELSE desired[a]]
        /\ actual' = [a \in Agents |-> IF a \in Wanted \ fine THEN actual[a] ELSE NoPod]
  <2> DEFINE fine == {a \in Examined : ~podDriftReason(desired[a], actual[a], digests')}
  <2>1. fine \in SUBSET Examined
    OBVIOUS
  <2>2. QED BY <2>1 DEF Scan
<1>3. Wanted' \subseteq Wanted /\ Examined' \subseteq Examined /\ Examined \subseteq Agents
  BY <1>2 DEF Wanted, Examined, Active
<1>4. LivePods' = LivePods
  BY <1>1 DEF LivePods, k8sVars
<1>5. Wanted # {} => LivePods \subseteq Examined
  BY <1>1 DEF LimitInv, CountInv, Orphans, Unlisted, Wanted, Examined, Active, LivePods
<1>6. Wanted' # {} => Cardinality(LivePods' \cup Examined') <= activePods'
  <2>1. Wanted' # {} => LivePods' \cup Examined' \subseteq Examined
    BY <1>3, <1>4, <1>5
  <2>2. QED BY <1>1, <1>3, <2>1, SubsetCount
<1>7. activePods' \in Nat
  BY <1>1, <1>3, SubsetCount
<1>8. PassTypeOK'
  BY <1>1, <1>2, <1>7 DEF LimitInv, TypeOK, PassTypeOK
<1>9. CountInv'
  BY <1>1, <1>6 DEF CountInv
<1>10. QED BY <1>1, <1>8, <1>9, LimitLocal

LEMMA LimitDefer ==
  ASSUME LimitInv, DeferSpawn \/ \E a \in Agents : DeferUpgrade(a) \/ VisitMissing(a)
  PROVE  LimitInv'
<1>1. UNCHANGED <<k8sVars, upgrading, beads, digests, activePods, created, replacing>>
  BY DEF DeferSpawn, DeferUpgrade, VisitMissing, Visited, NextAgent
<1>2. pc \in {"visit", "spawn"} /\ pc' \in {"visit", "spawn"} /\ Wanted # {}
  BY DEF DeferSpawn, DeferUpgrade, VisitMissing, Visited, NextAgent, Examined, LimitInv, TypeOK,
         PassTypeOK
<1>3. PassTypeOK'
  BY DEF DeferSpawn, DeferUpgrade, VisitMissing, Visited, NextAgent, Examined, LimitInv, TypeOK,
         PassTypeOK, Wanted
<1>4. Examined' \subseteq Examined
  BY DEF DeferSpawn, DeferUpgrade, VisitMissing, Visited, NextAgent, Examined, LimitInv, TypeOK,
         PassTypeOK, Wanted, Active
<1>5. LivePods' = LivePods /\ LivePods \subseteq Agents /\ Examined \subseteq Agents
  BY <1>1 DEF LivePods, k8sVars, Examined, Wanted
<1>6. Cardinality(LivePods' \cup Examined') <= activePods'
  <2>1. /\ Cardinality(LivePods' \cup Examined') \in Nat
        /\ Cardinality(LivePods \cup Examined) \in Nat
        /\ Cardinality(LivePods' \cup Examined') <= Cardinality(LivePods \cup Examined)
    BY <1>4, <1>5, SubsetCount
  <2>2. activePods' = activePods /\ activePods \in Nat
    BY <1>1 DEF LimitInv, TypeOK, PassTypeOK
  <2>3. Cardinality(LivePods \cup Examined) <= activePods
    BY <1>2 DEF LimitInv, CountInv
  <2>4. QED BY <2>1, <2>2, <2>3
<1>7. CountInv'
  BY <1>2, <1>6 DEF CountInv
<1>8. QED BY <1>1, <1>3, <1>7, LimitLocal DEF LimitInv, TypeOK

LEMMA LimitCreate ==
  ASSUME LimitInv, CreatePod
  PROVE  LimitInv'
<1>1. /\ pc = "spawn" /\ current \in Wanted /\ current \in Agents
      /\ desired[current] \in Images
      /\ activePods \in Nat /\ created \in Nat
  BY DEF CreatePod, LimitInv, TypeOK, PassTypeOK, Wanted
<1>2. PICK r \in Results : CreateAgentPod(current, desired[current], r) /\
        \/ /\ r = "ok"
           /\ created' = created + 1 /\ activePods' = activePods + 1
           /\ NextAgent
        \/ r # "ok" /\ Return
  BY DEF CreatePod
<1>3. UNCHANGED <<registry, upgrading, beads, digests, replacing>> /\ MaySpawn
  BY DEF CreatePod
<1>4. pods' \in [Agents -> Pod \cup {NoPod}] /\ LivePods' \subseteq LivePods \cup {current}
  BY <1>1, <1>2, CreateEffect DEF LimitInv, TypeOK
<1>5. K8sTypeOK'
  BY <1>3, <1>4 DEF LimitInv, TypeOK, K8sTypeOK
<1>6. LivePods \cup Examined \subseteq Agents /\ LivePods \subseteq LivePods \cup Examined
  BY DEF LivePods, Examined, Wanted
<1>7. /\ Cardinality(LivePods \cup Examined) \in Nat
      /\ Cardinality(LivePods \cup Examined) <= activePods
  BY <1>1, <1>6, SubsetCount DEF LimitInv, CountInv
<1>8. MaxPodsRespected'
  <2>1. /\ Cardinality(LivePods') \in Nat
        /\ Cardinality(LivePods') <= Cardinality(LivePods \cup Examined) + 1
    BY <1>1, <1>4, <1>6, AddCount
  <2>2. MaxPods > 0 => activePods < MaxPods
    BY <1>3, LimitsAssumption DEF MaySpawn
  <2>3. QED BY <1>1, <1>7, <2>1, <2>2, LimitsAssumption DEF MaxPodsRespected
<1>9. CASE r # "ok"
  BY <1>2, <1>3, <1>4, <1>8, <1>9, Returned DEF LimitInv, TypeOK
<1>10. CASE r = "ok"
  <2>1. /\ created' = created + 1 /\ activePods' = activePods + 1
        /\ current' = NoAgent /\ pc' = "visit" /\ actual' = actual
        /\ desired' = [desired EXCEPT ![current] = NoBead]
    BY <1>2, <1>10 DEF NextAgent
  <2>2. created < BurstLimit
    BY <1>3 DEF MaySpawn
  <2>3. PassTypeOK'
    BY <1>1, <2>1, <2>2, LimitsAssumption DEF LimitInv, TypeOK, PassTypeOK
  <2>4. Examined' \subseteq Examined
    BY <2>1 DEF Examined, Wanted, LimitInv, TypeOK, PassTypeOK
  <2>5. Cardinality(LivePods' \cup Examined') \in Nat
          /\ Cardinality(LivePods' \cup Examined') <= Cardinality(LivePods \cup Examined) + 1
    <3>1. LivePods' \cup Examined' \subseteq (LivePods \cup Examined) \cup {current}
      BY <1>4, <2>4
    <3>2. QED BY <1>1, <1>6, <3>1, AddCount
  <2>6. CountInv'
    BY <1>1, <1>7, <2>1, <2>5 DEF CountInv
  <2>7. QED BY <1>3, <1>5, <1>8, <2>3, <2>6 DEF LimitInv, TypeOK
<1>11. QED BY <1>9, <1>10

LEMMA LimitEnd ==
  ASSUME LimitInv, Finish \/ PodListingFails \/ Restart
  PROVE  LimitInv'
<1>1. Return /\ UNCHANGED <<k8sVars, beads>>
  BY DEF Finish, PodListingFails, Restart
<1>2. /\ upgrading' \subseteq Agents /\ replacing' \subseteq Agents
      /\ digests' \in [Images -> Digests \cup {NoDigest}]
  BY DEF Finish, PodListingFails, Restart, LimitInv, TypeOK
<1>3. pods' = pods /\ registry' = registry
  BY <1>1 DEF k8sVars
<1>4. TypeOK' /\ CountInv'
  BY <1>1, <1>2, <1>3, Returned DEF LimitInv, TypeOK, K8sTypeOK
<1>5. LivePods' \subseteq LivePods
  BY <1>3 DEF LivePods
<1>6. QED BY <1>4, <1>5, LimitKept DEF LimitInv

LEMMA LimitStep == LimitInv /\ [Next]_vars => LimitInv'
<1> SUFFICES ASSUME LimitInv, [Next]_vars PROVE LimitInv'
  OBVIOUS
<1>1. CASE Reconcile
  <2>1. CASE \E a \in Agents : DeleteOrphan(a) \/ DeleteTerminal(a) \/ DeleteDrifted(a)
    BY <2>1, LimitDelete
  <2>2. CASE \E stale \in SUBSET upgrading : Scan(stale)
    BY <2>2, LimitScan
  <2>3. QED BY <1>1, <2>1, <2>2, LimitLists, LimitDefer, LimitCreate, LimitEnd DEF Reconcile, Visit
<1>2. CASE Restart
  BY <1>2, LimitEnd
<1>3. QED BY <1>1, <1>2, LimitEnvironment DEF Next

\* Every variable keeps to its type; the interesting part is that activePods
\* never goes below zero.
THEOREM TypeCorrect == Spec => []TypeOK
<1>1. LimitInv => TypeOK
  BY DEF LimitInv
<1>2. QED BY <1>1, LimitInit, LimitStep, PTL DEF Spec

\* For any number of agents and any limit, whatever fails, crashes or changes
\* during a pass, the passes never run more pods than CoopMaxPods.
THEOREM PodLimit == Spec => []MaxPodsRespected
<1>1. LimitInv => MaxPodsRespected
  BY DEF LimitInv
<1>2. QED BY <1>1, LimitInit, LimitStep, PTL DEF Spec

-----------------------------------------------------------------------------
(* Rolling upgrades.  A pod under upgrade is in the tracker until a pass    *)
(* lists it Ready; what is Ready under that name before the replacement is  *)
(* the old pod, terminating, and no pass lists it when grace periods end    *)
(* before a pass starts.                                                    *)

UpgradeInv ==
  /\ replacing \subseteq upgrading
  /\ \A a, b \in upgrading : a # b => Mode[a] # Mode[b]
  /\ \A a \in replacing : Ready(pods[a]) => pods[a].terminating
  /\ pc = "list pods" => \A a \in replacing : ~Ready(pods[a])
  /\ pc = "orphans" => \A a \in replacing : ~Ready(actual[a])

\* Nothing but the pods moved, and none that is being replaced became Ready.
LEMMA UpgradeKept ==
  ASSUME TypeOK, UpgradeInv, UNCHANGED upgrading, replacing' \subseteq replacing,
         \A a \in replacing' : Ready(pods'[a]) => Ready(pods[a]) /\ pods'[a].terminating,
         pc' \notin {"list pods", "orphans"} \/ (pc' = pc /\ \A a \in Agents : actual'[a] \in {actual[a], NoPod})
  PROVE  UpgradeInv'
<1>1. pc' = "orphans" => \A a \in replacing' : ~Ready(actual'[a])
  BY DEF TypeOK, UpgradeInv, Ready
<1>2. QED BY <1>1 DEF UpgradeInv

LEMMA UpgradeDelete ==
  ASSUME "lost" \notin Faults, NameMode = Mode, TypeOK, UpgradeInv,
         NEW a \in Agents, DeleteOrphan(a) \/ DeleteTerminal(a) \/ DeleteDrifted(a)
  PROVE  UpgradeInv'
<1>1. PICK r \in Results : /\ DeleteAgentPod(a, r)
        /\ \/ pc' = pc /\ pc = "orphans" /\ actual' = [actual EXCEPT ![a] = NoPod]
           \/ pc' \notin {"list pods", "orphans"}
        /\ \/ UNCHANGED <<upgrading, replacing>>
           \/ /\ replacing' = replacing \cup {a} /\ r = "ok" /\ CanUpgrade(a)
              /\ upgrading' = upgrading \cup {a} /\ pc' = "spawn"
  <2>1. CASE DeleteOrphan(a)
    BY <2>1 DEF DeleteOrphan, Return
  <2>2. CASE DeleteTerminal(a)
    BY <2>2 DEF DeleteTerminal, Return, Visited
  <2>3. CASE DeleteDrifted(a)
    BY <2>3 DEF DeleteDrifted, Return, Visited, MarkUpgrading, DeleteAgentPod, Results
  <2>4. QED BY <2>1, <2>2, <2>3
<1>2. /\ \A b \in Agents : b # a => pods'[b] = pods[b]
      /\ r # "failed" => ~Live(pods'[a])
      /\ pods'[a] = pods[a] \/ pods'[a] = NoPod \/ (pods[a] # NoPod /\ pods'[a].terminating)
      /\ pods' \in [Agents -> Pod \cup {NoPod}]
  BY <1>1, DeleteEffect DEF TypeOK
<1>3. \A b \in replacing' : Ready(pods'[b]) => pods'[b].terminating
  BY <1>1, <1>2 DEF UpgradeInv, TypeOK, Ready, Live, Active
<1>4. pc' # "list pods"
  BY <1>1
<1>5. pc' = "orphans" => \A b \in replacing' : ~Ready(actual'[b])
  BY <1>1 DEF UpgradeInv, TypeOK, PassTypeOK, Ready
<1>6. replacing' \subseteq upgrading' /\ \A b, c \in upgrading' : b # c => Mode[b] # Mode[c]
  BY <1>1 DEF UpgradeInv, CanUpgrade, IsUpgrading, extractModeFromPodName
<1>7. QED BY <1>3, <1>4, <1>5, <1>6 DEF UpgradeInv

LEMMA UpgradeCluster ==
  ASSUME TypeOK, UpgradeInv, Cluster
  PROVE  UpgradeInv'
<1>1. \A a \in replacing' : Ready(pods'[a]) => Ready(pods[a]) /\ pods'[a].terminating
  <2>1. ASSUME NEW a \in replacing', Ready(pods'[a])
        PROVE  Ready(pods[a]) /\ pods'[a].terminating
    <3>1. a \in Agents /\ a \in replacing /\ Ready(pods[a]) /\ pods[a].terminating
      BY <2>1 DEF Cluster, TypeOK, UpgradeInv
    <3>2. CASE \E i \in Images : PushImage(i)
      BY <3>1, <3>2 DEF PushImage
    <3>3. CASE \E b \in Agents : Kubelet(b)
      <4>1. PICK b \in Agents : Kubelet(b)
        BY <3>3
      <4>2. a = b => pods'[a] = NoPod \/ pods'[a].terminating = pods[a].terminating
        BY <4>1, KubeletEffect DEF TypeOK
      <4>3. a # b => pods'[a] = pods[a]
        BY <3>1, <4>1, KubeletEffect DEF TypeOK
      <4>4. QED BY <2>1, <3>1, <4>2, <4>3 DEF Ready
    <3>4. QED BY <3>2, <3>3 DEF Cluster
  <2>2. QED BY <2>1
<1>2. replacing' \subseteq replacing /\ UNCHANGED <<upgrading, pc, passVars>>
  BY DEF Cluster
<1>3. pc' = pc /\ actual' = actual /\ upgrading' = upgrading
  BY <1>2 DEF passVars
<1>4. QED BY <1>1, <1>2, <1>3, UpgradeKept

LEMMA UpgradeStep ==
  ASSUME ~Restarts, GraceEndsFirst, "lost" \notin Faults, NameMode = Mode,
         TypeOK, UpgradeInv, [Next]_vars
  PROVE  UpgradeInv'
<1> USE DEF k8sVars
<1>1. CASE ListAgentBeads
  BY <1>1 DEF ListAgentBeads, UpgradeInv, TypeOK, Ready
<1>2. CASE ListAgentPods
  BY <1>2 DEF ListAgentPods, UpgradeInv
<1>3. CASE \E a \in Agents : DeleteOrphan(a) \/ DeleteTerminal(a) \/ DeleteDrifted(a)
  BY <1>3, UpgradeDelete
<1>4. CASE \E stale \in SUBSET upgrading : Scan(stale)
  BY <1>4 DEF Scan, CleanAndClear, UpgradeInv
<1>5. CASE DeferSpawn \/ Finish \/ PodListingFails \/ \E a \in Agents : DeferUpgrade(a) \/ VisitMissing(a)
  <2>1. UNCHANGED <<pods, upgrading, replacing>> /\ pc' \notin {"list pods", "orphans"}
    BY <1>5 DEF DeferSpawn, Finish, PodListingFails, DeferUpgrade, VisitMissing, Visited, NextAgent, Return
  <2>2. QED BY <2>1, UpgradeKept DEF UpgradeInv
<1>6. CASE CreatePod
  <2>1. PICK r \in Results : CreateAgentPod(current, desired[current], r)
    BY <1>6 DEF CreatePod
  <2>2. UNCHANGED <<upgrading, replacing>> /\ pc' \notin {"list pods", "orphans"}
    BY <1>6 DEF CreatePod, NextAgent, Return
  <2>3. current \in Agents /\ desired[current] \in Images /\ K8sTypeOK
    BY <1>6 DEF CreatePod, TypeOK, PassTypeOK, Wanted
  <2>4. /\ \A b \in Agents : b # current => pods'[b] = pods[b]
        /\ pods'[current] = pods[current] \/ ~Ready(pods'[current])
    BY <2>1, <2>3, CreateEffect
  <2>5. \A b \in replacing' : Ready(pods'[b]) => Ready(pods[b]) /\ pods'[b].terminating
    BY <2>2, <2>4 DEF UpgradeInv, TypeOK
  <2>6. QED BY <2>2, <2>5, UpgradeKept
<1>7. CASE Restart
  BY <1>7 DEF Restart
<1>8. CASE Cluster
  BY <1>8, UpgradeCluster
<1>9. CASE UNCHANGED vars \/ (\E a \in Agents : ChangeBead(a)) \/ \E i \in Images : LearnDigest(i)
  <2>1. UNCHANGED <<pods, upgrading, replacing, pc, passVars>>
    BY <1>9 DEF vars, ChangeBead, LearnDigest
  <2>2. QED BY <2>1 DEF UpgradeInv, passVars
<1>10. QED BY <1>1, <1>2, <1>3, <1>4, <1>5, <1>6, <1>7, <1>8, <1>9 DEF Next, Reconcile, Visit

\* One rolling upgrade per mode at a time (upgrade.go:41-42), provided that the process
\* does not restart, which forgets the upgrade under way, that the old pods are gone when
\* the next pass starts, that no delete's answer is lost and that modes have no dash.
THEOREM RollingUpgrades ==
  ASSUME ~Restarts, GraceEndsFirst, "lost" \notin Faults, NameMode = Mode
  PROVE  Spec => []OneUpgradePerMode
<1>1. Init => UpgradeInv
  BY DEF Init, UpgradeInv
<1>2. UpgradeInv => OneUpgradePerMode
  BY DEF UpgradeInv, OneUpgradePerMode
<1>3. TypeOK /\ UpgradeInv /\ [Next]_vars => UpgradeInv'
  BY UpgradeStep
<1>4. QED BY <1>1, <1>2, <1>3, TypeCorrect, PTL DEF Spec

-----------------------------------------------------------------------------
(* Needless kills.  A pod listed as ended is not live until the pass itself *)
(* recreates it, and what is left to upgrade after the scan has drifted.    *)

KillInv ==
  /\ pc \in {"orphans", "visit", "spawn"} =>
       \A a \in Agents : Terminal(actual[a]) => ~Live(pods[a])
  /\ pc = "spawn" => actual[current] = NoPod
  /\ pc \in {"visit", "spawn"} =>
       \A a \in Examined : podDriftReason(desired[a], actual[a], digests)

LEMMA KillKept ==
  ASSUME TypeOK, KillInv, LivePods' \subseteq LivePods, pc' # "list pods",
         pc' = pc \/ (pc = "visit" /\ pc' = "spawn") \/ (pc = "spawn" /\ pc' = "visit"),
         pc' = "spawn" => actual'[current'] = NoPod,
         \A a \in Agents : \/ actual'[a] = NoPod
                           \/ actual'[a] = actual[a] /\ desired'[a] \in {desired[a], NoBead},
         digests' = digests
  PROVE  KillInv'
<1>1. \A a \in Agents : Terminal(actual'[a]) => ~Live(pods'[a])
          \/ pc' \notin {"orphans", "visit", "spawn"}
  BY DEF KillInv, Terminal, LivePods
<1>2. pc' \in {"visit", "spawn"} =>
        \A a \in Examined' : podDriftReason(desired'[a], actual'[a], digests')
  BY DEF KillInv, Examined, Wanted, Active, podDriftReason
<1>3. QED BY <1>1, <1>2 DEF KillInv

LEMMA KillStep ==
  ASSUME TypeOK, KillInv, [Next]_vars
  PROVE  KillInv'
<1> USE DEF k8sVars
<1>1. CASE ListAgentBeads \/ Finish \/ PodListingFails \/ Restart
  BY <1>1 DEF ListAgentBeads, Finish, PodListingFails, Restart, Return, KillInv
<1>2. CASE ListAgentPods
  BY <1>2 DEF ListAgentPods, KillInv, Terminal, Live, Active
<1>3. CASE \E a \in Agents : DeleteOrphan(a) \/ DeleteTerminal(a) \/ DeleteDrifted(a)
  <2>1. PICK a \in Agents : DeleteOrphan(a) \/ DeleteTerminal(a) \/ DeleteDrifted(a)
    BY <1>3
  <2>2. PICK r \in Results : DeleteAgentPod(a, r) /\ digests' = digests
           /\ \/ pc' = "idle"
              \/ /\ actual' = [actual EXCEPT ![a] = NoPod] /\ desired' = desired
                 /\ \/ pc = "orphans" /\ pc' = pc
                    \/ pc = "visit" /\ pc' = "spawn" /\ current' = a
    BY <2>1 DEF DeleteOrphan, DeleteTerminal, DeleteDrifted, Return, Visited
  <2>3. LivePods' \subseteq LivePods
    BY <2>2, DeleteEffect DEF TypeOK
  <2>4. CASE pc' = "idle"
    BY <2>4 DEF KillInv
  <2>5. CASE pc' # "idle"
    <3>1. /\ pc' = "spawn" => actual'[current'] = NoPod
          /\ \A b \in Agents : \/ actual'[b] = NoPod
                               \/ actual'[b] = actual[b] /\ desired'[b] \in {desired[b], NoBead}
      BY <2>2, <2>5 DEF TypeOK, PassTypeOK
    <3>2. QED BY <2>2, <2>3, <2>5, <3>1, KillKept
  <2>6. QED BY <2>4, <2>5
<1>4. CASE \E stale \in SUBSET upgrading : Scan(stale)
  <2>1. /\ pods' = pods /\ pc = "orphans" /\ pc' = "visit"
    BY <1>4 DEF Scan
  <2>2. \A a \in Agents : actual'[a] \in {actual[a], NoPod}
    BY <1>4 DEF Scan
  <2>3. \A a \in Examined' : podDriftReason(desired'[a], actual'[a], digests')
    BY <1>4 DEF Scan, Examined, Wanted, Active
  <2>4. QED BY <2>1, <2>2, <2>3 DEF KillInv, Terminal
<1>5. CASE DeferSpawn \/ \E a \in Agents : DeferUpgrade(a) \/ VisitMissing(a)
  <2>1. /\ pods' = pods /\ digests' = digests
        /\ pc' # "list pods"
        /\ pc' = pc \/ (pc = "visit" /\ pc' = "spawn") \/ (pc = "spawn" /\ pc' = "visit")
    BY <1>5 DEF DeferSpawn, DeferUpgrade, VisitMissing, Visited, NextAgent
  <2>2. pc' = "spawn" => actual'[current'] = NoPod
    BY <1>5 DEF DeferSpawn, DeferUpgrade, VisitMissing, Visited, NextAgent, TypeOK, PassTypeOK
  <2>3. \A b \in Agents : \/ actual'[b] = NoPod
                          \/ actual'[b] = actual[b] /\ desired'[b] \in {desired[b], NoBead}
    BY <1>5 DEF DeferSpawn, DeferUpgrade, VisitMissing, Visited, NextAgent, TypeOK, PassTypeOK
  <2>4. LivePods' \subseteq LivePods
    BY <2>1 DEF LivePods
  <2>5. QED BY <2>1, <2>2, <2>3, <2>4, KillKept
<1>6. CASE CreatePod
  <2>1. /\ current \in Agents /\ desired[current] \in Images /\ K8sTypeOK /\ pc = "spawn"
    BY <1>6 DEF CreatePod, TypeOK, PassTypeOK, Wanted
  <2>2. PICK r \in Results : CreateAgentPod(current, desired[current], r) /\ digests' = digests
            /\ \/ pc' = "idle"
               \/ /\ pc' = "visit" /\ actual' = actual
                  /\ desired' = [desired EXCEPT ![current] = NoBead]
    BY <1>6 DEF CreatePod, NextAgent, Return
  <2>3. \A b \in Agents : b # current => pods'[b] = pods[b]
    BY <2>1, <2>2, CreateEffect
  <2>4. CASE pc' = "idle"
    BY <2>4 DEF KillInv
  <2>5. CASE pc' = "visit"
    <3>1. \A b \in Agents : Terminal(actual'[b]) => ~Live(pods'[b])
      BY <2>1, <2>2, <2>3, <2>5 DEF KillInv, Terminal
    <3>2. \A b \in Examined' : podDriftReason(desired'[b], actual'[b], digests')
      BY <2>1, <2>2, <2>5 DEF KillInv, Examined, Wanted, TypeOK, PassTypeOK
    <3>3. QED BY <2>5, <3>1, <3>2 DEF KillInv
  <2>6. QED BY <2>2, <2>4, <2>5
<1>7. CASE Cluster \/ (\E a \in Agents : ChangeBead(a)) \/ UNCHANGED vars
  <2>1. UNCHANGED <<digests, pc, passVars>>
    BY <1>7 DEF Cluster, ChangeBead, vars
  <2>2. LivePods' \subseteq LivePods
    <3>1. CASE \E a \in Agents : Kubelet(a)
      BY <3>1, KubeletEffect DEF TypeOK
    <3>2. CASE pods' = pods
      BY <3>2 DEF LivePods
    <3>3. QED BY <1>7, <3>1, <3>2 DEF Cluster, PushImage, ChangeBead, vars
  <2>3. CASE pc \in {"idle", "list pods"}
    BY <2>1, <2>3 DEF KillInv
  <2>4. CASE pc \notin {"idle", "list pods"}
    BY <2>1, <2>2, <2>4, KillKept DEF passVars, KillInv
  <2>5. QED BY <2>3, <2>4
<1>8. CASE \E i \in Images : LearnDigest(i)
  <2>1. PICK i \in Images : LearnDigest(i)
    BY <1>8
  <2>2. UNCHANGED <<pods, pc, desired, actual, current>>
    BY <2>1 DEF LearnDigest, passVars
  <2>3. CASE pc = "idle"
    BY <2>2, <2>3 DEF KillInv
  <2>4. CASE pc # "idle"
    <3>1. \A j \in Images : digests[j] \in {NoDigest, digests'[j]}
      BY <2>1, <2>4 DEF LearnDigest, TypeOK
    <3>2. \A a \in Examined : desired[a] \in Images
      BY DEF Examined, Wanted, TypeOK, PassTypeOK
    <3>3. \A a \in Examined : podDriftReason(desired[a], actual[a], digests) =>
                              podDriftReason(desired[a], actual[a], digests')
      BY <3>1, <3>2 DEF podDriftReason
    <3>4. Examined' = Examined
      BY <2>2 DEF Examined, Wanted
    <3>5. QED BY <2>2, <3>3, <3>4 DEF KillInv
  <2>5. QED BY <2>3, <2>4
<1>9. QED BY <1>1, <1>2, <1>3, <1>4, <1>5, <1>6, <1>7, <1>8 DEF Next, Reconcile, Visit

\* Only three steps of a pass delete a live pod.
LEMMA OnlyPassDeletes ==
  ASSUME TypeOK, [Next]_vars, NEW a \in Agents, Live(pods[a]), Deleted(a)
  PROVE  DeleteOrphan(a) \/ DeleteTerminal(a) \/ DeleteDrifted(a)
<1> USE DEF k8sVars
<1>1. pods'[a] # pods[a]
  BY DEF Deleted
<1>2. CASE \E b \in Agents : DeleteOrphan(b) \/ DeleteTerminal(b) \/ DeleteDrifted(b)
  <2>1. PICK b \in Agents : DeleteOrphan(b) \/ DeleteTerminal(b) \/ DeleteDrifted(b)
    BY <1>2
  <2>2. PICK r \in Results : DeleteAgentPod(b, r)
    BY <2>1 DEF DeleteOrphan, DeleteTerminal, DeleteDrifted
  <2>3. a = b
    BY <1>1, <2>2, DeleteEffect DEF TypeOK
  <2>4. QED BY <2>1, <2>3
<1>3. CASE CreatePod
  <2>1. PICK r \in Results : CreateAgentPod(current, desired[current], r)
    BY <1>3 DEF CreatePod
  <2>2. current \in Agents /\ desired[current] \in Images /\ K8sTypeOK
    BY <1>3 DEF CreatePod, TypeOK, PassTypeOK, Wanted
  <2>3. pods'[a] = pods[a] \/ pods[a] = NoPod
    BY <2>1, <2>2, CreateEffect
  <2>4. QED BY <1>1, <2>3 DEF Deleted
<1>4. CASE \E b \in Agents : Kubelet(b)
  <2>1. PICK b \in Agents : Kubelet(b)
    BY <1>4
  <2>2. a = b /\ (pods'[a] = NoPod \/ pods'[a].terminating = pods[a].terminating)
          /\ (pods'[a] = NoPod => pods[a].terminating)
    BY <1>1, <2>1, KubeletEffect DEF TypeOK
  <2>3. QED BY <2>2 DEF Deleted
<1>5. CASE pods' = pods
  BY <1>1, <1>5
<1>6. QED BY <1>2, <1>3, <1>4, <1>5 DEF Next, Reconcile, Visit, ListAgentBeads, ListAgentPods, Scan,
    PodListingFails, DeferSpawn, DeferUpgrade, VisitMissing, Finish, Restart, Cluster, PushImage, ChangeBead,
    LearnDigest, vars

\* A pod that is only known as ended is not live any more, and what is left to
\* upgrade has drifted.
LEMMA KillReasons ==
  ASSUME TypeOK, KillInv, [Next]_vars, NEW a \in Agents, Live(pods[a]), Deleted(a)
  PROVE  KillIsDue(a)
<1>1. CASE DeleteOrphan(a)
  <2>1. pc = "orphans" /\ Wanted # {} /\ desired[a] = NoBead
    BY <1>1 DEF DeleteOrphan, Orphans, Unlisted
  <2>2. desired # NoBeads
    BY <2>1 DEF Wanted, NoBeads
  <2>3. QED BY <2>1, <2>2 DEF KillIsDue
<1>2. CASE DeleteTerminal(a)
  BY <1>2 DEF DeleteTerminal, KillInv
<1>3. CASE DeleteDrifted(a)
  <2>1. a \notin JobAgents /\ a \in Examined /\ pc = "visit"
    BY <1>3 DEF DeleteDrifted, CanUpgrade
  <2>2. desired[a] # NoBead /\ actual[a] # NoPod
    BY <2>1 DEF Examined, Wanted, Active
  <2>3. podDriftReason(desired[a], actual[a], digests)
    BY <2>1 DEF KillInv
  <2>4. QED BY <2>1, <2>2, <2>3 DEF KillIsDue
<1>4. QED BY <1>1, <1>2, <1>3, OnlyPassDeletes

\* For every constant: a pass deletes a live pod only as an orphan of a listing
\* that was not empty, or to upgrade a pod that drifted and is not a job
\* (reconciler.go:103-118, 171-190).
THEOREM KillsAreNeeded == Spec => NoNeedlessKill
<1>1. Init => KillInv
  BY DEF Init, KillInv
<1>2. TypeOK /\ KillInv /\ [Next]_vars => KillInv'
  BY KillStep
<1>3. TypeOK /\ KillInv /\ [Next]_vars
        => [\A a \in Agents : Live(pods[a]) /\ Deleted(a) => KillIsDue(a)]_vars
  BY KillReasons
<1>4. QED BY <1>1, <1>2, <1>3, TypeCorrect, PTL DEF Spec, NoNeedlessKill
=============================================================================
