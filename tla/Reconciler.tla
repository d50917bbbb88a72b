------------------------------ MODULE Reconciler ------------------------------
(***************************************************************************)
(* reconciler/reconciler.go: one pass at a time (Reconciler.mu), each a    *)
(* walk over two snapshots.  The steps are the pass's API calls, in order; *)
(* between them the daemon, the kubelet and the registry move on.          *)
(***************************************************************************)
EXTENDS UpgradeTracker

CONSTANTS
  NoBead,        \* the agent has no active bead
  NoAgent,       \* the pass is not working on an agent
  MaxPods,       \* CoopMaxPods, 0 for unlimited
  BurstLimit,    \* CoopBurstLimit
  GraceEndsFirst,\* a pass starts only after the grace periods have ended
  EmptyAnswers,  \* the daemon may answer a listing with no beads
  Restarts       \* the controller may crash

ASSUME NoBeadAssumption == NoBead \notin Images
ASSUME NoAgentAssumption == NoAgent \notin Agents
ASSUME LimitsAssumption == MaxPods \in Nat /\ BurstLimit \in Nat \ {0}
ASSUME SwitchesAssumption == {GraceEndsFirst, EmptyAnswers, Restarts} \subseteq BOOLEAN

VARIABLES
  beads,         \* daemon: agent -> the image its active bead asks for, or NoBead
  digests,       \* ImageDigestTracker.digests: image -> latest known digest
  pc,            \* where the pass is
  desired,       \* pass: the beads as listed
  actual,        \* pass: the pods as listed (actualMap)
  current,       \* pass: agent to create a pod for
  activePods,    \* pass: counter the MaxPods check reads
  created,       \* pass: counter the burst check reads
  replacing      \* history: deleted for an upgrade, no replacement was Ready yet, and the
                 \* ten minutes an upgrade may take were not declared over

passVars == <<desired, actual, current, activePods, created>>
vars == <<k8sVars, upgrading, beads, digests, pc, passVars, replacing>>

NoBeads == [a \in Agents |-> NoBead]
NoPods  == [a \in Agents |-> NoPod]

Init ==
  /\ K8sInit
  /\ upgrading = {} /\ replacing = {}
  /\ beads = NoBeads
  /\ digests = [i \in Images |-> NoDigest]
  /\ pc = "idle"
  /\ desired = NoBeads /\ actual = NoPods /\ current = NoAgent
  /\ activePods = 0 /\ created = 0

\* The pass returns, its locals are gone.
Return ==
  /\ pc' = "idle" /\ desired' = NoBeads /\ actual' = NoPods /\ current' = NoAgent
  /\ activePods' = 0 /\ created' = 0

-----------------------------------------------------------------------------
(* What the pass computes from its snapshots.  What the loops will not     *)
(* read again is dropped from `desired' and `actual', so that before the   *)
(* scan an entry of `actual' without a desired bead is an orphan still to  *)
(* delete, and after it Wanted is what the create loop has to visit.       *)

Wanted == {a \in Agents : desired[a] # NoBead}

Unlisted == {a \in Agents : actual[a] # NoPod /\ desired[a] = NoBead}

\* Nothing desired: refuse to delete everything (reconciler.go:106).
OrphansUnguarded == Unlisted
OrphansNotFailed == IF Wanted = {} THEN {} ELSE {a \in Unlisted : Active(actual[a])}
Orphans == IF Wanted = {} THEN {} ELSE Unlisted

Examined == {a \in Wanted : Active(actual[a])}

\* Digests podDriftReason hands to RecordDigest for an image.
Observed(i) ==
  {actual[a].digest : a \in {b \in Examined : desired[b] = i /\ actual[b].image = i}}
    \ {NoDigest}

\* RecordDigest keeps what is known; the first pod of the map's random order
\* becomes the baseline of an image without one.
RecordedDigests ==
  {known \in [Images -> Digests \cup {NoDigest}] :
     \A i \in Images : known[i] \in IF digests[i] # NoDigest \/ Observed(i) = {}
                                   THEN {digests[i]} ELSE Observed(i)}

DigestDriftOnly(want, pod, known) == pod.digest # NoDigest /\ known[want] \notin {NoDigest, pod.digest}
podDriftReason(want, pod, known) ==
  \/ pod.image # want
  \/ pod.digest # NoDigest /\ known[want] \notin {NoDigest, pod.digest}

CountActive == Cardinality(Examined)

MaySpawnAtLimit == created < BurstLimit /\ (MaxPods = 0 \/ activePods <= MaxPods)
MaySpawn == created < BurstLimit /\ (MaxPods = 0 \/ activePods < MaxPods)

-----------------------------------------------------------------------------
(* The pass.                                                               *)

\* ListAgentBeads; an error returns with nothing done.
ListAgentBeads ==
  /\ pc = "idle"
  /\ GraceEndsFirst => \A a \in Agents : pods[a] # NoPod => ~pods[a].terminating
  /\ desired' \in {beads} \cup (IF EmptyAnswers THEN {NoBeads} ELSE {})
  /\ pc' = "list pods"
  /\ UNCHANGED <<k8sVars, upgrading, beads, digests, actual, current, activePods,
                 created, replacing>>

ListAgentPods ==
  /\ pc = "list pods"
  /\ actual' = pods
  /\ pc' = "orphans"
  /\ UNCHANGED <<k8sVars, upgrading, beads, digests, desired, current, activePods,
                 created, replacing>>

PodListingFails ==
  /\ pc = "list pods" /\ Faults # {}
  /\ Return
  /\ UNCHANGED <<k8sVars, upgrading, beads, digests, replacing>>

\* An error, NotFound included, ends the pass.
DeleteOrphan(a) ==
  /\ pc = "orphans" /\ a \in Orphans
  /\ \E result \in Results :
       /\ DeleteAgentPod(a, result)
       /\ \/ /\ result = "ok"
             /\ actual' = [actual EXCEPT ![a] = NoPod]
             /\ UNCHANGED <<pc, desired, current, activePods, created>>
          \/ result # "ok" /\ Return
  /\ UNCHANGED <<registry, upgrading, beads, digests, replacing>>

\* Count, clean the tracker, look for drift.  The create loop passes over an
\* agent whose pod is active and has not drifted without doing anything.
Scan(stale) ==
  /\ pc = "orphans" /\ Orphans = {}
  /\ activePods' = CountActive
  /\ digests' \in RecordedDigests
  /\ CleanAndClear(stale, {a \in Examined : Ready(actual[a])})
  /\ replacing' = replacing \ stale
  /\ LET fine == {a \in Examined : ~podDriftReason(desired[a], actual[a], digests')}
     IN  /\ desired' = [a \in Agents |-> IF a \in fine THEN NoBead ELSE desired[a]]
         /\ actual' = [a \in Agents |-> IF a \in Wanted \ fine THEN actual[a] ELSE NoPod]
  /\ pc' = "visit"
  /\ UNCHANGED <<k8sVars, beads, current, created>>

\* The loop goes on to create a pod for a.
Visited(a) ==
  /\ current' = a /\ pc' = "spawn"
  /\ actual' = [actual EXCEPT ![a] = NoPod]
  /\ UNCHANGED <<desired, created>>

DeleteTerminal(a) ==
  /\ pc = "visit" /\ a \in Wanted /\ Terminal(actual[a])
  /\ \E result \in Results :
       /\ DeleteAgentPod(a, result)
       /\ \/ result = "ok" /\ Visited(a) /\ UNCHANGED activePods
          \/ result # "ok" /\ Return
  /\ UNCHANGED <<registry, upgrading, beads, digests, replacing>>

\* A delete whose answer is lost is not marked.
DeleteDrifted(a) ==
  /\ pc = "visit" /\ a \in Examined /\ CanUpgrade(a)
  /\ \E result \in Results :
       /\ DeleteAgentPod(a, result)
       /\ replacing' = IF result = "failed" THEN replacing ELSE replacing \cup {a}
       /\ \/ /\ result = "ok"
             /\ MarkUpgrading(a)
             /\ activePods' = activePods - 1
             /\ Visited(a)
          \/ result # "ok" /\ Return /\ UNCHANGED upgrading
  /\ UNCHANGED <<registry, beads, digests>>

\* The strategy defers the upgrade.
DeferUpgrade(a) ==
  /\ pc = "visit" /\ a \in Examined /\ ~CanUpgrade(a)
  /\ desired' = [desired EXCEPT ![a] = NoBead]
  /\ actual' = [actual EXCEPT ![a] = NoPod]
  /\ UNCHANGED <<k8sVars, upgrading, beads, digests, pc, current, activePods, created,
                 replacing>>

VisitMissing(a) ==
  /\ pc = "visit" /\ a \in Wanted /\ actual[a] = NoPod
  /\ Visited(a)
  /\ UNCHANGED <<k8sVars, upgrading, beads, digests, activePods, replacing>>

\* Done with the current agent.
NextAgentKept == pc' = "visit" /\ UNCHANGED <<current, desired, actual>>
NextAgent ==
  /\ current' = NoAgent /\ pc' = "visit"
  /\ desired' = [desired EXCEPT ![current] = NoBead]
  /\ UNCHANGED actual

\* The burst limit or the pod limit is reached: the next pass tries again.
DeferSpawn ==
  /\ pc = "spawn" /\ ~MaySpawn
  /\ NextAgent
  /\ UNCHANGED <<k8sVars, upgrading, beads, digests, activePods, created, replacing>>

\* An error, AlreadyExists included, ends the pass.
CreatePod ==
  /\ pc = "spawn" /\ MaySpawn
  /\ \E result \in Results :
       /\ CreateAgentPod(current, desired[current], result)
       /\ \/ /\ result = "ok"
             /\ created' = created + 1 /\ activePods' = activePods + 1
             /\ NextAgent
          \/ result # "ok" /\ Return
  /\ UNCHANGED <<registry, upgrading, beads, digests, replacing>>

Finish ==
  /\ pc = "visit" /\ Wanted = {}
  /\ Return
  /\ UNCHANGED <<k8sVars, upgrading, beads, digests, replacing>>

Visit(a) == DeleteTerminal(a) \/ DeleteDrifted(a) \/ DeferUpgrade(a) \/ VisitMissing(a)

Reconcile ==
  \/ ListAgentBeads \/ ListAgentPods \/ PodListingFails
  \/ \E a \in Agents : DeleteOrphan(a) \/ Visit(a)
  \/ \E stale \in SUBSET upgrading : Scan(stale)
  \/ DeferSpawn \/ CreatePod \/ Finish

\* Both trackers and the pass are process memory: what was under way is forgotten,
\* not over.
Restart ==
  /\ Restarts
  /\ upgrading' = {}
  /\ digests' = [i \in Images |-> NoDigest]
  /\ Return
  /\ UNCHANGED <<k8sVars, beads, replacing>>

-----------------------------------------------------------------------------
(* Everyone else.                                                          *)

\* An agent bead is opened, given another image, or closed.
ChangeBead(a) ==
  /\ \E b \in (Images \cup {NoBead}) \ {beads[a]} : beads' = [beads EXCEPT ![a] = b]
  /\ UNCHANGED <<k8sVars, upgrading, digests, pc, passVars, replacing>>

\* An upgrade is over once the replacement became Ready.
Cluster ==
  /\ \/ \E a \in Agents : Kubelet(a)
     \/ \E i \in Images : PushImage(i)
  /\ replacing' = {a \in replacing : Ready(pods[a]) \/ ~Ready(pods'[a])}
  /\ UNCHANGED <<upgrading, beads, digests, pc, passVars>>

\* The digest tracker learns a digest from the registry, right or outdated: the
\* refresh between passes moves it, the seeding goroutine (main.go:229-243) may
\* set a missing one at any time.
LearnDigest(i) ==
  /\ pc = "idle" \/ digests[i] = NoDigest
  /\ \E d \in Digests \ {digests[i]} : digests' = [digests EXCEPT ![i] = d]
  /\ UNCHANGED <<k8sVars, upgrading, beads, pc, passVars, replacing>>

Next ==
  \/ Reconcile
  \/ Restart
  \/ Cluster
  \/ \E a \in Agents : ChangeBead(a)
  \/ \E i \in Images : LearnDigest(i)

Spec == Init /\ [][Next]_vars

\* The ticker starts passes and a pass goes on (main.go:280, 295).
\* Go walks maps in random order: an agent is first in the create loop again and
\* again (reconciler.go:168).  Ten minutes pass for an entry that stays.
\* The kubelet starts pods and ends grace periods; nothing says that a pod
\* becomes ready, and beads and images change at will.
FirstInOrder(a) ==
  created = 0 /\ (VisitMissing(a) \/ DeleteTerminal(a) \/ DeleteDrifted(a))
Fairness ==
  /\ WF_vars(Reconcile)
  /\ \A a \in Agents :
       /\ SF_vars(FirstInOrder(a))
       /\ SF_vars(\E stale \in SUBSET upgrading : a \in stale /\ Scan(stale))
       /\ WF_vars(Cluster /\ FinalizePod(a))

FairSpec == Spec /\ Fairness

-----------------------------------------------------------------------------
(* Properties.                                                             *)

PassTypeOK ==
  /\ pc \in {"idle", "list pods", "orphans", "visit", "spawn"}
  /\ desired \in [Agents -> Images \cup {NoBead}]
  /\ actual \in [Agents -> Pod \cup {NoPod}]
  /\ IF pc = "spawn" THEN current \in Wanted ELSE current = NoAgent
  /\ activePods \in Nat /\ created \in 0..BurstLimit

TypeOK ==
  /\ K8sTypeOK /\ PassTypeOK
  /\ upgrading \subseteq Agents /\ replacing \subseteq Agents
  /\ beads \in [Agents -> Images \cup {NoBead}]
  /\ digests \in [Images -> Digests \cup {NoDigest}]

\* CoopMaxPods (config.go:57-60): the passes never run more agent pods than the
\* limit, whatever fails or changes while they work on their snapshots; pods
\* that are being deleted are not counted, as the pass does not (reconciler.go:191).
MaxPodsRespected == MaxPods > 0 => Cardinality(LivePods) <= MaxPods

\* "It ensures only one pod per role is being upgraded at a time", and the next
\* one waits until the replacement is Ready (upgrade.go:21-23, 41-42), or ten
\* minutes are over: what the tracker achieves while no crash erases it.
OneUpgradePerMode == \A a, b \in replacing : a # b => Mode[a] # Mode[b]

Deleted(a) == /\ pods[a] # NoPod /\ ~pods[a].terminating
              /\ pods'[a] = NoPod \/ pods'[a].terminating

\* The two reasons a pass has to delete a live pod: the daemon listed beads and
\* none for its agent, or the pod had drifted from the listed bead and is not a job.
KillIsDue(a) ==
  \/ pc = "orphans" /\ desired # NoBeads /\ desired[a] = NoBead
  \/ /\ desired[a] # NoBead /\ actual[a] # NoPod /\ a \notin JobAgents
     /\ podDriftReason(desired[a], actual[a], digests)

\* What a pass deletes is live only for one of these reasons: it never kills a job
\* or an up-to-date pod of a bead it listed, nor a pod it only knows as ended, nor
\* any pod at all after the daemon answered with no beads (reconciler.go:103-105,
\* upgrade.go:16-18).  The reasons are those of the snapshots: a bead reopened or a
\* pod replaced since the pass listed them is not protected.
NoNeedlessKill == [][\A a \in Agents : Live(pods[a]) /\ Deleted(a) => KillIsDue(a)]_vars

\* Whatever happens to the other agents, and whether or not replacements become
\* ready: a persistent agent whose bead stays on an image is again and again
\* given a pod of that image.  Neither the burst limit nor the one-at-a-time
\* rule of the upgrades starves it.
BeadGetsItsPod ==
  \A a \in Agents \ JobAgents, i \in Images :
    <>[](beads[a] = i) => []<>(Live(pods[a]) /\ pods[a].image = i)

\* A pod whose bead stays closed is removed, as long as any bead is open.
OrphanReaped ==
  \A a \in Agents :
    <>[](beads[a] = NoBead /\ beads # NoBeads) => <>[](pods[a] = NoPod)
=============================================================================
