------------------------------ MODULE Kubernetes ------------------------------
(***************************************************************************)
(* The cluster as the controller sees it (external).  A pod is known by    *)
(* its name, {mode}-{project}-{role}-{agentName}, so one agent has at most *)
(* one pod.  Deletion is graceful (manager.go:316-318): a scheduled pod    *)
(* keeps its name, its phase and its readiness until the kubelet has       *)
(* stopped it, and until then a Create of that name fails.                 *)
(***************************************************************************)
EXTENDS Naturals, FiniteSets

CONSTANTS
  Agents,        \* agent identities; an agent stands for its pod name too
  Images,        \* image references (repo:tag)
  Digests,       \* digests a tag can resolve to
  NoPod,         \* no pod has this name
  NoDigest,      \* the image was not pulled, or the digest is not known
  JobAgents,     \* agents whose pods run to completion (restartPolicy Never)
  Faults         \* API faults: "refused" (no effect), "lost" (applied, answer lost)

ASSUME AgentsFinite == IsFiniteSet(Agents)
ASSUME JobAgentsAssumption == JobAgents \subseteq Agents
ASSUME NoDigestAssumption == NoDigest \notin Digests
ASSUME FaultsAssumption == Faults \subseteq {"refused", "lost"}

VARIABLES
  pods,          \* agent -> its pod, or NoPod
  registry       \* image -> the digest its tag has in the registry

k8sVars == <<pods, registry>>

Pod == [phase : {"Pending", "Running", "Succeeded", "Failed"},
        ready : BOOLEAN,
        image : Images,
        digest : Digests \cup {NoDigest},
        terminating : BOOLEAN]

ASSUME NoPodAssumption == NoPod \notin Pod

\* Pods start Pending, unpulled.
NewPod(image) == [phase |-> "Pending", ready |-> FALSE, image |-> image,
                  digest |-> NoDigest, terminating |-> FALSE]

Terminal(p) == p # NoPod /\ p.phase \in {"Succeeded", "Failed"}
Active(p)   == p # NoPod /\ p.phase \in {"Pending", "Running"}
Live(p)     == Active(p) /\ ~p.terminating
Ready(p)    == p # NoPod /\ p.phase = "Running" /\ p.ready

LivePods == {a \in Agents : Live(pods[a])}

-----------------------------------------------------------------------------
(* API requests: the result is what the client gets back.                  *)

\* What a delete leaves: a finished or unscheduled pod goes at once, a
\* scheduled one terminates.
AfterDelete(p) ==
  IF Terminal(p) THEN {NoPod}
  ELSE {[p EXCEPT !.terminating = TRUE]} \cup
       IF p.phase = "Pending" THEN {NoPod} ELSE {}

Results == {"ok", "lost", "failed"}

DeleteAgentPod(a, result) ==
  \/ /\ pods[a] # NoPod
     /\ result = "ok" \/ (result = "lost" /\ "lost" \in Faults)
     /\ \E after \in AfterDelete(pods[a]) : pods' = [pods EXCEPT ![a] = after]
  \/ /\ result = "failed"
     /\ pods[a] = NoPod \/ "refused" \in Faults
     /\ UNCHANGED pods

CreateAgentPod(a, image, result) ==
  \/ /\ pods[a] = NoPod
     /\ result = "ok" \/ (result = "lost" /\ "lost" \in Faults)
     /\ pods' = [pods EXCEPT ![a] = NewPod(image)]
  \/ /\ result = "failed"
     /\ pods[a] # NoPod \/ "refused" \in Faults
     /\ UNCHANGED pods

-----------------------------------------------------------------------------
(* The kubelet and the registry.                                           *)

\* The agent image is pulled on every start (PullAlways, manager.go:346).
StartPod(a) ==
  /\ Live(pods[a]) /\ pods[a].phase = "Pending"
  /\ pods' = [pods EXCEPT ![a].phase = "Running",
                          ![a].digest = registry[pods[a].image]]
  /\ UNCHANGED registry

BecomeReady(a) ==
  /\ Live(pods[a]) /\ pods[a].phase = "Running" /\ ~pods[a].ready
  /\ pods' = [pods EXCEPT ![a].ready = TRUE]
  /\ UNCHANGED registry

\* The probe fails, or the container restarts in place and is pulled anew.
LoseReadiness(a) ==
  /\ Live(pods[a]) /\ Ready(pods[a])
  /\ \E d \in {pods[a].digest} \cup
              (IF a \in JobAgents THEN {} ELSE {registry[pods[a].image]}) :
       pods' = [pods EXCEPT ![a].ready = FALSE, ![a].digest = d]
  /\ UNCHANGED registry

\* A job ends; any pod may be evicted.
EndPod(a) ==
  /\ Live(pods[a])
  /\ \E phase \in {"Failed"} \cup (IF a \in JobAgents /\ pods[a].phase = "Running"
                                   THEN {"Succeeded"} ELSE {}) :
       pods' = [pods EXCEPT ![a].phase = phase, ![a].ready = FALSE]
  /\ UNCHANGED registry

\* The grace period is over.
FinalizePod(a) ==
  /\ pods[a] # NoPod /\ pods[a].terminating
  /\ pods' = [pods EXCEPT ![a] = NoPod]
  /\ UNCHANGED registry

PushImage(i) ==
  /\ \E d \in Digests \ {registry[i]} : registry' = [registry EXCEPT ![i] = d]
  /\ UNCHANGED pods

Kubelet(a) == StartPod(a) \/ BecomeReady(a) \/ LoseReadiness(a) \/ EndPod(a) \/ FinalizePod(a)

K8sInit ==
  /\ pods = [a \in Agents |-> NoPod]
  /\ registry \in [Images -> Digests]

K8sTypeOK ==
  /\ pods \in [Agents -> Pod \cup {NoPod}]
  /\ registry \in [Images -> Digests]
=============================================================================
