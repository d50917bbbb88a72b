------------------------------- MODULE AgentPods -------------------------------
(***************************************************************************)
(* What the pods of the agents are made of: the project cache              *)
(* (main.go: refreshProjectCache), the two goroutines that build a         *)
(* specification from it, and CreateAgentPod, call by call.  Snapshots,    *)
(* digests, and which creations and upgrades a pass puts off are in module *)
(* Reconciler, the delivery of events in EventStream; here a pass reads a  *)
(* bead when it comes to it and may put off any creation and any upgrade.  *)
(***************************************************************************)
EXTENDS PodSpec, Naturals, Sequences

CONSTANTS
  Agents,
  Identity,      \* agent -> the identity fields of its bead: [id, project, mode, role, agent]
  Projects,      \* project names
  Entries,       \* what a project bead can say
  Configs,       \* configurations the controller is started with
  Models,        \* values of a bead's model field, "" included
  NoteImages,    \* image overrides in a bead's notes, "" included
  NoProject, NoBead, NoClaim,
  PodFaults,     \* faults of Kubernetes calls: "refused" (no effect), "lost" (answer lost)
  MaxEdits,      \* bound on what the users do (model only)
  MaxCrashes     \* bound on crashes (model only)

ASSUME AgentPodsAssumption ==
  /\ \A a \in Agents : Identity[a].project \in Projects
  /\ "" \in Models \cap NoteImages /\ PodFaults \subseteq {"refused", "lost"}
  /\ MaxEdits \in Nat /\ MaxCrashes \in Nat

\* A bead without a mode is read as a crew's (client.go:93, nats.go:310), and the chart
\* always sets COOP_IMAGE (helm/gasboat/templates/controller/deployment.yaml:53).
ASSUME DefaultsAssumption ==
  /\ \A a \in Agents : Identity[a].mode # ""
  /\ \A c \in Configs : c.coopImage # ""

\* The claims of workspaces that can be asked for.
Workspaces == [storageClass : {""} \cup {e.storageClass : e \in Entries}]

ASSUME WorkspacesAssumption == {NoWorkspace, NoClaim} \cap Workspaces = {}

\* Nothing is being created; no pod, which is one without an image.
NoSpec == [at |-> "idle"]
NoPod == [image |-> ""]

VARIABLES
  cfg,           \* the configuration, read once
  projects,      \* daemon: project -> its entry, or NoProject
  beads,         \* daemon: agent -> its active bead, or NoBead
  cache,         \* cfg.ProjectCache: a function on the projects it has
  rigs,          \* listed projects that are not copied to the cache yet
  stage,         \* periodic goroutine: "refresh", "copy" or "pass"
  todo,          \* the agents the pass has not come to
  started,       \* the startup pass is over, events are handled
  queue,         \* events: [type, agent, bead]
  making,        \* goroutine -> the pod it is creating: [agent, spec, at], or NoSpec
  claims,        \* agent -> its workspace claim: [storageClass], or NoClaim
  pods,          \* agent -> its pod, or NoPod
  clean,         \* history: since the last listing of the projects no call failed, the pass
                 \* put nothing off and left no pod on its way out, no pod ended, and nobody
                 \* but the periodic goroutine changed a bead or a pod
  edits, crashes \* counters of the model

daemonVars == <<projects, beads>>
periodicVars == <<cache, rigs, stage, todo, started>>
clusterVars == <<claims, pods>>
podsVars == <<cfg, daemonVars, periodicVars, queue, making, clusterVars,
              clean, edits, crashes>>

Goroutines == {"loop", "pass"}

NoCache == [p \in {} |-> NoEntry]

\* Every call that fails has no effect, or an answer that is lost.
Calls == {"ok"} \cup (PodFaults \cap {"lost"}) \cup (IF "refused" \in PodFaults THEN {"failed"} ELSE {})

-----------------------------------------------------------------------------
(* refreshProjectCache: at startup and before every pass.                  *)

\* An error leaves the cache as it is.
ListProjectBeads(ok) ==
  /\ stage = "refresh"
  /\ rigs' = IF ok THEN [p \in {p \in Projects : projects[p] # NoProject} |-> projects[p]]
             ELSE NoCache
  /\ IF DOMAIN rigs' = {} THEN stage' = "pass" /\ todo' = Agents
                          ELSE stage' = "copy" /\ UNCHANGED todo
  /\ clean' = ok
  /\ UNCHANGED <<cfg, daemonVars, cache, started, queue, making, clusterVars, edits, crashes>>

\* Entries are added and overwritten, none is removed.
AddMissing(p) ==
  cache' = [q \in DOMAIN cache \cup {p} |-> IF q \in DOMAIN cache THEN cache[q] ELSE rigs[p]]
UpdateCache(p) ==
  cache' = [q \in DOMAIN cache \cup {p} |-> IF q = p THEN rigs[p] ELSE cache[q]]

CopyEntry(p) ==
  /\ stage = "copy" /\ p \in DOMAIN rigs
  /\ UpdateCache(p)
  /\ rigs' = [q \in DOMAIN rigs \ {p} |-> rigs[q]]
  /\ IF DOMAIN rigs' = {} THEN stage' = "pass" /\ todo' = Agents ELSE UNCHANGED <<stage, todo>>
  /\ UNCHANGED <<cfg, daemonVars, started, queue, making, clusterVars, clean, edits, crashes>>

-----------------------------------------------------------------------------
(* CreateAgentPod: the claim, then the pod.                                *)

Make(g, a, spec) == making' = [making EXCEPT ![g] = [agent |-> a, spec |-> spec, at |-> "claim"]]

\* An error ends the pass; the event loop only logs it.
GiveUp(g) ==
  /\ making' = [making EXCEPT ![g] = NoSpec]
  /\ todo' = IF g = "pass" THEN {} ELSE todo
  /\ clean' = FALSE

\* "already exists" is no error, and leaves the claim as it is.
ensurePVC(g, result) ==
  /\ making[g] # NoSpec /\ making[g].at = "claim"
  /\ LET a == making[g].agent  workspace == making[g].spec.workspace IN
     claims' = IF workspace # NoWorkspace /\ claims[a] = NoClaim /\ result # "failed"
               THEN [claims EXCEPT ![a] = workspace] ELSE claims
  /\ IF making[g].spec.workspace = NoWorkspace \/ result = "ok"
     THEN making' = [making EXCEPT ![g].at = "pod"] /\ UNCHANGED <<todo, clean>>
     ELSE GiveUp(g)
  /\ UNCHANGED <<cfg, daemonVars, cache, rigs, stage, started, queue, pods, edits, crashes>>

\* A name that is taken is an error.
CreatePod(g, result) ==
  /\ making[g] # NoSpec /\ making[g].at = "pod"
  /\ LET a == making[g].agent  free == pods[a] = NoPod IN
     /\ pods' = IF free /\ result # "failed"
                THEN [pods EXCEPT ![a] = buildPod(making[g].spec)] ELSE pods
     /\ IF free /\ result = "ok"
        THEN /\ making' = [making EXCEPT ![g] = NoSpec]
             /\ clean' = (clean /\ g = "pass") /\ UNCHANGED todo
        ELSE GiveUp(g)
  /\ UNCHANGED <<cfg, daemonVars, cache, rigs, stage, started, queue, claims, edits, crashes>>

-----------------------------------------------------------------------------
(* The pass, agent by agent.                                               *)

\* A pod that has ended or runs nowhere yet goes at once, another has its grace period.
AfterDelete(pod) ==
  {NoPod} \cup IF pod.ended THEN {} ELSE {[pod EXCEPT !.terminating = TRUE]}

DeleteAgentPod(a, result) ==
  IF pods[a] = NoPod \/ result = "failed" THEN UNCHANGED pods
  ELSE \E after \in AfterDelete(pods[a]) : pods' = [pods EXCEPT ![a] = after]

BeadInfo(a, bead) ==
  [id |-> Identity[a].id, project |-> Identity[a].project, mode |-> Identity[a].mode,
   role |-> Identity[a].role, agent |-> Identity[a].agent,
   model |-> bead.model, notes |-> bead.notes]

Bead(a) == BeadInfo(a, beads[a])

DesiredSpec(a) == BuildSpecFromBeadInfo(cfg, cache, Bead(a))

\* podDriftReason looks at the image alone, and jobs are left to finish.
Replaced(a) ==
  pods[a].ended \/ (DesiredSpec(a).image \notin {"", pods[a].image} /\ Identity[a].mode # "job")

Removed(a) == beads[a] = NoBead /\ \E b \in Agents : beads[b] # NoBead

PutOff(a) == todo' = todo \ {a} /\ clean' = FALSE /\ UNCHANGED making

\* The burst limit and the limit on pods put creations off.
Create(a) ==
  \/ Make("pass", a, DesiredSpec(a)) /\ todo' = todo \ {a} /\ UNCHANGED clean
  \/ PutOff(a)

DeletePod(a, result) ==
  /\ pods[a] # NoPod /\ (IF beads[a] = NoBead THEN Removed(a) ELSE Replaced(a))
  /\ DeleteAgentPod(a, result)
  /\ IF result = "ok" /\ beads[a] # NoBead THEN Create(a)
     ELSE /\ todo' = IF result = "ok" THEN todo \ {a} ELSE {}
          /\ clean' = (clean /\ result = "ok") /\ UNCHANGED making

\* An upgrade waits for the one under way.
DeferUpgrade(a) ==
  /\ beads[a] # NoBead /\ pods[a] # NoPod /\ Replaced(a) /\ ~pods[a].ended
  /\ PutOff(a) /\ UNCHANGED pods

VisitMissing(a) ==
  /\ pods[a] = NoPod /\ beads[a] # NoBead
  /\ Create(a) /\ UNCHANGED pods

Leave(a) ==
  /\ IF beads[a] = NoBead THEN pods[a] = NoPod \/ ~Removed(a)
                          ELSE pods[a] # NoPod /\ ~Replaced(a)
  /\ clean' = (clean /\ (pods[a] = NoPod \/ ~pods[a].terminating))
  /\ todo' = todo \ {a} /\ UNCHANGED <<pods, making>>

Visit(a, result) ==
  /\ stage = "pass" /\ a \in todo /\ making["pass"] = NoSpec
  /\ DeletePod(a, result) \/ DeferUpgrade(a) \/ VisitMissing(a) \/ Leave(a)
  /\ UNCHANGED <<cfg, daemonVars, cache, rigs, stage, started, queue, claims, edits, crashes>>

FinishPass ==
  /\ stage = "pass" /\ todo = {} /\ making["pass"] = NoSpec
  /\ stage' = "refresh" /\ started' = TRUE
  /\ UNCHANGED <<cfg, daemonVars, cache, rigs, todo, queue, making, clusterVars, clean,
                 edits, crashes>>

Periodic ==
  \/ \E ok \in BOOLEAN : ListProjectBeads(ok)
  \/ \E p \in Projects : CopyEntry(p)
  \/ \E a \in Agents, result \in Calls : Visit(a, result)
  \/ \E result \in Calls : ensurePVC("pass", result) \/ CreatePod("pass", result)
  \/ FinishPass

-----------------------------------------------------------------------------
(* The event loop.                                                         *)

HandleSpawn ==
  /\ started /\ making["loop"] = NoSpec /\ queue # <<>> /\ Head(queue).type = "AgentSpawn"
  /\ LET event == Head(queue) IN
     Make("loop", event.agent, buildAgentPodSpec(cfg, cache, buildEvent(cfg, event.bead)))
  /\ queue' = Tail(queue)
  /\ UNCHANGED <<cfg, daemonVars, periodicVars, clusterVars, clean, edits, crashes>>

HandleRemoval ==
  /\ started /\ making["loop"] = NoSpec /\ queue # <<>> /\ Head(queue).type = "AgentDone"
  /\ \E result \in Calls : DeleteAgentPod(Head(queue).agent, result)
  /\ queue' = Tail(queue) /\ clean' = FALSE
  /\ UNCHANGED <<cfg, daemonVars, periodicVars, making, claims, edits, crashes>>

EventLoop ==
  \/ HandleSpawn \/ HandleRemoval
  \/ \E result \in Calls : ensurePVC("loop", result) \/ CreatePod("loop", result)

\* Also what a read of the cache in the event loop may come to while the periodic
\* goroutine writes to it: the Go runtime stops a program that does both to a map.
Crash ==
  /\ crashes < MaxCrashes /\ crashes' = crashes + 1
  /\ cache' = NoCache /\ rigs' = NoCache /\ stage' = "refresh" /\ todo' = {}
  /\ started' = FALSE /\ queue' = <<>> /\ making' = [g \in Goroutines |-> NoSpec]
  /\ clean' = FALSE
  /\ UNCHANGED <<cfg, daemonVars, clusterVars, edits>>

-----------------------------------------------------------------------------
(* The users of the daemon and the kubelet (external).                     *)

Edit == edits < MaxEdits /\ edits' = edits + 1 /\ clean' = FALSE

Others == <<cfg, periodicVars, making, clusterVars, crashes>>

Event(type, a, bead) == [type |-> type, agent |-> a, bead |-> bead]

NewBead(m) == [model |-> m, notes |-> [image |-> "", model |-> ""]]

OpenBead(a) ==
  /\ Edit /\ beads[a] = NoBead
  /\ \E m \in Models :
       /\ beads' = [beads EXCEPT ![a] = NewBead(m)]
       /\ queue' = Append(queue, Event("AgentSpawn", a, BeadInfo(a, NewBead(m))))
  /\ UNCHANGED <<projects, Others>>

EndBead(a) ==
  /\ Edit /\ beads[a] # NoBead
  /\ beads' = [beads EXCEPT ![a] = NoBead]
  /\ queue' = Append(queue, Event("AgentDone", a, Bead(a)))
  /\ UNCHANGED <<projects, Others>>

EditNotes(a) ==
  /\ Edit /\ beads[a] # NoBead
  /\ \E i \in NoteImages : beads' = [beads EXCEPT ![a].notes.image = i]
  /\ UNCHANGED <<projects, queue, Others>>

EditProject(p) ==
  /\ Edit
  /\ \E entry \in Entries \cup {NoProject} : projects' = [projects EXCEPT ![p] = entry]
  /\ UNCHANGED <<beads, queue, Others>>

EndPod(a) ==
  /\ pods[a] # NoPod /\ ~pods[a].ended
  /\ pods' = [pods EXCEPT ![a].ended = TRUE] /\ clean' = FALSE
  /\ UNCHANGED <<cfg, daemonVars, periodicVars, queue, making, claims, edits, crashes>>

\* The grace period is over.
FinalizePod(a) ==
  /\ pods[a] # NoPod /\ pods[a].terminating
  /\ pods' = [pods EXCEPT ![a] = NoPod]
  /\ UNCHANGED <<cfg, daemonVars, periodicVars, queue, making, claims, clean, edits, crashes>>

PodsInit ==
  /\ cfg \in Configs
  /\ projects \in [Projects -> Entries \cup {NoProject}]
  /\ beads \in [Agents -> {NewBead(""), NoBead}]
  /\ cache = NoCache /\ rigs = NoCache /\ stage = "refresh" /\ todo = {} /\ started = FALSE
  /\ queue = <<>> /\ making = [g \in Goroutines |-> NoSpec]
  /\ claims = [a \in Agents |-> NoClaim] /\ pods = [a \in Agents |-> NoPod]
  /\ clean = FALSE /\ edits = 0 /\ crashes = 0

PodsNext ==
  \/ Periodic \/ EventLoop \/ Crash
  \/ \E a \in Agents : OpenBead(a) \/ EndBead(a) \/ EditNotes(a) \/ EndPod(a) \/ FinalizePod(a)
  \/ \E p \in Projects : EditProject(p)

PodsSpec == PodsInit /\ [][PodsNext]_podsVars

-----------------------------------------------------------------------------
(* Properties.                                                             *)

Caches == UNION {[S -> Entries] : S \in SUBSET Projects}

BeadRecords == [model : Models, notes : [image : NoteImages, model : {""}]]

Events == {Event(type, a, BeadInfo(a, bead)) :
             type \in {"AgentSpawn", "AgentDone"}, a \in Agents, bead \in BeadRecords}

PodsTypeOK ==
  /\ cfg \in Configs
  /\ projects \in [Projects -> Entries \cup {NoProject}]
  /\ beads \in [Agents -> BeadRecords \cup {NoBead}]
  /\ cache \in Caches /\ rigs \in Caches
  /\ stage \in {"refresh", "copy", "pass"} /\ todo \subseteq Agents
  /\ started \in BOOLEAN /\ clean \in BOOLEAN /\ queue \in Seq(Events)
  /\ DOMAIN making = Goroutines
  /\ \A g \in Goroutines : making[g] # NoSpec =>
       making[g].agent \in Agents /\ making[g].at \in {"claim", "pod"}
  /\ claims \in [Agents -> Workspaces \cup {NoClaim}]
  /\ DOMAIN pods = Agents
  /\ \A a \in Agents : pods[a] # NoPod =>
       pods[a].name = PodName(Identity[a]) /\ pods[a].image # ""
         /\ pods[a].ended \in BOOLEAN /\ pods[a].terminating \in BOOLEAN
  /\ edits \in 0..MaxEdits /\ crashes \in 0..MaxCrashes

\* "specs identical to those created by handleEvent" (podspec.go:29): for a bead whose
\* fields and notes ask for no other model or image, whatever the cache holds.
SameSpec ==
  \A a \in Agents :
    beads[a] # NoBead /\ beads[a].model = "" /\ beads[a].notes.image = "" =>
      buildAgentPodSpec(cfg, cache, buildEvent(cfg, Bead(a))) = DesiredSpec(a)

\* A pod can start and keep what its mode promises: every mount has its volume, the
\* claim exists before the pod does (manager.go:193), no variable is set twice, and the pods
\* of a crew have a claim, those of a job none (defaults.go:135-145, manager.go:593).  A mode
\* is a free string; a pod of any other mode is restarted with the work of its agent gone.
PodsWhole ==
  \A a \in Agents : pods[a] # NoPod =>
    LET pod == pods[a]
        claimed == <<"workspace", <<"claim", pod.name>> >> \in pod.volumes
    IN  /\ {m[1] : m \in pod.mounts} \subseteq {v[1] : v \in pod.volumes}
        /\ claimed => claims[a] # NoClaim
        /\ \A v, w \in pod.env : v[1] = w[1] => v = w
        /\ Identity[a].mode \in {"crew", "job"} => (claimed <=> pod.restartPolicy = "Always")

\* The image the daemon's beads ask for.
AskedImage(a) ==
  Or(projects[Identity[a].project].image, Or(beads[a].notes.image, cfg.coopImage))

\* "Per-project agent image override" (client.go:117), "per-bead overrides (e.g.,
\* image)" (reconciler.go:20): one pass in which no call fails, nothing is put off, no pod
\* is still on its way out and nobody interferes leaves every agent with a pod that runs
\* and stays, a persistent one on the image the daemon's beads ask for, and no other agent
\* with a pod that stays; whatever failed, crashed or was built from an outdated cache
\* before.
CleanPassConverges ==
  [][FinishPass /\ clean => \A a \in Agents :
       /\ beads[a] # NoBead => /\ pods[a] # NoPod /\ ~pods[a].ended /\ ~pods[a].terminating
                              /\ \/ Identity[a].mode = "job"
                                 \/ projects[Identity[a].project] = NoProject
                                 \/ pods[a].image = AskedImage(a)
       /\ Removed(a) => pods[a] = NoPod \/ pods[a].terminating]_podsVars
=============================================================================
