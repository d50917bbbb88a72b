# Gasboat in TLA+

Gasboat is a Kubernetes controller for coding agents.  A *beads daemon* (external)
owns the desired state: one *agent bead* per agent, with a status, typed fields and
free-form notes.  The controller turns bead lifecycle events into pod creations and
deletions, reconciles periodically, reports pod state back to the beads, and bridges
decision and mail beads to Slack and to the agents.  Paths below are relative to
`controller/internal/` unless they start with another directory of the repository.

## 1. Inventory

| Component | State it keeps | Operations | Talks to |
|---|---|---|---|
| **Reconciler** `reconciler/reconciler.go` | nothing between passes but its trackers; in a pass: `desired`, `actualMap`, `activePods`, `created`, `driftReasons` | `Reconcile`, `podDriftReason`, `digestDrift` | daemon (list beads), Kubernetes (list, delete, create), both trackers |
| **UpgradeTracker** `reconciler/upgrade.go` | `upgrading` (pod name -> start time), `pendingByMode` | `MarkUpgrading`, `ClearUpgrading`, `CanUpgrade`, `CleanStaleUpgrades`, `RegisterDrift`, `Reset` | reconciler only |
| **ImageDigestTracker** `reconciler/imagedigest.go` | `digests`, `observedDigests`, `pendingDigests`, `pendingConfirms` | `RecordDigest`, `RecordRegistryDigest`, `RefreshImages`, `CheckRegistryDigest`, the seeding goroutine of `cmd/controller/main.go` | OCI registry, reconciler |
| **Pod manager** `podmanager/manager.go`, `defaults.go` | none (Kubernetes keeps pods and PVCs) | `CreateAgentPod` (`ensurePVC` first), `DeleteAgentPod`, `ListAgentPods`, `buildPod` | Kubernetes API |
| **Event subscriber** `subscriber/nats.go` | durable JetStream consumer, channel of 64 events, backoff | `Start`, `subscribe`, `processMessage`, `mapBeadEvent`, `buildEvent` | NATS JetStream, main loop |
| **Main loop** `cmd/controller/main.go` | `ProjectCache`, sync counters | `run`, `handleEvent`, `runPeriodicSync`, `refreshProjectCache` | all of the above |
| **Pod spec builders** `cmd/controller/podspec.go` | none | `buildAgentPodSpec` (events), `BuildSpecFromBeadInfo` (reconciler) | main loop, reconciler |
| **Leader election** `cmd/controller/main.go` | a Lease (client-go) | `runLeaderElection`; loss of the lease exits the process | Kubernetes Lease |
| **Status reporter** `statusreporter/reporter.go` | counters | `ReportPodStatus`, `ReportBackendMetadata`, `SyncAll` | Kubernetes list, daemon updates |
| **Daemon client** `client/client.go` | a gRPC connection | `ListAgentBeads`, `UpdateBeadFields` (read, merge, write), `UpdateBeadNotes` (replace), `CloseBead` | beads daemon |
| **Decision watcher** `bridge/decisions.go` | a plain NATS connection | `handleCreated`, `handleClosed`, `nudgeAgent` | NATS, daemon, notifier, coop |
| **Slack notifier** `bridge/slack.go` | `messages` (bead -> Slack ts) | `NotifyDecision`, `UpdateDecision`, `handleInteraction` | Slack, daemon |
| **Mail watcher** `bridge/mail.go` | a plain NATS connection | `handleCreated`, `shouldNudge`, `nudgeAgent` | NATS, daemon, coop |
| **Config registration** `bridge/init.go` | none | `EnsureConfigs` (upsert of a constant table) | daemon |
| **Agent entrypoint** `images/agent/entrypoint.sh` | restart counter, stale session logs, credentials file, mux session | restart loop, `refresh_credentials`, `monitor_agent_exit`, mux (de)registration, signal forwarding | coop, Claude, OAuth endpoint, coopmux |
| **Agent hooks** `images/agent/hooks/*.sh` | inject queue file | `check-mail`, `drain-queue`, `prime`, `stop-decision` | daemon, Claude |
| **Configuration** `config/config.go` | environment | `Parse` | all |
| **Helm chart, CI, Dockerfile** `helm/`, `deploy/`, `.github/`, `images/agent/Dockerfile` | - | declarative | - |
| **Kubernetes, beads daemon, NATS, OCI registry, Slack, coop** | external | modelled from how the code uses them | - |

### Where the difficulty is

* Two goroutines change pods without a common lock: the event loop (`handleEvent`) and
  the periodic loop (`SyncAll`, then `Reconcile`).  `Reconciler.mu` only excludes two
  passes from each other.
* A pass works for its whole length on two snapshots (beads, then pods) taken at
  different times, and walks them in Go's random map order.
* Kubernetes deletes a running pod gracefully (30 s, `manager.go:316-318`): after
  `DeleteAgentPod` returns the name is still taken, so the `CreateAgentPod` that follows
  fails with AlreadyExists and ends the pass.
* Any API call may fail, or be applied with its response lost; each failure returns from
  the pass in the middle.
* The controller may crash at any point; both trackers live in memory only.
* The event channel drops when full, after which the message is acknowledged.
* `UpdateBeadFields` is a read-modify-write without a version check, used from several
  goroutines and processes; the notes of an agent bead are both the users' overrides and
  what the status reporter writes.
* A pod is built by either of two goroutines from a project cache that one of them is
  just writing; a claim that exists is never changed.
* A decision is answered in Slack or in the daemon, its close is heard over plain NATS,
  and the map of its messages is process memory.
* A leader whose renewals fail must have stopped before another replica may lead.
* Digest drift needs two equal registry answers in a row; pods also feed the tracker.

## 2. Plan

All steps are done; the order is the one in which the modules build on each other.

| Step | Modules | Content |
|---|---|---|
| 1 | `Kubernetes`, `UpgradeTracker`, `Reconciler`, `MCReconciler` | a pass over stale snapshots, next to the cluster and the daemon |
| 2 | `LatestDigest`, `ImageDigestTracker` | abstract promise and implementation of the digest tracker |
| 3 | `EventStream`, `Controller`, `MCController` | JetStream consumer, event channel and main loop, composed with the passes |
| 4 | `ReconcilerProofs` | type invariant, pod limit, rolling upgrades, needless kills |
| 5 | `BeadClient`, `StatusReporter`, `MCStatusReporter` | read-modify-write of bead fields by several writers; `SyncAll` next to the event loop |
| 6 | `DecisionOutcome`, `Decisions`, `MCDecisions` | decision and mail watchers, Slack messages and clicks, nudges |
| 7 | `PodSpec`, `AgentPods`, `MCAgentPods` | both spec builders and the pod they give; project cache and pod creation, call by call |
| 8 | `Leadership` | controller replicas around the Lease |
| 9 | `ImageDigestTrackerProofs`, `LeadershipProofs`, `ControllerProofs` | refinement of `LatestDigest`, one loop, the composed controller |
| 10 | `BeadClientProofs`, `StatusReporterProofs`, `DecisionsProofs` | the halves of an update; reported removals and users' fields; refinement of `DecisionOutcome` |
| 11 | `AgentPodsProofs` | equal specifications, whole pods, a clean pass repairs |

Composition: `Reconciler` EXTENDS `UpgradeTracker` EXTENDS `Kubernetes`; `Controller`
EXTENDS `Reconciler` and `EventStream`; `StatusReporter` EXTENDS `Kubernetes` and
`BeadClient`; `Decisions` EXTENDS `BeadClient`; `AgentPods` EXTENDS `PodSpec`.
Abstract specifications: `LatestDigest`, implemented by `ImageDigestTracker`, and
`DecisionOutcome`, implemented by `Decisions`, both by INSTANCE with a refinement mapping.

## 3. Modules and the code

**Kubernetes** (mostly external).  `pods` maps an agent to its pod: a pod name is
`{mode}-{project}-{role}-{agentName}`, so an agent stands for its pod name and has at
most one pod.  A pod has a phase, readiness, image, resolved digest and whether it is
terminating.  `DeleteAgentPod` and `CreateAgentPod` take the result the client sees:
`ok`, `lost` (applied, answer lost) or `failed` (not applied: refused, NotFound or
AlreadyExists).  `AfterDelete` is the point where graceful deletion enters: a
scheduled pod keeps its name and readiness until `FinalizePod`.  A pod that ended while
it terminates is taken to be gone.

**UpgradeTracker**.  `upgrading` is the map of that name.  Start times are not kept:
which entries are older than ten minutes is chosen when a pass cleans them, which allows
everything the clock allows.  `NameMode` is what `extractModeFromPodName` finds.
`UpgradeLast`, `RegisterDrift` and `AllNonLastUpgraded` do not appear:
`modeUpgradeStrategy` never returns `UpgradeLast`.

**Reconciler**.  `pc` is the position in `Reconcile`, each step one API call (or the scan,
which makes none).  `desired` and `actual` are the two snapshots.  An entry the code
will not look at again is dropped: an orphan when deleted, an agent when the create loop
is done with it, so the remaining entries are the positions the random map walk can
still take.  `beads` is the image the active bead of an agent resolves to
(configuration, notes and project together), `NoBead` without one.

| Code | Action |
|---|---|
| `ListAgentBeads`, `ListAgentPods` | the same names; `PodListingFails` for the error of the second |
| orphan loop | `DeleteOrphan` (`Orphans` holds the empty-answer guard) |
| `activePods`, `CleanStaleUpgrades`, phase 1 | `Scan` |
| create loop: terminal, drifted and allowed, drifted and deferred, missing | `DeleteTerminal`, `DeleteDrifted`, `DeferUpgrade`, `VisitMissing` |
| burst and pod limit, create | `DeferSpawn`, `CreatePod` |
| return, with or without error | `Return`, in `Finish` and in each failing call |
| process exit | `Restart` |

`Cluster`, `ChangeBead` and `LearnDigest` are everyone else, between any two steps.
`replacing` is a history variable: agents deleted for an upgrade with no Ready
replacement since, except that a pass which cleans an entry older than ten minutes
gives the upgrade up.  A restart empties the trackers and leaves `replacing` as it is: the
replacement is no more Ready than before.  `KillIsDue` are the reasons the snapshots of a
pass can give for a delete.

**ImageDigestTracker** and **LatestDigest**.  The registry answers a refresh wrongly at
most once in a row per image (`glitched`), which is what the threshold of two is for;
the seed may be wrong.  `served` is history: the digests a tag has had.

**EventStream**.  `stream` is what JetStream has not delivered, `unacked` what it will
deliver again, `channel` the Go channel.  `processMessage` is `mapBeadEvent` and the
non-blocking send; the acknowledgement follows whether or not the event was sent.  A
message that cannot be read, or names no agent, is not `complete` and gives no event.

**Controller**.  `HandleSpawn`, `HandleRemoval`, `HandleUpdate` are the branches of
`handleEvent`, one API call each, so atomic; `Pass` is a step of the periodic goroutine;
`StartLoop` follows the startup pass; `Crash` loses channel, pass and trackers and keeps
the durable consumer.  `EventImages` are the images an event may give a pod, the
configured one or a project's, whatever the bead asks for.  `AgentStuck` is left out: no watcher emits it.

**BeadClient**.  A bead is open or closed and has fields and notes.  `ReadFields` and
`WriteFields` are the two calls of `UpdateBeadFields`; between them the merged fields are
in `calls`, the memory of the goroutine.  `CloseBead` is the third call of the operation of
that name.  `parseFieldsJSON` decodes into a map of strings: one value that is not a
string (`Typed`) and nothing is read.  A call is refused, or applied with its answer lost.

**StatusReporter**.  Two clients of `BeadClient`: the event loop (`HandleSpawn`,
`HandleRemoval`, then `LoopRead` and `LoopWrite` for what it owes in `report`) and `SyncAll`
(`ListPods`, then per listed pod `SyncRead`, `SyncWrite`, `SyncNotes`).  One step per call.
Agents in `NoProject` have pods without a project label, which `SyncAll` skips.  The pass
of the reconciler appears as what it does to one agent.  `settled`, `raced` and
`userModel` are history.  An agent is `settled` once its removal is written, whether or not
its pod is still in its grace period, until it is spawned again or `SyncAll` lists its pod
as starting or running.  The agents outside `Watched` are listed and reported too; their
beads and pods stay as they are, and all their reports may fail.

**Decisions** and **DecisionOutcome**.  `conn` is the connection of each watcher, `createdQ`,
`closedQ` and `mailQ` their subscriptions: what is published while a connection is not up
is gone.  `PostMessage`/`StoreTimestamp` are `NotifyDecision`, `UpdateMessage` is
`UpdateDecision`, `nudgeAgent` and `handleMail` the nudges, `Click`, `WriteChoice`,
`CloseDecision` one Slack interaction.  `messages` is the map of timestamps; it, the queues
and the calls under way are lost in `Crash`.  `contested` (history) are the decisions
answered again after, or during, an answer: about those `DecisionOutcome` promises nothing.

**PodSpec**.  `BuildSpecFromBeadInfo` (reconciler) and `buildAgentPodSpec` (events, from
`buildEvent`) as operators over the configuration, the project cache and a bead, with
`ApplyDefaults`, `applyProjectDefaults` and `applyCommonConfig`; `buildPod` with volumes, mounts,
variables, init container and restart policy.  An environment is a set of pairs, so a
variable that is set twice shows.  Resources, affinity, probes and security contexts are
the same for all pods and left out.

**AgentPods**.  `ListProjectBeads` and `CopyEntry` are `refreshProjectCache`, entry by entry,
since the event loop can read the cache in between; `ensurePVC` and `CreatePod` are
`CreateAgentPod`, called by either goroutine (`making`).  A pass is reduced to what it does
to each agent when it comes to it: snapshots, and the counting behind the limits and the
upgrade strategy, are in `Reconciler`.  Here any creation (`Create`) and any upgrade
(`DeferUpgrade`) may be put off, for whatever reason.  A delete is graceful
(`AfterDelete`): the pod may keep its name until `FinalizePod`, and the create that follows
fails.  The unsynchronised map access may also end the process: that is one reason for
`Crash`.  `clean` (history) says of the pass since the last listing of the projects that no
call failed, nobody interfered, nothing was put off and no pod was met on its way out.

**Leadership**.  `holder` is the lease record.  `seen` are the candidates that have read the
record as it is, `waited` for how long; `left` is when a leader gives up at the latest,
counted from a renewal whose answer may come `Latency` late.  `Acquire` is
`OnStartedLeading`.  What follows the last renewal takes steps of its own, as it does in
client-go: `EndRenewals` (a signal, or `RenewDeadline` without success), `Release` (the call of
`ReleaseOnCancel`, which may take any time, be refused or never be answered while the loop
goes on), `LoseLease` (`OnStoppedLeading`: `os.Exit`).  `Margin` is what `LeaseDuration` has left when
the renewals end.

## 4. Runs

| Run | Instance | Shows |
|---|---|---|
| `reconciler` | 2 agents (one a job), 2 images, limit 1, burst 1, refused calls, lost answers, empty answers, crashes | pod limit, no delete without a reason in the snapshots |
| `rolling_upgrades` | 3 agents of one mode, 1 image, 2 digests, refused calls, burst 2, no restart | one upgrade per mode |
| `reconciler_liveness` | 2 agents, beads settled, any leftover pods and entries, burst 1 | every bead gets its pod, orphans go |
| `upgrade_overlap` | as `rolling_upgrades` with 2 agents, a pass may start during a grace period | `OneUpgradePerMode` violated |
| `digest_tracker` | 1 image, 3 digests | refinement of `LatestDigest`, convergence |
| `controller` | 2 agents, 2 digests, channel of 1, redelivery, no restart | one upgrade per mode, with events |
| `controller_liveness` | 2 agents, one or two messages of earlier beads, redelivery, drops, crashes at any time | every bead gets its pod, orphans go |
| `reporter` | 2 agents, of which the second is `Watched`, 2 addresses, 1 edit, a value that is no string, refused calls | states and addresses converge whatever fails for the other agent, what a reported removal is taken back by, users' fields survive |
| `decisions` | 1 decision, 1 mail (interrupting or not, priority 1 or 2), 2 clicks at a time, all faults, crashes, broken connections | refinement of `DecisionOutcome`; who is owed a nudge gets it |
| `decision_notes` | the address in the notes, no fault at all | `AgentIsFound` violated |
| `leadership` | 2 replicas, durations 6, 2, 1 and latency 1 (a margin of 2), crashes, signals, releases of any length | one loop but for late releases, a leader again and again |
| `agent_pods` | a crew agent and a job of one project, 2 configurations, 1 edit, 1 crash, all faults, creations and upgrades put off, grace periods | equal specifications, complete pods, an undisturbed pass that puts nothing off repairs |

The two violations are disagreements between a comment of the code and the code; each is
a finding of PROJECT.json with the quoted line.

**Bounds and why they are enough.**  Two agents are what a rule about *another* agent
needs, three what a second upgrade during a first one with a bystander needs.  Limit and
burst of one are reached at once.  One digest suffices where drift comes from the image,
two where it comes from the tag; three let a wrong answer differ from the old and the new
digest.  A channel of one is full with one event, which 64 events do to the real one.
`MaxMessages` bounds the stream; `OneMessage` (run `controller`) allows one
message at a time, redelivered at will: messages of earlier changes differ from it only
in number.  `BetweenPasses` moves changes of a bead, a tag or a pod's readiness
to the start or the end of a pass; a pass reads beads and pods once, so for invariants of
pods and tracker nothing is lost (`ReadyBetweenPasses` moves readiness only: in the run
`reconciler` beads do change during a pass, which `NoNeedlessKill` is about).  The view
`WithoutDigests` of that run merges states that differ in what the digest tracker knows:
with one digest no step depends on it.  In the run
`controller` it also leaves out failing and unready pods, and in
`controller_liveness` the kubelet only starts and stops pods: the reconciler's own runs
have the rest.

The reports of different agents meet only in the order of `SyncAll`: one agent with its two
writers and its user is where updates collide, and another before it in the sorted lists is
what a failed report could stop at.  `Watched` keeps the beads and the pod of that one as
they are (either may be there or not) and asks no success of its calls.  `MaxEdits` of one
lets the bead be opened, closed, deleted, stopped or edited, next to what the passes do.  Two clients of a decision are two clicks at once, or a
click next to an answer in the daemon.  The durations of `leadership` keep the relation of the real ones (`DeadlineAssumption`:
2 + 10 + latency < 15), with a margin of two so that a release may end before it, at it and
after it, and the proof covers them all.
In `agent_pods` one edit is enough to outdate the cache and one crash to restart a process
over the pods and claims of the previous one; entry, model and image have an empty and
a set value each, which is all the builders distinguish.

**Symmetry** is used for invariants only, where agents differ in nothing but their name.

## 5. Fairness

* `WF(Reconcile)`: the ticker of `runPeriodicSync` starts passes, and a pass goes on.
* `SF(FirstInOrder(a))`: Go's map order is random, so an agent that waits is first again
  and again.  This is an assumption about probability, not about the scheduler.
* `SF(Scan with a stale)`: ten minutes pass for an entry that stays.
* `WF(FinalizePod)`: grace periods end.  Nothing says that a pod ever becomes ready.
* `WF(HandleEvent)`, `WF` of a delivery, `SF` of an acknowledged redelivery: the main loop
  and the fetch loop run; acknowledgements do not fail for ever.
* Digest tracker: refreshes come round and do not fail for ever.
* Reporter: both goroutines go on (`WF`), and no read or write for a watched agent whose bead
  exists is refused every time (`SF` of its success); nothing is assumed of the calls for
  the others.
* Decisions: the handlers and the connection attempts go on (`WF`); nothing is assumed of
  Slack, of a nudge or of a connection that broke.
* Leadership: time passes, Kubernetes restarts what has exited, a replica that is up asks
  for the lease every `RetryPeriod`, and the API server answers it now and then (`SF`);
  renewals end when they should and the process exits some time after that, since client-go
  calls `OnStoppedLeading` whatever becomes of the release (`WF`).

The run `reconciler_liveness` lets no crash happen; in `controller_liveness` crashes come at any
time, but from some time on no more (`<>[][~Crash]`): a controller that crashes for ever does
nothing.

## 6. Proofs

**ReconcilerProofs**, for all agents, images, digests, limits and faults:

* `TypeCorrect`: `Spec => []TypeOK`.
* `PodLimit`: `Spec => []MaxPodsRespected`.  The invariant `LimitInv` adds `CountInv`: during
  the create loop `activePods` is at least the number of live pods, because pods only
  appear through the pass itself, and everything that was live when the pods were listed
  is wanted and counted, or an orphan that was deleted; when the listing of beads was
  empty nothing is created.
* `RollingUpgrades`: under `GraceEndsFirst`, no lost delete answers, no restart and
  `NameMode = Mode`, `Spec => []OneUpgradePerMode`.  The invariant is not inductive; `UpgradeInv` says that
  every agent being replaced is in `upgrading`, that no two entries share a mode, and that
  a Ready pod of such an agent is the old one, terminating, which no pass has listed.  The
  assumptions are needed: without the first the run `upgrade_overlap` has a
  counterexample, a lost answer is never marked, a restarted controller has an empty tracker
  while the replacement is still not Ready, and a dashed mode is never found.
* `KillsAreNeeded`: `Spec => NoNeedlessKill`.  Whatever fails, restarts or changes in between, a
  live pod is deleted only if beads were listed and none for its agent, or if it had drifted
  from the bead listed for it and is no job's; so none is after an answer without beads.
  The reasons are those of the pass's snapshots.  `KillInv` says that a pod listed as ended is
  not live until the pass recreates it, and that what is left to upgrade has drifted.

**ControllerProofs**, passes and events together:

* `ControllerTypeCorrect`: `ControllerSpec => []ControllerTypeOK`.  With events that create
  pods `CountInv` is lost, so that `activePods` stays a number needs another argument:
  `ScanInv`, it is at least the number of listed pods the pass has not come to yet.
* `UpgradesWithEvents`: the assumptions (no restart among them) and `UpgradeInv` of
  `RollingUpgrades` carry over: an
  event never deletes for an upgrade, and a pod it creates is not Ready before a pass lists it.

`MaxPodsRespected` and `NoNeedlessKill` do not carry over: an event creates pods without
looking at the limit, and one that recreates a pod during a pass makes the pass delete
a live one.

**ImageDigestTrackerProofs**:

* `TypeCorrect`: `Spec => []TypeOK`.
* `Refinement`: `Spec => Implements`.  `TransientInv` and `CandidateInv` say why two
  confirmations are enough: an answer the tag never gave is the last one that was given
  (`glitched`), and a candidate the tag never had has one confirmation and is followed by
  a right answer, which does not confirm it.

**LeadershipProofs**, for all replicas and durations with `DeadlineAssumption`:

* `LeadTypeCorrect`, and `SingleLoop`: `LeadSafety => []OneLoop`.  `LeaderInv` bounds, for every
  candidate that has seen the leader's record, the time it has waited plus the time the
  leader has left by `RetryPeriod + RenewDeadline + Latency`; who takes over has waited
  `LeaseDuration`, so there is no leader any more, and one that still tries to release the
  lease has been at it for `Margin` or more.  Such a replica, and one whose release was
  answered, are the exception of `OneLoop` (`Overdue`).

**BeadClientProofs** has no theorem of its own.  Its lemmas say what the calls of
`BeadClient` do to the beads and to the calls under way (`ReadEffect`, `WriteEffect`,
`CloseEffect`, `NotesEffect`), for every result of the call, and what `Merge` keeps; both
proofs below cite them.

**StatusReporterProofs**, for all agents, addresses, edits and refused calls:

* `RepTypeCorrect`: `RepSpec => []RepTypeOK`; what is reported, and so written, is one of the
  four agent states.
* `RemovalsStayReported`: `RepSpec => []RemovalStaysReported`.  `CallInv` ties a call under way
  to what its goroutine is doing, `SettledInv` says that nothing that could take the word back
  is left: no entry of the list under way, and no call for one, with a starting or running
  pod of the agent, and no report of a spawn.  A later list with such a pod ends `settled`,
  which is the one way the code has to take a removal back.
* `UserFieldsSurvive`: `RepSpec => []UserFieldKept`.  `ModelInv` adds that the state field is never
  a value that is no string (it would make a read come back empty) and that the fields an
  update is about to write have the user's value unless he wrote during the update.

**DecisionsProofs**, for all decisions, mails, choices, clients and faults:

* `DecTypeCorrect`: `DecSpec => []DecTypeOK`.  It needs `ChoiceInv` (a bead is closed by a click
  only after its choice is written) and `HeardInv` (what a watcher has heard is the close of
  a bead that is closed).
* `ImplementsOutcome`: `DecSpec => OneOutcome`, the refinement of `DecisionOutcome`, step by step.
  `OutcomeInv` says of a decision that nobody answered twice that one click is under
  way at most, none once it is closed, and that every close in the queue or being handled
  carries its choice; `PostInv` that a decision is posted once, before its message can be
  resolved.

**AgentPodsProofs**, for all agents, projects, configurations, edits and faults:

* `SpecsAgree`: `PodsSpec => []SameSpec`.  `SameBuilders` shows the two operators equal for a
  bead without overrides; what the event may override and does not is `Overridable`.
* `PodsTypeCorrect` and `EveryPodWhole`: `PodsSpec => []PodsTypeOK`, `[]PodsWhole`.  Most of the work
  is about the builders: `BuiltSpec` says that both make a good specification (`SpecOK`) of any
  configuration, cache and bead, `BuiltPod` that the pod of one is whole.  `PodsInv` carries
  that through the interleaving: what a goroutine is creating is such a specification, and
  the claim is there from the moment the pod is next.
* `CleanPassRepairs`: `PodsSpec => CleanPassConverges`.  `CleanInv`: as long as nothing has gone
  wrong or been put off since the listing, a listed entry is in the copy or in the cache
  (`EntriesOnTheirWay`), the cache says what the daemon says once the pass begins, and an
  agent the pass has come to is settled, or its pod is being created with the right
  image.  `DeleteEffect` says what a graceful delete leaves: if the pod keeps its name the create
  that follows fails, so such a pass is not clean.

**Assumptions on constants**, each evaluated by the runs: `DefaultsAssumption` (a bead read
without a mode gets `crew`, `client.go:93`, `nats.go:310`; the chart always sets
`COOP_IMAGE`), `StatesAssumption` (the names of the states are strings, not values of another
type) and those that keep a model value for "none" apart from the values of a field
(`WorkspacesAssumption`, `NothingAssumption`, `NobodyAssumption`); the others bound counters
and name the sets the code enumerates.

**Only model-checked**: liveness (fairness and ENABLED are beyond the prover), that is
`BeadGetsItsPod`, `OrphanReaped`, `Converges`, `StateConverges`, `CoopURLConverges`, `AgentIsTold` and
`LeaderAgain`.  Every other property of a passing run is a theorem.

## 7. Where the code does less than it says

What the models had to follow, besides the two findings.  The properties above are stated so
that they hold of the code as it is; each exception in them is one of these.

* The one-upgrade rule (`upgrade.go:41-42`) is kept in process memory (`upgrade.go:56-63`).  A
  controller that restarts between the delete of an upgrade and the moment its replacement is
  Ready has forgotten it, and may upgrade another agent of the mode at once.  So may one whose
  delete was applied and answered with an error (`reconciler.go:187`).
* A pass deletes what its snapshots say.  A bead reopened since they were taken, or a pod an
  event has created since, is not protected (`reconciler.go:111`, `reconciler.go:174`):
  `KillIsDue` takes the reasons of the snapshots.
* One pass need not repair every agent: the burst limit, the pod limit and the one-upgrade rule
  put agents off (`reconciler.go:178-210`), and the pod of a graceful delete still has the name
  when the create comes.  `CleanPassConverges` is about a pass in which none of this happens;
  that the agents are not put off for ever is `BeadGetsItsPod`.
* Events ignore `CoopMaxPods` (`config.go:57-59`, `cmd/controller/main.go:327`).
* A stopped agent keeps an active bead and is created again by the next pass
  (`nats.go:37`, `client.go:73`).
* The close of the last open bead, dropped at a full channel and acknowledged, is never
  made up for: the guard against mass deletion keeps the pod (`nats.go:261`,
  `reconciler.go:106`).
* Any first digest is a baseline pods drift from, confirmed or not (`imagedigest.go:29`,
  `reconciler.go:264`).
* A mode is a free string.  One with a dash is never found by `IsUpgrading` (`upgrade.go:184`); one
  other than `crew` and `job` gets neither a claim nor the restart policy of a job, so its
  pod is restarted with its work gone: the conjunct of `PodsWhole` about restarts is
  for the two modes, and the instance of `AgentPods` has these.
* `SyncAll` reports the listed phase after a removal was reported (`reporter.go:243`), and that is
  the usual order of things: the event loop reports the removal when the delete returns, the
  pod is Running for its grace period (`manager.go:316-318`), and a list within it writes
  "working" over "done" or "failed".  If the bead is closed no later report corrects it.
  `RemovalStaysReported` therefore ends with a list that has the pod starting or running.  Empty metadata clears no
  `coop_url` (`reporter.go:198`), a pod without a project label is skipped (`reporter.go:230`;
  `NoProject` is empty in the run).
* An edit of a bead during an update of its fields is lost (`client.go:191`): `UserFieldKept`
  excludes it.  A value that is no string makes the update erase all other fields
  (`client.go:271`), and notes written by `SyncAll` erase the overrides of the users
  (`client.go:218`, `reconciler.go:20`).
* A second answer changes what the agent was told (`slack.go:275`): `OneOutcome` excludes
  contested decisions.  A decision closed before its timestamp is stored keeps its buttons
  (`slack.go:131`, `slack.go:142`).  "Reconnects on error" (`decisions.go:88`) does not cover a
  connection that NATS has closed for good (`decisions.go:150`, `mail.go:109`).
* The bridge runs in every replica (`cmd/controller/main.go:126`).  A leader's loop goes on while its lease
  is being released (`cmd/controller/main.go:185`), which is a call to the API server made when
  renewals have just failed: a release that is answered lets a successor start before the loop
  has ended, and one that hangs for more than `LeaseDuration` less the time to the end of the
  renewals (15 - 12 seconds, less a late answer) outlives the lease itself.  `OneLoop`
  excludes both.
* A pod resumes sessions by default: the controller sets `BOAT_SESSION_RESUME` only "for persistent
  roles" (`manager.go:425`), but unset it is 1 too (`images/agent/entrypoint.sh:26`).  The
  entrypoint works, and looks for earlier sessions, below `/home/agent/workspace` (lines 25, 108
  and 608), while the claim is mounted at `/home/agent/bot` (`manager.go:50`) and, in part, at
  `~/.claude`.  `PodsWhole` speaks of claims and restart policies, not of what is resumed.
* The bridge expects a bead at the top of an event of `beads.bead.created` (`decisions.go:31-41`,
  `decisions.go:130`), the subscriber expects it under `bead` in events of the same subject
  (`nats.go:80-87`, `nats.go:192`).  What the daemon publishes is not in the repository: the
  models give each reader the payload it expects, so `Decisions` and `EventStream` need not
  both be what happens.
* The two builders differ once a bead overrides its model or image; a project's image wins over
  the bead's (`cmd/controller/podspec.go:122`): `SameSpec` excludes overrides.  Drift is
  about images alone, so a changed model, repository or storage class never reaches a pod
  that runs, and a claim never changes (`manager.go:244`).
* A removed project stays in the cache; `EnsureConfigs` "will retry on next sync"
  (`cmd/controller/main.go:81`) and never does.

## 8. Not modelled

* Agent entrypoint and hooks: shell scripts around external programs (coop, Claude, git, an
  OAuth endpoint) inside the agent pod.  The controller sees of them what Kubernetes
  reports, the phase and readiness of the pod, and the models leave both open.
* Config registration: a constant table, upserted once, that nothing in the controller reads.
* Configuration: parsing of the environment; its values are constants of the models.
* Helm chart, CI and Dockerfile: declarative.
* The wording of messages, signature checks, counters and logs, the `AgentStuck` branch of
  `handleEvent`, and the strategies of `UpgradeTracker` that nothing selects.
