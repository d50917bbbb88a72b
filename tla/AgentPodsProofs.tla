------------------------------ MODULE AgentPodsProofs ------------------------------
(* Theorems about AgentPods for every value of its constants.                *)
EXTENDS AgentPods, TLAPS

-----------------------------------------------------------------------------
(* What the two builders of a specification have in common.                *)

\* Overriding the account or the config map with nothing changes nothing.
Overridable(spec) ==
  /\ spec = [spec EXCEPT !.serviceAccount = Or("", @)]
  /\ spec = [spec EXCEPT !.configMap = Or("", @)]

\* A specification that has its defaults is a record with an account and a config map,
\* and an event that names neither changes neither.
LEMMA DefaultedSpec ==
  ASSUME NEW c, NEW k, NEW b, NEW mode, NEW image, NEW model
  PROVE  Overridable(DefaultSpec(c, k, b, mode, image, model))
<1> DEFINE new == NewSpec(c, b, mode, image, model)
           moded == ApplyDefaults(new, DefaultPodDefaults(mode))
           spec == DefaultSpec(c, k, b, mode, image, model)
<1>1. spec = applyProjectDefaults(k, moded)
  BY DEF DefaultSpec
<1>2. new = [x \in DOMAIN new |-> new[x]] /\ "serviceAccount" \in DOMAIN new
        /\ "configMap" \in DOMAIN new
  BY DEF NewSpec
<1> HIDE DEF new, spec
<1>3. moded = [x \in DOMAIN new |-> moded[x]]
  BY <1>2 DEF ApplyDefaults
<1> HIDE DEF moded
<1>4. spec = [x \in DOMAIN new |-> spec[x]]
  BY <1>1, <1>3 DEF applyProjectDefaults
<1>5. Or("", spec.serviceAccount) = spec.serviceAccount /\ Or("", spec.configMap) = spec.configMap
  BY DEF Or
<1>6. Overridable(spec)
  BY <1>2, <1>4, <1>5 DEF Overridable
<1>7. QED BY <1>6 DEF spec

\* From an event, too, a specification is the default one with the common configuration.
LEMMA EventSpec ==
  ASSUME NEW c, NEW k, NEW b
  PROVE  buildAgentPodSpec(c, k, buildEvent(c, b)) =
           applyCommonConfig(c, k, DefaultSpec(c, k, b, modeForRole(b.mode, b.role),
                                               c.coopImage, b.model))
<1> DEFINE event == buildEvent(c, b)
           spec == DefaultSpec(c, k, b, modeForRole(b.mode, b.role), c.coopImage, b.model)
<1>1. /\ event.bead = b /\ event.image = c.coopImage /\ event.model = b.model
      /\ event.serviceAccount = "" /\ event.configMap = ""
  BY DEF buildEvent
<1>2. Overridable(spec)
  BY DefaultedSpec
<1> HIDE DEF event, spec
<1>3. buildAgentPodSpec(c, k, event) =
        applyCommonConfig(c, k, [[spec EXCEPT !.serviceAccount = Or("", @)]
                                   EXCEPT !.configMap = Or("", @)])
  BY <1>1 DEF buildAgentPodSpec, spec
<1>4. buildAgentPodSpec(c, k, event) = applyCommonConfig(c, k, spec)
  BY <1>2, <1>3 DEF Overridable
<1>5. QED BY <1>4 DEF event, spec

\* For a bead without overrides the two builders give the same specification,
\* whatever the configuration and the cache.
LEMMA SameBuilders ==
  ASSUME NEW c, NEW k, NEW b, b.model = "", b.notes.image = "", b.notes.model = ""
  PROVE  buildAgentPodSpec(c, k, buildEvent(c, b)) = BuildSpecFromBeadInfo(c, k, b)
<1>1. Or(b.notes.image, c.coopImage) = c.coopImage
  BY DEF Or
<1>2. QED BY <1>1, EventSpec DEF BuildSpecFromBeadInfo

-----------------------------------------------------------------------------
(* What a specification is, and the pod that is built from it.             *)

\* No variable is set twice.
Unambiguous(env) == \A v, w \in env : v[1] = w[1] => v = w

\* The variables that buildEnvVars sets by itself.
OwnNames ==
  {"BOAT_ROLE", "BOAT_PROJECT", "BOAT_AGENT", "BOAT_MODE", "HOME", "XDG_STATE_HOME", "POD_IP",
   "BEADS_ACTOR", "GIT_AUTHOR_NAME", "BEADS_AGENT_NAME", "BOAT_AGENT_BEAD_ID",
   "BOAT_SESSION_RESUME", "BEADS_DAEMON_TOKEN"}

\* A specification for agent a: a crew's has a claim, and no other.
SpecOK(a, spec) ==
  /\ PodName(spec) = PodName(Identity[a]) /\ spec.image # ""
  /\ spec.workspace \in Workspaces \cup {NoWorkspace}
  /\ spec.workspace # NoWorkspace <=> Identity[a].mode = "crew"
  /\ spec.mode = Identity[a].mode
  /\ Unambiguous(spec.env \cup spec.secretEnv)
  /\ \A v \in spec.env \cup spec.secretEnv : v[1] \notin OwnNames

\* A claim of no class is a claim.
LEMMA NoStorageClass == NoWorkspace # [storageClass |-> ""] /\ NoWorkspace \notin Workspaces
<1>1. NoWorkspace \notin Workspaces
  BY WorkspacesAssumption
<1>2. [storageClass |-> ""] \in Workspaces
  BY DEF Workspaces
<1>3. QED BY <1>1, <1>2

IsRecord(spec) == spec = [x \in DOMAIN spec |-> spec[x]]

\* What every specification sets, and what the configuration and the cache add.
StartVars(c, model) ==
  {<<"BEADS_GRPC_ADDR", c.grpcAddr>>, <<"BEADS_HTTP_ADDR", c.httpAddr>>,
   <<"BEADS_SERVER", c.grpcAddr>>, <<"CLAUDE_MODEL", Or(model, "opus")>>}

CommonVars(c, k) ==
  Var("BEADS_NATS_URL", c.natsURL) \cup Var("COOP_NATS_URL", c.natsURL) \cup
  Var("COOP_BROKER_URL", c.muxURL) \cup Var("COOP_MUX_URL", c.muxURL) \cup
  IF RegisteredProjects(k) = {} THEN {} ELSE {<<"BOAT_PROJECTS", RegisteredProjects(k)>>}

\* The claim of a crew is of the class its project asks for; no other mode has one.
WorkspaceOf(mode, entry) ==
  IF mode = "crew" THEN [storageClass |-> Or(entry.storageClass, "")] ELSE NoWorkspace

SpecFields ==
  {"project", "mode", "role", "agent", "image", "env", "secretEnv", "workspace",
   "serviceAccount", "credentials", "daemonToken", "gitURL", "branch", "gitCreds"}

\* What both builders start from has the identity of the agent.
LEMMA DefaultFields ==
  ASSUME NEW c, NEW k, NEW b, NEW mode, NEW image, NEW model
  PROVE  LET spec == DefaultSpec(c, k, b, mode, image, model) IN
         /\ IsRecord(spec) /\ SpecFields \subseteq DOMAIN spec
         /\ spec.project = b.project /\ spec.mode = mode /\ spec.role = b.role
         /\ spec.agent = b.agent /\ spec.secretEnv = {}
         /\ spec.image = Or(ProjectEntry(k, b).image, image)
         /\ spec.env = StartVars(c, model)
         /\ spec.workspace = WorkspaceOf(mode, ProjectEntry(k, b))
<1> DEFINE new == NewSpec(c, b, mode, image, model)
           moded == ApplyDefaults(new, DefaultPodDefaults(mode))
<1>1. /\ new = [x \in DOMAIN new |-> new[x]] /\ SpecFields \subseteq DOMAIN new
      /\ new.project = b.project /\ new.mode = mode /\ new.role = b.role
      /\ new.agent = b.agent /\ new.secretEnv = {} /\ new.image = image
      /\ new.workspace = NoWorkspace
      /\ new.env = StartVars(c, model)
  BY DEF NewSpec, SpecFields, StartVars
<1> HIDE DEF new
<1>2. moded = [new EXCEPT !.workspace = IF mode = "crew" THEN [storageClass |-> ""] ELSE NoWorkspace]
  BY <1>1 DEF ApplyDefaults, DefaultPodDefaults
<1> HIDE DEF moded
<1>3. /\ moded = [x \in DOMAIN new |-> moded[x]] /\ SpecFields \subseteq DOMAIN moded
      /\ \A x \in DOMAIN new : x # "workspace" => moded[x] = new[x]
      /\ moded.workspace = IF mode = "crew" THEN [storageClass |-> ""] ELSE NoWorkspace
  BY <1>1, <1>2 DEF SpecFields
<1>4. moded.project = b.project
  BY <1>1, <1>3 DEF SpecFields
<1>5. ProjectEntry(k, moded) = ProjectEntry(k, b)
  BY <1>4 DEF ProjectEntry
<1>0. PICK spec : spec = DefaultSpec(c, k, b, mode, image, model)
  OBVIOUS
<1>6. spec = applyProjectDefaults(k, moded)
  BY <1>0 DEF DefaultSpec, moded, new
<1>7. /\ spec = [x \in DOMAIN moded |-> spec[x]]
      /\ \A x \in DOMAIN moded : x # "workspace" /\ x # "image" => spec[x] = moded[x]
      /\ spec.image = Or(ProjectEntry(k, b).image, moded.image)
      /\ spec.workspace = IF moded.workspace = NoWorkspace THEN NoWorkspace
                          ELSE [storageClass |-> Or(ProjectEntry(k, b).storageClass,
                                                    moded.workspace.storageClass)]
  BY <1>3, <1>5, <1>6 DEF applyProjectDefaults, SpecFields
<1>8. DOMAIN spec = DOMAIN new /\ DOMAIN moded = DOMAIN new
  BY <1>3, <1>7
<1>9. /\ IsRecord(spec) /\ SpecFields \subseteq DOMAIN spec
  BY <1>1, <1>7, <1>8 DEF IsRecord
<1>10. \A x \in SpecFields : x # "workspace" /\ x # "image" => spec[x] = new[x]
  BY <1>1, <1>3, <1>7, <1>8
<1>11. /\ spec.project = new.project /\ spec.mode = new.mode /\ spec.role = new.role
       /\ spec.agent = new.agent /\ spec.secretEnv = new.secretEnv /\ spec.env = new.env
  BY <1>10 DEF SpecFields
<1>12. spec.image = Or(ProjectEntry(k, b).image, image)
  BY <1>1, <1>3, <1>7 DEF SpecFields
<1>13. CASE mode = "crew"
  <2>1. moded.workspace = [storageClass |-> ""]
    BY <1>3, <1>13
  <2>2. moded.workspace.storageClass = "" /\ moded.workspace # NoWorkspace
    <3>1. [storageClass |-> ""].storageClass = ""
      OBVIOUS
    <3>2. [storageClass |-> ""] # NoWorkspace
      BY NoStorageClass
    <3>3. QED BY <2>1, <3>1, <3>2, Zenon
  <2>3. spec.workspace = WorkspaceOf(mode, ProjectEntry(k, b))
    BY <1>7, <1>13, <2>2 DEF WorkspaceOf
  <2>4. QED BY <1>0, <1>1, <1>9, <1>11, <1>12, <2>3
<1>14. CASE mode # "crew"
  <2>1. spec.workspace = WorkspaceOf(mode, ProjectEntry(k, b))
    BY <1>3, <1>7, <1>14 DEF WorkspaceOf
  <2>2. QED BY <1>0, <1>1, <1>9, <1>11, <1>12, <2>1
<1>15. QED BY <1>13, <1>14

\* The common configuration leaves the identity, the image and the workspace alone.
LEMMA CommonFields ==
  ASSUME NEW c, NEW k, NEW spec, IsRecord(spec),
         SpecFields \subseteq DOMAIN spec
  PROVE  LET common == applyCommonConfig(c, k, spec) IN
         /\ PodName(common) = PodName(spec) /\ common.mode = spec.mode
         /\ common.image = spec.image /\ common.workspace = spec.workspace
         /\ common.secretEnv = spec.secretEnv \cup SecretVars(c)
         /\ common.env = spec.env \cup CommonVars(c, k)
BY DEF applyCommonConfig, PodName, SpecFields, IsRecord, CommonVars

\* What a cache has of a project.
LEMMA EntryType ==
  ASSUME NEW k \in Caches, NEW spec
  PROVE  ProjectEntry(k, spec) \in Entries \cup {NoEntry}
<1>1. PICK S \in SUBSET Projects : k \in [S -> Entries]
  BY DEF Caches
<1>2. QED BY <1>1 DEF ProjectEntry

\* The variables of a configuration have one value each.
LEMMA CommonEnv ==
  ASSUME NEW c, NEW k, NEW model
  PROVE  LET env == StartVars(c, model) \cup CommonVars(c, k) \cup SecretVars(c) IN
         Unambiguous(env) /\ \A v \in env : v[1] \notin OwnNames
<1> DEFINE plain == {<<"BEADS_GRPC_ADDR", c.grpcAddr>>, <<"BEADS_HTTP_ADDR", c.httpAddr>>,
                     <<"BEADS_SERVER", c.grpcAddr>>, <<"CLAUDE_MODEL", Or(model, "opus")>>,
                     <<"BEADS_NATS_URL", c.natsURL>>, <<"COOP_NATS_URL", c.natsURL>>,
                     <<"COOP_BROKER_URL", c.muxURL>>, <<"COOP_MUX_URL", c.muxURL>>,
                     <<"BOAT_PROJECTS", RegisteredProjects(k)>>}
           secret == {<<"GIT_USERNAME", c.gitSecret>>, <<"GIT_TOKEN", c.gitSecret>>,
                      <<"COOP_NATS_TOKEN", c.natsSecret>>, <<"COOP_BROKER_TOKEN", c.muxSecret>>,
                      <<"COOP_MUX_TOKEN", c.muxSecret>>, <<"GITHUB_TOKEN", c.githubSecret>>}
           secretNames == {"GIT_USERNAME", "GIT_TOKEN", "COOP_NATS_TOKEN", "COOP_BROKER_TOKEN",
                           "COOP_MUX_TOKEN", "GITHUB_TOKEN"}
<1>1. StartVars(c, model) \cup CommonVars(c, k) \subseteq plain
  BY DEF StartVars, CommonVars, Var
<1>2. SecretVars(c) \subseteq secret
  BY DEF SecretVars, Var
<1>3. Unambiguous(plain) /\ \A v \in plain : v[1] \notin OwnNames \cup secretNames
  BY DEF Unambiguous, OwnNames
<1>4. Unambiguous(secret) /\ \A v \in secret : v[1] \in secretNames /\ v[1] \notin OwnNames
  BY DEF Unambiguous, OwnNames
<1> HIDE DEF plain, secret, secretNames
<1>5. QED BY <1>1, <1>2, <1>3, <1>4 DEF Unambiguous

\* A specification for agent a, with the image of its project or the one it was given.
BuiltFor(k, a, image, spec) ==
  /\ image # "" => SpecOK(a, spec)
  /\ spec.image = Or(ProjectEntry(k, Identity[a]).image, image)

\* Both builders make a specification for the agent they are asked for, whatever the
\* configuration, the cache and the bead say; its image is the project's, if it has one.
LEMMA BuiltSpec ==
  ASSUME NEW c \in Configs, NEW k \in Caches, NEW a \in Agents, NEW bead, NEW image, NEW model
  PROVE  LET b == BeadInfo(a, bead)
             spec == applyCommonConfig(c, k, DefaultSpec(c, k, b, modeForRole(b.mode, b.role),
                                                         image, model))
         IN  BuiltFor(k, a, image, spec)
<1> DEFINE b == BeadInfo(a, bead)
           mode == modeForRole(b.mode, b.role)
           entry == ProjectEntry(k, b)
<1>a. PICK given : given = DefaultSpec(c, k, b, mode, image, model)
  OBVIOUS
<1>b. PICK spec : spec = applyCommonConfig(c, k, given)
  OBVIOUS
<1>1. /\ b.project = Identity[a].project /\ b.mode = Identity[a].mode
      /\ b.role = Identity[a].role /\ b.agent = Identity[a].agent
  BY DEF BeadInfo
<1>2. mode = Identity[a].mode
  BY <1>1, DefaultsAssumption DEF modeForRole
<1>3. entry = ProjectEntry(k, Identity[a]) /\ entry \in Entries \cup {NoEntry}
  BY <1>1, EntryType DEF ProjectEntry
<1> HIDE DEF entry
<1>5. Or(entry.storageClass, "") \in {""} \cup {e.storageClass : e \in Entries}
  <2>1. CASE entry = NoEntry
    BY <2>1 DEF Or, NoEntry
  <2>2. CASE entry \in Entries
    BY <2>2 DEF Or
  <2>3. QED BY <1>3, <2>1, <2>2
<1> HIDE DEF entry, mode, b
<1>6. /\ IsRecord(given) /\ SpecFields \subseteq DOMAIN given
      /\ given.project = b.project /\ given.mode = mode /\ given.role = b.role
      /\ given.agent = b.agent /\ given.secretEnv = {}
      /\ given.image = Or(entry.image, image)
      /\ given.env = StartVars(c, model)
      /\ given.workspace = WorkspaceOf(mode, entry)
  <2>1. /\ IsRecord(given) /\ SpecFields \subseteq DOMAIN given
        /\ given.project = b.project /\ given.mode = mode /\ given.role = b.role
        /\ given.agent = b.agent /\ given.secretEnv = {}
        /\ given.image = Or(ProjectEntry(k, b).image, image)
        /\ given.env = StartVars(c, model)
        /\ given.workspace = WorkspaceOf(mode, ProjectEntry(k, b))
    BY <1>a, DefaultFields
  <2>2. QED BY <2>1 DEF entry
<1>7. /\ PodName(spec) = PodName(given) /\ spec.mode = mode
      /\ spec.image = Or(entry.image, image) /\ spec.workspace = given.workspace
      /\ spec.secretEnv = SecretVars(c)
      /\ spec.env = given.env \cup CommonVars(c, k)
  <2>1. IsRecord(given) /\ SpecFields \subseteq DOMAIN given
    BY <1>6
  <2>2. /\ PodName(spec) = PodName(given) /\ spec.mode = given.mode
        /\ spec.image = given.image /\ spec.workspace = given.workspace
        /\ spec.secretEnv = given.secretEnv \cup SecretVars(c)
        /\ spec.env = given.env \cup CommonVars(c, k)
    BY <1>b, <2>1, CommonFields
  <2>3. QED BY <1>6, <2>2
<1>8. PodName(spec) = PodName(Identity[a])
  BY <1>1, <1>2, <1>6, <1>7 DEF PodName
<1>9. image # "" => spec.image # ""
  BY <1>7 DEF Or
<1>10. /\ spec.workspace \in Workspaces \cup {NoWorkspace}
       /\ spec.workspace # NoWorkspace <=> mode = "crew"
  <2>1. [storageClass |-> Or(entry.storageClass, "")] \in Workspaces
    BY <1>5 DEF Workspaces
  <2>2. QED BY <1>6, <1>7, <2>1, NoStorageClass DEF WorkspaceOf
<1>11. /\ Unambiguous(spec.env \cup spec.secretEnv)
       /\ \A v \in spec.env \cup spec.secretEnv : v[1] \notin OwnNames
  <2>1. spec.env \cup spec.secretEnv = StartVars(c, model) \cup CommonVars(c, k) \cup SecretVars(c)
    BY <1>6, <1>7
  <2>2. QED BY <2>1, CommonEnv
<1>12. image # "" => SpecOK(a, spec)
  BY <1>2, <1>7, <1>8, <1>9, <1>10, <1>11 DEF SpecOK
<1>13. BuiltFor(k, a, image, spec)
  BY <1>3, <1>7, <1>12 DEF BuiltFor
<1>14. QED BY <1>13, <1>a, <1>b DEF mode, b

\* What PodsWhole says of a pod by itself.
PodParts(a, pod) ==
  LET claimed == <<"workspace", <<"claim", pod.name>> >> \in pod.volumes IN
  /\ {m[1] : m \in pod.mounts} \subseteq {v[1] : v \in pod.volumes}
  /\ Unambiguous(pod.env)
  /\ Identity[a].mode \in {"crew", "job"} => (claimed <=> pod.restartPolicy = "Always")

PodFields == {"name", "image", "env", "volumes", "mounts", "restartPolicy", "ended", "terminating"}

\* Every mount has its volume.
LEMMA MountsHaveVolumes ==
  ASSUME NEW spec
  PROVE  {m[1] : m \in buildVolumeMounts(spec)} \subseteq {v[1] : v \in buildVolumes(spec)}
<1>1. ASSUME NEW m \in buildVolumeMounts(spec)
      PROVE  \E v \in buildVolumes(spec) : v[1] = m[1]
  <2> DEFINE place == IF spec.workspace = NoWorkspace THEN <<"empty">> ELSE <<"claim", PodName(spec)>>
  <2>1. /\ <<"workspace", place>> \in buildVolumes(spec)
        /\ <<"tmp", <<"empty">> >> \in buildVolumes(spec)
        /\ spec.configMap # "" =>
             <<"beads-config", <<"configMap", spec.configMap>> >> \in buildVolumes(spec)
        /\ spec.credentials # "" =>
             <<"claude-creds", <<"secret", spec.credentials>> >> \in buildVolumes(spec)
    BY DEF buildVolumes
  <2>2. \/ m[1] = "workspace" \/ m[1] = "tmp"
        \/ m[1] = "beads-config" /\ spec.configMap # ""
        \/ m[1] = "claude-creds" /\ spec.credentials # ""
    <3>1. \/ m \in {<<"workspace", "/home/agent/bot">>, <<"tmp", "/tmp">>}
          \/ m = <<"beads-config", "/etc/agent-pod">> /\ spec.configMap # ""
          \/ m = <<"workspace", "/home/agent/.claude">>
          \/ m = <<"claude-creds", "/tmp/claude-credentials">> /\ spec.credentials # ""
      BY <1>1, Zenon DEF buildVolumeMounts
    <3>2. /\ <<"workspace", "/home/agent/bot">>[1] = "workspace" /\ <<"tmp", "/tmp">>[1] = "tmp"
          /\ <<"beads-config", "/etc/agent-pod">>[1] = "beads-config"
          /\ <<"workspace", "/home/agent/.claude">>[1] = "workspace"
          /\ <<"claude-creds", "/tmp/claude-credentials">>[1] = "claude-creds"
      OBVIOUS
    <3>3. QED BY <3>1, <3>2, Zenon
  <2>3. /\ <<"workspace", place>>[1] = "workspace" /\ <<"tmp", <<"empty">> >>[1] = "tmp"
        /\ <<"beads-config", <<"configMap", spec.configMap>> >>[1] = "beads-config"
        /\ <<"claude-creds", <<"secret", spec.credentials>> >>[1] = "claude-creds"
    OBVIOUS
  <2> HIDE DEF place
  <2>4. QED BY <2>1, <2>2, <2>3, Zenon
<1>2. QED BY <1>1

\* The claim is mounted if the specification has one.
LEMMA ClaimedWorkspace ==
  ASSUME NEW spec
  PROVE  <<"workspace", <<"claim", PodName(spec)>> >> \in buildVolumes(spec)
           <=> spec.workspace # NoWorkspace
<1>1. <<"workspace", <<"claim", PodName(spec)>> >> # <<"workspace", <<"empty">> >>
  <2>1. <<"claim", PodName(spec)>> # <<"empty">>
    <3>1. <<"claim", PodName(spec)>>[1] # <<"empty">>[1]
      OBVIOUS
    <3>2. QED BY <3>1
  <2>2. QED BY <2>1
<1>2. ASSUME NEW x PROVE /\ <<"workspace", <<"claim", PodName(spec)>> >> # <<"tmp", x>>
                         /\ <<"workspace", <<"claim", PodName(spec)>> >> # <<"beads-config", x>>
                         /\ <<"workspace", <<"claim", PodName(spec)>> >> # <<"claude-creds", x>>
  OBVIOUS
<1>3. QED BY <1>1, <1>2 DEF buildVolumes

\* Variables of different sets have different names.
LEMMA JoinedEnv ==
  ASSUME NEW own, NEW env, Unambiguous(own), Unambiguous(env),
         \A v \in own : v[1] \in OwnNames, \A v \in env : v[1] \notin OwnNames
  PROVE  Unambiguous(own \cup env)
BY DEF Unambiguous

\* The pod of a specification is whole, whatever else the specification says.
LEMMA BuiltPod ==
  ASSUME NEW a \in Agents, NEW spec, SpecOK(a, spec)
  PROVE  /\ PodParts(a, buildPod(spec)) /\ PodFields \subseteq DOMAIN buildPod(spec)
         /\ buildPod(spec).name = PodName(Identity[a]) /\ buildPod(spec).ended = FALSE
         /\ buildPod(spec).terminating = FALSE
         /\ buildPod(spec).image = spec.image /\ spec.image # ""
         /\ <<"workspace", <<"claim", buildPod(spec).name>> >> \in buildPod(spec).volumes
              <=> spec.workspace # NoWorkspace
<1> DEFINE pod == buildPod(spec)
           claimed == <<"workspace", <<"claim", pod.name>> >> \in pod.volumes
<1>1. /\ pod.name = PodName(spec) /\ pod.image = spec.image /\ pod.env = buildEnvVars(spec)
      /\ pod.volumes = buildVolumes(spec) /\ pod.mounts = buildVolumeMounts(spec)
      /\ pod.restartPolicy = restartPolicyForMode(spec.mode) /\ pod.ended = FALSE
      /\ pod.terminating = FALSE /\ PodFields \subseteq DOMAIN pod
  BY DEF buildPod, PodFields
<1>2. claimed <=> spec.workspace # NoWorkspace
  BY <1>1, ClaimedWorkspace
<1> DEFINE own == buildEnvVars(spec) \ (spec.env \cup spec.secretEnv)
           common == spec.env \cup spec.secretEnv
           all == {<<"BOAT_ROLE", spec.role>>, <<"BOAT_PROJECT", spec.project>>,
                   <<"BOAT_AGENT", spec.agent>>, <<"BOAT_MODE", spec.mode>>,
                   <<"HOME", "/home/agent">>, <<"XDG_STATE_HOME", "/home/agent/bot/.state">>,
                   <<"POD_IP", "status.podIP">>, <<"BEADS_ACTOR", spec.agent>>,
                   <<"GIT_AUTHOR_NAME", spec.agent>>,
                   <<"BEADS_AGENT_NAME", <<spec.project, spec.agent>> >>,
                   <<"BOAT_AGENT_BEAD_ID", spec.beadID>>, <<"BOAT_SESSION_RESUME", "1">>,
                   <<"BEADS_DAEMON_TOKEN", spec.daemonToken>>}
<1>3. own \subseteq all
  BY DEF buildEnvVars, SessionResume, Var
<1>4. Unambiguous(all) /\ \A v \in all : v[1] \in OwnNames
  BY DEF Unambiguous, OwnNames
<1>5. Unambiguous(own) /\ \A v \in own : v[1] \in OwnNames
  <2> HIDE DEF own, all
  <2>1. QED BY <1>3, <1>4 DEF Unambiguous
<1>6. buildEnvVars(spec) = own \cup common
  BY DEF buildEnvVars
<1>7. Unambiguous(common) /\ \A v \in common : v[1] \notin OwnNames
  BY DEF SpecOK
<1>8. Unambiguous(pod.env)
  <2> HIDE DEF own, common, pod
  <2>1. QED BY <1>1, <1>5, <1>6, <1>7, JoinedEnv
<1>9. Identity[a].mode \in {"crew", "job"} => (claimed <=> pod.restartPolicy = "Always")
  BY <1>1, <1>2 DEF SpecOK, restartPolicyForMode
<1>10. {m[1] : m \in pod.mounts} \subseteq {v[1] : v \in pod.volumes}
  BY <1>1, MountsHaveVolumes
<1>11. PodParts(a, pod)
  <2> HIDE DEF pod
  <2>1. QED BY <1>8, <1>9, <1>10 DEF PodParts
<1>12. pod.name = PodName(Identity[a]) /\ spec.image # ""
  BY <1>1 DEF SpecOK
<1>13. QED BY <1>1, <1>2, <1>11, <1>12

-----------------------------------------------------------------------------
(* What is true of the specifications and the pods of an agent, by part.   *)

DaemonOK ==
  /\ cfg \in Configs /\ projects \in [Projects -> Entries \cup {NoProject}]
  /\ beads \in [Agents -> BeadRecords \cup {NoBead}]

PeriodicOK ==
  /\ cache \in Caches /\ rigs \in Caches
  /\ stage \in {"refresh", "copy", "pass"} /\ todo \subseteq Agents /\ started \in BOOLEAN

QueueOK == queue \in Seq(Events)

CountersOK == clean \in BOOLEAN /\ edits \in 0..MaxEdits /\ crashes \in 0..MaxCrashes

ClaimsOK == claims \in [Agents -> Workspaces \cup {NoClaim}]

\* A pod that a goroutine is creating is one for its agent.
GoodMaking(m) ==
  /\ m = [agent |-> m.agent, spec |-> m.spec, at |-> m.at]
  /\ m.agent \in Agents /\ m.at \in {"claim", "pod"} /\ SpecOK(m.agent, m.spec)

\* The claim is there when the pod comes to be created.
Claimed(m) == m.at = "pod" /\ m.spec.workspace # NoWorkspace => claims[m.agent] # NoClaim

MakingOK ==
  /\ DOMAIN making = Goroutines
  /\ \A g \in Goroutines : making[g] # NoSpec => GoodMaking(making[g]) /\ Claimed(making[g])

GoodPod(a, pod) ==
  /\ pod.name = PodName(Identity[a]) /\ pod.image # ""
  /\ pod.ended \in BOOLEAN /\ pod.terminating \in BOOLEAN
  /\ PodFields \subseteq DOMAIN pod /\ PodParts(a, pod)

HasClaim(pod) == <<"workspace", <<"claim", pod.name>> >> \in pod.volumes

PodsOK ==
  /\ DOMAIN pods = Agents
  /\ \A a \in Agents : pods[a] # NoPod =>
       GoodPod(a, pods[a]) /\ (HasClaim(pods[a]) => claims[a] # NoClaim)

\* The inductive invariant.  PodsTypeOK and PodsWhole speak of the pods there are; a pod
\* is whole because the specification it is created from is, and has its claim because
\* the goroutine that creates it made sure of it.
PodsInv ==
  /\ DaemonOK /\ PeriodicOK /\ QueueOK /\ CountersOK /\ ClaimsOK /\ MakingOK /\ PodsOK

LEMMA PodsInvMeans == PodsInv => PodsTypeOK /\ PodsWhole
<1> SUFFICES ASSUME PodsInv PROVE PodsTypeOK /\ PodsWhole
  OBVIOUS
<1>1. \A g \in Goroutines : making[g] # NoSpec =>
        making[g].agent \in Agents /\ making[g].at \in {"claim", "pod"}
  BY DEF PodsInv, MakingOK, GoodMaking
<1>2. \A a \in Agents : pods[a] # NoPod =>
        pods[a].name = PodName(Identity[a]) /\ pods[a].image # ""
        /\ pods[a].ended \in BOOLEAN /\ pods[a].terminating \in BOOLEAN
  BY DEF PodsInv, PodsOK, GoodPod
<1>3. PodsTypeOK
  BY <1>1, <1>2 DEF PodsInv, DaemonOK, PeriodicOK, QueueOK, CountersOK, ClaimsOK, MakingOK,
                    PodsOK, PodsTypeOK
<1>4. PodsWhole
  BY Zenon DEF PodsInv, PodsOK, GoodPod, PodParts, Unambiguous, HasClaim, PodsWhole
<1>5. QED BY <1>3, <1>4

LEMMA NewBeadType ==
  ASSUME NEW m \in Models
  PROVE  NewBead(m) \in BeadRecords
BY AgentPodsAssumption DEF NewBead, BeadRecords

LEMMA NoCacheType == NoCache \in Caches
<1>1. NoCache \in [{} -> Entries] /\ {} \in SUBSET Projects
  BY DEF NoCache
<1>2. QED BY <1>1 DEF Caches

\* The specification the pass makes for an agent; its image is the one that is asked for.
LEMMA DesiredSpecOK ==
  ASSUME DaemonOK, PeriodicOK, NEW a \in Agents
  PROVE  /\ SpecOK(a, DesiredSpec(a))
         /\ DesiredSpec(a).image = Or(ProjectEntry(cache, Identity[a]).image,
                                      Or(beads[a].notes.image, cfg.coopImage))
<1>1. PICK image : image = Or(beads[a].notes.image, cfg.coopImage)
  OBVIOUS
<1>2. PICK bead : bead = beads[a]
  OBVIOUS
<1>3. PICK model : model = bead.notes.model
  OBVIOUS
<1> DEFINE b == BeadInfo(a, bead)
           spec == applyCommonConfig(cfg, cache,
                     DefaultSpec(cfg, cache, b, modeForRole(b.mode, b.role), image, model))
<1>4. cfg \in Configs /\ cache \in Caches
  BY DEF DaemonOK, PeriodicOK
<1>5. BuiltFor(cache, a, image, spec)
  BY <1>4, BuiltSpec
<1>6. b.notes = bead.notes
  BY DEF BeadInfo
<1>7. DesiredSpec(a) = spec
  BY <1>1, <1>2, <1>3, <1>6 DEF DesiredSpec, Bead, BuildSpecFromBeadInfo
<1>8. image # ""
  BY <1>1, <1>4, DefaultsAssumption DEF Or
<1> HIDE DEF spec
<1>9. QED BY <1>1, <1>5, <1>7, <1>8 DEF BuiltFor

\* The specification the event loop makes.
LEMMA EventSpecOK ==
  ASSUME DaemonOK, PeriodicOK, NEW e \in Events
  PROVE  /\ e.agent \in Agents
         /\ SpecOK(e.agent, buildAgentPodSpec(cfg, cache, buildEvent(cfg, e.bead)))
<1>1. PICK a \in Agents, bead \in BeadRecords : e.agent = a /\ e.bead = BeadInfo(a, bead)
  BY DEF Events, Event
<1> DEFINE b == BeadInfo(a, bead)
           spec == applyCommonConfig(cfg, cache,
                     DefaultSpec(cfg, cache, b, modeForRole(b.mode, b.role), cfg.coopImage, b.model))
<1>2. buildAgentPodSpec(cfg, cache, buildEvent(cfg, b)) = spec
  BY EventSpec
<1>3. cfg \in Configs /\ cache \in Caches
  BY DEF DaemonOK, PeriodicOK
<1>4. cfg.coopImage # ""
  BY <1>3, DefaultsAssumption
<1>5. BuiltFor(cache, a, cfg.coopImage, spec)
  BY <1>3, BuiltSpec
<1> HIDE DEF spec
<1>6. QED BY <1>1, <1>2, <1>4, <1>5 DEF BuiltFor, spec

-----------------------------------------------------------------------------
(* The invariant holds at the start, and every operation keeps it.         *)

LEMMA PodsInvInit == PodsInit => PodsInv
<1> SUFFICES ASSUME PodsInit PROVE PodsInv
  OBVIOUS
<1>1. DaemonOK
  BY NewBeadType, AgentPodsAssumption DEF PodsInit, DaemonOK
<1>2. PeriodicOK
  BY NoCacheType DEF PodsInit, PeriodicOK
<1>3. QueueOK /\ CountersOK /\ ClaimsOK
  <2>1. queue = <<>> /\ clean = FALSE /\ edits = 0 /\ crashes = 0
          /\ claims = [a \in Agents |-> NoClaim]
    BY DEF PodsInit
  <2>2. MaxEdits \in Nat /\ MaxCrashes \in Nat
    BY AgentPodsAssumption
  <2>3. QueueOK
    BY <2>1 DEF QueueOK
  <2>4. CountersOK
    <3>1. edits \in 0..MaxEdits /\ crashes \in 0..MaxCrashes
      BY <2>1, <2>2
    <3>2. clean \in BOOLEAN
      BY <2>1, Zenon
    <3>3. QED BY <3>1, <3>2 DEF CountersOK
  <2>5. ClaimsOK
    BY <2>1 DEF ClaimsOK
  <2>6. QED BY <2>3, <2>4, <2>5
<1>4. MakingOK
  BY DEF PodsInit, MakingOK, Goroutines
<1>5. PodsOK
  BY DEF PodsInit, PodsOK
<1>6. QED BY <1>1, <1>2, <1>3, <1>4, <1>5 DEF PodsInv

\* A map of some projects to entries can be copied in part, and gain an entry.
LEMMA CachePart ==
  ASSUME NEW k \in Caches, NEW S \in SUBSET DOMAIN k
  PROVE  [q \in S |-> k[q]] \in Caches
<1>1. PICK T \in SUBSET Projects : k \in [T -> Entries]
  BY DEF Caches
<1>2. [q \in S |-> k[q]] \in [S -> Entries] /\ S \in SUBSET Projects
  BY <1>1
<1>3. QED BY <1>2 DEF Caches

LEMMA CacheWith ==
  ASSUME NEW k \in Caches, NEW p \in Projects, NEW entry \in Entries
  PROVE  [q \in DOMAIN k \cup {p} |-> IF q = p THEN entry ELSE k[q]] \in Caches
<1>1. PICK T \in SUBSET Projects : k \in [T -> Entries]
  BY DEF Caches
<1>2. [q \in T \cup {p} |-> IF q = p THEN entry ELSE k[q]] \in [T \cup {p} -> Entries]
        /\ T \cup {p} \in SUBSET Projects
  BY <1>1
<1>3. [q \in T \cup {p} |-> IF q = p THEN entry ELSE k[q]] \in Caches
  BY <1>2 DEF Caches
<1>4. QED BY <1>1, <1>3

LEMMA CacheEntries ==
  ASSUME NEW k \in Caches
  PROVE  DOMAIN k \subseteq Projects /\ \A p \in DOMAIN k : k[p] \in Entries
<1>1. PICK T \in SUBSET Projects : k \in [T -> Entries]
  BY DEF Caches
<1>2. QED BY <1>1

\* Starting and ending the creation of a pod.
LEMMA MakeOK ==
  ASSUME MakingOK, NEW g \in Goroutines, NEW a \in Agents, NEW spec, SpecOK(a, spec),
         Make(g, a, spec), UNCHANGED claims
  PROVE  MakingOK'
<1> DEFINE m == [agent |-> a, spec |-> spec, at |-> "claim"]
<1>1. making' = [making EXCEPT ![g] = m] /\ DOMAIN making = Goroutines
  BY DEF Make, MakingOK
<1>2. m = [agent |-> m.agent, spec |-> m.spec, at |-> m.at] /\ m.agent = a /\ m.at = "claim"
        /\ m.spec = spec
  OBVIOUS
<1> HIDE DEF m
<1>3. GoodMaking(m) /\ m.at # "pod"
  BY <1>2 DEF GoodMaking
<1>4. ASSUME NEW h \in Goroutines, making'[h] # NoSpec
      PROVE  GoodMaking(making'[h]) /\ Claimed(making[h])'
  <2>1. CASE h = g
    BY <1>1, <1>3, <2>1 DEF Claimed
  <2>2. CASE h # g
    BY <1>1, <1>4, <2>2 DEF MakingOK, Claimed
  <2>3. QED BY <2>1, <2>2
<1>5. QED BY <1>1, <1>4 DEF MakingOK

LEMMA DropOK ==
  ASSUME MakingOK, NEW g \in Goroutines, making' = [making EXCEPT ![g] = NoSpec],
         \A a \in Agents : claims[a] # NoClaim => claims'[a] # NoClaim
  PROVE  MakingOK'
<1>1. DOMAIN making' = Goroutines
  BY DEF MakingOK
<1>2. ASSUME NEW h \in Goroutines, making'[h] # NoSpec
      PROVE  GoodMaking(making'[h]) /\ Claimed(making[h])'
  <2>1. making'[h] = making[h]
    BY <1>2 DEF MakingOK
  <2>2. GoodMaking(making[h]) /\ Claimed(making[h])
    BY <1>2, <2>1 DEF MakingOK
  <2>3. QED BY <2>1, <2>2 DEF GoodMaking, Claimed
<1>3. QED BY <1>1, <1>2 DEF MakingOK

\* A pod that ends or is deleted stays the pod it was.
LEMMA PodMarked ==
  ASSUME NEW a, NEW old, GoodPod(a, old), NEW new,
         new = [old EXCEPT !.ended = TRUE] \/ new = [old EXCEPT !.terminating = TRUE]
  PROVE  /\ GoodPod(a, new) /\ (HasClaim(new) => HasClaim(old))
         /\ new = [old EXCEPT !.terminating = TRUE] => new.terminating = TRUE
<1>1. /\ DOMAIN new = DOMAIN old /\ new.name = old.name /\ new.image = old.image
      /\ new.env = old.env /\ new.volumes = old.volumes /\ new.mounts = old.mounts
      /\ new.restartPolicy = old.restartPolicy
  BY DEF GoodPod, PodFields
<1>2. new.ended \in BOOLEAN /\ new.terminating \in BOOLEAN
      /\ (new = [old EXCEPT !.terminating = TRUE] => new.terminating = TRUE)
  BY DEF GoodPod, PodFields
<1>3. PodParts(a, new) /\ (HasClaim(new) => HasClaim(old))
  BY <1>1, Zenon DEF GoodPod, PodParts, HasClaim
<1>4. GoodPod(a, new)
  BY <1>1, <1>2, <1>3, Zenon DEF GoodPod
<1>5. QED BY <1>2, <1>3, <1>4, Zenon

\* A delete leaves no pod, or one on its way out, and other pods alone.
LEMMA DeleteEffect ==
  ASSUME PodsOK, NEW a \in Agents, NEW result, DeleteAgentPod(a, result)
  PROVE  /\ result # "failed" => pods'[a] = NoPod \/ pods'[a].terminating
         /\ UNCHANGED claims => PodsOK'
         /\ \A b \in Agents : b # a => pods'[b] = pods[b]
<1>1. DOMAIN pods = Agents
  BY DEF PodsOK
<1>2. CASE pods[a] = NoPod \/ result = "failed"
  <2>1. pods' = pods
    BY <1>2 DEF DeleteAgentPod
  <2>2. QED BY <1>2, <2>1 DEF PodsOK
<1>3. CASE pods[a] # NoPod /\ result # "failed"
  <2>1. PICK old : old = pods[a]
    OBVIOUS
  <2>2. GoodPod(a, old) /\ (HasClaim(old) => claims[a] # NoClaim)
    BY <1>3, <2>1 DEF PodsOK
  <2>3. PICK after \in AfterDelete(old) : pods' = [pods EXCEPT ![a] = after]
    BY <1>3, <2>1 DEF DeleteAgentPod
  <2>4. after = NoPod \/ after = [old EXCEPT !.terminating = TRUE]
    BY <2>3 DEF AfterDelete
  <2>5. pods'[a] = after /\ \A b \in Agents : b # a => pods'[b] = pods[b]
    BY <1>1, <2>3
  <2>6. \/ after = NoPod
        \/ GoodPod(a, after) /\ (HasClaim(after) => HasClaim(old)) /\ after.terminating = TRUE
    BY <2>2, <2>4, PodMarked
  <2>7. UNCHANGED claims => PodsOK'
    BY <1>1, <2>2, <2>3, <2>5, <2>6 DEF PodsOK
  <2>8. QED BY <2>5, <2>6, <2>7
<1>4. QED BY <1>2, <1>3

LEMMA DaemonKept ==
  ASSUME DaemonOK, UNCHANGED <<cfg, daemonVars>>
  PROVE  DaemonOK'
BY DEF DaemonOK, daemonVars

LEMMA CreatingKept ==
  ASSUME MakingOK, UNCHANGED <<making, claims>>
  PROVE  MakingOK'
BY DEF MakingOK, Claimed

LEMMA PodsKept ==
  ASSUME PodsOK, UNCHANGED clusterVars
  PROVE  PodsOK'
BY DEF PodsOK, HasClaim, clusterVars

\* The refresh of the cache.
LEMMA RefreshStep ==
  ASSUME PodsInv,
         (\E ok \in BOOLEAN : ListProjectBeads(ok)) \/ (\E p \in Projects : CopyEntry(p)) \/ FinishPass
  PROVE  PodsInv'
<1> USE DEF PodsInv
<1>1. DaemonOK'
  <2>1. UNCHANGED <<cfg, daemonVars>>
    BY DEF ListProjectBeads, CopyEntry, FinishPass
  <2>2. QED BY <2>1, DaemonKept
<1>2. MakingOK' /\ PodsOK'
  <2>1. UNCHANGED <<making, clusterVars>>
    BY DEF ListProjectBeads, CopyEntry, FinishPass
  <2>2. QED BY <2>1, CreatingKept, PodsKept DEF clusterVars
<1>3. QueueOK' /\ ClaimsOK'
  BY DEF ListProjectBeads, CopyEntry, FinishPass, clusterVars, QueueOK, ClaimsOK
<1>4. CountersOK'
  <2>1. edits' = edits /\ crashes' = crashes
    BY DEF ListProjectBeads, CopyEntry, FinishPass
  <2>2. clean' \in BOOLEAN
    BY Zenon DEF ListProjectBeads, CopyEntry, FinishPass, CountersOK
  <2>3. QED BY <2>1, <2>2 DEF CountersOK
<1>5. PeriodicOK'
  <2>1. ASSUME NEW ok \in BOOLEAN, ListProjectBeads(ok) PROVE PeriodicOK'
    <3>1. rigs' \in Caches
      <4>1. CASE ok
        <5> DEFINE S == {p \in Projects : projects[p] # NoProject}
        <5>1. S \in SUBSET Projects /\ [p \in S |-> projects[p]] \in [S -> Entries]
          BY DEF DaemonOK
        <5>2. [p \in S |-> projects[p]] \in Caches
          BY <5>1 DEF Caches
        <5>3. QED BY <2>1, <4>1, <5>2 DEF ListProjectBeads
      <4>2. CASE ~ok
        BY <2>1, <4>2, NoCacheType DEF ListProjectBeads
      <4>3. QED BY <4>1, <4>2
    <3>2. cache' = cache /\ started' = started
      BY <2>1 DEF ListProjectBeads
    <3>3. stage' \in {"refresh", "copy", "pass"} /\ todo' \subseteq Agents
      BY <2>1 DEF ListProjectBeads, PeriodicOK
    <3>4. QED BY <3>1, <3>2, <3>3 DEF PeriodicOK
  <2>2. ASSUME NEW p \in Projects, CopyEntry(p) PROVE PeriodicOK'
    <3>1. p \in DOMAIN rigs /\ rigs \in Caches /\ cache \in Caches
      BY <2>2 DEF CopyEntry, PeriodicOK
    <3>2. rigs' \in Caches
      <4>1. DOMAIN rigs \ {p} \in SUBSET DOMAIN rigs
        OBVIOUS
      <4>2. QED BY <2>2, <3>1, <4>1, CachePart DEF CopyEntry
    <3>3. cache' \in Caches
      <4>1. rigs[p] \in Entries
        BY <3>1, CacheEntries
      <4>2. QED BY <2>2, <3>1, <4>1, CacheWith DEF CopyEntry, UpdateCache
    <3>4. started' = started
      BY <2>2 DEF CopyEntry
    <3>5. stage' \in {"refresh", "copy", "pass"} /\ todo' \subseteq Agents
      BY <2>2 DEF CopyEntry, PeriodicOK
    <3>6. QED BY <3>2, <3>3, <3>4, <3>5 DEF PeriodicOK
  <2>3. ASSUME FinishPass PROVE PeriodicOK'
    BY <2>3 DEF FinishPass, PeriodicOK
  <2>4. QED BY <2>1, <2>2, <2>3
<1>6. QED BY <1>1, <1>2, <1>3, <1>4, <1>5

\* An error ends the pass.
LEMMA GivenUp ==
  ASSUME PeriodicOK, NEW g, GiveUp(g), UNCHANGED <<cache, rigs, stage, started>>
  PROVE  PeriodicOK'
BY DEF PeriodicOK, GiveUp

\* The claim: it is there when the pod is next.
LEMMA ClaimStep ==
  ASSUME PodsInv, NEW g \in Goroutines, NEW result, ensurePVC(g, result)
  PROVE  PodsInv'
<1> USE DEF PodsInv
<1> DEFINE m == making[g]
           a == m.agent
           workspace == m.spec.workspace
<1>1. GoodMaking(m) /\ m.at = "claim"
  BY DEF MakingOK, ensurePVC
<1>2. /\ a \in Agents /\ SpecOK(a, m.spec) /\ workspace \in Workspaces \cup {NoWorkspace}
      /\ m = [agent |-> a, spec |-> m.spec, at |-> m.at]
  BY <1>1 DEF GoodMaking, SpecOK
<1>3. NoClaim \notin Workspaces /\ NoWorkspace \notin Workspaces
  BY WorkspacesAssumption
<1>4. claims' = IF workspace # NoWorkspace /\ claims[a] = NoClaim /\ result # "failed"
                THEN [claims EXCEPT ![a] = workspace] ELSE claims
  BY DEF ensurePVC
<1>5. ClaimsOK' /\ \A b \in Agents : claims[b] # NoClaim => claims'[b] # NoClaim
  BY <1>2, <1>3, <1>4 DEF ClaimsOK
<1>6. UNCHANGED <<cfg, projects, beads, cache, rigs, stage, started, queue, pods, edits, crashes>>
  BY DEF ensurePVC, daemonVars
<1>7. DaemonOK'
  BY <1>6, DaemonKept DEF daemonVars
<1>8. PodsOK'
  BY <1>5, <1>6 DEF PodsOK, HasClaim
<1>9. QueueOK' /\ (clean' \in BOOLEAN => CountersOK')
  BY <1>6 DEF QueueOK, CountersOK
<1>10. CASE workspace = NoWorkspace \/ result = "ok"
  <2> DEFINE n == [agent |-> a, spec |-> m.spec, at |-> "pod"]
  <2>1. making' = [making EXCEPT ![g].at = "pod"] /\ UNCHANGED <<todo, clean>>
    BY <1>10 DEF ensurePVC
  <2>2. making' = [making EXCEPT ![g] = n]
    <3>1. making' = [making EXCEPT ![g] = [m EXCEPT !.at = "pod"]]
      BY <2>1
    <3>2. [m EXCEPT !.at = "pod"] = n
      BY <1>2
    <3>3. QED BY <3>1, <3>2
  <2>3. n.agent = a /\ n.spec = m.spec /\ n.at = "pod"
    OBVIOUS
  <2>4. workspace # NoWorkspace => claims'[a] # NoClaim
    <3>1. CASE claims[a] = NoClaim /\ workspace # NoWorkspace
      <4>1. claims' = [claims EXCEPT ![a] = workspace] /\ a \in DOMAIN claims
        BY <1>2, <1>4, <1>10, <3>1 DEF ClaimsOK
      <4>2. QED BY <1>2, <1>3, <3>1, <4>1
    <3>2. CASE claims[a] # NoClaim
      BY <1>2, <1>5, <3>2
    <3>3. QED BY <3>1, <3>2
  <2>5. n = [agent |-> n.agent, spec |-> n.spec, at |-> n.at]
    OBVIOUS
  <2> HIDE DEF n
  <2>6. GoodMaking(n)
    BY <1>2, <2>3, <2>5 DEF GoodMaking
  <2>7. ASSUME NEW h \in Goroutines, making'[h] # NoSpec
        PROVE  GoodMaking(making'[h]) /\ Claimed(making[h])'
    <3>1. CASE h = g
      <4>1. making'[h] = n
        BY <2>2, <3>1 DEF MakingOK
      <4>2. QED BY <2>3, <2>4, <2>6, <4>1 DEF Claimed
    <3>2. CASE h # g
      <4>1. making'[h] = making[h]
        BY <2>2, <3>2 DEF MakingOK
      <4>2. GoodMaking(making[h]) /\ Claimed(making[h])
        BY <2>7, <4>1 DEF MakingOK
      <4>3. QED BY <1>5, <4>1, <4>2 DEF GoodMaking, Claimed
    <3>3. QED BY <3>1, <3>2
  <2>8. DOMAIN making' = Goroutines
    BY <2>2 DEF MakingOK
  <2>9. MakingOK'
    BY <2>7, <2>8 DEF MakingOK
  <2>10. PeriodicOK'
    BY <1>6, <2>1 DEF PeriodicOK
  <2>11. clean' \in BOOLEAN
    BY <2>1, Zenon DEF CountersOK
  <2>12. QED BY <1>5, <1>7, <1>8, <1>9, <2>9, <2>10, <2>11
<1>11. CASE ~(workspace = NoWorkspace \/ result = "ok")
  <2>1. GiveUp(g)
    BY <1>11 DEF ensurePVC
  <2>2. MakingOK'
    BY <1>5, <2>1, DropOK DEF GiveUp
  <2>3. PeriodicOK'
    BY <1>6, <2>1, GivenUp
  <2>4. clean' \in BOOLEAN
    BY <2>1, Zenon DEF GiveUp
  <2>5. QED BY <1>5, <1>7, <1>8, <1>9, <2>2, <2>3, <2>4
<1>12. QED BY <1>10, <1>11

\* The pod that comes to be is the one of the specification, and its claim is there.
LEMMA CreateStep ==
  ASSUME PodsInv, NEW g \in Goroutines, NEW result, CreatePod(g, result)
  PROVE  PodsInv'
<1> USE DEF PodsInv
<1> DEFINE m == making[g]
           a == m.agent
           free == pods[a] = NoPod
<1>1. GoodMaking(m) /\ Claimed(m) /\ m.at = "pod"
  BY DEF MakingOK, CreatePod
<1>2. a \in Agents /\ SpecOK(a, m.spec)
  BY <1>1 DEF GoodMaking
<1>3. UNCHANGED <<cfg, projects, beads, cache, rigs, stage, started, queue, claims, edits, crashes>>
  BY DEF CreatePod, daemonVars
<1>4. DaemonOK' /\ QueueOK' /\ ClaimsOK' /\ (clean' \in BOOLEAN => CountersOK')
  BY <1>3, DaemonKept DEF daemonVars, QueueOK, ClaimsOK, CountersOK
<1>5. PodsOK'
  <2>1. pods' = IF free /\ result # "failed" THEN [pods EXCEPT ![a] = buildPod(m.spec)] ELSE pods
    BY DEF CreatePod
  <2>2. CASE free /\ result # "failed"
    <3>1. PICK pod : pod = buildPod(m.spec)
      OBVIOUS
    <3>2. /\ PodParts(a, pod) /\ PodFields \subseteq DOMAIN pod
          /\ pod.name = PodName(Identity[a]) /\ pod.ended = FALSE /\ pod.terminating = FALSE
          /\ pod.image # "" /\ (HasClaim(pod) <=> m.spec.workspace # NoWorkspace)
      BY <1>2, <3>1, BuiltPod DEF HasClaim
    <3>3. GoodPod(a, pod)
      BY <3>2 DEF GoodPod
    <3>4. HasClaim(pod) => claims[a] # NoClaim
      BY <1>1, <3>2 DEF Claimed
    <3>5. pods' = [pods EXCEPT ![a] = pod]
      BY <2>1, <2>2, <3>1
    <3>6. QED BY <1>3, <3>3, <3>4, <3>5 DEF PodsOK
  <2>3. CASE ~(free /\ result # "failed")
    BY <1>3, <2>1, <2>3, PodsKept DEF clusterVars
  <2>4. QED BY <2>2, <2>3
<1>6. CASE free /\ result = "ok"
  <2>1. /\ making' = [making EXCEPT ![g] = NoSpec]
        /\ clean' = (clean /\ g = "pass") /\ UNCHANGED todo
    BY <1>6 DEF CreatePod
  <2>2. MakingOK'
    BY <1>3, <2>1, DropOK
  <2>3. PeriodicOK'
    BY <1>3, <2>1 DEF PeriodicOK
  <2>4. clean' \in BOOLEAN
    BY <2>1, Zenon
  <2>5. QED BY <1>4, <1>5, <2>2, <2>3, <2>4
<1>7. CASE ~(free /\ result = "ok")
  <2>1. GiveUp(g)
    BY <1>7 DEF CreatePod
  <2>2. MakingOK'
    BY <1>3, <2>1, DropOK DEF GiveUp
  <2>3. PeriodicOK'
    BY <1>3, <2>1, GivenUp
  <2>4. clean' \in BOOLEAN
    BY <2>1, Zenon DEF GiveUp
  <2>5. QED BY <1>4, <1>5, <2>2, <2>3, <2>4
<1>8. QED BY <1>6, <1>7

\* A pass comes to an agent.
LEMMA VisitStep ==
  ASSUME PodsInv, NEW a \in Agents, NEW result \in Calls, Visit(a, result)
  PROVE  PodsInv'
<1> USE DEF PodsInv
<1>1. UNCHANGED <<cfg, projects, beads, cache, rigs, stage, started, queue, claims, edits, crashes>>
  BY DEF Visit, daemonVars
<1>2. DaemonOK' /\ QueueOK' /\ ClaimsOK' /\ (clean' \in BOOLEAN => CountersOK')
  BY <1>1, DaemonKept DEF daemonVars, QueueOK, ClaimsOK, CountersOK
<1>3. todo' \subseteq todo
  BY DEF Visit, DeletePod, DeferUpgrade, VisitMissing, Leave, Create, PutOff
<1>4. PeriodicOK'
  BY <1>1, <1>3 DEF PeriodicOK
<1>5. clean' \in BOOLEAN
  <2>1. \/ UNCHANGED clean \/ clean' = FALSE \/ clean' = (clean /\ result = "ok")
        \/ clean' = (clean /\ (pods[a] = NoPod \/ ~pods[a].terminating))
    BY Zenon DEF Visit, DeletePod, DeferUpgrade, VisitMissing, Leave, Create, PutOff
  <2>2. QED BY <2>1, Zenon DEF CountersOK
<1>6. UNCHANGED pods \/ DeleteAgentPod(a, result)
  BY DEF Visit, DeletePod, DeferUpgrade, VisitMissing, Leave
<1>7. PodsOK'
  <2>1. UNCHANGED pods => PodsOK'
    BY <1>1 DEF PodsOK
  <2>2. QED BY <1>1, <1>6, <2>1, DeleteEffect
<1>8. UNCHANGED making \/ Make("pass", a, DesiredSpec(a))
  BY DEF Visit, DeletePod, DeferUpgrade, VisitMissing, Leave, Create, PutOff
<1>9. MakingOK'
  <2>1. CASE UNCHANGED making
    BY <1>1, <2>1, CreatingKept
  <2>2. CASE Make("pass", a, DesiredSpec(a))
    <3>1. SpecOK(a, DesiredSpec(a))
      BY DesiredSpecOK
    <3>2. "pass" \in Goroutines
      BY DEF Goroutines
    <3>3. QED BY <1>1, <2>2, <3>1, <3>2, MakeOK
  <2>3. QED BY <1>8, <2>1, <2>2
<1>10. QED BY <1>2, <1>4, <1>5, <1>7, <1>9

\* The event loop takes an event.
LEMMA EventStep ==
  ASSUME PodsInv, HandleSpawn \/ HandleRemoval
  PROVE  PodsInv'
<1> USE DEF PodsInv
<1>1. queue # <<>> /\ queue' = Tail(queue) /\ queue \in Seq(Events)
  BY DEF HandleSpawn, HandleRemoval, QueueOK
<1>2. PICK event \in Events : event = Head(queue)
  BY <1>1
<1>3. QueueOK'
  BY <1>1 DEF QueueOK
<1>4. UNCHANGED <<cfg, projects, beads, cache, rigs, stage, todo, started, claims, edits, crashes>>
  BY DEF HandleSpawn, HandleRemoval, daemonVars, periodicVars, clusterVars
<1>5. DaemonOK' /\ PeriodicOK' /\ ClaimsOK' /\ (clean' \in BOOLEAN => CountersOK')
  BY <1>4, DaemonKept DEF daemonVars, PeriodicOK, ClaimsOK, CountersOK
<1>6. clean' \in BOOLEAN
  BY Zenon DEF HandleSpawn, HandleRemoval, CountersOK
<1>7. event.agent \in Agents
        /\ SpecOK(event.agent, buildAgentPodSpec(cfg, cache, buildEvent(cfg, event.bead)))
  BY EventSpecOK
<1>8. MakingOK' /\ PodsOK'
  <2>1. CASE HandleSpawn
    <3>1. Make("loop", event.agent, buildAgentPodSpec(cfg, cache, buildEvent(cfg, event.bead)))
      BY <1>2, <2>1 DEF HandleSpawn
    <3>2. "loop" \in Goroutines
      BY DEF Goroutines
    <3>3. MakingOK'
      BY <1>4, <1>7, <3>1, <3>2, MakeOK
    <3>4. PodsOK'
      BY <2>1, PodsKept DEF HandleSpawn
    <3>5. QED BY <3>3, <3>4
  <2>2. CASE HandleRemoval
    <3>1. PICK result \in Calls : DeleteAgentPod(event.agent, result)
      BY <1>2, <2>2 DEF HandleRemoval
    <3>2. PodsOK'
      BY <1>4, <1>7, <3>1, DeleteEffect
    <3>3. MakingOK'
      BY <1>4, <2>2, CreatingKept DEF HandleRemoval
    <3>4. QED BY <3>2, <3>3
  <2>3. QED BY <2>1, <2>2
<1>9. QED BY <1>3, <1>5, <1>6, <1>8

\* The controller stops and starts again.
LEMMA CrashStep ==
  ASSUME PodsInv, Crash
  PROVE  PodsInv'
<1> USE DEF PodsInv
<1>1. DaemonOK'
  BY DaemonKept DEF Crash
<1>2. PeriodicOK'
  BY NoCacheType DEF Crash, PeriodicOK
<1>3. QueueOK' /\ ClaimsOK'
  <2>1. queue' = <<>> /\ claims' = claims
    BY DEF Crash, clusterVars
  <2>2. QED BY <2>1 DEF QueueOK, ClaimsOK
<1>4. CountersOK'
  <2>1. crashes' \in 0..MaxCrashes /\ edits' = edits
    <3>1. crashes < MaxCrashes /\ crashes' = crashes + 1 /\ edits' = edits
      BY Zenon DEF Crash
    <3>2. crashes \in 0..MaxCrashes /\ MaxCrashes \in Nat
      BY AgentPodsAssumption, Zenon DEF CountersOK
    <3>3. QED BY <3>1, <3>2
  <2>2. clean' \in BOOLEAN
    BY Zenon DEF Crash
  <2>3. QED BY <2>1, <2>2 DEF CountersOK
<1>5. MakingOK'
  BY DEF Crash, MakingOK, Goroutines
<1>6. PodsOK'
  BY PodsKept DEF Crash
<1>7. QED BY <1>1, <1>2, <1>3, <1>4, <1>5, <1>6

\* A user edits the daemon.
LEMMA EditCount ==
  ASSUME CountersOK, Edit, UNCHANGED crashes
  PROVE  CountersOK'
<1>1. edits < MaxEdits /\ edits' = edits + 1 /\ clean' = FALSE /\ crashes' = crashes
  BY Zenon DEF Edit
<1>2. edits \in 0..MaxEdits /\ MaxEdits \in Nat /\ crashes \in 0..MaxCrashes
  BY AgentPodsAssumption, Zenon DEF CountersOK
<1>3. edits' \in 0..MaxEdits
  BY <1>1, <1>2
<1>4. clean' \in BOOLEAN
  BY <1>1, Zenon
<1>5. QED BY <1>1, <1>2, <1>3, <1>4 DEF CountersOK

LEMMA EditStep ==
  ASSUME PodsInv,
         \/ \E a \in Agents : OpenBead(a) \/ EndBead(a) \/ EditNotes(a)
         \/ \E p \in Projects : EditProject(p)
  PROVE  PodsInv'
<1> USE DEF PodsInv
<1>1. Edit /\ UNCHANGED Others
  BY DEF OpenBead, EndBead, EditNotes, EditProject
<1>2. PeriodicOK' /\ ClaimsOK' /\ MakingOK' /\ PodsOK'
  BY <1>1, CreatingKept, PodsKept DEF Others, periodicVars, clusterVars, PeriodicOK, ClaimsOK
<1>3. CountersOK'
  BY <1>1, EditCount DEF Others
<1>4. ASSUME NEW a \in Agents, NEW m \in Models, beads' = [beads EXCEPT ![a] = NewBead(m)],
             queue' = Append(queue, Event("AgentSpawn", a, BeadInfo(a, NewBead(m)))),
             UNCHANGED projects
      PROVE  DaemonOK' /\ QueueOK'
  <2>1. NewBead(m) \in BeadRecords
    BY NewBeadType
  <2>2. Event("AgentSpawn", a, BeadInfo(a, NewBead(m))) \in Events
    BY <2>1 DEF Events
  <2>3. QueueOK'
    BY <1>4, <2>2 DEF QueueOK
  <2>4. DaemonOK'
    BY <1>1, <1>4, <2>1 DEF DaemonOK, Others
  <2>5. QED BY <2>3, <2>4
<1>5. ASSUME NEW a \in Agents, EndBead(a) PROVE DaemonOK' /\ QueueOK'
  <2>1. beads[a] \in BeadRecords
    BY <1>5 DEF EndBead, DaemonOK
  <2>2. Event("AgentDone", a, Bead(a)) \in Events
    BY <2>1 DEF Events, Bead
  <2>3. QueueOK'
    BY <1>5, <2>2 DEF QueueOK, EndBead
  <2>4. DaemonOK'
    BY <1>1, <1>5 DEF DaemonOK, Others, EndBead
  <2>5. QED BY <2>3, <2>4
<1>6. ASSUME NEW a \in Agents, EditNotes(a) PROVE DaemonOK' /\ QueueOK'
  <2>1. PICK i \in NoteImages : beads' = [beads EXCEPT ![a].notes.image = i]
    BY <1>6 DEF EditNotes
  <2>2. beads[a] \in BeadRecords
    BY <1>6 DEF EditNotes, DaemonOK
  <2>3. [beads[a] EXCEPT !.notes.image = i] \in BeadRecords
    BY <2>2 DEF BeadRecords
  <2>4. beads' = [beads EXCEPT ![a] = [beads[a] EXCEPT !.notes.image = i]]
    BY <2>1
  <2>5. UNCHANGED <<cfg, projects, queue>>
    BY <1>1, <1>6 DEF EditNotes, Others
  <2>6. QED BY <2>3, <2>4, <2>5 DEF DaemonOK, QueueOK
<1>7. ASSUME NEW p \in Projects, EditProject(p) PROVE DaemonOK' /\ QueueOK'
  BY <1>1, <1>7 DEF EditProject, Others, DaemonOK, QueueOK
<1>8. DaemonOK' /\ QueueOK'
  BY <1>4, <1>5, <1>6, <1>7 DEF OpenBead
<1>9. QED BY <1>2, <1>3, <1>8

\* A pod ends.
LEMMA EndPodStep ==
  ASSUME PodsInv, NEW a \in Agents, EndPod(a)
  PROVE  PodsInv'
<1> USE DEF PodsInv
<1>1. UNCHANGED <<cfg, projects, beads, cache, rigs, stage, todo, started, queue, making, claims,
                  edits, crashes>>
  BY DEF EndPod, daemonVars, periodicVars
<1>2. clean' \in BOOLEAN
  BY Zenon DEF EndPod
<1>3. DaemonOK' /\ PeriodicOK' /\ QueueOK' /\ ClaimsOK' /\ MakingOK'
  BY <1>1, DaemonKept, CreatingKept DEF daemonVars, PeriodicOK, QueueOK, ClaimsOK
<1>4. CountersOK'
  BY <1>1, <1>2 DEF CountersOK
<1>5. PodsOK'
  <2>1. PICK old : old = pods[a]
    OBVIOUS
  <2>2. GoodPod(a, old) /\ (HasClaim(old) => claims[a] # NoClaim)
    BY <2>1 DEF EndPod, PodsOK
  <2>3. PICK new : new = [old EXCEPT !.ended = TRUE]
    OBVIOUS
  <2>4. pods' = [pods EXCEPT ![a] = new]
    BY <2>1, <2>3 DEF EndPod
  <2>5. GoodPod(a, new) /\ (HasClaim(new) => HasClaim(old))
    BY <2>2, <2>3, PodMarked
  <2>6. QED BY <1>1, <2>2, <2>4, <2>5 DEF PodsOK
<1>6. QED BY <1>3, <1>4, <1>5

\* A grace period is over.
LEMMA FinalizeStep ==
  ASSUME PodsInv, NEW a \in Agents, FinalizePod(a)
  PROVE  PodsInv'
<1> USE DEF PodsInv
<1>1. UNCHANGED <<cfg, projects, beads, cache, rigs, stage, todo, started, queue, making, claims,
                  clean, edits, crashes>>
  BY DEF FinalizePod, daemonVars, periodicVars
<1>2. DaemonOK' /\ PeriodicOK' /\ QueueOK' /\ ClaimsOK' /\ MakingOK' /\ CountersOK'
  BY <1>1, DaemonKept, CreatingKept DEF daemonVars, PeriodicOK, QueueOK, ClaimsOK, CountersOK
<1>3. PodsOK'
  BY <1>1 DEF FinalizePod, PodsOK, GoodPod, HasClaim
<1>4. QED BY <1>2, <1>3

LEMMA PodsInvStep == PodsInv /\ [PodsNext]_podsVars => PodsInv'
<1> SUFFICES ASSUME PodsInv, [PodsNext]_podsVars PROVE PodsInv'
  OBVIOUS
<1>1. CASE Periodic
  <2>1. "pass" \in Goroutines
    BY DEF Goroutines
  <2>2. ASSUME NEW result, ensurePVC("pass", result) \/ CreatePod("pass", result) PROVE PodsInv'
    BY <2>1, <2>2, ClaimStep, CreateStep
  <2>3. QED BY <1>1, <2>2, RefreshStep, VisitStep DEF Periodic
<1>2. CASE EventLoop
  <2>1. "loop" \in Goroutines
    BY DEF Goroutines
  <2>2. ASSUME NEW result, ensurePVC("loop", result) \/ CreatePod("loop", result) PROVE PodsInv'
    BY <2>1, <2>2, ClaimStep, CreateStep
  <2>3. QED BY <1>2, <2>2, EventStep DEF EventLoop
<1>3. CASE UNCHANGED podsVars
  <2>1. UNCHANGED <<cfg, projects, beads, cache, rigs, stage, todo, started, queue, making, claims,
                    pods, clean, edits, crashes>>
    BY <1>3 DEF podsVars, daemonVars, periodicVars, clusterVars
  <2>2. DaemonOK' /\ MakingOK' /\ PodsOK'
    BY <2>1, DaemonKept, CreatingKept, PodsKept DEF daemonVars, clusterVars, PodsInv
  <2>3. QED BY <2>1, <2>2 DEF PodsInv, PeriodicOK, QueueOK, CountersOK, ClaimsOK
<1>4. QED BY <1>1, <1>2, <1>3, CrashStep, EditStep, EndPodStep, FinalizeStep DEF PodsNext

\* What the cache holds, what a goroutine is creating and what a pod is stay of their
\* kinds, and every pod has the name of its agent and an image.
THEOREM PodsTypeCorrect == PodsSpec => []PodsTypeOK
BY PodsInvInit, PodsInvStep, PodsInvMeans, PTL DEF PodsSpec

\* A pod can start and keeps what its mode promises, whatever the configuration, the
\* daemon's beads and the cache say, and whatever call fails, loses its answer or is cut
\* off by a crash: every mount has its volume, its claim is there, no variable is set
\* twice, and a pod of a crew has a claim, one of a job has none.
THEOREM EveryPodWhole == PodsSpec => []PodsWhole
BY PodsInvInit, PodsInvStep, PodsInvMeans, PTL DEF PodsSpec

\* "specs identical to those created by handleEvent" (podspec.go:29): for every
\* configuration and every content of the project cache, an agent whose bead asks for
\* no model or image of its own gets the same pod from an event and from a pass.
THEOREM SpecsAgree == PodsSpec => []SameSpec
<1>1. PodsInv => SameSpec
  <2> SUFFICES ASSUME PodsInv, NEW a \in Agents, beads[a] # NoBead, beads[a].model = "",
                      beads[a].notes.image = ""
               PROVE  buildAgentPodSpec(cfg, cache, buildEvent(cfg, Bead(a))) = DesiredSpec(a)
    BY DEF SameSpec
  <2>1. beads[a] \in BeadRecords
    BY DEF PodsInv, DaemonOK
  <2>2. Bead(a).model = "" /\ Bead(a).notes = beads[a].notes
    BY <2>1 DEF Bead, BeadInfo
  <2>3. beads[a].notes.model = ""
    BY <2>1 DEF BeadRecords
  <2>4. QED BY <2>2, <2>3, SameBuilders DEF DesiredSpec
<1>2. QED BY <1>1, PodsInvInit, PodsInvStep, PTL DEF PodsSpec

-----------------------------------------------------------------------------
(* A pass that nothing disturbs.                                           *)

\* The image is the one the daemon's beads ask for, if that matters.
GoodImage(a, image) ==
  Identity[a].mode = "job" \/ projects[Identity[a].project] = NoProject \/ image = AskedImage(a)

Running(a) ==
  pods[a] # NoPod /\ ~pods[a].ended /\ ~pods[a].terminating /\ GoodImage(a, pods[a].image)

PassMakes(a) == making["pass"] # NoSpec /\ making["pass"].agent = a

\* What the pass leaves behind of an agent it has come to.
Settled(a) ==
  /\ beads[a] # NoBead => PassMakes(a) \/ Running(a)
  /\ Removed(a) => pods[a] = NoPod \/ pods[a].terminating

\* The listed entries are on their way to the cache.
EntriesOnTheirWay ==
  \A p \in Projects : projects[p] # NoProject =>
    \/ p \in DOMAIN rigs /\ rigs[p] = projects[p]
    \/ p \notin DOMAIN rigs /\ p \in DOMAIN cache /\ cache[p] = projects[p]

EntriesCached ==
  \A p \in Projects : projects[p] # NoProject => p \in DOMAIN cache /\ cache[p] = projects[p]

PassMakesDesired ==
  making["pass"] # NoSpec =>
    /\ making["pass"].agent \notin todo /\ beads[making["pass"].agent] # NoBead
    /\ GoodImage(making["pass"].agent, making["pass"].spec.image)

\* The inductive invariant: as long as nothing has gone wrong since the listing, the cache
\* says what the daemon does once the pass begins, and every agent the pass has come to is
\* settled, or its pod is being created.
CleanInv ==
  /\ stage # "pass" => making["pass"] = NoSpec
  /\ clean /\ stage = "copy" => EntriesOnTheirWay
  /\ clean /\ stage = "pass" =>
       EntriesCached /\ PassMakesDesired /\ \A a \in Agents \ todo : Settled(a)

LEMMA NotClean ==
  ASSUME ~clean', stage' # "pass" => making'["pass"] = NoSpec
  PROVE  CleanInv'
BY DEF CleanInv

\* The state of the pass is as it was.
LEMMA CleanKept ==
  ASSUME CleanInv, UNCHANGED <<cfg, projects, beads, cache, rigs, stage, todo, pods>>,
         making'["pass"] = making["pass"], clean' => clean
  PROVE  CleanInv'
<1>1. ASSUME NEW a, NEW image PROVE GoodImage(a, image)' <=> GoodImage(a, image)
  BY DEF GoodImage, AskedImage
<1>2. ASSUME NEW a PROVE Settled(a)' <=> Settled(a)
  BY DEF Settled, Running, PassMakes, Removed, GoodImage, AskedImage
<1>3. PassMakesDesired' <=> PassMakesDesired
  BY DEF PassMakesDesired, GoodImage, AskedImage
<1>4. (EntriesOnTheirWay' <=> EntriesOnTheirWay) /\ (EntriesCached' <=> EntriesCached)
  BY DEF EntriesOnTheirWay, EntriesCached
<1>5. QED BY <1>2, <1>3, <1>4 DEF CleanInv

LEMMA CleanInit == PodsInit => CleanInv
BY DEF PodsInit, CleanInv, Goroutines

\* A fresh cache gives the image that is asked for.
LEMMA DesiredImage ==
  ASSUME PodsInv, EntriesCached, NEW a \in Agents, beads[a] # NoBead
  PROVE  GoodImage(a, DesiredSpec(a).image) /\ DesiredSpec(a).image # ""
<1>1. /\ SpecOK(a, DesiredSpec(a))
      /\ DesiredSpec(a).image = Or(ProjectEntry(cache, Identity[a]).image,
                                   Or(beads[a].notes.image, cfg.coopImage))
  BY DesiredSpecOK DEF PodsInv
<1>2. DesiredSpec(a).image # ""
  BY <1>1 DEF SpecOK
<1>3. Identity[a].project \in Projects
  BY AgentPodsAssumption
<1>4. CASE projects[Identity[a].project] = NoProject
  BY <1>2, <1>4 DEF GoodImage
<1>5. CASE projects[Identity[a].project] # NoProject
  <2>1. ProjectEntry(cache, Identity[a]) = projects[Identity[a].project]
    BY <1>3, <1>5 DEF EntriesCached, ProjectEntry
  <2>2. DesiredSpec(a).image = AskedImage(a)
    BY <1>1, <2>1 DEF AskedImage
  <2>3. QED BY <1>2, <2>2 DEF GoodImage
<1>6. QED BY <1>4, <1>5

LEMMA CleanRefresh ==
  ASSUME PodsInv, CleanInv,
         (\E ok \in BOOLEAN : ListProjectBeads(ok)) \/ (\E p \in Projects : CopyEntry(p)) \/ FinishPass
  PROVE  CleanInv'
<1>1. ASSUME NEW ok \in BOOLEAN, ListProjectBeads(ok) PROVE CleanInv'
  <2>1. making["pass"] = NoSpec /\ making' = making /\ UNCHANGED <<projects, beads, cache>>
    BY <1>1 DEF ListProjectBeads, CleanInv, daemonVars
  <2>2. CASE ok
    <3>1. rigs' = [p \in {p \in Projects : projects[p] # NoProject} |-> projects[p]]
      BY <1>1, <2>2 DEF ListProjectBeads
    <3>2. CASE DOMAIN rigs' = {}
      <4>1. stage' = "pass" /\ todo' = Agents
        BY <1>1, <3>2 DEF ListProjectBeads
      <4>2. EntriesCached'
        BY <2>1, <3>1, <3>2 DEF EntriesCached
      <4>3. PassMakesDesired'
        BY <2>1 DEF PassMakesDesired
      <4>4. Agents \ todo' = {}
        BY <4>1
      <4>5. QED BY <4>1, <4>2, <4>3, <4>4 DEF CleanInv
    <3>3. CASE DOMAIN rigs' # {}
      <4>1. stage' = "copy"
        BY <1>1, <3>3 DEF ListProjectBeads
      <4>2. EntriesOnTheirWay'
        BY <2>1, <3>1 DEF EntriesOnTheirWay
      <4>3. QED BY <2>1, <4>1, <4>2 DEF CleanInv
    <3>4. QED BY <3>2, <3>3
  <2>3. CASE ~ok
    BY <1>1, <2>1, <2>3, NotClean DEF ListProjectBeads
  <2>4. QED BY <2>2, <2>3
<1>2. ASSUME NEW p \in Projects, CopyEntry(p) PROVE CleanInv'
  <2>1. /\ making["pass"] = NoSpec /\ making' = making /\ stage = "copy" /\ p \in DOMAIN rigs
        /\ UNCHANGED <<projects, beads, clean>>
        /\ rigs' = [q \in DOMAIN rigs \ {p} |-> rigs[q]]
        /\ cache' = [q \in DOMAIN cache \cup {p} |-> IF q = p THEN rigs[p] ELSE cache[q]]
    BY <1>2 DEF CopyEntry, CleanInv, daemonVars, UpdateCache
  <2>2. CASE ~clean
    <3>1. ~clean'
      BY <2>1, <2>2
    <3>2. QED BY <2>1, <3>1, NotClean
  <2>3. CASE clean
    <3>1. EntriesOnTheirWay'
      BY <2>1, <2>3 DEF EntriesOnTheirWay, CleanInv
    <3>2. CASE DOMAIN rigs' = {}
      <4>1. stage' = "pass" /\ todo' = Agents
        BY <1>2, <3>2 DEF CopyEntry
      <4>2. EntriesCached'
        BY <3>1, <3>2 DEF EntriesCached, EntriesOnTheirWay
      <4>3. PassMakesDesired'
        BY <2>1 DEF PassMakesDesired
      <4>4. Agents \ todo' = {}
        BY <4>1
      <4>5. QED BY <4>1, <4>2, <4>3, <4>4 DEF CleanInv
    <3>3. CASE DOMAIN rigs' # {}
      <4>1. stage' = "copy"
        BY <1>2, <2>1, <3>3 DEF CopyEntry
      <4>2. QED BY <2>1, <3>1, <4>1 DEF CleanInv
    <3>4. QED BY <3>2, <3>3
  <2>4. QED BY <2>2, <2>3
<1>3. ASSUME FinishPass PROVE CleanInv'
  BY <1>3 DEF FinishPass, CleanInv
<1>4. QED BY <1>1, <1>2, <1>3

\* Within a pass, the agents but one stay as settled as they were.
LEMMA OthersSettled ==
  ASSUME NEW a, NEW b, b # a, Settled(b), UNCHANGED <<cfg, projects, beads>>, pods'[b] = pods[b],
         PassMakes(b) => PassMakes(b)'
  PROVE  Settled(b)'
<1>1. Removed(b)' <=> Removed(b)
  BY DEF Removed
<1>2. Running(b) => Running(b)'
  BY DEF Running, GoodImage, AskedImage
<1>3. QED BY <1>1, <1>2 DEF Settled

LEMMA CleanVisit ==
  ASSUME PodsInv, CleanInv, NEW a \in Agents, NEW result \in Calls, Visit(a, result)
  PROVE  CleanInv'
<1>1. /\ stage = "pass" /\ stage' = "pass" /\ a \in todo /\ making["pass"] = NoSpec
      /\ UNCHANGED <<cfg, projects, beads, cache>>
  BY DEF Visit, daemonVars
<1>2. SUFFICES ASSUME clean' PROVE CleanInv'
  BY <1>1, <1>2, NotClean
<1>3. /\ clean /\ todo' = todo \ {a} /\ ~PutOff(a)
      /\ DeletePod(a, result) => result = "ok"
      /\ Leave(a) => pods[a] = NoPod \/ ~pods[a].terminating
  BY <1>2 DEF Visit, DeletePod, DeferUpgrade, VisitMissing, Leave, Create, PutOff
<1>4. EntriesCached /\ \A b \in Agents \ todo : Settled(b)
  BY <1>1, <1>3 DEF CleanInv
<1>5. EntriesCached'
  BY <1>1, <1>4 DEF EntriesCached
<1>6. ASSUME NEW b \in Agents \ todo PROVE Settled(b)'
  <2>1. b # a /\ Settled(b) /\ ~PassMakes(b)
    BY <1>1, <1>4 DEF PassMakes
  <2>2. UNCHANGED pods \/ DeleteAgentPod(a, result)
    BY DEF Visit, DeletePod, DeferUpgrade, VisitMissing, Leave
  <2>3. pods'[b] = pods[b]
    BY <2>1, <2>2, DeleteEffect DEF PodsInv
  <2>4. QED BY <1>1, <2>1, <2>3, OthersSettled
<1>7. ASSUME beads[a] # NoBead, Make("pass", a, DesiredSpec(a)) PROVE PassMakesDesired' /\ Settled(a)'
  <2>1. PICK spec : spec = DesiredSpec(a)
    OBVIOUS
  <2>2. making'["pass"] = [agent |-> a, spec |-> spec, at |-> "claim"]
    BY <1>7, <2>1 DEF Make, PodsInv, MakingOK, Goroutines
  <2>3. making'["pass"] # NoSpec /\ making'["pass"].agent = a /\ making'["pass"].spec = spec
    BY <2>2 DEF NoSpec
  <2>4. GoodImage(a, spec.image)
    BY <1>4, <1>7, <2>1, DesiredImage
  <2>5. GoodImage(a, spec.image)'
    <3>1. spec' = spec
      OBVIOUS
    <3>2. QED BY <1>1, <2>4, <3>1 DEF GoodImage, AskedImage
  <2>6. PassMakesDesired'
    BY <1>1, <1>3, <1>7, <2>3, <2>5 DEF PassMakesDesired
  <2>7. Settled(a)'
    BY <1>1, <1>7, <2>3 DEF Settled, PassMakes, Removed
  <2>8. QED BY <2>6, <2>7
<1>8. PassMakesDesired' /\ Settled(a)'
  <2>1. CASE DeletePod(a, result) /\ beads[a] # NoBead
    BY <1>3, <1>7, <2>1 DEF DeletePod, Create
  <2>2. CASE DeletePod(a, result) /\ beads[a] = NoBead
    <3>1. making' = making /\ DeleteAgentPod(a, result) /\ result = "ok"
      BY <1>3, <2>2 DEF DeletePod
    <3>2. pods'[a] = NoPod \/ pods'[a].terminating
      BY <3>1, DeleteEffect DEF PodsInv
    <3>3. QED BY <1>1, <2>2, <3>1, <3>2 DEF PassMakesDesired, Settled
  <2>3. CASE VisitMissing(a)
    BY <1>3, <1>7, <2>3 DEF VisitMissing, Create
  <2>4. CASE Leave(a) /\ beads[a] = NoBead
    <3>1. UNCHANGED <<pods, making>> /\ (pods[a] = NoPod \/ ~Removed(a))
      BY <2>4 DEF Leave
    <3>2. QED BY <1>1, <2>4, <3>1 DEF PassMakesDesired, Settled, Removed
  <2>5. CASE Leave(a) /\ beads[a] # NoBead
    <3>1. UNCHANGED <<pods, making>> /\ pods[a] # NoPod /\ ~Replaced(a)
      BY <2>5 DEF Leave
    <3>2. GoodImage(a, DesiredSpec(a).image) /\ DesiredSpec(a).image # ""
      BY <1>4, <2>5, DesiredImage
    <3>3. GoodImage(a, pods[a].image) /\ ~pods[a].ended /\ ~pods[a].terminating
      <4>1. ~pods[a].ended /\ ~pods[a].terminating
             /\ (DesiredSpec(a).image \in {"", pods[a].image} \/ Identity[a].mode = "job")
        BY <1>3, <2>5, <3>1 DEF Replaced
      <4>2. QED BY <3>2, <4>1 DEF GoodImage
    <3>4. Running(a)'
      BY <1>1, <3>1, <3>3 DEF Running, GoodImage, AskedImage
    <3>5. QED BY <1>1, <2>5, <3>1, <3>4 DEF PassMakesDesired, Settled, Removed
  <2>6. CASE DeferUpgrade(a)
    BY <1>3, <2>6 DEF DeferUpgrade
  <2>7. QED BY <2>1, <2>2, <2>3, <2>4, <2>5, <2>6 DEF Visit
<1>9. \A b \in Agents \ todo' : Settled(b)'
  BY <1>3, <1>6, <1>8
<1>10. QED BY <1>1, <1>5, <1>8, <1>9 DEF CleanInv

\* The pass makes sure of the claim.
LEMMA CleanClaim ==
  ASSUME PodsInv, CleanInv, NEW g \in Goroutines, NEW result, ensurePVC(g, result)
  PROVE  CleanInv'
<1>1. UNCHANGED <<cfg, projects, beads, cache, rigs, stage, pods>> /\ making[g] # NoSpec
        /\ DOMAIN making = Goroutines
  BY DEF ensurePVC, daemonVars, PodsInv, MakingOK
<1>2. stage' # "pass" => making'["pass"] = NoSpec
  BY <1>1 DEF ensurePVC, GiveUp, CleanInv, Goroutines
<1>3. SUFFICES ASSUME clean' PROVE CleanInv'
  BY <1>2, <1>3, NotClean
<1>4. making' = [making EXCEPT ![g].at = "pod"] /\ UNCHANGED <<todo, clean>>
  BY <1>3 DEF ensurePVC, GiveUp
<1>5. CASE g = "loop"
  <2>1. making'["pass"] = making["pass"]
    BY <1>1, <1>4, <1>5 DEF Goroutines
  <2>2. QED BY <1>1, <1>4, <2>1, CleanKept
<1>6. CASE g = "pass"
  <2>1. stage = "pass" /\ clean
    BY <1>1, <1>3, <1>4, <1>6 DEF CleanInv
  <2>2. EntriesCached /\ PassMakesDesired /\ \A a \in Agents \ todo : Settled(a)
    BY <2>1 DEF CleanInv
  <2>3. EntriesCached'
    BY <1>1, <2>2 DEF EntriesCached
  <2>4. making'["pass"] = [making["pass"] EXCEPT !.at = "pod"]
    BY <1>1, <1>4, <1>6
  <2>5. GoodMaking(making["pass"])
    BY <1>1, <1>6 DEF PodsInv, MakingOK
  <2>6. /\ making'["pass"].agent = making["pass"].agent /\ making'["pass"].spec = making["pass"].spec
        /\ making'["pass"].at = "pod"
    BY <2>4, <2>5 DEF GoodMaking
  <2>7. making'["pass"] # NoSpec
    BY <2>6 DEF NoSpec
  <2>8. PassMakesDesired'
    BY <1>1, <1>4, <1>6, <2>2, <2>6 DEF PassMakesDesired, GoodImage, AskedImage
  <2>9. ASSUME NEW a \in Agents \ todo' PROVE Settled(a)'
    <3>1. Settled(a)
      BY <1>4, <2>2, <2>9
    <3>2. PassMakes(a) => PassMakes(a)'
      BY <2>6, <2>7 DEF PassMakes
    <3>3. (Running(a) => Running(a)') /\ (Removed(a)' <=> Removed(a))
      BY <1>1 DEF Running, GoodImage, AskedImage, Removed
    <3>4. QED BY <1>1, <3>1, <3>2, <3>3 DEF Settled
  <2>10. QED BY <1>1, <2>1, <2>3, <2>8, <2>9 DEF CleanInv
<1>7. QED BY <1>5, <1>6 DEF Goroutines

\* The pod it creates runs, on the image of the specification.
LEMMA CleanCreate ==
  ASSUME PodsInv, CleanInv, NEW g \in Goroutines, NEW result, CreatePod(g, result)
  PROVE  CleanInv'
<1>1. UNCHANGED <<cfg, projects, beads, cache, rigs, stage>> /\ making[g] # NoSpec
        /\ DOMAIN making = Goroutines
  BY DEF CreatePod, daemonVars, PodsInv, MakingOK
<1>2. stage' # "pass" => making'["pass"] = NoSpec
  BY <1>1 DEF CreatePod, GiveUp, CleanInv, Goroutines
<1>3. SUFFICES ASSUME clean' PROVE CleanInv'
  BY <1>2, <1>3, NotClean
<1>4. g = "pass" /\ clean /\ result = "ok" /\ pods[making[g].agent] = NoPod
  BY <1>3 DEF CreatePod, GiveUp
<1>5. making' = [making EXCEPT !["pass"] = NoSpec] /\ todo' = todo
  BY <1>4 DEF CreatePod
<1>6. stage = "pass"
  BY <1>1, <1>4 DEF CleanInv
<1>7. EntriesCached /\ PassMakesDesired /\ \A a \in Agents \ todo : Settled(a)
  BY <1>4, <1>6 DEF CleanInv
<1>8. EntriesCached'
  BY <1>1, <1>7 DEF EntriesCached
<1>9. making'["pass"] = NoSpec
  BY <1>1, <1>4, <1>5
<1>10. PassMakesDesired'
  BY <1>9 DEF PassMakesDesired
<1>11. PICK m : m = making["pass"]
  OBVIOUS
<1>12. PICK pod : pod = buildPod(m.spec)
  OBVIOUS
<1>13. m.agent \in Agents /\ SpecOK(m.agent, m.spec) /\ beads[m.agent] # NoBead
         /\ GoodImage(m.agent, m.spec.image)
  BY <1>1, <1>4, <1>7, <1>11 DEF PodsInv, MakingOK, GoodMaking, PassMakesDesired
<1>14. pod.image = m.spec.image /\ pod.image # "" /\ pod.ended = FALSE /\ pod.terminating = FALSE
  BY <1>12, <1>13, BuiltPod
<1>15. pods' = [pods EXCEPT ![m.agent] = pod]
  BY <1>4, <1>11, <1>12 DEF CreatePod
<1>16. DOMAIN pods = Agents
  BY DEF PodsInv, PodsOK
<1>17. pod # NoPod
  <2>1. NoPod.image = ""
    BY DEF NoPod
  <2>2. QED BY <1>14, <2>1
<1>18. pods'[m.agent] = pod
  BY <1>13, <1>15, <1>16
<1>19. GoodImage(m.agent, pod.image)
  BY <1>13, <1>14
<1>20. Running(m.agent)'
  BY <1>1, <1>14, <1>17, <1>18, <1>19 DEF Running, GoodImage, AskedImage
<1>21. ASSUME NEW b \in Agents \ todo' PROVE Settled(b)'
  <2>1. Settled(b)
    BY <1>5, <1>7, <1>21
  <2>2. CASE b = m.agent
    BY <1>1, <1>13, <1>20, <2>2 DEF Settled, Removed
  <2>3. CASE b # m.agent
    <3>1. pods'[b] = pods[b]
      BY <1>15, <1>16, <2>3
    <3>2. ~PassMakes(b)
      BY <1>11, <2>3 DEF PassMakes
    <3>3. QED BY <1>1, <2>1, <2>3, <3>1, <3>2, OthersSettled
  <2>4. QED BY <2>2, <2>3
<1>22. QED BY <1>1, <1>6, <1>8, <1>10, <1>21 DEF CleanInv

\* A pod on its way out is none a pass left to an agent.
LEMMA CleanFinalize ==
  ASSUME PodsInv, CleanInv, NEW a \in Agents, FinalizePod(a)
  PROVE  CleanInv'
<1>1. /\ UNCHANGED <<cfg, projects, beads, cache, rigs, stage, todo, making, clean>>
      /\ pods[a].terminating /\ pods' = [pods EXCEPT ![a] = NoPod] /\ DOMAIN pods = Agents
  BY DEF FinalizePod, daemonVars, periodicVars, PodsInv, PodsOK
<1>2. ASSUME NEW b \in Agents, Settled(b) PROVE Settled(b)'
  <2>1. CASE b = a
    <3>1. ~Running(a) /\ pods'[a] = NoPod
      BY <1>1 DEF Running
    <3>2. QED BY <1>1, <1>2, <2>1, <3>1 DEF Settled, PassMakes, Removed
  <2>2. CASE b # a
    BY <1>1, <1>2, <2>2, OthersSettled DEF PassMakes
  <2>3. QED BY <2>1, <2>2
<1>3. PassMakesDesired' <=> PassMakesDesired
  BY <1>1 DEF PassMakesDesired, GoodImage, AskedImage
<1>4. (EntriesOnTheirWay' <=> EntriesOnTheirWay) /\ (EntriesCached' <=> EntriesCached)
  BY <1>1 DEF EntriesOnTheirWay, EntriesCached
<1>5. QED BY <1>1, <1>2, <1>3, <1>4 DEF CleanInv

LEMMA CleanStep == PodsInv /\ CleanInv /\ [PodsNext]_podsVars => CleanInv'
<1> SUFFICES ASSUME PodsInv, CleanInv, [PodsNext]_podsVars PROVE CleanInv'
  OBVIOUS
<1>1. "pass" \in Goroutines /\ "loop" \in Goroutines /\ "pass" # "loop"
  BY DEF Goroutines
<1>2. CASE Periodic
  <2>1. ASSUME NEW result, ensurePVC("pass", result) \/ CreatePod("pass", result) PROVE CleanInv'
    BY <1>1, <2>1, CleanClaim, CleanCreate
  <2>2. QED BY <1>2, <2>1, CleanRefresh, CleanVisit DEF Periodic
<1>3. CASE EventLoop
  <2>1. ASSUME NEW result, ensurePVC("loop", result) \/ CreatePod("loop", result) PROVE CleanInv'
    BY <1>1, <2>1, CleanClaim, CleanCreate
  <2>2. ASSUME HandleSpawn PROVE CleanInv'
    <3>1. UNCHANGED <<cfg, projects, beads, cache, rigs, stage, todo, pods, clean>>
      BY <2>2 DEF HandleSpawn, daemonVars, periodicVars, clusterVars
    <3>2. making'["pass"] = making["pass"]
      <4>1. PICK spec : Make("loop", Head(queue).agent, spec)
        BY <2>2 DEF HandleSpawn
      <4>2. QED BY <1>1, <4>1 DEF Make, PodsInv, MakingOK
    <3>3. QED BY <3>1, <3>2, CleanKept
  <2>3. ASSUME HandleRemoval PROVE CleanInv'
    BY <2>3, NotClean DEF HandleRemoval, periodicVars, CleanInv
  <2>4. QED BY <1>3, <2>1, <2>2, <2>3 DEF EventLoop
<1>4. CASE Crash
  BY <1>1, <1>4, NotClean DEF Crash
<1>5. CASE \/ \E a \in Agents : OpenBead(a) \/ EndBead(a) \/ EditNotes(a)
           \/ \E p \in Projects : EditProject(p)
  <2>1. Edit /\ UNCHANGED Others
    BY <1>5 DEF OpenBead, EndBead, EditNotes, EditProject
  <2>2. QED BY <2>1, NotClean DEF Edit, Others, periodicVars, CleanInv
<1>6. ASSUME NEW a \in Agents, EndPod(a) PROVE CleanInv'
  BY <1>6, NotClean DEF EndPod, periodicVars, CleanInv
<1>7. ASSUME NEW a \in Agents, FinalizePod(a) PROVE CleanInv'
  BY <1>7, CleanFinalize
<1>8. CASE UNCHANGED podsVars
  BY <1>8, CleanKept DEF podsVars, daemonVars, periodicVars, clusterVars
<1>9. QED BY <1>2, <1>3, <1>4, <1>5, <1>6, <1>7, <1>8 DEF PodsNext

\* "Per-project agent image override" (client.go:117), "per-bead overrides (e.g.,
\* image)" (reconciler.go:20): one pass in which no call fails, nothing is put off, no pod is
\* on its way out and nobody interferes leaves every agent with the pod it asks for,
\* whatever the state of the cluster and of the cache it starts from.
THEOREM CleanPassRepairs == PodsSpec => CleanPassConverges
<1>1. ASSUME PodsInv, CleanInv, FinishPass, clean, NEW a \in Agents
      PROVE  /\ beads[a] # NoBead => /\ pods[a] # NoPod /\ ~pods[a].ended /\ ~pods[a].terminating
                                    /\ \/ Identity[a].mode = "job"
                                       \/ projects[Identity[a].project] = NoProject
                                       \/ pods[a].image = AskedImage(a)
             /\ Removed(a) => pods[a] = NoPod \/ pods[a].terminating
  <2>1. stage = "pass" /\ todo = {} /\ making["pass"] = NoSpec
    BY <1>1 DEF FinishPass
  <2>2. Settled(a) /\ ~PassMakes(a)
    BY <1>1, <2>1 DEF CleanInv, PassMakes
  <2>3. QED BY <2>2 DEF Settled, Running, GoodImage
<1>2. PodsInv /\ CleanInv /\ [PodsNext]_podsVars =>
        [FinishPass /\ clean => \A a \in Agents :
           /\ beads[a] # NoBead => /\ pods[a] # NoPod /\ ~pods[a].ended /\ ~pods[a].terminating
                                  /\ \/ Identity[a].mode = "job"
                                     \/ projects[Identity[a].project] = NoProject
                                     \/ pods[a].image = AskedImage(a)
           /\ Removed(a) => pods[a] = NoPod \/ pods[a].terminating]_podsVars
  BY <1>1
<1>3. QED BY <1>2, PodsInvInit, PodsInvStep, CleanInit, CleanStep, PTL DEF PodsSpec, CleanPassConverges
===============================================================================
