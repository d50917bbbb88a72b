-------------------------------- MODULE PodSpec --------------------------------
(***************************************************************************)
(* cmd/controller/podspec.go and podmanager: the specification of an agent *)
(* pod, built by the event loop from an event and by the reconciler from a *)
(* bead, and the pod built from it.  "" is an empty string or an unset     *)
(* variable.  Resources, affinity, probes and ports are the same for all   *)
(* pods and left out.                                                      *)
(*   configuration: the fields of config.Config that reach a pod;          *)
(*   cache: cfg.ProjectCache, project name -> entry, on the names it has;  *)
(*   environments are sets of <<name, value>>, so a name can occur twice.  *)
(***************************************************************************)
EXTENDS FiniteSets

CONSTANTS NoWorkspace, NoClone    \* a nil WorkspaceStorage, a nil init container

NoEntry == [prefix |-> "", gitURL |-> "", branch |-> "", image |-> "", storageClass |-> ""]

Or(v, fallback) == IF v # "" THEN v ELSE fallback

Var(name, v) == IF v = "" THEN {} ELSE {<<name, v>>}

modeForRole(mode, role) ==
  IF mode # "" THEN mode ELSE IF role = "deckhand" THEN "job" ELSE "crew"

\* Jobs work in an EmptyDir.
DefaultPodDefaults(mode) ==
  [workspace |-> IF mode = "crew" THEN [storageClass |-> ""] ELSE NoWorkspace]

ApplyDefaults(spec, defaults) ==
  [spec EXCEPT !.workspace = IF @ = NoWorkspace THEN defaults.workspace ELSE @]

NewSpec(cfg, bead, mode, image, model) ==
  [project |-> bead.project, mode |-> mode, role |-> bead.role, agent |-> bead.agent,
   beadID |-> bead.id, image |-> image,
   env |-> {<<"BEADS_GRPC_ADDR", cfg.grpcAddr>>, <<"BEADS_HTTP_ADDR", cfg.httpAddr>>,
            <<"BEADS_SERVER", cfg.grpcAddr>>, <<"CLAUDE_MODEL", Or(model, "opus")>>},
   secretEnv |-> {}, serviceAccount |-> "", configMap |-> "", workspace |-> NoWorkspace,
   credentials |-> "", daemonToken |-> "", gitURL |-> "", branch |-> "", gitCreds |-> ""]

ProjectEntry(cache, spec) ==
  IF spec.project \in DOMAIN cache THEN cache[spec.project] ELSE NoEntry

\* A project's image wins over the bead's.
ImageOfProject(cache, spec) ==
  [spec EXCEPT
     !.image = ProjectEntry(cache, spec).image,
     !.workspace = IF @ = NoWorkspace THEN @
                   ELSE [storageClass |-> Or(ProjectEntry(cache, spec).storageClass,
                                             @.storageClass)]]
applyProjectDefaults(cache, spec) ==
  LET entry == ProjectEntry(cache, spec) IN
  [spec EXCEPT
     !.image = Or(entry.image, @),
     !.workspace = IF @ = NoWorkspace THEN @
                   ELSE [storageClass |-> Or(entry.storageClass, @.storageClass)]]

\* BOAT_PROJECTS; the order of the projects is random.
RegisteredProjects(cache) ==
  {<<p, cache[p].gitURL, cache[p].prefix>> :
     p \in {q \in DOMAIN cache : cache[q].gitURL # "" /\ cache[q].prefix # ""}}

SecretVars(cfg) ==
  Var("GIT_USERNAME", cfg.gitSecret) \cup Var("GIT_TOKEN", cfg.gitSecret) \cup
  Var("COOP_NATS_TOKEN", cfg.natsSecret) \cup Var("COOP_BROKER_TOKEN", cfg.muxSecret) \cup
  (IF cfg.muxURL = "" THEN {} ELSE Var("COOP_MUX_TOKEN", cfg.muxSecret)) \cup
  Var("GITHUB_TOKEN", cfg.githubSecret)

applyCommonConfig(cfg, cache, spec) ==
  LET entry == ProjectEntry(cache, spec) IN
  [spec EXCEPT
     !.serviceAccount = Or(@, cfg.serviceAccount),
     !.credentials = cfg.oauthSecret, !.daemonToken = cfg.tokenSecret,
     !.gitCreds = cfg.gitSecret, !.gitURL = entry.gitURL, !.branch = entry.branch,
     !.secretEnv = @ \cup SecretVars(cfg),
     !.env = @ \cup Var("BEADS_NATS_URL", cfg.natsURL) \cup Var("COOP_NATS_URL", cfg.natsURL)
               \cup Var("COOP_BROKER_URL", cfg.muxURL) \cup Var("COOP_MUX_URL", cfg.muxURL)
               \cup IF RegisteredProjects(cache) = {} THEN {}
                    ELSE {<<"BOAT_PROJECTS", RegisteredProjects(cache)>>}]

\* What both builders start from.
DefaultSpec(cfg, cache, bead, mode, image, model) ==
  applyProjectDefaults(cache, ApplyDefaults(NewSpec(cfg, bead, mode, image, model),
                                            DefaultPodDefaults(mode)))

\* For the reconciler: overrides come from the bead's notes.
BuildSpecFromBeadInfo(cfg, cache, bead) ==
  applyCommonConfig(cfg, cache,
    DefaultSpec(cfg, cache, bead, modeForRole(bead.mode, bead.role),
                Or(bead.notes.image, cfg.coopImage), bead.notes.model))

\* For the event loop: the watcher fills in the image of the configuration and the
\* model of the bead's fields, and neither a service account nor a config map.
buildEvent(cfg, bead) ==
  [bead |-> bead, image |-> cfg.coopImage, model |-> bead.model,
   serviceAccount |-> "", configMap |-> ""]

EventSpecUnfilled(cfg, cache, event) ==
  applyCommonConfig(cfg, cache, applyProjectDefaults(cache,
    NewSpec(cfg, event.bead, event.bead.mode, event.image, event.model)))
buildAgentPodSpec(cfg, cache, event) ==
  LET spec == DefaultSpec(cfg, cache, event.bead, modeForRole(event.bead.mode, event.bead.role),
                          event.image, event.model)
      account == [spec EXCEPT !.serviceAccount = Or(event.serviceAccount, @)]
  IN  applyCommonConfig(cfg, cache, [account EXCEPT !.configMap = Or(event.configMap, @)])

-----------------------------------------------------------------------------
(* podmanager/manager.go: the pod of a specification.                      *)

PodName(spec) == <<spec.mode, spec.project, spec.role, spec.agent>>

\* The workspace claim is named after the pod.
buildVolumes(spec) ==
  {<<"workspace", IF spec.workspace = NoWorkspace THEN <<"empty">>
                  ELSE <<"claim", PodName(spec)>> >>, <<"tmp", <<"empty">> >>} \cup
  (IF spec.configMap = "" THEN {} ELSE {<<"beads-config", <<"configMap", spec.configMap>> >>}) \cup
  (IF spec.credentials = "" THEN {} ELSE {<<"claude-creds", <<"secret", spec.credentials>> >>})

MountsAlways(spec) ==
  {<<"workspace", "/home/agent/bot">>, <<"tmp", "/tmp">>,
   <<"claude-creds", "/tmp/claude-credentials">>}
buildVolumeMounts(spec) ==
  {<<"workspace", "/home/agent/bot">>, <<"tmp", "/tmp">>} \cup
  (IF spec.configMap = "" THEN {} ELSE {<<"beads-config", "/etc/agent-pod">>}) \cup
  (IF spec.workspace = NoWorkspace THEN {} ELSE {<<"workspace", "/home/agent/.claude">>}) \cup
  (IF spec.credentials = "" THEN {} ELSE {<<"claude-creds", "/tmp/claude-credentials">>})

\* Unset it is 1 all the same (images/agent/entrypoint.sh:26).
SessionResume(spec) ==
  IF spec.workspace = NoWorkspace THEN {} ELSE {<<"BOAT_SESSION_RESUME", "1">>}

buildEnvVars(spec) ==
  {<<"BOAT_ROLE", spec.role>>, <<"BOAT_PROJECT", spec.project>>, <<"BOAT_AGENT", spec.agent>>,
   <<"BOAT_MODE", spec.mode>>, <<"HOME", "/home/agent">>,
   <<"XDG_STATE_HOME", "/home/agent/bot/.state">>, <<"POD_IP", "status.podIP">>,
   <<"BEADS_ACTOR", spec.agent>>, <<"GIT_AUTHOR_NAME", spec.agent>>,
   <<"BEADS_AGENT_NAME", <<spec.project, spec.agent>> >>,
   <<"BOAT_AGENT_BEAD_ID", spec.beadID>>} \cup
  SessionResume(spec) \cup spec.env \cup spec.secretEnv \cup
  Var("BEADS_DAEMON_TOKEN", spec.daemonToken)

\* The init container clones into the workspace, or updates what it finds there.
buildInitCloneContainer(spec) ==
  IF spec.gitURL = "" THEN NoClone
  ELSE [url |-> spec.gitURL, branch |-> Or(spec.branch, "main"),
        env |-> Var("GIT_USERNAME", spec.gitCreds) \cup Var("GIT_TOKEN", spec.gitCreds)]

restartPolicyForMode(mode) == IF mode = "job" THEN "Never" ELSE "Always"

buildPod(spec) ==
  [name |-> PodName(spec), beadID |-> spec.beadID, image |-> spec.image,
   env |-> buildEnvVars(spec), volumes |-> buildVolumes(spec),
   mounts |-> buildVolumeMounts(spec), init |-> buildInitCloneContainer(spec),
   restartPolicy |-> restartPolicyForMode(spec.mode),
   serviceAccount |-> spec.serviceAccount, ended |-> FALSE, terminating |-> FALSE]
=============================================================================
