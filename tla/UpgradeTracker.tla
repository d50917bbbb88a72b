---------------------------- MODULE UpgradeTracker ----------------------------
(***************************************************************************)
(* reconciler/upgrade.go: which pods are being upgraded, and whether       *)
(* another one may be.  The start times are abstracted away: which entries *)
(* are older than 10 minutes when a pass begins is chosen then.            *)
(* UpgradeLast and pendingByMode never influence a decision:               *)
(* modeUpgradeStrategy returns Skip or Rolling only.                       *)
(***************************************************************************)
EXTENDS Kubernetes

CONSTANTS
  Modes,         \* agent modes
  Mode,          \* agent -> the mode of its bead
  NameMode       \* agent -> the text before the first dash of its pod name

ASSUME ModeAssumption == Mode \in [Agents -> Modes] /\ NameMode \in [Agents -> Modes]

VARIABLE
  upgrading      \* agents whose pod was deleted for an upgrade

extractModeFromPodName(a) == NameMode[a]

IsUpgrading(mode) == \E a \in upgrading : extractModeFromPodName(a) = mode

CanUpgrade(a) == a \notin JobAgents /\ ~IsUpgrading(Mode[a])

MarkUpgrading(a) == upgrading' = upgrading \cup {a}

\* A pass drops the stale entries and those whose pod it found ready.
ClearRecreated(stale, ready) == upgrading' = upgrading \ (stale \cup {a \in Agents : pods[a] # NoPod})
ClearReadyOnly(stale, ready) == upgrading' = upgrading \ ready
CleanAndClear(stale, ready) == upgrading' = (upgrading \ stale) \ ready
=============================================================================
