----------------------------- MODULE MCReconciler -----------------------------
(* Small instances of Reconciler for TLC. *)
EXTENDS Reconciler, TLC

CONSTANTS a1, a2, a3, i1, i2, crew, job

\* Two persistent agents of one mode and a job.
MCMode == [a \in Agents |-> IF a \in JobAgents THEN job ELSE crew]
\* Agents without a difference but their name.
Interchangeable == Permutations(Agents)

\* The pass reads the beads and the pods only when it lists them: for an invariant of
\* the pods and the tracker, a bead or a tag that changes during a pass is one that
\* changes before or after it; for every property, so is a pod's readiness.
ReadyBetweenPasses ==
  (\E a \in Agents : Live(pods[a]) /\ Live(pods'[a]) /\ pods[a].ready # pods'[a].ready)
    => pc = "idle"
BetweenPasses == ReadyBetweenPasses /\ (beads' # beads \/ registry' # registry => pc = "idle")

\* With one digest no step depends on a digest, or on what the tracker knows.
WithoutDigests == <<pods, beads, upgrading, pc, passVars>>

\* For liveness: the beads no longer change, both agents are wanted or one is; the
\* pods and the tracker are what earlier beads and upgrades may have left.
SettledInit ==
  /\ registry \in [Images -> Digests]
  /\ pods \in [Agents -> {NoPod} \cup
                 {[NewPod(i1) EXCEPT !.phase = "Running", !.digest = registry[i1],
                                     !.terminating = t] : t \in BOOLEAN}]
  /\ beads \in {[a \in Agents |-> i2], [a \in Agents |-> IF a = a1 THEN i2 ELSE NoBead]}
  /\ upgrading \in SUBSET Agents /\ replacing = {}
  /\ digests = [i \in Images |-> NoDigest]
  /\ pc = "idle"
  /\ desired = NoBeads /\ actual = NoPods /\ current = NoAgent
  /\ activePods = 0 /\ created = 0

SettledSpec == SettledInit /\ [][Next /\ UNCHANGED beads]_vars /\ Fairness
===============================================================================
