----------------------------- MODULE MCController -----------------------------
(* Small instances of Controller for TLC. *)
EXTENDS Controller, TLC, Functions

CONSTANTS a1, a2, i1, i2, crew, job

\* Agents without a difference but their name.
Interchangeable == Permutations(Agents)

MCMode == [a \in Agents |-> IF a \in JobAgents THEN job ELSE crew]

\* One message at a time, which may be redelivered, besides the event in the channel.
\* To the pods a stop and a deletion are what a close is, a restart what a creation is;
\* another update is nothing, however often it comes.
OneMessage ==
  /\ Len(stream) + Cardinality(unacked) <= 1
  /\ stopping = {}
  /\ \A msg \in unacked \cup Range(stream) : msg.action # "deleted" /\ ~msg.toInProgress
  /\ \A msg \in unacked : msg.action # "updated"

\* The pass reads the beads and the pods only when it lists them, and a message may
\* wait: for an invariant of the pods and the tracker, a bead, a tag or a readiness that
\* changes during a pass is one that changes before or after it.
\* MCReconciler_upgrades has failing and unready pods.
BetweenPasses ==
  /\ beads' # beads \/ registry' # registry \/ Len(stream') > Len(stream) => pc = "idle"
  /\ \A a \in Agents : pods[a] # NoPod /\ pods'[a] # NoPod =>
       /\ pods'[a].phase # "Failed"
       /\ pods[a].ready => pods'[a].ready
       /\ pods'[a].ready # pods[a].ready => pc = "idle"

\* The messages of a late, a repeated or an outdated request.
Leftover(a, action) ==
  [agent |-> a, action |-> action, stopping |-> FALSE, toInProgress |-> FALSE,
   complete |-> TRUE]
Leftovers ==
  {Leftover(a, action) : a \in Agents, action \in {"created", "closed"}}

\* For liveness: the beads no longer change, but a message about an earlier change is
\* on its way, or a close and the spawn after it are; each may be delivered again and
\* again before its acknowledgement arrives, the close after the spawn too.
SettledStreams ==
  {<<m>> : m \in Leftovers} \cup
  {<<Leftover(a, "closed"), Leftover(a, "created")>> : a \in Agents}

InitWith(wanted, messages) ==
  /\ registry \in [Images -> Digests]
  /\ pods = NoPods
  /\ beads \in wanted
  /\ upgrading = {} /\ replacing = {}
  /\ digests = [i \in Images |-> NoDigest]
  /\ pc = "idle"
  /\ desired = NoBeads /\ actual = NoPods /\ current = NoAgent
  /\ activePods = 0 /\ created = 0
  /\ stream \in messages /\ unacked = {} /\ channel = <<>>
  /\ started = FALSE /\ stopping = {}

SettledInit ==
  InitWith({[a \in Agents |-> i2], [a \in Agents |-> IF a = a1 THEN i2 ELSE NoBead]},
           SettledStreams)

\* The kubelet only does what the events and the passes lead to: MCReconciler_liveness
\* has failing and unready pods.  The controller crashes at any time, but not for ever.
SettledNext ==
  \/ Running \/ Crash
  \/ Cluster /\ (\E a \in Agents : StartPod(a) \/ FinalizePod(a)) /\ UNCHANGED loopVars

SettledSpec ==
  SettledInit /\ [][SettledNext]_allVars /\ <>[][~Crash]_allVars /\ Fairness /\ LoopFairness
===============================================================================
