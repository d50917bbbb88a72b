------------------------------ MODULE Controller ------------------------------
(***************************************************************************)
(* cmd/controller/main.go: run.  The main loop creates and deletes pods    *)
(* from bead events while the passes of the reconciler, in a goroutine of  *)
(* their own, do so from their snapshots; nothing orders the two.          *)
(* AgentStuck is left out: the only watcher never emits it                 *)
(* (nats.go:279-302).  Status reports are the daemon's business here.      *)
(***************************************************************************)
EXTENDS Reconciler, EventStream

CONSTANTS
  EventImages,   \* images of the pods created from events: CoopImage and those of projects
  MaxMessages    \* bound on the messages in the stream (model only)

ASSUME EventsAssumption == EventImages \subseteq Images /\ Sources = Agents

VARIABLES
  started,       \* the startup pass is over, the watcher and the main loop run
  stopping       \* daemon: agents whose agent_state is "stopping"

loopVars == <<streamVars, started, stopping>>
allVars == <<vars, loopVars>>
passesVars == <<upgrading, digests, pc, passVars, replacing>>

ControllerInit ==
  /\ Init /\ StreamInit
  /\ started = FALSE /\ stopping = {}

-----------------------------------------------------------------------------
(* The main loop.                                                          *)

\* The startup pass is done or has failed.
StartLoop ==
  /\ ~started /\ pc = "idle"
  /\ started' = TRUE
  /\ UNCHANGED <<vars, streamVars, stopping>>

WatcherStep ==
  /\ started /\ Watch
  /\ UNCHANGED <<vars, started, stopping>>

Handles(types) == started /\ channel # <<>> /\ Head(channel).type \in types

\* Neither CoopMaxPods nor CoopBurstLimit is looked at, nor what image the bead asks for.
HandleSpawn ==
  /\ Handles({"AgentSpawn"})
  /\ \E image \in EventImages, result \in Results :
       CreateAgentPod(Head(channel).agent, image, result)
  /\ channel' = Tail(channel)
  /\ UNCHANGED <<registry, beads, passesVars, stream, unacked, started, stopping>>

HandleRemoval ==
  /\ Handles({"AgentDone", "AgentKill", "AgentStop"})
  /\ \E result \in Results : DeleteAgentPod(Head(channel).agent, result)
  /\ channel' = Tail(channel)
  /\ UNCHANGED <<registry, beads, passesVars, stream, unacked, started, stopping>>

\* Left to the next pass.
HandleUpdate ==
  /\ Handles({"AgentUpdate"})
  /\ channel' = Tail(channel)
  /\ UNCHANGED <<vars, stream, unacked, started, stopping>>

HandleEvent == HandleSpawn \/ HandleRemoval \/ HandleUpdate

Pass == Reconcile /\ UNCHANGED loopVars

Crash ==
  /\ Restart /\ LoseChannel
  /\ started' = FALSE
  /\ UNCHANGED stopping

-----------------------------------------------------------------------------
(* The daemon (external): every change of a bead is published.             *)

Announce(a, action, inProgress, complete) ==
  /\ Len(stream) < MaxMessages
  /\ Publish([agent |-> a, action |-> action, stopping |-> a \in stopping',
              toInProgress |-> inProgress, complete |-> complete])
  /\ UNCHANGED <<k8sVars, passesVars, unacked, channel, started>>

\* A bead is created, or reopened or completed by an update.
OpenBead(a) ==
  /\ beads[a] = NoBead
  /\ \E i \in Images : beads' = [beads EXCEPT ![a] = i]
  /\ \/ stopping' = stopping \ {a} /\ Announce(a, "created", FALSE, TRUE)
     \/ /\ UNCHANGED stopping
        /\ \E inProgress \in BOOLEAN : Announce(a, "updated", inProgress, TRUE)

\* The status, the image or the agent_state of an open bead.
UpdateBead(a) ==
  /\ beads[a] # NoBead
  /\ \E i \in Images, inProgress \in BOOLEAN :
       /\ beads' = [beads EXCEPT ![a] = i]
       /\ stopping' \in {stopping, stopping \cup {a}, stopping \ {a}}
       /\ Announce(a, "updated", inProgress, TRUE)

\* A bead is closed or deleted, or an edit leaves it without a role or with a field
\* that is no string: the passes do not list it any more (client.go:88-98).
EndBead(a) ==
  /\ beads[a] # NoBead
  /\ beads' = [beads EXCEPT ![a] = NoBead]
  /\ UNCHANGED stopping
  /\ \/ \E action \in {"closed", "deleted"} : Announce(a, action, FALSE, TRUE)
     \/ Announce(a, "updated", FALSE, FALSE)

Daemon(a) == OpenBead(a) \/ UpdateBead(a) \/ EndBead(a)

-----------------------------------------------------------------------------
Running == StartLoop \/ WatcherStep \/ HandleEvent \/ Pass

ControllerNext ==
  \/ Running \/ Crash
  \/ (Cluster \/ \E i \in Images : LearnDigest(i)) /\ UNCHANGED loopVars
  \/ \E a \in Agents : Daemon(a)

ControllerSpec == ControllerInit /\ [][ControllerNext]_allVars

\* The select of the main loop serves its channel, the watcher fetches, and an
\* acknowledgement does not fail for ever (nats.go:213-230, main.go:249-266).
LoopFairness ==
  /\ WF_allVars(StartLoop) /\ WF_allVars(HandleEvent)
  /\ WF_allVars(WatcherStep /\ Len(stream') < Len(stream))
  /\ SF_allVars(WatcherStep /\ \E msg \in unacked : Redeliver(msg, TRUE))

-----------------------------------------------------------------------------
(* Properties; BeadGetsItsPod and OrphanReaped are the reconciler's.       *)

ControllerTypeOK ==
  /\ TypeOK /\ StreamTypeOK
  /\ started \in BOOLEAN /\ stopping \subseteq Agents
=============================================================================
