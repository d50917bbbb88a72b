---------------------------- MODULE StatusReporter ----------------------------
(***************************************************************************)
(* internal/statusreporter: what the pods do is written back to the agent  *)
(* beads, by two goroutines.  The event loop (main.go: handleEvent)        *)
(* reports what it has just done; SyncAll, in the periodic goroutine,      *)
(* walks a list of the pods.  Both go through UpdateBeadFields.            *)
(* The events come in order here; EventStream has their losses.            *)
(***************************************************************************)
EXTENDS Kubernetes, BeadClient, Sequences

CONSTANTS
  IPs, NoIP,     \* pod addresses
  Image,         \* the one agent image
  NameOrder,     \* agent -> its place in a listing, which is sorted by pod name
  NoProject,     \* agents without a project ("town-level roles", entrypoint.sh:11)
  Nobody,        \* the event loop reports nothing, SyncAll is at no pod
  MaxEdits,      \* bound on what the users do (model only)
  Watched        \* the agents whose beads and pods change, and of whose calls some succeed;
                 \* nothing of the sort is asked of the others (bound: model only)

\* Two fields: the one reported, and one that belongs to the users.  The notes
\* hold an override of a user's, or what the reporter writes, coop_url.
ASSUME ReporterAssumption ==
  /\ Beads = Agents /\ Image \in Images /\ Clients = {"loop", "sync"}
  /\ NoProject \subseteq Agents /\ Watched \subseteq Agents
  /\ NameOrder \in [Agents -> Nat]
  /\ \A a, b \in Agents : NameOrder[a] = NameOrder[b] => a = b
  /\ Keys = {"agent_state", "model"} /\ MaxEdits \in Nat
  /\ Notes = [image : {"", "override"}, coopURL : IPs \cup {NoIP}]

\* The states of an agent, which are strings.
States == {"spawning", "working", "done", "failed"}

ASSUME StatesAssumption == States \subseteq Values \ Typed

VARIABLES
  ip,            \* agent -> the address its pod got when it started
  events,        \* lifecycle events the event loop has not read
  report,        \* the report the event loop owes: [agent, state], or Nobody
  listed,        \* SyncAll: the listed pods it has not come to
  current,       \* SyncAll: the listed pod it is at, or Nobody
  syncAt,        \* SyncAll: its next call for that pod
  edits,         \* what the users have done so far
  settled,       \* history: agents reported as removed, not spawned since, and of which
                 \* SyncAll has seen no live pod since
  raced,         \* history: agents whose user wrote to the bead during a call for it
  userModel      \* history: agent -> the value its user gave the model field

syncVars == <<listed, current, syncAt>>
history == <<edits, settled, raced, userModel>>
repVars == <<k8sVars, clientVars, ip, events, report, syncVars, history>>

Listed == [agent : Agents, phase : {"Pending", "Running", "Succeeded", "Failed"},
           ip : IPs \cup {NoIP}]

ASSUME NobodyAssumption == Nobody \notin Listed \cup [agent : Agents, state : Values]

PodIP(a) == IF pods[a].phase = "Pending" THEN NoIP ELSE ip[a]

PhaseItself(phase) == phase
\* "Stopped" is no phase of a pod.
PhaseToAgentState(phase) ==
  CASE phase = "Pending"   -> "spawning"
    [] phase = "Running"   -> "working"
    [] phase = "Succeeded" -> "done"
    [] phase = "Failed"    -> "failed"
    [] OTHER               -> ""

\* ReportPodStatus up to the merge: nothing is written for an unknown phase.
StartReport(c, a, state, result) ==
  ReadFields(c, a, [agent_state |-> state], FALSE, result)

Calling(a) == \E c \in Clients : calls[c] # NoCall /\ calls[c].bead = a

\* SyncAll has yet to report the pod of a, which its list has as starting or running.  A pod
\* that is being deleted is listed so for its grace period.
SeenLive(a, list) == \E r \in list : r # Nobody /\ r.agent = a /\ r.phase \in {"Pending", "Running"}

-----------------------------------------------------------------------------
(* main.go: handleEvent.                                                   *)

Owes(a, state) == IF state = "" THEN Nobody ELSE [agent |-> a, state |-> state]

\* A pod that cannot be created is not reported.
HandleSpawn ==
  /\ report = Nobody /\ events # <<>> /\ Head(events).type = "AgentSpawn"
  /\ \E result \in Results :
       /\ CreateAgentPod(Head(events).agent, Image, result)
       /\ report' = IF result # "ok" THEN Nobody
                    ELSE Owes(Head(events).agent, PhaseToAgentState("Pending"))
  /\ events' = Tail(events) /\ settled' = settled \ {Head(events).agent}
  /\ UNCHANGED <<registry, clientVars, ip, syncVars, edits, raced, userModel>>

\* The backend metadata reported in between is empty, so none is written.
HandleRemoval ==
  /\ report = Nobody /\ events # <<>>
  /\ Head(events).type \in {"AgentDone", "AgentKill", "AgentStop"}
  /\ \E result \in Results : DeleteAgentPod(Head(events).agent, result)
  /\ report' = Owes(Head(events).agent,
                    PhaseToAgentState(CASE Head(events).type = "AgentDone" -> "Succeeded"
                                        [] Head(events).type = "AgentKill" -> "Failed"
                                        [] Head(events).type = "AgentStop" -> "Stopped"))
  /\ events' = Tail(events)
  /\ UNCHANGED <<registry, clientVars, ip, syncVars, history>>

LoopRead ==
  /\ report # Nobody
  /\ \E result \in RpcResults :
       /\ StartReport("loop", report.agent, report.state, result)
       /\ report' = IF result = "ok" THEN report ELSE Nobody
  /\ UNCHANGED <<k8sVars, ip, events, syncVars, history>>

LoopWrite ==
  /\ report # Nobody
  /\ \E result \in RpcResults :
       /\ WriteFields("loop", result)
       /\ settled' = IF /\ result = "ok" /\ report.state \in {"done", "failed"}
                        /\ ~SeenLive(report.agent, listed \cup {current})
                     THEN settled \cup {report.agent} ELSE settled
  /\ report' = Nobody
  /\ UNCHANGED <<k8sVars, ip, events, syncVars, edits, raced, userModel>>

EventLoop == HandleSpawn \/ HandleRemoval \/ LoopRead \/ LoopWrite

-----------------------------------------------------------------------------
(* SyncAll, and the pass of the reconciler that follows it.                *)

SyncIdle == listed = {} /\ current = Nobody

\* A pod whose project label is empty is skipped.
ListPods ==
  /\ SyncIdle
  /\ listed' = {[agent |-> a, phase |-> pods[a].phase, ip |-> PodIP(a)] :
                  a \in {a \in Agents \ NoProject : pods[a] # NoPod}}
  /\ settled' = {a \in settled : ~SeenLive(a, listed')}
  /\ UNCHANGED <<k8sVars, clientVars, ip, events, report, current, syncAt, edits, raced, userModel>>

\* After the report the metadata, for a pod with an address.
Reported(r) ==
  IF r.ip = NoIP THEN current' = Nobody /\ syncAt' = "read"
                 ELSE current' = r /\ syncAt' = "notes"

NextListed == {r \in listed : \A s \in listed : NameOrder[r.agent] <= NameOrder[s.agent]}

SyncReadStops(r, result) ==
  /\ current = Nobody
  /\ StartReport("sync", r.agent, PhaseToAgentState(r.phase), result)
  /\ IF result = "ok" THEN listed' = listed \ {r} /\ current' = r /\ syncAt' = "write"
                      ELSE listed' = {} /\ UNCHANGED <<current, syncAt>>
  /\ UNCHANGED <<k8sVars, ip, events, report, history>>
\* A report that fails is only counted.
SyncRead(r, result) ==
  /\ current = Nobody
  /\ listed' = listed \ {r}
  /\ StartReport("sync", r.agent, PhaseToAgentState(r.phase), result)
  /\ IF result = "ok" THEN current' = r /\ syncAt' = "write" ELSE Reported(r)
  /\ UNCHANGED <<k8sVars, ip, events, report, history>>

SyncWrite(result) ==
  /\ current # Nobody /\ syncAt = "write"
  /\ WriteFields("sync", result)
  /\ Reported(current)
  /\ UNCHANGED <<k8sVars, ip, events, report, listed, history>>

SyncNotesOnce(result) ==
  /\ current # Nobody /\ syncAt = "notes"
  /\ result \in Answers(current.agent)
  /\ beads' = IF result = "ok" /\ beads[current.agent].notes.coopURL = NoIP
              THEN [beads EXCEPT ![current.agent].notes =
                      [image |-> "", coopURL |-> current.ip]] ELSE beads
  /\ current' = Nobody /\ syncAt' = "read"
  /\ UNCHANGED <<k8sVars, calls, ip, events, report, listed, history>>
SyncNotes(result) ==
  /\ current # Nobody /\ syncAt = "notes"
  /\ UpdateBeadNotes(current.agent, [image |-> "", coopURL |-> current.ip], result)
  /\ current' = Nobody /\ syncAt' = "read"
  /\ UNCHANGED <<k8sVars, calls, ip, events, report, listed, history>>

SyncAll ==
  \/ ListPods
  \/ \E result \in RpcResults :
       (\E r \in NextListed : SyncRead(r, result)) \/ SyncWrite(result) \/ SyncNotes(result)

\* What a pass of the reconciler does to one agent (module Reconciler).
ReconcileAgent(a) ==
  /\ SyncIdle
  /\ \E result \in Results :
       \/ /\ IsOpen(a) /\ pods[a] = NoPod /\ CreateAgentPod(a, Image, result)
          /\ settled' = settled \ {a}
       \/ /\ (IsOpen(a) => Terminal(pods[a])) /\ DeleteAgentPod(a, result)
          /\ UNCHANGED settled
  /\ UNCHANGED <<registry, clientVars, ip, events, report, syncVars, edits, raced, userModel>>

-----------------------------------------------------------------------------
(* The users of the daemon (external), and the kubelet.                    *)

NewBead == [open |-> TRUE, fields |-> NoFields, notes |-> [image |-> "", coopURL |-> NoIP]]

User(a, type) ==
  /\ edits < MaxEdits /\ edits' = edits + 1
  /\ events' = IF type = "AgentUpdate" THEN events
               ELSE Append(events, [type |-> type, agent |-> a])
  /\ UNCHANGED <<k8sVars, calls, ip, report, syncVars>>

WriteModel(a, v) ==
  /\ userModel' = [userModel EXCEPT ![a] = v]
  /\ raced' = IF Calling(a) THEN raced \cup {a} ELSE raced \ {a}

OpenBead(a) ==
  /\ beads[a] = NoBead
  /\ beads' = [beads EXCEPT ![a] = NewBead]
  /\ settled' = settled \ {a}
  /\ WriteModel(a, "")
  /\ User(a, "AgentSpawn")

EndBead(a) ==
  /\ IsOpen(a)
  /\ \/ beads' = [beads EXCEPT ![a].open = FALSE] /\ User(a, "AgentDone")
     \/ beads' = [beads EXCEPT ![a] = NoBead] /\ User(a, "AgentKill")
  /\ UNCHANGED <<settled, raced, userModel>>

StopAgent(a) ==
  /\ IsOpen(a)
  /\ User(a, "AgentStop")
  /\ UNCHANGED <<beads, settled, raced, userModel>>

EditFields(a) ==
  /\ IsOpen(a)
  /\ \E v \in Values \ (States \cup {""}) :
       beads' = [beads EXCEPT ![a].fields["model"] = v] /\ WriteModel(a, v)
  /\ User(a, "AgentUpdate")
  /\ UNCHANGED settled

EditNotes(a) ==
  /\ IsOpen(a)
  /\ beads' = [beads EXCEPT ![a].notes = [image |-> "override", coopURL |-> NoIP]]
  /\ User(a, "AgentUpdate")
  /\ UNCHANGED <<settled, raced, userModel>>

Users(a) == OpenBead(a) \/ EndBead(a) \/ StopAgent(a) \/ EditFields(a) \/ EditNotes(a)

PodStep(a) ==
  /\ \/ StartPod(a) /\ \E i \in IPs : ip' = [ip EXCEPT ![a] = i]
     \/ (EndPod(a) \/ FinalizePod(a)) /\ UNCHANGED ip
  /\ UNCHANGED <<clientVars, events, report, syncVars, history>>

\* Beads, and pods of beads that are gone, from before the controller started.
RepInit ==
  /\ ClientInit
  /\ pods \in [Agents -> {NoPod, NewPod(Image)}] /\ registry \in [Images -> Digests]
  /\ beads \in [Agents -> {NoBead, NewBead}]
  /\ ip \in [Agents -> IPs]
  /\ events = <<>> /\ report = Nobody
  /\ listed = {} /\ current = Nobody /\ syncAt = "read"
  /\ edits = 0 /\ settled = {} /\ raced = {}
  /\ userModel = [a \in Agents |-> ""]

RepNext ==
  \/ EventLoop \/ SyncAll
  \/ \E a \in Watched : ReconcileAgent(a) \/ Users(a) \/ PodStep(a)

\* The ticker and the events keep both goroutines going, and no call for a watched agent
\* fails every time: a read or a write of its bead, if it exists, succeeds again and again.
RepFairness ==
  /\ WF_repVars(EventLoop) /\ WF_repVars(SyncAll)
  /\ \A a \in Watched :
       /\ SF_repVars(\E r \in NextListed : r.agent = a /\ SyncRead(r, "ok"))
       /\ SF_repVars(SyncWrite("ok") /\ current.agent = a)
       /\ SF_repVars(SyncNotes("ok") /\ current.agent = a)
       /\ WF_repVars(FinalizePod(a) /\ PodStep(a))

RepSpec == RepInit /\ [][RepNext]_repVars /\ RepFairness

-----------------------------------------------------------------------------
(* Properties.                                                             *)

RepTypeOK ==
  /\ K8sTypeOK /\ ClientTypeOK
  /\ ip \in [Agents -> IPs]
  /\ events \in Seq([type : {"AgentSpawn", "AgentDone", "AgentKill", "AgentStop"},
                     agent : Agents])
  /\ report \in [agent : Agents, state : States] \cup {Nobody}
  /\ listed \subseteq Listed /\ current \in Listed \cup {Nobody}
  /\ syncAt \in {"read", "write", "notes"}
  /\ edits \in 0..MaxEdits /\ settled \cup raced \subseteq Agents
  /\ userModel \in [Agents -> Values]

\* "SyncAll reconciles all agent pod statuses with beads" (reporter.go:214): once
\* the phase of a pod stays as it is, its bead comes to say so and keeps saying it, even if
\* every report of the other pods fails.
StateConverges ==
  \A a \in Watched :
    LET Steady(phase) == <>[](beads[a] # NoBead /\ pods[a] # NoPod /\ pods[a].phase = phase)
        Says(state) == <>[](beads[a] # NoBead /\ beads[a].fields["agent_state"] = state)
    IN  /\ Steady("Pending") => Says("spawning")
        /\ Steady("Running") => Says("working")
        /\ Steady("Failed") => Says("failed")

\* "so ResolveBackend() works after controller restarts" (reporter.go:245-246):
\* the notes of a bead come to name the address of the pod that runs now.
CoopURLConverges ==
  \A a \in Watched, i \in IPs :
    <>[](beads[a] # NoBead /\ Live(pods[a]) /\ PodIP(a) = i)
      => <>[](beads[a] # NoBead /\ beads[a].notes.coopURL = i)

\* "Report done status to beads regardless of delete error" (main.go:349): a removal that
\* was reported is taken back by nothing but a SyncAll that lists the pod as starting or
\* running; no failed call, other agent or report of a pod that ended does it.  SyncAll
\* does list so a pod in its grace period, and its bead then says "working" for good.
RemovalStaysReported ==
  \A a \in settled : beads[a] # NoBead =>
    beads[a].fields["agent_state"] \in {"done", "failed"}

\* "we must merge with existing fields" (client.go:188): what a user wrote in
\* another field stays, unless a call for the bead was under way at that time, or the
\* value is no string.
UserFieldKept ==
  \A a \in Agents \ raced : beads[a] # NoBead /\ userModel[a] \notin Typed =>
    beads[a].fields["model"] = userModel[a]
=============================================================================
