------------------------- MODULE StatusReporterProofs -------------------------
(* Theorems about StatusReporter for every value of its constants.           *)
EXTENDS StatusReporter, BeadClientProofs, SequenceTheorems

-----------------------------------------------------------------------------
(* The cluster.                                                            *)

\* What a create, a delete and the kubelet leave are pods.
LEMMA CreateEffect ==
  ASSUME K8sTypeOK, NEW a \in Agents, NEW r \in Results, CreateAgentPod(a, Image, r)
  PROVE  pods' \in [Agents -> Pod \cup {NoPod}]
<1>1. NewPod(Image) \in Pod
  BY ReporterAssumption DEF NewPod, Pod
<1>2. QED BY <1>1 DEF CreateAgentPod, K8sTypeOK

LEMMA DeleteEffect ==
  ASSUME K8sTypeOK, NEW a \in Agents, NEW r \in Results, DeleteAgentPod(a, r)
  PROVE  pods' \in [Agents -> Pod \cup {NoPod}]
<1>1. CASE r = "failed"
  BY <1>1 DEF DeleteAgentPod, K8sTypeOK
<1>2. CASE r # "failed"
  <2>1. PICK after \in AfterDelete(pods[a]) : pods' = [pods EXCEPT ![a] = after]
    BY <1>2 DEF DeleteAgentPod
  <2>2. pods[a] # NoPod /\ pods[a] \in Pod
    BY <1>2 DEF DeleteAgentPod, K8sTypeOK
  <2>3. [pods[a] EXCEPT !.terminating = TRUE] \in Pod
    BY <2>2 DEF Pod
  <2>4. after \in Pod \cup {NoPod}
    BY <2>3 DEF AfterDelete
  <2>5. QED BY <2>1, <2>2, <2>4 DEF K8sTypeOK
<1>3. QED BY <1>1, <1>2

LEMMA PodStepEffect ==
  ASSUME K8sTypeOK, ip \in [Agents -> IPs], NEW a \in Agents, PodStep(a)
  PROVE  K8sTypeOK' /\ ip' \in [Agents -> IPs]
<1>1. CASE StartPod(a) /\ \E i \in IPs : ip' = [ip EXCEPT ![a] = i]
  <2> DEFINE pod == [pods[a] EXCEPT !.phase = "Running", !.digest = registry[pods[a].image]]
  <2>1. pods[a] # NoPod /\ pods[a] \in Pod
    BY <1>1 DEF StartPod, Live, Active, K8sTypeOK
  <2>2. pods' = [pods EXCEPT ![a] = pod] /\ registry' = registry
    BY <1>1 DEF StartPod
  <2>3. pod \in Pod
    BY <2>1 DEF Pod, K8sTypeOK
  <2>4. QED BY <1>1, <2>1, <2>2, <2>3 DEF K8sTypeOK
<1>2. CASE EndPod(a) /\ UNCHANGED ip
  <2>1. PICK phase \in {"Failed", "Succeeded"} :
          pods' = [pods EXCEPT ![a] = [pods[a] EXCEPT !.phase = phase, !.ready = FALSE]]
    BY <1>2 DEF EndPod
  <2>2. pods[a] # NoPod /\ pods[a] \in Pod
    BY <1>2 DEF EndPod, Live, Active, K8sTypeOK
  <2>3. [pods[a] EXCEPT !.phase = phase, !.ready = FALSE] \in Pod
    BY <2>2 DEF Pod
  <2>4. QED BY <1>2, <2>1, <2>2, <2>3 DEF EndPod, K8sTypeOK
<1>3. CASE FinalizePod(a) /\ UNCHANGED ip
  BY <1>3 DEF FinalizePod, K8sTypeOK
<1>4. QED BY <1>1, <1>2, <1>3 DEF PodStep

-----------------------------------------------------------------------------
(* Type correctness.                                                       *)

\* What is reported for the phase of a pod is the state of an agent.
LEMMA PhaseStates ==
  /\ \A p \in {"Pending", "Running", "Succeeded", "Failed"} : PhaseToAgentState(p) \in States
  /\ PhaseToAgentState("Succeeded") = "done" /\ PhaseToAgentState("Failed") = "failed"
  /\ PhaseToAgentState("Stopped") = ""
BY DEF PhaseToAgentState, States

\* A report merges one state into the fields.
LEMMA ReportEffect ==
  ASSUME RepTypeOK, NEW c \in Clients, NEW a \in Agents, NEW state \in States,
         NEW result \in RpcResults, StartReport(c, a, state, result)
  PROVE  /\ ClientTypeOK' /\ beads' = beads /\ calls[c] = NoCall
         /\ \A d \in Clients : d # c => calls'[d] = calls[d]
         /\ result # "ok" => calls' = calls
         /\ result = "ok" =>
              /\ beads[a] # NoBead
              /\ calls'[c] # NoCall /\ calls'[c].bead = a /\ ~calls'[c].closing
              /\ calls'[c].fields["agent_state"] = state
              /\ (\A j \in Keys : beads[a].fields[j] \notin Typed) =>
                   calls'[c].fields["model"] = beads[a].fields["model"]
<1> DEFINE new == [agent_state |-> state]
           fields == Merge(parseFieldsJSON(beads[a].fields), new)
<1>1. DOMAIN new = {"agent_state"} /\ new["agent_state"] = state
  OBVIOUS
<1>2. \A k \in DOMAIN new : new[k] \in Values
  BY <1>1, StatesAssumption
<1>3. a \in Beads /\ ClientTypeOK /\ Keys = {"agent_state", "model"}
  BY ReporterAssumption DEF RepTypeOK
<1>4. ReadFields(c, a, new, FALSE, result)
  BY DEF StartReport
<1> HIDE DEF new
<1>5. /\ ClientTypeOK' /\ beads' = beads /\ calls[c] = NoCall
      /\ \A d \in Clients : d # c => calls'[d] = calls[d]
      /\ result # "ok" => calls' = calls
      /\ result = "ok" =>
           /\ beads[a] # NoBead /\ calls'[c] # NoCall
           /\ calls'[c] = [bead |-> a, closing |-> FALSE, at |-> "write", fields |-> fields]
  BY <1>2, <1>3, <1>4, ReadEffect
<1>6. CASE result = "ok"
  <2>1. beads[a].fields \in [Keys -> Values]
    BY <1>3, <1>5, <1>6 DEF ClientTypeOK, Bead
  <2>2. /\ fields["agent_state"] = state
        /\ (\A j \in Keys : beads[a].fields[j] \notin Typed) =>
             fields["model"] = beads[a].fields["model"]
    BY <1>1, <1>3, <2>1, MergeEffect
  <2>3. QED BY <1>5, <1>6, <2>2
<1>7. QED BY <1>5, <1>6

\* SyncAll writes the notes of a bead that is there.
LEMMA SyncNotesEffect ==
  ASSUME RepTypeOK, NEW result \in RpcResults, SyncNotes(result)
  PROVE  /\ beads' \in [Beads -> Bead \cup {NoBead}]
         /\ \A b \in Agents : beads'[b] # NoBead =>
              beads[b] # NoBead /\ beads'[b].fields = beads[b].fields
<1> DEFINE a == current.agent
<1>1. ClientTypeOK /\ Beads = Agents
  BY ReporterAssumption DEF RepTypeOK
<1>2. a \in Beads /\ current.ip \in IPs \cup {NoIP}
  BY <1>1 DEF SyncNotes, RepTypeOK, Listed
<1>3. PICK notes \in Notes : UpdateBeadNotes(a, notes, result)
  BY <1>2, ReporterAssumption DEF SyncNotes
<1>4. CASE beads' = beads
  BY <1>1, <1>4 DEF ClientTypeOK
<1>5. CASE /\ beads[a] # NoBead
           /\ beads' = [beads EXCEPT ![a] = [beads[a] EXCEPT !.notes = notes]]
  <2>1. beads[a] \in Bead
    BY <1>1, <1>2, <1>5 DEF ClientTypeOK
  <2>2. [beads[a] EXCEPT !.notes = notes].fields = beads[a].fields
    BY <2>1 DEF Bead
  <2>3. \A b \in Agents : beads'[b] = IF b = a THEN [beads[a] EXCEPT !.notes = notes] ELSE beads[b]
    BY <1>1, <1>2, <1>5 DEF ClientTypeOK
  <2>4. QED BY <1>1, <1>2, <1>3, <1>5, <2>2, <2>3, NotesEffect
<1>6. QED BY <1>1, <1>2, <1>3, <1>4, <1>5, NotesEffect

LifecycleEvent == [type : {"AgentSpawn", "AgentDone", "AgentKill", "AgentStop"}, agent : Agents]

\* What the event loop owes after a removal.
LEMMA RemovalReport ==
  ASSUME RepTypeOK, HandleRemoval
  PROVE  /\ Head(events) \in LifecycleEvent
         /\ \/ report' = Nobody
            \/ report' \in [agent : Agents, state : {"done", "failed"}]
<1>1. Head(events) \in LifecycleEvent
  BY HeadTailProperties DEF HandleRemoval, RepTypeOK, LifecycleEvent
<1>2. CASE Head(events).type = "AgentDone"
  BY <1>1, <1>2, PhaseStates DEF HandleRemoval, Owes, LifecycleEvent
<1>3. CASE Head(events).type = "AgentKill"
  BY <1>1, <1>3, PhaseStates DEF HandleRemoval, Owes, LifecycleEvent
<1>4. CASE Head(events).type = "AgentStop"
  BY <1>1, <1>4, PhaseStates DEF HandleRemoval, Owes, LifecycleEvent
<1>5. QED BY <1>1, <1>2, <1>3, <1>4 DEF HandleRemoval

\* What the event loop owes after a spawn.
LEMMA SpawnReport ==
  ASSUME RepTypeOK, HandleSpawn
  PROVE  /\ Head(events) \in LifecycleEvent
         /\ \/ report' = Nobody
            \/ report' = [agent |-> Head(events).agent, state |-> "spawning"]
<1>1. Head(events) \in LifecycleEvent
  BY HeadTailProperties DEF HandleSpawn, RepTypeOK, LifecycleEvent
<1>2. PhaseToAgentState("Pending") = "spawning"
  BY DEF PhaseToAgentState
<1>3. QED BY <1>1, <1>2 DEF HandleSpawn, Owes

\* The events stay events.
LEMMA EventTypes ==
  ASSUME RepTypeOK
  PROVE  /\ events # <<>> => Tail(events) \in Seq(LifecycleEvent)
         /\ \A e \in LifecycleEvent : Append(events, e) \in Seq(LifecycleEvent)
<1>1. events \in Seq(LifecycleEvent)
  BY DEF RepTypeOK, LifecycleEvent
<1>2. QED BY <1>1, HeadTailProperties, AppendProperties

LEMMA RepTypeInit == RepInit => RepTypeOK
<1> SUFFICES ASSUME RepInit PROVE RepTypeOK
  OBVIOUS
<1>1. NewPod(Image) \in Pod
  BY ReporterAssumption DEF NewPod, Pod
<1>2. NewBead \in Bead
  BY ReporterAssumption, ValuesAssumption DEF NewBead, Bead, NoFields
<1>3. K8sTypeOK
  BY <1>1 DEF RepInit, K8sTypeOK
<1>4. ClientTypeOK
  BY <1>2, ReporterAssumption DEF RepInit, ClientInit, ClientTypeOK
<1>5. events \in Seq([type : {"AgentSpawn", "AgentDone", "AgentKill", "AgentStop"}, agent : Agents])
  BY EmptySeq DEF RepInit
<1>6. edits \in 0..MaxEdits
  <2>1. MaxEdits \in Nat
    BY ReporterAssumption
  <2>2. edits = 0
    BY DEF RepInit
  <2>3. QED BY <2>1, <2>2
<1>7. userModel \in [Agents -> Values]
  BY ValuesAssumption DEF RepInit
<1>8. QED BY <1>3, <1>4, <1>5, <1>6, <1>7 DEF RepInit, RepTypeOK

LEMMA RepTypeStep == RepTypeOK /\ [RepNext]_repVars => RepTypeOK'
<1> SUFFICES ASSUME RepTypeOK, [RepNext]_repVars PROVE RepTypeOK'
  OBVIOUS
<1> USE DEF k8sVars, clientVars, syncVars, history
<1>1. K8sTypeOK /\ ClientTypeOK /\ Beads = Agents /\ Clients = {"loop", "sync"}
  BY ReporterAssumption DEF RepTypeOK
<1>2. ASSUME HandleSpawn PROVE RepTypeOK'
  <2>1. Head(events) \in LifecycleEvent /\ Tail(events) \in Seq(LifecycleEvent)
    BY <1>2, SpawnReport, EventTypes DEF HandleSpawn
  <2>2. report' \in [agent : Agents, state : States] \cup {Nobody}
    BY <1>2, <2>1, SpawnReport DEF LifecycleEvent, States
  <2>3. pods' \in [Agents -> Pod \cup {NoPod}]
    BY <1>1, <1>2, <2>1, CreateEffect DEF HandleSpawn, LifecycleEvent
  <2>4. QED BY <1>2, <2>1, <2>2, <2>3
        DEF HandleSpawn, RepTypeOK, K8sTypeOK, ClientTypeOK, LifecycleEvent
<1>3. ASSUME HandleRemoval PROVE RepTypeOK'
  <2>1. Head(events) \in LifecycleEvent /\ Tail(events) \in Seq(LifecycleEvent)
    BY <1>3, RemovalReport, EventTypes DEF HandleRemoval
  <2>2. report' \in [agent : Agents, state : States] \cup {Nobody}
    BY <1>3, RemovalReport DEF States
  <2>3. pods' \in [Agents -> Pod \cup {NoPod}]
    BY <1>1, <1>3, <2>1, DeleteEffect DEF HandleRemoval, LifecycleEvent
  <2>4. QED BY <1>3, <2>1, <2>2, <2>3
        DEF HandleRemoval, RepTypeOK, K8sTypeOK, ClientTypeOK, LifecycleEvent
<1>4. ASSUME LoopRead PROVE RepTypeOK'
  <2>1. report \in [agent : Agents, state : States]
    BY <1>4 DEF LoopRead, RepTypeOK
  <2>2. ClientTypeOK'
    BY <1>1, <1>4, <2>1, ReportEffect DEF LoopRead
  <2>3. QED BY <1>4, <2>2 DEF LoopRead, RepTypeOK, K8sTypeOK
<1>5. ASSUME LoopWrite PROVE RepTypeOK'
  <2>1. report.agent \in Agents
    BY <1>5 DEF LoopWrite, RepTypeOK
  <2>2. ClientTypeOK'
    BY <1>1, <1>5, WriteEffect DEF LoopWrite
  <2>3. settled' \subseteq Agents
    BY <1>5, <2>1 DEF LoopWrite, RepTypeOK
  <2>4. QED BY <1>5, <2>2, <2>3 DEF LoopWrite, RepTypeOK, K8sTypeOK
<1>6. ASSUME ListPods PROVE RepTypeOK'
  <2>1. ASSUME NEW a \in Agents, pods[a] # NoPod
        PROVE  [agent |-> a, phase |-> pods[a].phase, ip |-> PodIP(a)] \in Listed
    <3>1. pods[a] \in Pod /\ PodIP(a) \in IPs \cup {NoIP}
      BY <2>1 DEF RepTypeOK, K8sTypeOK, PodIP
    <3>2. QED BY <3>1 DEF Pod, Listed
  <2>2. listed' \subseteq Listed
    BY <1>6, <2>1 DEF ListPods
  <2>3. QED BY <1>6, <2>2 DEF ListPods, RepTypeOK, K8sTypeOK, ClientTypeOK
<1>7. ASSUME NEW r \in NextListed, NEW result \in RpcResults, SyncRead(r, result) PROVE RepTypeOK'
  <2>1. r \in Listed /\ r.agent \in Agents /\ PhaseToAgentState(r.phase) \in States
    BY PhaseStates DEF NextListed, RepTypeOK, Listed
  <2>2. ClientTypeOK'
    BY <1>1, <1>7, <2>1, ReportEffect DEF SyncRead
  <2>3. current' \in Listed \cup {Nobody} /\ syncAt' \in {"read", "write", "notes"}
    BY <1>7, <2>1 DEF SyncRead, Reported
  <2>4. QED BY <1>7, <2>2, <2>3 DEF SyncRead, RepTypeOK, K8sTypeOK
<1>8. ASSUME NEW result \in RpcResults, SyncWrite(result) PROVE RepTypeOK'
  <2>1. ClientTypeOK'
    BY <1>1, <1>8, WriteEffect DEF SyncWrite
  <2>2. current' \in Listed \cup {Nobody} /\ syncAt' \in {"read", "write", "notes"}
    BY <1>8 DEF SyncWrite, Reported, RepTypeOK
  <2>3. QED BY <1>8, <2>1, <2>2 DEF SyncWrite, RepTypeOK, K8sTypeOK
<1>9. ASSUME NEW result \in RpcResults, SyncNotes(result) PROVE RepTypeOK'
  <2>1. beads' \in [Beads -> Bead \cup {NoBead}]
    BY <1>9, SyncNotesEffect
  <2>2. QED BY <1>9, <2>1 DEF SyncNotes, RepTypeOK, K8sTypeOK, ClientTypeOK
<1>10. ASSUME NEW a \in Agents, ReconcileAgent(a) PROVE RepTypeOK'
  <2>1. pods' \in [Agents -> Pod \cup {NoPod}]
    BY <1>1, <1>10, CreateEffect, DeleteEffect DEF ReconcileAgent
  <2>2. settled' \subseteq settled
    BY <1>10 DEF ReconcileAgent
  <2>3. QED BY <1>10, <2>1, <2>2 DEF ReconcileAgent, RepTypeOK, K8sTypeOK, ClientTypeOK
<1>11. ASSUME NEW a \in Agents, Users(a) PROVE RepTypeOK'
  <2>1. \A type \in {"AgentSpawn", "AgentDone", "AgentKill", "AgentStop", "AgentUpdate"} :
          User(a, type) =>
            /\ edits' \in 0..MaxEdits /\ events' \in Seq(LifecycleEvent)
            /\ UNCHANGED <<k8sVars, calls, ip, report, syncVars>>
    <3>1. MaxEdits \in Nat
      BY ReporterAssumption
    <3>2. edits < MaxEdits => edits + 1 \in 0..MaxEdits
      BY <3>1 DEF RepTypeOK
    <3>3. events \in Seq(LifecycleEvent)
      BY DEF RepTypeOK, LifecycleEvent
    <3>4. \A type : type \in {"AgentSpawn", "AgentDone", "AgentKill", "AgentStop"} =>
            Append(events, [type |-> type, agent |-> a]) \in Seq(LifecycleEvent)
      BY EventTypes DEF LifecycleEvent
    <3>5. QED BY <3>2, <3>3, <3>4 DEF User
  <2>2. \A v \in Values : WriteModel(a, v) =>
          userModel' \in [Agents -> Values] /\ raced' \subseteq Agents
    BY DEF WriteModel, RepTypeOK
  <2>3. CASE OpenBead(a)
    <3>1. NewBead \in Bead
      BY ReporterAssumption, ValuesAssumption DEF NewBead, Bead, NoFields
    <3>2. beads' \in [Beads -> Bead \cup {NoBead}]
      BY <1>1, <2>3, <3>1 DEF OpenBead, ClientTypeOK
    <3>3. QED BY <2>1, <2>2, <2>3, <3>2, ValuesAssumption
          DEF OpenBead, RepTypeOK, K8sTypeOK, ClientTypeOK, LifecycleEvent
  <2>4. CASE EndBead(a)
    <3>1. beads[a] # NoBead => [beads[a] EXCEPT !.open = FALSE] \in Bead
      BY <1>1 DEF ClientTypeOK, Bead
    <3>2. beads' \in [Beads -> Bead \cup {NoBead}]
      BY <1>1, <2>4, <3>1 DEF EndBead, IsOpen, ClientTypeOK
    <3>3. QED BY <2>1, <2>4, <3>2
          DEF EndBead, RepTypeOK, K8sTypeOK, ClientTypeOK, LifecycleEvent
  <2>5. CASE StopAgent(a)
    BY <2>1, <2>5 DEF StopAgent, RepTypeOK, K8sTypeOK, ClientTypeOK, LifecycleEvent
  <2>6. CASE EditFields(a)
    <3>1. PICK v \in Values : /\ beads' = [beads EXCEPT ![a].fields["model"] = v]
                              /\ WriteModel(a, v)
      BY <2>6 DEF EditFields
    <3>2. beads[a] \in Bead
      BY <1>1, <2>6 DEF EditFields, IsOpen, ClientTypeOK
    <3>3. [beads[a].fields EXCEPT !["model"] = v] \in [Keys -> Values]
      BY <3>2 DEF Bead
    <3>4. [beads[a] EXCEPT !.fields = [beads[a].fields EXCEPT !["model"] = v]] \in Bead
      BY <3>2, <3>3 DEF Bead
    <3>5. beads' \in [Beads -> Bead \cup {NoBead}]
      BY <1>1, <3>1, <3>4 DEF ClientTypeOK
    <3>6. QED BY <2>1, <2>2, <2>6, <3>1, <3>5
          DEF EditFields, RepTypeOK, K8sTypeOK, ClientTypeOK, LifecycleEvent
  <2>7. CASE EditNotes(a)
    <3>1. beads[a] \in Bead
      BY <1>1, <2>7 DEF EditNotes, IsOpen, ClientTypeOK
    <3>2. [beads[a] EXCEPT !.notes = [image |-> "override", coopURL |-> NoIP]] \in Bead
      BY <3>1, ReporterAssumption DEF Bead
    <3>3. beads' \in [Beads -> Bead \cup {NoBead}]
      BY <1>1, <2>7, <3>2 DEF EditNotes, ClientTypeOK
    <3>4. QED BY <2>1, <2>7, <3>3
          DEF EditNotes, RepTypeOK, K8sTypeOK, ClientTypeOK, LifecycleEvent
  <2>8. QED BY <1>11, <2>3, <2>4, <2>5, <2>6, <2>7 DEF Users
<1>12. ASSUME NEW a \in Agents, PodStep(a) PROVE RepTypeOK'
  <2>1. K8sTypeOK' /\ ip' \in [Agents -> IPs]
    BY <1>1, <1>12, PodStepEffect DEF RepTypeOK
  <2>2. QED BY <1>12, <2>1 DEF PodStep, RepTypeOK, ClientTypeOK
<1>13. CASE UNCHANGED repVars
  BY <1>13 DEF repVars, RepTypeOK, K8sTypeOK, ClientTypeOK
<1>14. QED
  BY <1>2, <1>3, <1>4, <1>5, <1>6, <1>7, <1>8, <1>9, <1>10, <1>11, <1>12, <1>13, ReporterAssumption
  DEF RepNext, EventLoop, SyncAll

\* Whatever the users, the kubelet and the faults do, what is reported and written is a
\* state of an agent, and every bead keeps all its fields.
THEOREM RepTypeCorrect == RepSpec => []RepTypeOK
BY RepTypeInit, RepTypeStep, PTL DEF RepSpec

-----------------------------------------------------------------------------
(* The calls under way.                                                    *)

\* A call belongs to what its goroutine is doing: the event loop writes the state it
\* owes, SyncAll the state of the pod it is at.
CallInv ==
  /\ calls["loop"] # NoCall =>
       /\ report # Nobody
       /\ calls["loop"].bead = report.agent
       /\ calls["loop"].fields["agent_state"] = report.state
  /\ calls["sync"] # NoCall =>
       /\ current # Nobody /\ syncAt = "write" /\ calls["sync"].bead = current.agent
       /\ calls["sync"].fields["agent_state"] = PhaseToAgentState(current.phase)
  /\ \A c \in Clients : calls[c] # NoCall =>
       ~calls[c].closing /\ calls[c].fields["agent_state"] \in States

LEMMA CallInit == RepInit => CallInv
BY ReporterAssumption DEF RepInit, ClientInit, CallInv

LEMMA CallStep == RepTypeOK /\ CallInv /\ [RepNext]_repVars => CallInv'
<1> SUFFICES ASSUME RepTypeOK, CallInv, [RepNext]_repVars PROVE CallInv'
  OBVIOUS
<1> USE DEF clientVars, syncVars
<1>1. ClientTypeOK /\ Beads = Agents /\ Clients = {"loop", "sync"}
  BY ReporterAssumption DEF RepTypeOK
<1>2. CASE UNCHANGED <<calls, report, syncVars>>
  BY <1>2 DEF CallInv
<1>3. CASE HandleSpawn \/ HandleRemoval
  <2>1. report = Nobody /\ UNCHANGED <<calls, syncVars>>
    BY <1>3 DEF HandleSpawn, HandleRemoval
  <2>2. QED BY <2>1 DEF CallInv
<1>4. ASSUME LoopRead PROVE CallInv'
  <2>1. PICK result \in RpcResults :
          /\ StartReport("loop", report.agent, report.state, result)
          /\ report' = IF result = "ok" THEN report ELSE Nobody
    BY <1>4 DEF LoopRead
  <2>2. report # Nobody /\ report.agent \in Agents /\ report.state \in States
          /\ UNCHANGED syncVars
    BY <1>4 DEF LoopRead, RepTypeOK
  <2>3. /\ calls["loop"] = NoCall /\ calls'["sync"] = calls["sync"]
        /\ result # "ok" => calls' = calls
        /\ result = "ok" => /\ calls'["loop"].bead = report.agent /\ ~calls'["loop"].closing
                            /\ calls'["loop"].fields["agent_state"] = report.state
    BY <1>1, <2>1, <2>2, ReportEffect
  <2>4. QED BY <1>1, <2>1, <2>2, <2>3 DEF CallInv
<1>5. ASSUME LoopWrite PROVE CallInv'
  <2>1. calls'["loop"] = NoCall /\ calls'["sync"] = calls["sync"] /\ UNCHANGED syncVars
    BY <1>1, <1>5, WriteEffect DEF LoopWrite, CallInv
  <2>2. QED BY <1>1, <2>1 DEF CallInv
<1>6. ASSUME NEW r \in NextListed, NEW result \in RpcResults, SyncRead(r, result) PROVE CallInv'
  <2>1. r.agent \in Agents /\ PhaseToAgentState(r.phase) \in States
    BY PhaseStates DEF NextListed, RepTypeOK, Listed
  <2>2. r # Nobody
    BY NobodyAssumption DEF NextListed, RepTypeOK
  <2>3. /\ calls["sync"] = NoCall /\ calls'["loop"] = calls["loop"]
        /\ result # "ok" => calls' = calls
        /\ result = "ok" => /\ calls'["sync"].bead = r.agent /\ ~calls'["sync"].closing
                            /\ calls'["sync"].fields["agent_state"] = PhaseToAgentState(r.phase)
    BY <1>1, <1>6, <2>1, ReportEffect DEF SyncRead
  <2>4. report' = report /\ (result = "ok" => current' = r /\ syncAt' = "write")
    BY <1>6 DEF SyncRead
  <2>5. QED BY <1>1, <2>1, <2>2, <2>3, <2>4 DEF CallInv
<1>7. ASSUME NEW result \in RpcResults, SyncWrite(result) PROVE CallInv'
  <2>1. calls'["sync"] = NoCall /\ calls'["loop"] = calls["loop"] /\ report' = report
    BY <1>1, <1>7, WriteEffect DEF SyncWrite, CallInv
  <2>2. QED BY <1>1, <2>1 DEF CallInv
<1>8. ASSUME NEW result \in RpcResults, SyncNotes(result) PROVE CallInv'
  BY <1>8 DEF SyncNotes, CallInv
<1>9. CASE ListPods
  BY <1>9 DEF ListPods, SyncIdle, CallInv
<1>10. ASSUME NEW a \in Agents, ReconcileAgent(a) \/ Users(a) \/ PodStep(a)
       PROVE  UNCHANGED <<calls, report, syncVars>>
  BY <1>10 DEF ReconcileAgent, Users, OpenBead, EndBead, StopAgent, EditFields, EditNotes, User,
               PodStep
<1>11. CASE UNCHANGED repVars
  BY <1>2, <1>11 DEF repVars
<1>12. QED
  BY <1>2, <1>3, <1>4, <1>5, <1>6, <1>7, <1>8, <1>9, <1>10, <1>11, ReporterAssumption
  DEF RepNext, EventLoop, SyncAll

-----------------------------------------------------------------------------
(* Removals stay reported.                                                 *)

\* Nothing that could take the word back is left of a reported removal: no list with its pod
\* starting or running, no report of a spawn.
SettledInv ==
  \A a \in settled :
    /\ ~SeenLive(a, listed \cup {current})
    /\ report # Nobody /\ report.agent = a => report.state \in {"done", "failed"}
    /\ beads[a] # NoBead => beads[a].fields["agent_state"] \in {"done", "failed"}

\* A step that lists nothing new, owes nothing new and changes no state, except to one of a
\* removal, keeps SettledInv.
LEMMA SettledFrame ==
  ASSUME SettledInv, settled' \subseteq settled,
         listed' \cup {current'} \subseteq listed \cup {current, Nobody},
         report' \in {report, Nobody} \/ report'.state \in {"done", "failed"}
           \/ report'.agent \notin settled',
         \A a \in settled' : beads'[a] # NoBead =>
           \/ beads[a] # NoBead /\ beads'[a].fields["agent_state"] = beads[a].fields["agent_state"]
           \/ beads'[a].fields["agent_state"] \in {"done", "failed"}
  PROVE  SettledInv'
<1>1. \A a \in settled' : ~SeenLive(a, listed \cup {current})'
  BY DEF SettledInv, SeenLive
<1>2. QED BY <1>1 DEF SettledInv

LEMMA SettledInit == RepInit => SettledInv
BY DEF RepInit, SettledInv

LEMMA SettledStep == RepTypeOK /\ CallInv /\ SettledInv /\ [RepNext]_repVars => SettledInv'
<1> SUFFICES ASSUME RepTypeOK, CallInv, SettledInv, [RepNext]_repVars PROVE SettledInv'
  OBVIOUS
<1> USE DEF k8sVars, clientVars, syncVars, history
<1>1. /\ K8sTypeOK /\ ClientTypeOK /\ settled \subseteq Agents
      /\ Beads = Agents /\ Clients = {"loop", "sync"} /\ Keys = {"agent_state", "model"}
  BY ReporterAssumption DEF RepTypeOK
<1>2. ASSUME HandleSpawn PROVE SettledInv'
  <2>1. Head(events) \in LifecycleEvent /\ settled' = settled \ {Head(events).agent}
          /\ UNCHANGED <<beads, syncVars>>
    BY <1>2, SpawnReport DEF HandleSpawn
  <2>2. report' = Nobody \/ report'.agent \notin settled'
    BY <1>2, <2>1, SpawnReport
  <2>3. QED BY <2>1, <2>2, SettledFrame
<1>3. ASSUME HandleRemoval PROVE SettledInv'
  <2>1. UNCHANGED <<beads, settled, syncVars>>
    BY <1>3 DEF HandleRemoval
  <2>2. report' = Nobody \/ report'.state \in {"done", "failed"}
    BY <1>3, RemovalReport
  <2>3. QED BY <2>1, <2>2, SettledFrame
<1>4. ASSUME LoopRead PROVE SettledInv'
  <2>1. report' \in {report, Nobody} /\ UNCHANGED <<beads, settled, syncVars>>
    BY <1>4 DEF LoopRead, StartReport, ReadFields
  <2>2. QED BY <2>1, SettledFrame
<1>5. ASSUME LoopWrite PROVE SettledInv'
  <2> DEFINE a == report.agent
  <2>1. PICK result \in RpcResults :
          /\ WriteFields("loop", result)
          /\ settled' = IF /\ result = "ok" /\ report.state \in {"done", "failed"}
                           /\ ~SeenLive(a, listed \cup {current})
                        THEN settled \cup {a} ELSE settled
    BY <1>5 DEF LoopWrite
  <2>2. report # Nobody /\ a \in Agents /\ report' = Nobody /\ UNCHANGED syncVars
    BY <1>5 DEF LoopWrite, RepTypeOK
  <2>3. /\ calls["loop"].bead = a /\ calls["loop"].fields["agent_state"] = report.state
        /\ result = "failed" => beads' = beads
        /\ result # "failed" => /\ beads[a] # NoBead
             /\ beads' = [beads EXCEPT ![a] = [beads[a] EXCEPT !.fields = calls["loop"].fields]]
    BY <1>1, <2>1, WriteEffect DEF CallInv
  <2>4. \A b \in Agents : beads'[b] # NoBead =>
          beads[b] # NoBead /\ (b # a \/ result = "failed" => beads'[b] = beads[b])
    BY <1>1, <2>2, <2>3 DEF ClientTypeOK
  <2>5. result # "failed" => beads'[a].fields["agent_state"] = report.state
    BY <1>1, <2>2, <2>3 DEF ClientTypeOK, Bead
  <2>6. \A b \in settled' : beads'[b] # NoBead =>
          beads'[b].fields["agent_state"] \in {"done", "failed"}
    BY <1>1, <2>1, <2>2, <2>4, <2>5 DEF SettledInv
  <2>7. \A b \in settled' : ~SeenLive(b, listed \cup {current})'
    BY <2>1, <2>2 DEF SettledInv, SeenLive
  <2>8. QED BY <2>2, <2>6, <2>7 DEF SettledInv
<1>6. ASSUME ListPods PROVE SettledInv'
  <2>1. /\ current = Nobody /\ UNCHANGED <<beads, report, current>>
        /\ settled' = {a \in settled : ~SeenLive(a, listed')}
    BY <1>6 DEF ListPods, SyncIdle
  <2>2. \A a \in settled' : ~SeenLive(a, listed \cup {current})'
    BY <2>1 DEF SeenLive
  <2>3. QED BY <2>1, <2>2 DEF SettledInv
<1>7. ASSUME NEW r \in NextListed, NEW result \in RpcResults, SyncRead(r, result)
      PROVE  SettledInv'
  <2>1. r \in listed /\ listed' \subseteq listed /\ current' \in {r, Nobody}
    BY <1>7 DEF SyncRead, Reported, NextListed
  <2>2. UNCHANGED <<beads, report, settled>>
    BY <1>7 DEF SyncRead, StartReport, ReadFields
  <2>3. QED BY <2>1, <2>2, SettledFrame
<1>8. ASSUME NEW result \in RpcResults, SyncWrite(result) PROVE SettledInv'
  <2> DEFINE a == current.agent
  <2>1. current # Nobody /\ current \in Listed
    BY <1>8 DEF SyncWrite, RepTypeOK
  <2>2. current' \in {current, Nobody} /\ UNCHANGED <<listed, report, settled>>
    BY <1>8 DEF SyncWrite, Reported
  <2>3. a \in settled => PhaseToAgentState(current.phase) \in {"done", "failed"}
    BY <2>1, PhaseStates DEF SettledInv, SeenLive, Listed
  <2>4. /\ calls["sync"].bead = a
        /\ calls["sync"].fields["agent_state"] = PhaseToAgentState(current.phase)
        /\ result = "failed" => beads' = beads
        /\ result # "failed" => /\ beads[a] # NoBead
             /\ beads' = [beads EXCEPT ![a] = [beads[a] EXCEPT !.fields = calls["sync"].fields]]
    BY <1>1, <1>8, WriteEffect DEF SyncWrite, CallInv
  <2>5. \A b \in settled : b # a \/ result = "failed" => beads'[b] = beads[b]
    BY <1>1, <2>4 DEF ClientTypeOK
  <2>6. a \in Agents /\ (result # "failed" =>
          beads'[a].fields["agent_state"] = PhaseToAgentState(current.phase))
    BY <1>1, <2>1, <2>4 DEF ClientTypeOK, Bead, Listed
  <2>7. \A b \in settled : beads'[b] # NoBead =>
          \/ beads[b] # NoBead /\ beads'[b].fields["agent_state"] = beads[b].fields["agent_state"]
          \/ beads'[b].fields["agent_state"] \in {"done", "failed"}
    BY <2>3, <2>5, <2>6
  <2>8. QED BY <2>2, <2>7, SettledFrame
<1>9. ASSUME NEW result \in RpcResults, SyncNotes(result) PROVE SettledInv'
  <2>3. \A b \in Agents : beads'[b] # NoBead =>
          beads[b] # NoBead /\ beads'[b].fields = beads[b].fields
    BY <1>9, SyncNotesEffect
  <2>4. current' = Nobody /\ UNCHANGED <<listed, report, settled>>
    BY <1>9 DEF SyncNotes
  <2>5. QED BY <1>1, <2>3, <2>4, SettledFrame
<1>10. ASSUME NEW a \in Agents, ReconcileAgent(a) PROVE SettledInv'
  <2>1. UNCHANGED <<beads, report, syncVars>> /\ settled' \subseteq settled
    BY <1>10 DEF ReconcileAgent
  <2>2. QED BY <2>1, SettledFrame
<1>11. ASSUME NEW a \in Agents, Users(a) PROVE SettledInv'
  <2>1. UNCHANGED <<report, syncVars>> /\ settled' \subseteq settled
    BY <1>11 DEF Users, OpenBead, EndBead, StopAgent, EditFields, EditNotes, User
  <2>2. \A b \in settled' : beads'[b] # NoBead =>
          beads[b] # NoBead /\ beads'[b].fields["agent_state"] = beads[b].fields["agent_state"]
    <3>1. CASE OpenBead(a)
      BY <1>1, <3>1 DEF OpenBead, ClientTypeOK
    <3>2. CASE EndBead(a)
      BY <1>1, <3>2 DEF EndBead, IsOpen, ClientTypeOK, Bead
    <3>3. CASE StopAgent(a)
      BY <3>3 DEF StopAgent
    <3>4. CASE EditFields(a)
      <4>1. PICK v : beads' = [beads EXCEPT ![a].fields["model"] = v]
        BY <3>4 DEF EditFields
      <4>2. beads[a] # NoBead /\ beads[a] \in Bead
        BY <1>1, <3>4 DEF EditFields, IsOpen, ClientTypeOK
      <4>3. beads'[a].fields["agent_state"] = beads[a].fields["agent_state"]
        BY <1>1, <4>1, <4>2 DEF ClientTypeOK, Bead
      <4>4. QED BY <1>1, <4>1, <4>2, <4>3 DEF ClientTypeOK
    <3>5. CASE EditNotes(a)
      BY <1>1, <3>5 DEF EditNotes, IsOpen, ClientTypeOK, Bead
    <3>6. QED BY <1>11, <3>1, <3>2, <3>3, <3>4, <3>5 DEF Users
  <2>3. QED BY <2>1, <2>2, SettledFrame
<1>12. ASSUME NEW a \in Agents, PodStep(a) PROVE SettledInv'
  <2>1. UNCHANGED <<beads, report, syncVars, settled>>
    BY <1>12 DEF PodStep
  <2>2. QED BY <2>1, SettledFrame
<1>13. CASE UNCHANGED repVars
  BY <1>13 DEF repVars, SettledInv, SeenLive
<1>14. QED
  BY <1>2, <1>3, <1>4, <1>5, <1>6, <1>7, <1>8, <1>9, <1>10, <1>11, <1>12, <1>13, ReporterAssumption
  DEF RepNext, EventLoop, SyncAll

\* "Report done status to beads regardless of delete error" (main.go:349): for any agents,
\* addresses, faults and interleaving of the event loop with SyncAll, a removal that was
\* reported is taken back by nothing but a SyncAll that lists its pod as starting or running.
THEOREM RemovalsStayReported == RepSpec => []RemovalStaysReported
<1>1. SettledInv => RemovalStaysReported
  BY DEF SettledInv, RemovalStaysReported
<1>2. QED
  BY <1>1, RepTypeInit, RepTypeStep, CallInit, CallStep, SettledInit, SettledStep, PTL
  DEF RepSpec

-----------------------------------------------------------------------------
(* The fields of the users survive.                                        *)

\* The reported field holds a string, so an update reads what is there; and unless the user
\* wrote during an update, what an update is about to write is what the user wrote.
ModelInv ==
  /\ \A a \in Agents : beads[a] # NoBead => beads[a].fields["agent_state"] \notin Typed
  /\ \A a \in Agents \ raced : userModel[a] \notin Typed =>
       /\ beads[a] # NoBead => beads[a].fields["model"] = userModel[a]
       /\ \A c \in Clients : calls[c] # NoCall /\ calls[c].bead = a =>
            calls[c].fields["model"] = userModel[a]

LEMMA ModelInit == RepInit => ModelInv
<1> SUFFICES ASSUME RepInit PROVE ModelInv
  OBVIOUS
<1>1. NewBead.fields["model"] = "" /\ NewBead.fields["agent_state"] = "" /\ "" \notin Typed
  BY ReporterAssumption, ValuesAssumption DEF NewBead, NoFields
<1>2. \A a \in Agents : beads[a] # NoBead => beads[a] = NewBead
  BY DEF RepInit
<1>3. \A c \in Clients : calls[c] = NoCall
  BY DEF RepInit, ClientInit
<1>4. \A a \in Agents : userModel[a] = ""
  BY DEF RepInit
<1>5. QED BY <1>1, <1>2, <1>3, <1>4 DEF ModelInv

\* A read finds the user's value.
LEMMA ModelRead ==
  ASSUME RepTypeOK, ModelInv, NEW c \in Clients, NEW a \in Agents, NEW state \in States,
         NEW result \in RpcResults, StartReport(c, a, state, result),
         UNCHANGED <<raced, userModel>>
  PROVE  ModelInv'
<1>1. Clients = {"loop", "sync"} /\ Keys = {"agent_state", "model"}
  BY ReporterAssumption
<1>2. /\ beads' = beads
      /\ \A d \in Clients : d # c => calls'[d] = calls[d]
      /\ result # "ok" => calls' = calls
      /\ result = "ok" =>
           /\ beads[a] # NoBead /\ calls'[c].bead = a
           /\ (\A j \in Keys : beads[a].fields[j] \notin Typed) =>
                calls'[c].fields["model"] = beads[a].fields["model"]
  BY ReportEffect
<1>3. result = "ok" /\ a \notin raced /\ userModel[a] \notin Typed =>
        calls'[c].fields["model"] = userModel[a]
  BY <1>1, <1>2 DEF ModelInv
<1>4. QED BY <1>2, <1>3 DEF ModelInv

\* A write leaves the user's value.
LEMMA ModelWrite ==
  ASSUME RepTypeOK, CallInv, ModelInv, NEW c \in Clients, NEW result \in RpcResults,
         WriteFields(c, result), UNCHANGED <<raced, userModel>>
  PROVE  ModelInv'
<1>1. ClientTypeOK /\ Beads = Agents
  BY ReporterAssumption DEF RepTypeOK
<1> DEFINE b == calls[c].bead
<1>2. /\ calls[c] # NoCall /\ b \in Agents
      /\ \A d \in Clients : d # c => calls'[d] = calls[d]
      /\ calls'[c] = NoCall
      /\ result = "failed" => beads' = beads
      /\ result # "failed" =>
           /\ beads[b] # NoBead
           /\ beads' = [beads EXCEPT ![b] = [beads[b] EXCEPT !.fields = calls[c].fields]]
  BY <1>1, WriteEffect DEF CallInv, Call
<1>3. calls[c].fields["agent_state"] \notin Typed
  BY <1>2, StatesAssumption DEF CallInv
<1>4. \A a \in Agents : beads'[a] # NoBead =>
        /\ beads[a] # NoBead
        /\ \/ beads'[a].fields = beads[a].fields
           \/ a = b /\ beads'[a].fields = calls[c].fields
  BY <1>1, <1>2 DEF ClientTypeOK, Bead
<1>5. QED BY <1>2, <1>3, <1>4 DEF ModelInv

\* A step of the user on a bead: the value the user writes is the one that counts, and
\* is safe from updates unless one was under way.
LEMMA ModelUser ==
  ASSUME RepTypeOK, ModelInv, NEW a \in Agents, NEW v \in Values, WriteModel(a, v),
         UNCHANGED calls, \A b \in Agents : b # a => beads'[b] = beads[b],
         beads'[a].fields["agent_state"] \notin Typed, beads'[a].fields["model"] = v
  PROVE  ModelInv'
<1>1. userModel' = [userModel EXCEPT ![a] = v] /\ userModel \in [Agents -> Values]
        /\ raced' = IF Calling(a) THEN raced \cup {a} ELSE raced \ {a}
  BY DEF WriteModel, RepTypeOK
<1>2. a \notin raced' => \A c \in Clients : calls'[c] = NoCall \/ calls'[c].bead # a
  BY <1>1 DEF Calling
<1>3. QED BY <1>1, <1>2 DEF ModelInv

LEMMA ModelStep == RepTypeOK /\ CallInv /\ ModelInv /\ [RepNext]_repVars => ModelInv'
<1> SUFFICES ASSUME RepTypeOK, CallInv, ModelInv, [RepNext]_repVars PROVE ModelInv'
  OBVIOUS
<1> USE DEF clientVars, syncVars, history
<1>1. /\ ClientTypeOK /\ Beads = Agents /\ Clients = {"loop", "sync"}
      /\ Keys = {"agent_state", "model"}
  BY ReporterAssumption DEF RepTypeOK
<1>2. CASE UNCHANGED <<beads, calls, raced, userModel>>
  BY <1>2 DEF ModelInv
<1>3. ASSUME HandleSpawn \/ HandleRemoval \/ ListPods
             \/ \E a \in Agents : ReconcileAgent(a) \/ StopAgent(a) \/ PodStep(a)
      PROVE  UNCHANGED <<beads, calls, raced, userModel>>
  BY <1>3 DEF HandleSpawn, HandleRemoval, ListPods, ReconcileAgent, StopAgent, PodStep, User
<1>4. ASSUME LoopRead PROVE ModelInv'
  <2>1. report.agent \in Agents /\ report.state \in States /\ UNCHANGED <<raced, userModel>>
    BY <1>4 DEF LoopRead, RepTypeOK
  <2>2. QED BY <1>1, <1>4, <2>1, ModelRead DEF LoopRead
<1>5. ASSUME LoopWrite PROVE ModelInv'
  BY <1>1, <1>5, ModelWrite DEF LoopWrite
<1>6. ASSUME NEW r \in NextListed, NEW result \in RpcResults, SyncRead(r, result) PROVE ModelInv'
  <2>1. r.agent \in Agents /\ PhaseToAgentState(r.phase) \in States
    BY PhaseStates DEF NextListed, RepTypeOK, Listed
  <2>2. QED BY <1>1, <1>6, <2>1, ModelRead DEF SyncRead
<1>7. ASSUME NEW result \in RpcResults, SyncWrite(result) PROVE ModelInv'
  BY <1>1, <1>7, ModelWrite DEF SyncWrite
<1>8. ASSUME UNCHANGED <<calls, raced, userModel>>,
             \A b \in Agents : beads'[b] # NoBead =>
               beads[b] # NoBead /\ beads'[b].fields = beads[b].fields
      PROVE  ModelInv'
  BY <1>8 DEF ModelInv
<1>9. ASSUME NEW result \in RpcResults, SyncNotes(result) PROVE ModelInv'
  BY <1>8, <1>9, SyncNotesEffect DEF SyncNotes
<1>10. ASSUME NEW a \in Agents, EndBead(a) \/ EditNotes(a) PROVE ModelInv'
  <2>1. \A b \in Agents : beads'[b] # NoBead =>
          beads[b] # NoBead /\ beads'[b].fields = beads[b].fields
    BY <1>1, <1>10 DEF EndBead, EditNotes, IsOpen, ClientTypeOK, Bead
  <2>2. QED BY <1>8, <1>10, <2>1 DEF EndBead, EditNotes, User
<1>11. ASSUME NEW a \in Agents, OpenBead(a) PROVE ModelInv'
  <2>1. WriteModel(a, "") /\ UNCHANGED calls /\ beads' = [beads EXCEPT ![a] = NewBead]
    BY <1>11 DEF OpenBead, User
  <2>2. NewBead.fields["model"] = "" /\ NewBead.fields["agent_state"] = ""
    BY <1>1 DEF NewBead, NoFields
  <2>3. beads'[a] = NewBead /\ \A b \in Agents : b # a => beads'[b] = beads[b]
    BY <1>1, <2>1 DEF ClientTypeOK
  <2>4. QED BY <2>1, <2>2, <2>3, ModelUser, ValuesAssumption
<1>12. ASSUME NEW a \in Agents, EditFields(a) PROVE ModelInv'
  <2>1. PICK v \in Values : WriteModel(a, v) /\ beads' = [beads EXCEPT ![a].fields["model"] = v]
    BY <1>12 DEF EditFields
  <2>2. beads[a] # NoBead /\ beads[a] \in Bead /\ UNCHANGED calls
    BY <1>1, <1>12 DEF EditFields, IsOpen, ClientTypeOK, User
  <2>3. /\ beads'[a].fields["model"] = v
        /\ beads'[a].fields["agent_state"] = beads[a].fields["agent_state"]
    BY <1>1, <2>1, <2>2 DEF ClientTypeOK, Bead
  <2>4. \A b \in Agents : b # a => beads'[b] = beads[b]
    BY <1>1, <2>1 DEF ClientTypeOK
  <2>5. beads'[a].fields["agent_state"] \notin Typed
    BY <2>2, <2>3 DEF ModelInv
  <2>6. QED BY <2>1, <2>2, <2>3, <2>4, <2>5, ModelUser
<1>13. CASE UNCHANGED repVars
  BY <1>2, <1>13 DEF repVars
<1>14. QED
  BY <1>2, <1>3, <1>4, <1>5, <1>6, <1>7, <1>9, <1>10, <1>11, <1>12, <1>13, ReporterAssumption
  DEF RepNext, EventLoop, SyncAll, Users

\* "we must merge with existing fields" (client.go:188): whatever the reporters write and
\* whatever fails, a user's string in another field survives, unless it was written between
\* the two halves of an update.
THEOREM UserFieldsSurvive == RepSpec => []UserFieldKept
<1>1. ModelInv => UserFieldKept
  BY DEF ModelInv, UserFieldKept
<1>2. QED
  BY <1>1, RepTypeInit, RepTypeStep, CallInit, CallStep, ModelInit, ModelStep, PTL
  DEF RepSpec
=============================================================================
