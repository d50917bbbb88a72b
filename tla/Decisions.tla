------------------------------- MODULE Decisions -------------------------------
(***************************************************************************)
(* internal/bridge: decisions.go, slack.go and mail.go.  The controller    *)
(* posts a new decision to Slack, the HTTP handler of a click closes the   *)
(* bead, and the close, heard from NATS, resolves the message and nudges   *)
(* the agent.  Urgent mail nudges it too.  The three subscriptions have a  *)
(* goroutine each and every click has its own.                             *)
(***************************************************************************)
EXTENDS BeadClient, Sequences

CONSTANTS
  Decisions,     \* ids of decision beads
  Mails,         \* ids of mail beads
  Agent,         \* the agent bead they are all assigned to
  Priorities,    \* of mail: 0 (critical) and 1 (high) are urgent, 2 and 3 are not
  Choices,       \* the options of a decision
  Nothing,       \* no message, no event in hand
  Outages,       \* the controller may crash, its NATS connections may break
  SlackFaults,   \* faults of Slack calls: "refused", "lost"
  NudgeFaults    \* faults of nudges

ASSUME DecisionsAssumption ==
  /\ Beads = Decisions \cup Mails \cup {Agent} /\ Agent \notin Decisions \cup Mails
  /\ Decisions \cap Mails = {}
  /\ Keys = {"chosen", "coop_url"} /\ Choices \subseteq Values \ {""}
  /\ Outages \in BOOLEAN /\ Priorities \subseteq 0..3
  /\ SlackFaults \cup NudgeFaults \subseteq {"refused", "lost"} /\ "" \in Notes
  /\ "asked" \notin Choices

Watchers == {"decisions", "mail"}

VARIABLES
  conn,          \* watcher -> its NATS connection: "down", "up", "broken" or "closed"
  createdQ,      \* subscription beads.bead.created: what its handler has not read
  closedQ,       \* subscription beads.bead.closed: [bead, chosen]
  mailQ,         \* the mail watcher's beads.bead.created: [bead, interrupt, priority]
  posting,       \* decision posted to Slack whose timestamp is not stored
  closing,       \* close event whose agent is still to be nudged
  messages,      \* decisions with a stored Slack timestamp
  slack,         \* decision -> Nothing, "asked" or the choice its message shows
  told,          \* decision -> the choices its agent was told
  mailed,        \* mails the agent was nudged about
  missed,        \* history: what was heard and whose nudge failed or a crash took
  contested      \* history: decisions answered again after, or during, an answer

natsVars == <<conn, createdQ, closedQ, mailQ>>
handlerVars == <<posting, closing, messages>>
agentVars == <<told, mailed, missed>>
decVars == <<clientVars, natsVars, handlerVars, slack, agentVars, contested>>

CloseEvent == [bead : Decisions, chosen : Values]
MailEvent == [bead : Mails, interrupt : BOOLEAN, priority : Priorities]

ASSUME NothingAssumption == Nothing \notin Decisions \cup CloseEvent \cup Choices \cup {"asked"}

\* How a call may end.
Ends(faults) == {"ok"} \cup (faults \cap {"lost"}) \cup
                (IF "refused" \in faults THEN {"failed"} ELSE {})

-----------------------------------------------------------------------------
(* Plain NATS: what is published while nobody listens is gone.             *)

Heard(w, q, event) == IF conn[w] = "up" THEN Append(q, event) ELSE q

\* Start and run: connect, subscribe, and wait for the context alone.
Connect(w) ==
  /\ conn[w] = "down"
  /\ conn' = [conn EXCEPT ![w] = "up"]
  /\ UNCHANGED <<clientVars, createdQ, closedQ, mailQ, handlerVars, slack, agentVars, contested>>

\* The NATS library reconnects by itself, 60 times, and then closes for good.
Connection(w) ==
  /\ Outages
  /\ \/ conn[w] = "up" /\ conn' = [conn EXCEPT ![w] = "broken"]
     \/ conn[w] = "broken" /\ \E s \in {"up", "closed"} : conn' = [conn EXCEPT ![w] = s]
  /\ UNCHANGED <<clientVars, createdQ, closedQ, mailQ, handlerVars, slack, agentVars, contested>>

-----------------------------------------------------------------------------
(* handleCreated: NotifyDecision.                                          *)

PostMessage ==
  /\ posting = Nothing /\ createdQ # <<>>
  /\ \E end \in Ends(SlackFaults) :
       /\ slack' = IF end = "failed" THEN slack ELSE [slack EXCEPT ![Head(createdQ)] = "asked"]
       /\ posting' = IF end = "ok" THEN Head(createdQ) ELSE Nothing
  /\ createdQ' = Tail(createdQ)
  /\ UNCHANGED <<clientVars, conn, closedQ, mailQ, closing, messages, agentVars, contested>>

StoreTimestamp ==
  /\ posting # Nothing
  /\ messages' = messages \cup {posting}
  /\ posting' = Nothing
  /\ UNCHANGED <<clientVars, natsVars, closing, slack, agentVars, contested>>

-----------------------------------------------------------------------------
(* handleClosed: UpdateDecision, whose failure is only logged, and the     *)
(* nudge.                                                                  *)

UpdateOrQuit ==
  /\ closing = Nothing /\ closedQ # <<>>
  /\ \E end \in Ends(SlackFaults) :
       /\ slack' = IF end # "failed" /\ Head(closedQ).bead \in messages
                   THEN [slack EXCEPT ![Head(closedQ).bead] = Head(closedQ).chosen] ELSE slack
       /\ closing' = IF end = "ok" THEN Head(closedQ) ELSE Nothing
  /\ closedQ' = Tail(closedQ)
  /\ UNCHANGED <<clientVars, conn, createdQ, mailQ, posting, messages, agentVars, contested>>
UpdateMessage ==
  /\ closing = Nothing /\ closedQ # <<>>
  /\ LET event == Head(closedQ) IN
     \/ /\ event.bead \in messages
        /\ \E end \in Ends(SlackFaults) :
             /\ slack' = IF end = "failed" THEN slack
                         ELSE [slack EXCEPT ![event.bead] = event.chosen]
             /\ messages' = IF end = "ok" THEN messages \ {event.bead} ELSE messages
     \/ event.bead \notin messages /\ UNCHANGED <<slack, messages>>
  /\ closing' = Head(closedQ) /\ closedQ' = Tail(closedQ)
  /\ UNCHANGED <<clientVars, conn, createdQ, mailQ, posting, agentVars, contested>>

CoopURL == parseFieldsJSON(beads[Agent].fields)["coop_url"]

\* POST to the coop_url in the fields of the agent bead: the bead is read first.
Nudge(b, arrives) ==
  \E result \in Answers(Agent), end \in Ends(NudgeFaults) :
    /\ arrives = (result = "ok" /\ CoopURL # "" /\ end # "failed")
    /\ missed' = IF arrives THEN missed ELSE missed \cup {b}

nudgeAgent ==
  /\ closing # Nothing
  /\ \E arrives \in BOOLEAN :
       /\ Nudge(closing.bead, arrives)
       /\ told' = IF arrives THEN [told EXCEPT ![closing.bead] = @ \cup {closing.chosen}]
                  ELSE told
  /\ closing' = Nothing
  /\ UNCHANGED <<clientVars, natsVars, posting, messages, slack, mailed, contested>>

-----------------------------------------------------------------------------
(* Mail: handleCreated.  Mail of no urgency waits for the agent's hooks.   *)

shouldNudge(mail) == mail.interrupt \/ mail.priority <= 1

handleMail ==
  /\ mailQ # <<>>
  /\ LET mail == Head(mailQ) IN
     \/ /\ shouldNudge(mail)
        /\ \E arrives \in BOOLEAN :
             /\ Nudge(mail.bead, arrives)
             /\ mailed' = IF arrives THEN mailed \cup {mail.bead} ELSE mailed
     \/ ~shouldNudge(mail) /\ UNCHANGED <<mailed, missed>>
  /\ mailQ' = Tail(mailQ)
  /\ UNCHANGED <<clientVars, conn, createdQ, closedQ, handlerVars, slack, told, contested>>

-----------------------------------------------------------------------------
(* handleBlockAction: a click closes the bead, open or not.                *)

Answered(d) == ~IsOpen(d) \/ \E c \in Clients : calls[c] # NoCall /\ calls[c].bead = d

Contest(d) == contested' = IF Answered(d) THEN contested \cup {d} ELSE contested

Click(c, d) ==
  /\ slack[d] = "asked" /\ beads[d] # NoBead
  /\ \E choice \in Choices, result \in RpcResults :
       ReadFields(c, d, [chosen |-> choice], TRUE, result)
  /\ Contest(d)
  /\ UNCHANGED <<natsVars, handlerVars, slack, agentVars>>

WriteChoice(c) ==
  /\ \E result \in RpcResults : WriteFields(c, result)
  /\ UNCHANGED <<natsVars, handlerVars, slack, agentVars, contested>>

\* The daemon publishes the close of an open bead with the fields it has then.
CloseDecision(c) ==
  /\ \E result \in RpcResults : CloseBead(c, result)
  /\ LET d == calls[c].bead IN
     closedQ' = IF IsOpen(d) /\ ~beads'[d].open
                THEN Heard("decisions", closedQ,
                           [bead |-> d, chosen |-> beads[d].fields["chosen"]])
                ELSE closedQ
  /\ UNCHANGED <<conn, createdQ, mailQ, handlerVars, slack, agentVars, contested>>

-----------------------------------------------------------------------------
(* Users of the daemon (external).                                         *)

OpenDecision(d) ==
  /\ beads[d] = NoBead
  /\ beads' = [beads EXCEPT ![d] = [open |-> TRUE, fields |-> NoFields, notes |-> ""]]
  /\ createdQ' = Heard("decisions", createdQ, d)
  /\ UNCHANGED <<calls, conn, closedQ, mailQ, handlerVars, slack, agentVars, contested>>

\* An answer from the command line.
AnswerDecision(d) ==
  /\ IsOpen(d) /\ Contest(d)
  /\ \E choice \in Choices :
       /\ beads' = [beads EXCEPT ![d].open = FALSE, ![d].fields["chosen"] = choice]
       /\ closedQ' = Heard("decisions", closedQ, [bead |-> d, chosen |-> choice])
  /\ UNCHANGED <<calls, conn, createdQ, mailQ, handlerVars, slack, agentVars>>

SendMail(m) ==
  /\ beads[m] = NoBead
  /\ beads' = [beads EXCEPT ![m] = [open |-> TRUE, fields |-> NoFields, notes |-> ""]]
  /\ \E mail \in MailEvent : mail.bead = m /\ mailQ' = Heard("mail", mailQ, mail)
  /\ UNCHANGED <<calls, conn, createdQ, closedQ, handlerVars, slack, agentVars, contested>>

AwaitsNudge ==
  {closedQ[i].bead : i \in DOMAIN closedQ} \cup
  (IF closing = Nothing THEN {} ELSE {closing.bead}) \cup
  {mailQ[i].bead : i \in {i \in DOMAIN mailQ : mailQ[i].interrupt \/ mailQ[i].priority <= 1}}

\* Everything but the beads and Slack is the memory of the controller.
Crash ==
  /\ Outages
  /\ missed' = missed \cup AwaitsNudge
  /\ conn' = [w \in Watchers |-> "down"]
  /\ createdQ' = <<>> /\ closedQ' = <<>> /\ mailQ' = <<>>
  /\ posting' = Nothing /\ closing' = Nothing /\ messages' = {}
  /\ calls' = [c \in Clients |-> NoCall]
  /\ UNCHANGED <<beads, slack, told, mailed, contested>>

handleCreated == PostMessage \/ StoreTimestamp

handleClosed == UpdateMessage \/ nudgeAgent

Clicks == \E c \in Clients : WriteChoice(c) \/ CloseDecision(c) \/ \E d \in Decisions : Click(c, d)

\* The agent bead has what the reporter writes, notes, and whatever its fields hold.
DecInit ==
  /\ ClientInit
  /\ beads \in {[b \in Beads |-> IF b = Agent THEN agent ELSE NoBead] :
                  agent \in [open : {TRUE}, notes : Notes,
                             fields : {[NoFields EXCEPT !["coop_url"] = url] :
                                         url \in Values \ Choices}]}
  /\ conn = [w \in Watchers |-> "down"]
  /\ createdQ = <<>> /\ closedQ = <<>> /\ mailQ = <<>>
  /\ posting = Nothing /\ closing = Nothing /\ messages = {}
  /\ slack = [d \in Decisions |-> Nothing] /\ told = [d \in Decisions |-> {}]
  /\ mailed = {} /\ missed = {} /\ contested = {}

DecNext ==
  \/ Crash \/ handleCreated \/ handleClosed \/ handleMail \/ Clicks
  \/ \E w \in Watchers : Connect(w) \/ Connection(w)
  \/ \E d \in Decisions : OpenDecision(d) \/ AnswerDecision(d)
  \/ \E m \in Mails : SendMail(m)

\* The connections are tried again and again, and a handler comes to its end.
DecSpec ==
  /\ DecInit /\ [][DecNext]_decVars
  /\ WF_decVars(handleCreated) /\ WF_decVars(handleClosed) /\ WF_decVars(handleMail)
  /\ \A w \in Watchers : WF_decVars(Connect(w))

-----------------------------------------------------------------------------
(* Properties.                                                             *)

DecTypeOK ==
  /\ ClientTypeOK
  /\ conn \in [Watchers -> {"down", "up", "broken", "closed"}]
  /\ createdQ \in Seq(Decisions) /\ closedQ \in Seq(CloseEvent) /\ mailQ \in Seq(MailEvent)
  /\ posting \in Decisions \cup {Nothing} /\ closing \in CloseEvent \cup {Nothing}
  /\ messages \subseteq Decisions
  /\ slack \in [Decisions -> {Nothing, "asked"} \cup Choices]
  /\ told \in [Decisions -> SUBSET Choices]
  /\ mailed \subseteq Mails /\ missed \subseteq Decisions \cup Mails
  /\ contested \subseteq Decisions

Closed(d) == beads[d] # NoBead /\ ~beads[d].open

Outcome == INSTANCE DecisionOutcome WITH
  NoChoice <- "",
  outcome <- [d \in Decisions |-> IF Closed(d) THEN beads[d].fields["chosen"] ELSE ""],
  shown <- [d \in Decisions |-> IF slack[d] \in Choices THEN slack[d] ELSE ""]

\* "the idle agent wakes up and reads the result" (decisions.go:7): what the agent
\* is told and the resolved message shows is what the bead has, for good, unless the
\* decision is answered twice.
OneOutcome == Outcome!Spec

\* "POSTs a nudge so the idle agent wakes up" (decisions.go:7), "nudges agents when a
\* message requires immediate attention" (mail.go:4-5): a close or an urgent mail that is
\* heard is told to the agent, unless the nudge itself fails or the controller crashes first.
AgentIsTold ==
  \A b \in Decisions \cup Mails :
    b \in AwaitsNudge ~> (b \in mailed \cup missed \/ (b \in Decisions /\ told[b] # {}))

\* "looks up the agent's coop_url, and POSTs a nudge" (decisions.go:6): when nothing
\* fails, the agent is told wherever its bead has the address, in the fields or in the notes.
AgentIsFound ==
  \A d \in Decisions : d \in AwaitsNudge /\ beads[Agent].notes # "" ~> told[d] # {}
=============================================================================
