---------------------------- MODULE DecisionsProofs ----------------------------
(* Theorems about Decisions for every value of its constants: its types, and  *)
(* that it implements DecisionOutcome.                                        *)
EXTENDS Decisions, BeadClientProofs, SequenceTheorems

-----------------------------------------------------------------------------
(* Queues.                                                                 *)

\* What is in a queue.
LEMMA QueueElement ==
  ASSUME NEW S, NEW q \in Seq(S), NEW i \in DOMAIN q
  PROVE  q[i] \in S
<1>1. DOMAIN q = 1..Len(q)
  BY LenProperties
<1>2. QED BY <1>1, ElementOfSeq

\* What an append adds.
LEMMA QueueAppend ==
  ASSUME NEW S, NEW q \in Seq(S), NEW e \in S
  PROVE  /\ Append(q, e) \in Seq(S)
         /\ \A i \in DOMAIN Append(q, e) :
              \/ i \in DOMAIN q /\ Append(q, e)[i] = q[i]
              \/ i \notin DOMAIN q /\ i = Len(q) + 1 /\ Append(q, e)[i] = e
<1>1. /\ Append(q, e) \in Seq(S) /\ Len(Append(q, e)) = Len(q) + 1
      /\ \A i \in 1..Len(q) : Append(q, e)[i] = q[i]
      /\ Append(q, e)[Len(q) + 1] = e
  BY AppendProperties
<1>2. DOMAIN q = 1..Len(q) /\ DOMAIN Append(q, e) = 1..Len(q) + 1 /\ Len(q) \in Nat
  BY <1>1, LenProperties
<1>3. QED BY <1>1, <1>2

\* What reading the head leaves.
LEMMA QueueTail ==
  ASSUME NEW S, NEW q \in Seq(S), q # <<>>
  PROVE  /\ Head(q) \in S /\ Tail(q) \in Seq(S)
         /\ 1 \in DOMAIN q /\ Head(q) = q[1]
         /\ \A i \in DOMAIN Tail(q) : i \in Nat /\ i + 1 # 1 /\ i + 1 \in DOMAIN q
                                        /\ Tail(q)[i] = q[i + 1]
<1>1. /\ Head(q) \in S /\ Tail(q) \in Seq(S) /\ Len(Tail(q)) = Len(q) - 1
      /\ \A i \in 1..Len(Tail(q)) : Tail(q)[i] = q[i + 1]
  BY HeadTailProperties
<1>2. DOMAIN q = 1..Len(q) /\ DOMAIN Tail(q) = 1..Len(q) - 1 /\ Len(q) \in Nat \ {0}
  BY <1>1, LenProperties, EmptySeq
<1>3. Head(q) = q[1]
  OBVIOUS
<1>4. QED BY <1>1, <1>2, <1>3

\* What is heard is read later, or lost.
LEMMA QueueHeard ==
  ASSUME NEW S, NEW q \in Seq(S), NEW e \in S, NEW w
  PROVE  /\ Heard(w, q, e) \in Seq(S)
         /\ \A i \in DOMAIN Heard(w, q, e) :
              \/ i \in DOMAIN q /\ Heard(w, q, e)[i] = q[i]
              \/ i \notin DOMAIN q /\ i = Len(q) + 1 /\ Heard(w, q, e)[i] = e
BY QueueAppend DEF Heard

-----------------------------------------------------------------------------
(* Invariants.                                                             *)

Chosen(d) == beads[d].fields["chosen"]

\* A click is about a decision and writes a choice; the close of a bead comes after a
\* choice is in it, so that a decision that is closed has one.
ChoiceInv ==
  /\ \A c \in Clients : calls[c] # NoCall =>
       /\ calls[c].bead \in Decisions /\ calls[c].closing /\ calls[c].fields["chosen"] \in Choices
       /\ beads[calls[c].bead] # NoBead
       /\ calls[c].at = "close" => Chosen(calls[c].bead) \in Choices
  /\ \A d \in Decisions : Closed(d) => Chosen(d) \in Choices

\* What the bridge hears is that a decision is closed, and a choice.
HeardInv ==
  /\ \A i \in DOMAIN closedQ : closedQ[i].chosen \in Choices /\ Closed(closedQ[i].bead)
  /\ closing # Nothing => closing.chosen \in Choices /\ Closed(closing.bead)

DecInv == DecTypeOK /\ ChoiceInv /\ HeardInv

\* A decision that nobody answered twice has one click under way at most, none once it is
\* closed, and what was heard of it is what it holds.
OutcomeInv ==
  \A d \in Decisions \ contested :
    /\ \A c, e \in Clients :
         calls[c] # NoCall /\ calls[e] # NoCall /\ calls[c].bead = d /\ calls[e].bead = d => c = e
    /\ Closed(d) =>
         /\ \A c \in Clients : calls[c] # NoCall => calls[c].bead # d
         /\ \A i \in DOMAIN closedQ : closedQ[i].bead = d => closedQ[i].chosen = Chosen(d)
         /\ closing # Nothing /\ closing.bead = d => closing.chosen = Chosen(d)

\* A decision is posted once, before its message can be resolved.
PostInv ==
  /\ \A i \in DOMAIN createdQ : slack[createdQ[i]] = Nothing /\ beads[createdQ[i]] # NoBead
  /\ \A i, j \in DOMAIN createdQ : createdQ[i] = createdQ[j] => i = j
  /\ \A d \in Decisions : beads[d] = NoBead => slack[d] = Nothing
  /\ \A d \in messages : slack[d] # Nothing
  /\ posting # Nothing => slack[posting] # Nothing

-----------------------------------------------------------------------------
(* What the steps do to beads and calls.                                   *)

\* The first half of a click: the bead is read, and its agent's call may begin.
LEMMA ClickEffect ==
  ASSUME DecTypeOK, NEW c \in Clients, NEW d \in Decisions, Click(c, d)
  PROVE  /\ ClientTypeOK' /\ beads' = beads /\ calls[c] = NoCall /\ beads[d] # NoBead
         /\ \A e \in Clients : e # c => calls'[e] = calls[e]
         /\ \/ calls' = calls
            \/ /\ calls'[c].bead = d /\ calls'[c].closing /\ calls'[c].at = "write"
               /\ calls'[c].fields["chosen"] \in Choices
<1>1. PICK choice \in Choices, result \in RpcResults :
        ReadFields(c, d, [chosen |-> choice], TRUE, result)
  BY DEF Click
<1> DEFINE new == [chosen |-> choice]
<1>2. DOMAIN new = {"chosen"} /\ new["chosen"] = choice /\ choice \in Values
  BY DecisionsAssumption
<1>3. \A k \in DOMAIN new : new[k] \in Values
  BY <1>2
<1>4. d \in Beads /\ "chosen" \in Keys /\ ClientTypeOK
  BY DecisionsAssumption DEF DecTypeOK
<1>5. ReadFields(c, d, new, TRUE, result)
  BY <1>1
<1> HIDE DEF new
<1>6. /\ ClientTypeOK' /\ beads' = beads /\ calls[c] = NoCall
      /\ \A e \in Clients : e # c => calls'[e] = calls[e]
      /\ result # "ok" => calls' = calls
      /\ result = "ok" =>
           /\ beads[d] # NoBead
           /\ calls'[c] = [bead |-> d, closing |-> TRUE, at |-> "write",
                           fields |-> Merge(parseFieldsJSON(beads[d].fields), new)]
  BY <1>3, <1>4, <1>5, ReadEffect
<1>7. CASE result = "ok"
  <2>1. beads[d].fields \in [Keys -> Values]
    BY <1>4, <1>6, <1>7 DEF ClientTypeOK, Bead
  <2>2. Merge(parseFieldsJSON(beads[d].fields), new)["chosen"] = choice
    BY <1>2, <1>4, <2>1, MergeEffect
  <2>3. QED BY <1>6, <1>7, <2>2
<1>8. QED BY <1>6, <1>7 DEF Click

\* The second half: the choice is written, or the call ends.
LEMMA WriteChoiceEffect ==
  ASSUME DecTypeOK, ChoiceInv, NEW c \in Clients, WriteChoice(c)
  PROVE  LET d == calls[c].bead IN
         /\ ClientTypeOK' /\ calls[c] # NoCall /\ d \in Decisions
         /\ \A e \in Clients : e # c => calls'[e] = calls[e]
         /\ \A b \in Beads : b # d => beads'[b] = beads[b]
         /\ beads'[d] # NoBead /\ beads'[d].open = beads[d].open
         /\ beads'[d] = beads[d] \/ beads'[d].fields = calls[c].fields
         /\ \/ calls'[c] = NoCall
            \/ /\ calls'[c] = [calls[c] EXCEPT !.at = "close"]
               /\ beads'[d].fields = calls[c].fields
<1> DEFINE d == calls[c].bead
<1>1. PICK result \in RpcResults : WriteFields(c, result)
  BY DEF WriteChoice
<1>2. ClientTypeOK /\ Decisions \subseteq Beads
  BY DecisionsAssumption DEF DecTypeOK
<1>3. /\ ClientTypeOK' /\ calls[c] # NoCall /\ calls[c] \in Call
      /\ \A e \in Clients : e # c => calls'[e] = calls[e]
      /\ calls'[c] = IF result = "ok" /\ calls[c].closing
                     THEN [calls[c] EXCEPT !.at = "close"] ELSE NoCall
      /\ result = "failed" => beads' = beads
      /\ result # "failed" =>
           /\ beads[d] # NoBead
           /\ beads' = [beads EXCEPT ![d] = [beads[d] EXCEPT !.fields = calls[c].fields]]
  BY <1>1, <1>2, WriteEffect
<1>4. d \in Decisions /\ d \in Beads /\ beads[d] # NoBead
  BY <1>2, <1>3 DEF ChoiceInv
<1>5. beads[d] \in Bead /\ beads \in [Beads -> Bead \cup {NoBead}] /\ NoBead \notin Bead
  BY <1>2, <1>4, NoBeadAssumption DEF ClientTypeOK
<1>6. CASE result = "failed"
  BY <1>3, <1>4, <1>6
<1>7. CASE result # "failed"
  <2> DEFINE new == [beads[d] EXCEPT !.fields = calls[c].fields]
  <2>1. new.open = beads[d].open /\ new.fields = calls[c].fields
    BY <1>5 DEF Bead
  <2>2. beads'[d] = new /\ \A b \in Beads : b # d => beads'[b] = beads[b]
    BY <1>3, <1>4, <1>5, <1>7
  <2>3. new \in Bead
    BY <1>3, <1>5 DEF Bead, Call
  <2> HIDE DEF new
  <2>4. QED BY <1>3, <1>4, <1>5, <2>1, <2>2, <2>3
<1>8. QED BY <1>6, <1>7

\* The close of a click: if the bead was open, it is heard with the choice the bead has.
LEMMA CloseDecisionEffect ==
  ASSUME DecTypeOK, ChoiceInv, NEW c \in Clients, CloseDecision(c)
  PROVE  LET d == calls[c].bead
             event == [bead |-> d, chosen |-> Chosen(d)] IN
         /\ ClientTypeOK' /\ calls[c] # NoCall /\ d \in Decisions
         /\ Chosen(d) \in Choices /\ event \in CloseEvent
         /\ calls'[c] = NoCall /\ \A e \in Clients : e # c => calls'[e] = calls[e]
         /\ \A b \in Beads : b # d => beads'[b] = beads[b]
         /\ beads'[d] # NoBead /\ beads'[d].fields = beads[d].fields
         /\ \/ beads'[d] = beads[d] /\ closedQ' = closedQ
            \/ ~beads'[d].open /\ closedQ' = IF IsOpen(d) THEN Heard("decisions", closedQ, event)
                                                     ELSE closedQ
<1> DEFINE d == calls[c].bead
<1>1. PICK result \in RpcResults : CloseBead(c, result)
  BY DEF CloseDecision
<1>2. ClientTypeOK /\ Decisions \subseteq Beads /\ Choices \subseteq Values
  BY DecisionsAssumption DEF DecTypeOK
<1>3. /\ ClientTypeOK' /\ calls[c] # NoCall /\ calls[c].at = "close"
      /\ calls' = [calls EXCEPT ![c] = NoCall]
      /\ \/ beads' = beads
         \/ /\ beads[d] # NoBead
            /\ beads' = [beads EXCEPT ![d] = [beads[d] EXCEPT !.open = FALSE]]
  BY <1>1, <1>2, CloseEffect
<1>4. d \in Decisions /\ d \in Beads /\ beads[d] # NoBead /\ Chosen(d) \in Choices
  BY <1>2, <1>3 DEF ChoiceInv
<1>5. beads[d] \in Bead /\ beads \in [Beads -> Bead \cup {NoBead}] /\ NoBead \notin Bead
        /\ calls \in [Clients -> Call \cup {NoCall}]
  BY <1>2, <1>4, NoBeadAssumption DEF ClientTypeOK
<1>6. closedQ' = IF IsOpen(d) /\ ~beads'[d].open
                 THEN Heard("decisions", closedQ, [bead |-> d, chosen |-> Chosen(d)]) ELSE closedQ
  BY DEF CloseDecision, Chosen
<1>7. [bead |-> d, chosen |-> Chosen(d)] \in CloseEvent
  BY <1>2, <1>4 DEF CloseEvent
<1> DEFINE event == [bead |-> d, chosen |-> Chosen(d)]
<1>8. /\ calls'[c] = NoCall /\ \A e \in Clients : e # c => calls'[e] = calls[e]
  BY <1>3, <1>5
<1>9. /\ \A b \in Beads : b # d => beads'[b] = beads[b]
      /\ beads'[d] # NoBead /\ beads'[d].fields = beads[d].fields
      /\ \/ beads'[d] = beads[d] /\ closedQ' = closedQ
         \/ ~beads'[d].open /\ closedQ' = IF IsOpen(d) THEN Heard("decisions", closedQ, event)
                                                   ELSE closedQ
  <2>1. CASE beads' = beads
    BY <1>4, <1>6, <2>1 DEF IsOpen
  <2>2. CASE beads' = [beads EXCEPT ![d] = [beads[d] EXCEPT !.open = FALSE]]
    <3> DEFINE new == [beads[d] EXCEPT !.open = FALSE]
    <3>1. new.open = FALSE /\ new.fields = beads[d].fields /\ new \in Bead
      BY <1>5 DEF Bead
    <3>2. beads'[d] = new /\ \A b \in Beads : b # d => beads'[b] = beads[b]
      BY <1>4, <1>5, <2>2
    <3> HIDE DEF new
    <3>3. beads'[d] # NoBead /\ ~beads'[d].open
      BY <1>5, <3>1, <3>2
    <3>4. QED BY <1>6, <3>1, <3>2, <3>3
  <2>3. QED BY <1>3, <2>1, <2>2
<1>10. QED BY <1>3, <1>4, <1>7, <1>8, <1>9

\* A new bead is open.
LEMMA OpenEffect ==
  ASSUME ClientTypeOK, NEW b \in Beads, beads[b] = NoBead, "" \in Notes, calls' = calls,
         beads' = [beads EXCEPT ![b] = [open |-> TRUE, fields |-> NoFields, notes |-> ""]]
  PROVE  /\ ClientTypeOK' /\ beads'[b] # NoBead /\ beads'[b].open
         /\ \A a \in Beads : a # b => beads'[a] = beads[a]
<1> DEFINE new == [open |-> TRUE, fields |-> NoFields, notes |-> ""]
<1>1. NoFields \in [Keys -> Values]
  BY ValuesAssumption DEF NoFields
<1>2. new \in Bead /\ new.open
  BY <1>1 DEF Bead
<1>3. beads' = [beads EXCEPT ![b] = new]
  OBVIOUS
<1> HIDE DEF new
<1>4. QED BY <1>2, <1>3, NoBeadAssumption DEF ClientTypeOK

\* An answer closes the bead with its choice.
LEMMA AnswerEffect ==
  ASSUME DecTypeOK, NEW d \in Decisions, AnswerDecision(d)
  PROVE  /\ ClientTypeOK' /\ calls' = calls /\ IsOpen(d)
         /\ \A b \in Beads : b # d => beads'[b] = beads[b]
         /\ beads'[d] # NoBead /\ ~beads'[d].open /\ Chosen(d)' \in Choices
         /\ [bead |-> d, chosen |-> Chosen(d)'] \in CloseEvent
         /\ closedQ' = Heard("decisions", closedQ, [bead |-> d, chosen |-> Chosen(d)'])
<1>1. PICK choice \in Choices :
        /\ beads' = [beads EXCEPT ![d].open = FALSE, ![d].fields["chosen"] = choice]
        /\ closedQ' = Heard("decisions", closedQ, [bead |-> d, chosen |-> choice])
  BY DEF AnswerDecision
<1>2. /\ ClientTypeOK /\ d \in Beads /\ "chosen" \in Keys /\ choice \in Values
      /\ calls' = calls /\ IsOpen(d)
  BY DecisionsAssumption DEF DecTypeOK, AnswerDecision
<1>3. beads[d] \in Bead /\ beads \in [Beads -> Bead \cup {NoBead}] /\ NoBead \notin Bead
  BY <1>2, NoBeadAssumption DEF ClientTypeOK, IsOpen
<1> DEFINE fields == [beads[d].fields EXCEPT !["chosen"] = choice]
           new == [open |-> FALSE, fields |-> fields, notes |-> beads[d].notes]
<1>4. fields \in [Keys -> Values] /\ fields["chosen"] = choice
  BY <1>2, <1>3 DEF Bead
<1>5. beads'[d] = new /\ \A b \in Beads : b # d => beads'[b] = beads[b]
  BY <1>1, <1>2, <1>3 DEF Bead
<1>6. beads' \in [Beads -> Bead \cup {NoBead}]
  <2>1. DOMAIN beads' = Beads /\ beads' = [b \in Beads |-> beads'[b]]
    BY <1>1, <1>3
  <2>2. new \in Bead
    BY <1>3, <1>4 DEF Bead
  <2>3. QED BY <1>3, <1>5, <2>1, <2>2
<1>7. new \in Bead /\ new.fields["chosen"] = choice /\ ~new.open
  BY <1>3, <1>4 DEF Bead
<1> HIDE DEF new, fields
<1>8. Chosen(d)' = choice /\ beads'[d] # NoBead /\ ~beads'[d].open
  BY <1>3, <1>5, <1>7 DEF Chosen
<1>9. [bead |-> d, chosen |-> choice] \in CloseEvent
  BY <1>2 DEF CloseEvent
<1>10. QED BY <1>1, <1>2, <1>5, <1>6, <1>8, <1>9 DEF ClientTypeOK

\* A decision that is closed stays closed.
LEMMA ClosedForGood ==
  ASSUME DecInv, [DecNext]_decVars, NEW d \in Decisions, Closed(d)
  PROVE  Closed(d)'
<1>1. DecTypeOK /\ ChoiceInv /\ ClientTypeOK /\ d \in Beads
  BY DecisionsAssumption DEF DecInv, DecTypeOK
<1>2. CASE beads' = beads
  BY <1>2 DEF Closed
<1>3. ASSUME NEW c \in Clients, WriteChoice(c) PROVE Closed(d)'
  BY <1>1, <1>3, WriteChoiceEffect DEF Closed
<1>4. ASSUME NEW c \in Clients, CloseDecision(c) PROVE Closed(d)'
  BY <1>1, <1>4, CloseDecisionEffect DEF Closed
<1>5. ASSUME NEW b \in Decisions, OpenDecision(b) PROVE Closed(d)'
  BY <1>1, <1>5, DecisionsAssumption DEF OpenDecision, Closed, ClientTypeOK
<1>6. ASSUME NEW b \in Decisions, AnswerDecision(b) PROVE Closed(d)'
  BY <1>1, <1>6, AnswerEffect DEF Closed
<1>7. ASSUME NEW m \in Mails, SendMail(m) PROVE Closed(d)'
  BY <1>1, <1>7, DecisionsAssumption DEF SendMail, Closed, ClientTypeOK
<1>8. ASSUME NEW c \in Clients, NEW b \in Decisions, Click(c, b) PROVE beads' = beads
  BY <1>1, <1>8, ClickEffect
<1>9. QED
  BY <1>2, <1>3, <1>4, <1>5, <1>6, <1>7, <1>8
     DEF DecNext, decVars, clientVars, Clicks, handleCreated, handleClosed, Crash, PostMessage,
         StoreTimestamp, UpdateMessage, nudgeAgent, handleMail, Connect, Connection

-----------------------------------------------------------------------------
(* Types, and what is heard.                                               *)

\* The invariant holds at first.
LEMMA DecInvInit == DecInit => DecInv
<1> SUFFICES ASSUME DecInit PROVE DecInv
  OBVIOUS
<1>1. PICK agent \in [open : {TRUE}, notes : Notes,
                      fields : {[NoFields EXCEPT !["coop_url"] = url] :
                                  url \in Values \ Choices}] :
        beads = [b \in Beads |-> IF b = Agent THEN agent ELSE NoBead]
  BY DEF DecInit
<1>2. agent.fields \in [Keys -> Values]
  <2>1. PICK url \in Values : agent.fields = [NoFields EXCEPT !["coop_url"] = url]
    BY <1>1
  <2>2. NoFields \in [Keys -> Values]
    BY ValuesAssumption DEF NoFields
  <2>3. QED BY <2>1, <2>2
<1>3. agent \in Bead
  BY <1>1, <1>2 DEF Bead
<1>4. ClientTypeOK
  BY <1>1, <1>3 DEF ClientTypeOK, ClientInit, DecInit
<1>5. createdQ \in Seq(Decisions) /\ closedQ \in Seq(CloseEvent) /\ mailQ \in Seq(MailEvent)
      /\ DOMAIN closedQ = {}
  BY DEF DecInit
<1>6. slack \in [Decisions -> {Nothing, "asked"} \cup Choices]
      /\ told \in [Decisions -> SUBSET Choices]
  BY DEF DecInit
<1>7. conn \in [Watchers -> {"down", "up", "broken", "closed"}]
  BY DEF DecInit
<1>8. DecTypeOK
  BY <1>4, <1>5, <1>6, <1>7 DEF DecTypeOK, DecInit
<1>9. ChoiceInv
  <2>1. \A d \in Decisions : beads[d] = NoBead
    BY <1>1, DecisionsAssumption
  <2>2. \A c \in Clients : calls[c] = NoCall
    BY DEF DecInit, ClientInit
  <2>3. QED BY <2>1, <2>2 DEF ChoiceInv, Closed
<1>10. HeardInv
  BY <1>5 DEF HeardInv, DecInit
<1>11. QED BY <1>8, <1>9, <1>10 DEF DecInv

\* Steps that leave beads and calls alone keep what is known of choices.
LEMMA ChoiceFrame == ChoiceInv /\ UNCHANGED clientVars => ChoiceInv'
BY DEF ChoiceInv, clientVars, Closed, Chosen

\* Every step keeps the invariant.
LEMMA DecInvStep == DecInv /\ [DecNext]_decVars => DecInv'
<1> SUFFICES ASSUME DecInv, [DecNext]_decVars PROVE DecInv'
  OBVIOUS
<1>1. DecTypeOK /\ ChoiceInv /\ HeardInv /\ ClientTypeOK /\ Decisions \subseteq Beads /\ "" \in Notes
  BY DecisionsAssumption DEF DecInv, DecTypeOK
<1>2. \A d \in Decisions : Closed(d) => Closed(d)'
  BY ClosedForGood
<1>3. /\ \A i \in DOMAIN closedQ : /\ closedQ[i].bead \in Decisions
                                  /\ closedQ[i].chosen \in Choices /\ Closed(closedQ[i].bead)
      /\ closing # Nothing => /\ closing.bead \in Decisions /\ closing.chosen \in Choices
                              /\ Closed(closing.bead)
  <2>1. \A i \in DOMAIN closedQ : closedQ[i] \in CloseEvent
    BY <1>1, QueueElement DEF DecTypeOK
  <2>2. QED BY <1>1, <2>1 DEF HeardInv, DecTypeOK, CloseEvent
<1>4. CASE UNCHANGED decVars
  <2>1. UNCHANGED clientVars
    BY <1>4 DEF decVars
  <2>2. DecTypeOK'
    BY <1>1, <1>4 DEF DecTypeOK, ClientTypeOK, decVars, clientVars, natsVars, handlerVars, agentVars
  <2>3. HeardInv'
    BY <1>1, <1>4 DEF HeardInv, Closed, decVars, clientVars, natsVars, handlerVars
  <2>4. QED BY <1>1, <2>1, <2>2, <2>3, ChoiceFrame DEF DecInv
<1>5. CASE Crash
  <2>1. beads' = beads /\ ClientTypeOK' /\ \A c \in Clients : calls'[c] = NoCall
    BY <1>1, <1>5 DEF Crash, ClientTypeOK
  <2>2. AwaitsNudge \subseteq Decisions \cup Mails
    <3>1. \A i \in DOMAIN closedQ : closedQ[i].bead \in Decisions
      BY <1>3
    <3>2. \A i \in DOMAIN mailQ : mailQ[i].bead \in Mails
      <4>1. \A i \in DOMAIN mailQ : mailQ[i] \in MailEvent
        BY <1>1, QueueElement DEF DecTypeOK
      <4>2. QED BY <4>1 DEF MailEvent
    <3>3. closing # Nothing => closing.bead \in Decisions
      BY <1>1 DEF DecTypeOK, CloseEvent
    <3>4. QED BY <3>1, <3>2, <3>3 DEF AwaitsNudge
  <2>3. conn' \in [Watchers -> {"down", "up", "broken", "closed"}]
    BY <1>5 DEF Crash
  <2>4. DecTypeOK'
    <3>1. /\ createdQ' \in Seq(Decisions) /\ closedQ' \in Seq(CloseEvent)
          /\ mailQ' \in Seq(MailEvent)
      BY <1>5 DEF Crash
    <3>2. /\ UNCHANGED <<slack, told, mailed, contested>> /\ missed' = missed \cup AwaitsNudge
          /\ posting' = Nothing /\ closing' = Nothing /\ messages' = {}
      BY <1>5 DEF Crash
    <3>3. QED BY <1>1, <2>1, <2>2, <2>3, <3>1, <3>2 DEF DecTypeOK
  <2>5. ChoiceInv'
    BY <1>1, <2>1 DEF ChoiceInv, Closed, Chosen
  <2>6. HeardInv'
    BY <1>5 DEF Crash, HeardInv
  <2>7. QED BY <2>4, <2>5, <2>6 DEF DecInv
<1>6. CASE PostMessage
  <2>1. UNCHANGED <<clientVars, conn, closedQ, mailQ, closing, messages, agentVars, contested>>
        /\ createdQ # <<>> /\ createdQ' = Tail(createdQ)
    BY <1>6 DEF PostMessage
  <2>2. Head(createdQ) \in Decisions /\ createdQ' \in Seq(Decisions)
    BY <1>1, <2>1, QueueTail DEF DecTypeOK
  <2>3. slack' \in [Decisions -> {Nothing, "asked"} \cup Choices]
        /\ posting' \in Decisions \cup {Nothing}
    BY <1>1, <1>6, <2>2 DEF PostMessage, DecTypeOK
  <2>4. DecTypeOK'
    BY <1>1, <2>1, <2>2, <2>3 DEF DecTypeOK, ClientTypeOK, clientVars, agentVars
  <2>5. HeardInv'
    BY <1>1, <2>1 DEF HeardInv, clientVars, Closed
  <2>6. QED BY <1>1, <2>1, <2>4, <2>5, ChoiceFrame DEF DecInv
<1>7. CASE StoreTimestamp
  <2>1. UNCHANGED <<clientVars, natsVars, closing, slack, agentVars, contested>>
        /\ messages' \subseteq Decisions /\ posting' = Nothing
    BY <1>1, <1>7 DEF StoreTimestamp, DecTypeOK
  <2>2. DecTypeOK'
    BY <1>1, <2>1 DEF DecTypeOK, ClientTypeOK, clientVars, natsVars, agentVars
  <2>3. HeardInv'
    BY <1>1, <2>1 DEF HeardInv, clientVars, natsVars, Closed
  <2>4. QED BY <1>1, <2>1, <2>2, <2>3, ChoiceFrame DEF DecInv
<1>8. CASE UpdateMessage
  <2>1. UNCHANGED <<clientVars, conn, createdQ, mailQ, posting, agentVars, contested>>
        /\ closedQ # <<>> /\ closing' = Head(closedQ) /\ closedQ' = Tail(closedQ)
    BY <1>8 DEF UpdateMessage
  <2>2. /\ Head(closedQ) \in CloseEvent /\ closedQ' \in Seq(CloseEvent)
        /\ 1 \in DOMAIN closedQ /\ Head(closedQ) = closedQ[1]
        /\ \A i \in DOMAIN closedQ' : i + 1 \in DOMAIN closedQ /\ closedQ'[i] = closedQ[i + 1]
    BY <1>1, <2>1, QueueTail DEF DecTypeOK
  <2>3. slack' \in [Decisions -> {Nothing, "asked"} \cup Choices] /\ messages' \subseteq Decisions
    <3>1. Head(closedQ).bead \in Decisions /\ Head(closedQ).chosen \in Choices
      BY <1>1, <2>2 DEF HeardInv, CloseEvent
    <3>2. QED BY <1>1, <1>8, <3>1 DEF UpdateMessage, DecTypeOK
  <2>4. DecTypeOK'
    BY <1>1, <2>1, <2>2, <2>3 DEF DecTypeOK, ClientTypeOK, clientVars, agentVars
  <2>5. HeardInv'
    BY <1>1, <2>1, <2>2 DEF HeardInv, clientVars, Closed
  <2>6. QED BY <1>1, <2>1, <2>4, <2>5, ChoiceFrame DEF DecInv
<1>9. CASE nudgeAgent
  <2>1. UNCHANGED <<clientVars, natsVars, posting, messages, slack, mailed, contested>>
        /\ closing # Nothing /\ closing' = Nothing
    BY <1>9 DEF nudgeAgent
  <2>2. closing.bead \in Decisions /\ closing.chosen \in Choices
    BY <1>1, <2>1 DEF DecTypeOK, HeardInv, CloseEvent
  <2>3. told' \in [Decisions -> SUBSET Choices] /\ missed' \subseteq Decisions \cup Mails
    <3>1. PICK arrives \in BOOLEAN :
            /\ missed' = IF arrives THEN missed ELSE missed \cup {closing.bead}
            /\ told' = IF arrives
                       THEN [told EXCEPT ![closing.bead] = @ \cup {closing.chosen}] ELSE told
      BY <1>9 DEF nudgeAgent, Nudge
    <3>2. QED BY <1>1, <2>2, <3>1 DEF DecTypeOK
  <2>4. DecTypeOK'
    BY <1>1, <2>1, <2>3 DEF DecTypeOK, ClientTypeOK, clientVars, natsVars
  <2>5. HeardInv'
    BY <1>1, <2>1 DEF HeardInv, clientVars, natsVars, Closed
  <2>6. QED BY <1>1, <2>1, <2>4, <2>5, ChoiceFrame DEF DecInv
<1>10. CASE handleMail
  <2>1. UNCHANGED <<clientVars, conn, createdQ, closedQ, handlerVars, slack, told, contested>>
        /\ mailQ # <<>> /\ mailQ' = Tail(mailQ)
    BY <1>10 DEF handleMail
  <2>2. Head(mailQ).bead \in Mails /\ mailQ' \in Seq(MailEvent)
    <3>1. Head(mailQ) \in MailEvent /\ mailQ' \in Seq(MailEvent)
      BY <1>1, <2>1, QueueTail DEF DecTypeOK
    <3>2. QED BY <3>1 DEF MailEvent
  <2>3. mailed' \subseteq Mails /\ missed' \subseteq Decisions \cup Mails
    BY <1>1, <1>10, <2>2 DEF handleMail, Nudge, DecTypeOK
  <2>4. DecTypeOK'
    BY <1>1, <2>1, <2>2, <2>3 DEF DecTypeOK, ClientTypeOK, clientVars, handlerVars
  <2>5. HeardInv'
    BY <1>1, <2>1 DEF HeardInv, clientVars, handlerVars, Closed
  <2>6. QED BY <1>1, <2>1, <2>4, <2>5, ChoiceFrame DEF DecInv
<1>11. ASSUME NEW c \in Clients, WriteChoice(c) PROVE DecInv'
  <2> DEFINE d == calls[c].bead
  <2>1. UNCHANGED <<natsVars, handlerVars, slack, agentVars, contested>>
    BY <1>11 DEF WriteChoice
  <2>2. /\ ClientTypeOK' /\ calls[c] # NoCall /\ d \in Decisions
        /\ \A e \in Clients : e # c => calls'[e] = calls[e]
        /\ \A b \in Beads : b # d => beads'[b] = beads[b]
        /\ beads'[d] # NoBead /\ beads'[d].open = beads[d].open
        /\ beads'[d] = beads[d] \/ beads'[d].fields = calls[c].fields
        /\ \/ calls'[c] = NoCall
           \/ /\ calls'[c] = [calls[c] EXCEPT !.at = "close"]
              /\ beads'[d].fields = calls[c].fields
    BY <1>1, <1>11, WriteChoiceEffect
  <2>3. DecTypeOK'
    BY <1>1, <2>1, <2>2 DEF DecTypeOK, natsVars, handlerVars, agentVars
  <2>4. HeardInv'
    BY <1>2, <1>3, <2>1 DEF HeardInv, natsVars, handlerVars, Closed
  <2>5. calls[c].fields["chosen"] \in Choices /\ calls[c].closing /\ calls[c] \in Call
    BY <1>1, <2>2 DEF ChoiceInv, ClientTypeOK
  <2>6. \A b \in Decisions : Chosen(b) \in Choices => Chosen(b)' \in Choices
    BY <1>1, <2>2, <2>5 DEF Chosen
  <2>7. \A b \in Decisions : Closed(b)' => Chosen(b)' \in Choices
    BY <1>1, <2>2, <2>5, <2>6 DEF ChoiceInv, Closed, Chosen
  <2>8. ASSUME NEW e \in Clients, calls'[e] # NoCall
        PROVE  /\ calls'[e].bead \in Decisions /\ calls'[e].closing
               /\ calls'[e].fields["chosen"] \in Choices /\ beads'[calls'[e].bead] # NoBead
               /\ calls'[e].at = "close" => beads'[calls'[e].bead].fields["chosen"] \in Choices
    <3>1. CASE e = c
      <4>1. /\ calls'[e].bead = d /\ calls'[e].closing /\ calls'[e].fields = calls[c].fields
            /\ beads'[d].fields = calls[c].fields
        BY <2>2, <2>5, <2>8, <3>1 DEF Call
      <4>2. QED BY <2>2, <2>5, <4>1
    <3>2. CASE e # c
      <4>1. calls'[e] = calls[e]
        BY <2>2, <3>2
      <4>2. /\ calls[e].bead \in Decisions /\ calls[e].closing /\ beads[calls[e].bead] # NoBead
            /\ calls[e].fields["chosen"] \in Choices
            /\ calls[e].at = "close" => Chosen(calls[e].bead) \in Choices
        BY <1>1, <2>8, <4>1 DEF ChoiceInv
      <4>3. beads'[calls[e].bead] # NoBead
        BY <1>1, <2>2, <4>2
      <4>4. QED BY <2>6, <4>1, <4>2, <4>3 DEF Chosen
    <3>3. QED BY <3>1, <3>2
  <2>9. ChoiceInv'
    BY <2>7, <2>8 DEF ChoiceInv, Chosen
  <2>10. QED BY <2>3, <2>4, <2>9 DEF DecInv
<1>12. ASSUME NEW c \in Clients, CloseDecision(c) PROVE DecInv'
  <2> DEFINE d == calls[c].bead
             event == [bead |-> d, chosen |-> Chosen(d)]
  <2>1. UNCHANGED <<conn, createdQ, mailQ, handlerVars, slack, agentVars, contested>>
    BY <1>12 DEF CloseDecision
  <2>2. /\ ClientTypeOK' /\ d \in Decisions /\ Chosen(d) \in Choices /\ event \in CloseEvent
        /\ calls'[c] = NoCall /\ \A e \in Clients : e # c => calls'[e] = calls[e]
        /\ \A b \in Beads : b # d => beads'[b] = beads[b]
        /\ beads'[d] # NoBead /\ beads'[d].fields = beads[d].fields
        /\ \/ beads'[d] = beads[d] /\ closedQ' = closedQ
           \/ ~beads'[d].open /\ closedQ' = IF IsOpen(d) THEN Heard("decisions", closedQ, event)
                                             ELSE closedQ
    BY <1>1, <1>12, CloseDecisionEffect
  <2>3. /\ closedQ' \in Seq(CloseEvent)
        /\ \A i \in DOMAIN closedQ' :
             \/ i \in DOMAIN closedQ /\ closedQ'[i] = closedQ[i]
             \/ ~beads'[d].open /\ closedQ'[i] = event
    <3>1. closedQ \in Seq(CloseEvent)
      BY <1>1 DEF DecTypeOK
    <3>2. QED BY <2>2, <3>1, QueueHeard
  <2>4. DecTypeOK'
    BY <1>1, <2>1, <2>2, <2>3 DEF DecTypeOK, handlerVars, agentVars
  <2>5. \A b \in Decisions : Chosen(b)' = Chosen(b)
    BY <1>1, <2>2 DEF Chosen
  <2>6. ChoiceInv'
    <3>1. ASSUME NEW b \in Decisions, Closed(b)' PROVE Chosen(b)' \in Choices
      <4>1. CASE b = d
        BY <2>2, <2>5, <4>1
      <4>2. CASE b # d
        <5>1. Closed(b)
          BY <1>1, <2>2, <3>1, <4>2 DEF Closed
        <5>2. QED BY <1>1, <2>5, <5>1 DEF ChoiceInv
      <4>3. QED BY <4>1, <4>2
    <3>2. ASSUME NEW e \in Clients, calls'[e] # NoCall
          PROVE  /\ calls'[e].bead \in Decisions /\ calls'[e].closing
                 /\ calls'[e].fields["chosen"] \in Choices /\ beads'[calls'[e].bead] # NoBead
                 /\ calls'[e].at = "close" => beads'[calls'[e].bead].fields["chosen"] \in Choices
      <4>1. calls'[e] = calls[e]
        BY <2>2, <3>2
      <4>2. /\ calls[e].bead \in Decisions /\ calls[e].closing /\ beads[calls[e].bead] # NoBead
            /\ calls[e].fields["chosen"] \in Choices
            /\ calls[e].at = "close" => Chosen(calls[e].bead) \in Choices
        BY <1>1, <3>2, <4>1 DEF ChoiceInv
      <4>3. beads'[calls[e].bead] # NoBead
        BY <1>1, <2>2, <4>2
      <4>4. QED BY <2>5, <4>1, <4>2, <4>3 DEF Chosen
    <3>3. QED BY <3>1, <3>2 DEF ChoiceInv, Chosen
  <2>7. HeardInv'
    <3>1. ASSUME NEW i \in DOMAIN closedQ'
          PROVE  closedQ'[i].chosen \in Choices /\ Closed(closedQ[i].bead)'
      <4>1. CASE i \in DOMAIN closedQ /\ closedQ'[i] = closedQ[i]
        BY <1>2, <1>3, <4>1 DEF Closed
      <4>2. CASE ~beads'[d].open /\ closedQ'[i] = event
        BY <2>2, <4>2 DEF Closed
      <4>3. QED BY <2>3, <4>1, <4>2
    <3>2. closing' = closing
      BY <2>1 DEF handlerVars
    <3>3. QED BY <1>2, <1>3, <3>1, <3>2 DEF HeardInv, Closed
  <2>8. QED BY <2>4, <2>6, <2>7 DEF DecInv
<1>13. ASSUME NEW c \in Clients, NEW d \in Decisions, Click(c, d) PROVE DecInv'
  <2>1. UNCHANGED <<natsVars, handlerVars, slack, agentVars>> /\ Contest(d)
    BY <1>13 DEF Click
  <2>2. /\ ClientTypeOK' /\ beads' = beads /\ beads[d] # NoBead
        /\ \A e \in Clients : e # c => calls'[e] = calls[e]
        /\ \/ calls' = calls
           \/ /\ calls'[c].bead = d /\ calls'[c].closing /\ calls'[c].at = "write"
              /\ calls'[c].fields["chosen"] \in Choices
    BY <1>1, <1>13, ClickEffect
  <2>3. DecTypeOK'
    BY <1>1, <2>1, <2>2 DEF DecTypeOK, natsVars, handlerVars, agentVars, Contest
  <2>4. HeardInv'
    BY <1>1, <2>1, <2>2 DEF HeardInv, natsVars, handlerVars, Closed
  <2>5. ChoiceInv'
    BY <1>1, <2>2 DEF ChoiceInv, Closed, Chosen
  <2>6. QED BY <2>3, <2>4, <2>5 DEF DecInv
<1>14. ASSUME NEW w \in Watchers, Connect(w) \/ Connection(w) PROVE DecInv'
  <2>1. UNCHANGED <<clientVars, createdQ, closedQ, mailQ, handlerVars, slack, agentVars, contested>>
    BY <1>14 DEF Connect, Connection
  <2>2. conn' \in [Watchers -> {"down", "up", "broken", "closed"}]
    BY <1>1, <1>14 DEF Connect, Connection, DecTypeOK
  <2>3. DecTypeOK'
    BY <1>1, <2>1, <2>2 DEF DecTypeOK, ClientTypeOK, clientVars, handlerVars, agentVars
  <2>4. HeardInv'
    BY <1>1, <2>1 DEF HeardInv, clientVars, handlerVars, Closed
  <2>5. QED BY <1>1, <2>1, <2>3, <2>4, ChoiceFrame DEF DecInv
<1>15. ASSUME NEW d \in Decisions, OpenDecision(d) PROVE DecInv'
  <2>1. UNCHANGED <<calls, conn, closedQ, mailQ, handlerVars, slack, agentVars, contested>>
        /\ beads[d] = NoBead /\ createdQ' = Heard("decisions", createdQ, d)
    BY <1>15 DEF OpenDecision
  <2>2. /\ ClientTypeOK' /\ beads'[d] # NoBead /\ beads'[d].open
        /\ \A a \in Beads : a # d => beads'[a] = beads[a]
    BY <1>1, <1>15, OpenEffect DEF OpenDecision
  <2>3. createdQ' \in Seq(Decisions)
    BY <1>1, <2>1, QueueHeard DEF DecTypeOK
  <2>4. DecTypeOK'
    BY <1>1, <2>1, <2>2, <2>3 DEF DecTypeOK, handlerVars, agentVars
  <2>5. HeardInv'
    BY <1>2, <1>3, <2>1 DEF HeardInv, handlerVars, Closed
  <2>6. ChoiceInv'
    BY <1>1, <2>1, <2>2 DEF ChoiceInv, Closed, Chosen
  <2>7. QED BY <2>4, <2>5, <2>6 DEF DecInv
<1>16. ASSUME NEW d \in Decisions, AnswerDecision(d) PROVE DecInv'
  <2> DEFINE event == [bead |-> d, chosen |-> Chosen(d)']
  <2>1. UNCHANGED <<calls, conn, createdQ, mailQ, handlerVars, slack, agentVars>> /\ Contest(d)
    BY <1>16 DEF AnswerDecision
  <2>2. /\ ClientTypeOK' /\ \A b \in Beads : b # d => beads'[b] = beads[b]
        /\ beads'[d] # NoBead /\ ~beads'[d].open /\ Chosen(d)' \in Choices
        /\ event \in CloseEvent /\ closedQ' = Heard("decisions", closedQ, event)
    BY <1>1, <1>16, AnswerEffect
  <2>3. /\ closedQ' \in Seq(CloseEvent)
        /\ \A i \in DOMAIN closedQ' :
             \/ i \in DOMAIN closedQ /\ closedQ'[i] = closedQ[i]
             \/ closedQ'[i] = event
    <3>1. closedQ \in Seq(CloseEvent)
      BY <1>1 DEF DecTypeOK
    <3>2. QED BY <2>2, <3>1, QueueHeard
  <2>4. DecTypeOK'
    BY <1>1, <2>1, <2>2, <2>3 DEF DecTypeOK, handlerVars, agentVars, Contest
  <2>5. HeardInv'
    <3>1. ASSUME NEW i \in DOMAIN closedQ'
          PROVE  closedQ'[i].chosen \in Choices /\ Closed(closedQ[i].bead)'
      <4>1. CASE i \in DOMAIN closedQ /\ closedQ'[i] = closedQ[i]
        BY <1>2, <1>3, <4>1 DEF Closed
      <4>2. CASE closedQ'[i] = event
        BY <2>2, <4>2 DEF Closed
      <4>3. QED BY <2>3, <4>1, <4>2
    <3>2. closing' = closing
      BY <2>1 DEF handlerVars
    <3>3. QED BY <1>2, <1>3, <3>1, <3>2 DEF HeardInv, Closed
  <2>6. \A b \in Decisions : Chosen(b) \in Choices => Chosen(b)' \in Choices
    BY <1>1, <2>2 DEF Chosen
  <2>7. ChoiceInv'
    BY <1>1, <2>1, <2>2, <2>6 DEF ChoiceInv, Closed, Chosen
  <2>8. QED BY <2>4, <2>5, <2>7 DEF DecInv
<1>17. ASSUME NEW m \in Mails, SendMail(m) PROVE DecInv'
  <2>1. UNCHANGED <<calls, conn, createdQ, closedQ, handlerVars, slack, agentVars, contested>>
        /\ beads[m] = NoBead /\ m \in Beads /\ m \notin Decisions
    BY <1>17, DecisionsAssumption DEF SendMail
  <2>2. ClientTypeOK' /\ \A a \in Beads : a # m => beads'[a] = beads[a]
    BY <1>1, <1>17, <2>1, OpenEffect DEF SendMail
  <2>3. mailQ' \in Seq(MailEvent)
    <3>1. PICK mail \in MailEvent : mailQ' = Heard("mail", mailQ, mail)
      BY <1>17 DEF SendMail
    <3>2. QED BY <1>1, <3>1, QueueHeard DEF DecTypeOK
  <2>4. DecTypeOK'
    BY <1>1, <2>1, <2>2, <2>3 DEF DecTypeOK, handlerVars, agentVars
  <2>5. HeardInv'
    BY <1>2, <1>3, <2>1 DEF HeardInv, handlerVars, Closed
  <2>6. ChoiceInv'
    BY <1>1, <2>1, <2>2 DEF ChoiceInv, Closed, Chosen
  <2>7. QED BY <2>4, <2>5, <2>6 DEF DecInv
<1>18. QED
  BY <1>4, <1>5, <1>6, <1>7, <1>8, <1>9, <1>10, <1>11, <1>12, <1>13, <1>14, <1>15, <1>16, <1>17
     DEF DecNext, handleCreated, handleClosed, Clicks

\* Every variable keeps its type: a queue never holds an event of another bead's kind, a
\* message shows a choice that was offered, and the agent is told nothing else.
THEOREM DecTypeCorrect == DecSpec => []DecTypeOK
<1>1. DecSpec => []DecInv
  BY DecInvInit, DecInvStep, PTL DEF DecSpec
<1>2. DecInv => DecTypeOK
  BY DEF DecInv
<1>3. QED BY <1>1, <1>2, PTL

-----------------------------------------------------------------------------
(* One post for each decision.                                             *)

\* A decision that exists is there for good.
LEMMA BeadsStay ==
  ASSUME DecInv, [DecNext]_decVars, NEW d \in Decisions, beads[d] # NoBead
  PROVE  beads'[d] # NoBead
<1>1. DecTypeOK /\ ChoiceInv /\ ClientTypeOK /\ d \in Beads
  BY DecisionsAssumption DEF DecInv, DecTypeOK
<1>2. ASSUME NEW c \in Clients, WriteChoice(c) PROVE beads'[d] # NoBead
  BY <1>1, <1>2, WriteChoiceEffect
<1>3. ASSUME NEW c \in Clients, CloseDecision(c) PROVE beads'[d] # NoBead
  BY <1>1, <1>3, CloseDecisionEffect
<1>4. ASSUME NEW b \in Decisions, OpenDecision(b) PROVE beads'[d] # NoBead
  BY <1>1, <1>4 DEF OpenDecision, ClientTypeOK
<1>5. ASSUME NEW b \in Decisions, AnswerDecision(b) PROVE beads'[d] # NoBead
  BY <1>1, <1>5, AnswerEffect
<1>6. ASSUME NEW m \in Mails, SendMail(m) PROVE beads'[d] # NoBead
  BY <1>1, <1>6 DEF SendMail, ClientTypeOK
<1>7. ASSUME NEW c \in Clients, NEW b \in Decisions, Click(c, b) PROVE beads' = beads
  BY <1>1, <1>7, ClickEffect
<1>8. QED
  BY <1>2, <1>3, <1>4, <1>5, <1>6, <1>7
     DEF DecNext, decVars, clientVars, Clicks, handleCreated, handleClosed, Crash, PostMessage,
         StoreTimestamp, UpdateMessage, nudgeAgent, handleMail, Connect, Connection

\* The posts hold at first.
LEMMA PostInvInit == DecInit => PostInv
<1> SUFFICES ASSUME DecInit PROVE PostInv
  OBVIOUS
<1>1. DOMAIN createdQ = {} /\ messages = {} /\ posting = Nothing
      /\ \A d \in Decisions : slack[d] = Nothing
  BY DEF DecInit
<1>2. QED BY <1>1 DEF PostInv

\* Every step keeps the posts.
LEMMA PostInvStep == DecInv /\ PostInv /\ [DecNext]_decVars => PostInv'
<1> SUFFICES ASSUME DecInv, PostInv, [DecNext]_decVars PROVE PostInv'
  OBVIOUS
<1>1. DecTypeOK /\ HeardInv /\ ClientTypeOK /\ Decisions \subseteq Beads
  BY DecisionsAssumption DEF DecInv, DecTypeOK
<1>2. \A d \in Decisions : beads[d] # NoBead => beads'[d] # NoBead
  BY BeadsStay
<1>3. \A i \in DOMAIN createdQ : createdQ[i] \in Decisions
  BY <1>1, QueueElement DEF DecTypeOK
<1>4. Nothing \notin Decisions /\ Nothing \notin Choices /\ Nothing # "asked"
  BY NothingAssumption
<1>5. ASSUME UNCHANGED <<createdQ, slack, messages, posting>> PROVE PostInv'
  BY <1>2, <1>3, <1>5 DEF PostInv
<1>6. CASE Crash
  <2>1. DOMAIN createdQ' = {} /\ messages' = {} /\ posting' = Nothing /\ UNCHANGED <<slack, beads>>
    BY <1>6 DEF Crash
  <2>2. QED BY <2>1 DEF PostInv
<1>7. CASE PostMessage
  <2> DEFINE h == Head(createdQ)
  <2>1. UNCHANGED <<beads, messages>> /\ createdQ # <<>> /\ createdQ' = Tail(createdQ)
    BY <1>7 DEF PostMessage, clientVars
  <2>2. /\ h \in Decisions /\ 1 \in DOMAIN createdQ /\ h = createdQ[1]
        /\ \A i \in DOMAIN createdQ' : /\ i \in Nat /\ i + 1 # 1 /\ i + 1 \in DOMAIN createdQ
                                     /\ createdQ'[i] = createdQ[i + 1]
    BY <1>1, <2>1, QueueTail DEF DecTypeOK
  <2>3. \/ slack' = slack /\ posting' = Nothing
        \/ slack' = [slack EXCEPT ![h] = "asked"] /\ posting' \in {h, Nothing}
    BY <1>7 DEF PostMessage, Ends
  <2>4. /\ \A d \in Decisions : d # h => slack'[d] = slack[d]
        /\ slack[h] = Nothing /\ beads[h] # NoBead
        /\ posting' # Nothing => slack'[h] # Nothing
        /\ posting' \in {h, Nothing}
    BY <1>1, <1>4, <2>2, <2>3 DEF PostInv, DecTypeOK
  <2>5. \A i \in DOMAIN createdQ' : createdQ'[i] # h
    BY <2>2 DEF PostInv
  <2>6. \A i \in DOMAIN createdQ' : slack'[createdQ'[i]] = Nothing /\ beads'[createdQ'[i]] # NoBead
    BY <1>3, <2>1, <2>2, <2>4, <2>5 DEF PostInv
  <2>7. \A i, j \in DOMAIN createdQ' : createdQ'[i] = createdQ'[j] => i = j
    <3>1. ASSUME NEW i \in DOMAIN createdQ', NEW j \in DOMAIN createdQ', createdQ'[i] = createdQ'[j]
          PROVE  i = j
      <4>1. i \in Nat /\ j \in Nat /\ i + 1 = j + 1
        BY <2>2, <3>1 DEF PostInv
      <4>2. QED BY <4>1
    <3>2. QED BY <3>1
  <2>8. \A d \in Decisions : beads'[d] = NoBead => slack'[d] = Nothing
    BY <2>1, <2>4 DEF PostInv
  <2>9. \A d \in messages' : slack'[d] # Nothing
    BY <1>1, <2>1, <2>4 DEF PostInv, DecTypeOK
  <2>10. QED BY <2>4, <2>6, <2>7, <2>8, <2>9 DEF PostInv
<1>8. CASE StoreTimestamp
  <2>1. UNCHANGED <<beads, createdQ, slack>> /\ posting # Nothing /\ posting' = Nothing
        /\ messages' = messages \cup {posting}
    BY <1>8 DEF StoreTimestamp, clientVars, natsVars
  <2>2. QED BY <2>1 DEF PostInv
<1>9. CASE UpdateMessage
  <2> DEFINE event == Head(closedQ)
  <2>1. UNCHANGED <<beads, createdQ, posting>> /\ closedQ # <<>>
    BY <1>9 DEF UpdateMessage, clientVars
  <2>2. event \in CloseEvent /\ 1 \in DOMAIN closedQ /\ event = closedQ[1]
    BY <1>1, <2>1, QueueTail DEF DecTypeOK
  <2>3. event.bead \in Decisions /\ event.chosen \in Choices /\ beads[event.bead] # NoBead
    BY <1>1, <2>2 DEF HeardInv, CloseEvent, Closed
  <2>4. /\ messages' \subseteq messages
        /\ \/ slack' = slack
           \/ event.bead \in messages /\ slack' = [slack EXCEPT ![event.bead] = event.chosen]
    BY <1>9 DEF UpdateMessage
  <2>5. \A d \in Decisions : slack'[d] = slack[d] \/ (slack'[d] # Nothing /\ slack[d] # Nothing)
    BY <1>1, <1>4, <2>3, <2>4 DEF PostInv, DecTypeOK
  <2>6. QED BY <1>1, <1>3, <2>1, <2>4, <2>5 DEF PostInv, DecTypeOK
<1>10. ASSUME NEW d \in Decisions, OpenDecision(d) PROVE PostInv'
  <2>1. UNCHANGED <<slack, messages, posting>> /\ beads[d] = NoBead
        /\ createdQ' = Heard("decisions", createdQ, d)
    BY <1>10 DEF OpenDecision, handlerVars
  <2>2. beads'[d] # NoBead
    BY <1>1, <1>10, OpenEffect, DecisionsAssumption DEF OpenDecision
  <2>3. \A i \in DOMAIN createdQ' :
          \/ i \in DOMAIN createdQ /\ createdQ'[i] = createdQ[i]
          \/ i \notin DOMAIN createdQ /\ i = Len(createdQ) + 1 /\ createdQ'[i] = d
    BY <1>1, <2>1, QueueHeard DEF DecTypeOK
  <2>4. slack[d] = Nothing /\ \A i \in DOMAIN createdQ : createdQ[i] # d
    BY <2>1 DEF PostInv
  <2>5. \A i \in DOMAIN createdQ' : slack'[createdQ'[i]] = Nothing /\ beads'[createdQ'[i]] # NoBead
    BY <1>2, <1>3, <2>1, <2>2, <2>3, <2>4 DEF PostInv
  <2>6. \A i, j \in DOMAIN createdQ' : createdQ'[i] = createdQ'[j] => i = j
    BY <2>3, <2>4 DEF PostInv
  <2>7. QED BY <1>2, <2>1, <2>5, <2>6 DEF PostInv
<1>11. QED
  BY <1>5, <1>6, <1>7, <1>8, <1>9, <1>10
     DEF DecNext, decVars, Clicks, handleCreated, handleClosed, nudgeAgent, handleMail, Connect,
         Connection, WriteChoice, CloseDecision, Click, AnswerDecision, SendMail, natsVars, handlerVars

-----------------------------------------------------------------------------
(* One answer for each decision that is answered once.                     *)

\* It holds at first: nothing is closed and nobody clicks.
LEMMA OutcomeInvInit == DecInit => OutcomeInv
<1> SUFFICES ASSUME DecInit PROVE OutcomeInv
  OBVIOUS
<1>1. \A c \in Clients : calls[c] = NoCall
  BY DEF DecInit, ClientInit
<1>2. \A d \in Decisions : beads[d] = NoBead
  BY DecisionsAssumption DEF DecInit
<1>3. QED BY <1>1, <1>2 DEF OutcomeInv, Closed

\* Every step keeps it.
LEMMA OutcomeInvStep == DecInv /\ OutcomeInv /\ [DecNext]_decVars => OutcomeInv'
<1> SUFFICES ASSUME DecInv, OutcomeInv, [DecNext]_decVars PROVE OutcomeInv'
  OBVIOUS
<1>1. DecTypeOK /\ ChoiceInv /\ HeardInv /\ ClientTypeOK /\ Decisions \subseteq Beads /\ "" \in Notes
  BY DecisionsAssumption DEF DecInv, DecTypeOK
<1>2. \A i \in DOMAIN closedQ : closedQ[i] \in CloseEvent /\ Closed(closedQ[i].bead)
  BY <1>1, QueueElement DEF DecTypeOK, HeardInv
<1>3. ASSUME UNCHANGED <<calls, closedQ, closing>>, contested \subseteq contested',
             \A d \in Decisions : Closed(d)' => Closed(d) /\ Chosen(d)' = Chosen(d)
      PROVE  OutcomeInv'
  BY <1>3 DEF OutcomeInv
<1>4. CASE Crash
  <2>1. closedQ' = <<>> /\ closing' = Nothing /\ \A c \in Clients : calls'[c] = NoCall
    BY <1>4 DEF Crash
  <2>2. QED BY <2>1 DEF OutcomeInv
<1>5. CASE UpdateMessage
  <2>1. UNCHANGED <<beads, calls, contested>> /\ closedQ # <<>>
        /\ closing' = Head(closedQ) /\ closedQ' = Tail(closedQ)
    BY <1>5 DEF UpdateMessage, clientVars
  <2>2. /\ 1 \in DOMAIN closedQ /\ closing' = closedQ[1]
        /\ \A i \in DOMAIN closedQ' : i + 1 \in DOMAIN closedQ /\ closedQ'[i] = closedQ[i + 1]
    BY <1>1, <2>1, QueueTail DEF DecTypeOK
  <2>3. QED BY <2>1, <2>2 DEF OutcomeInv, Closed, Chosen
<1>6. CASE nudgeAgent
  <2>1. UNCHANGED <<beads, calls, closedQ, contested>> /\ closing' = Nothing
    BY <1>6 DEF nudgeAgent, clientVars, natsVars
  <2>2. QED BY <2>1 DEF OutcomeInv, Closed, Chosen
<1>7. ASSUME NEW c \in Clients, WriteChoice(c) PROVE OutcomeInv'
  <2> DEFINE d == calls[c].bead
  <2>1. UNCHANGED <<closedQ, closing, contested>>
    BY <1>7 DEF WriteChoice, natsVars, handlerVars
  <2>2. /\ calls[c] # NoCall /\ d \in Decisions /\ calls[c] \in Call
        /\ \A e \in Clients : e # c => calls'[e] = calls[e]
        /\ \A b \in Beads : b # d => beads'[b] = beads[b]
        /\ beads'[d] # NoBead /\ beads'[d].open = beads[d].open
        /\ calls'[c] = NoCall \/ calls'[c] = [calls[c] EXCEPT !.at = "close"]
    BY <1>1, <1>7, WriteChoiceEffect DEF ClientTypeOK
  <2>3. \A e \in Clients : calls'[e] # NoCall => calls[e] # NoCall /\ calls'[e].bead = calls[e].bead
    BY <2>2 DEF Call
  <2>4. beads[d] # NoBead
    BY <2>2, <1>1 DEF ChoiceInv
  <2>5. \A b \in Decisions \ contested : Closed(b)' => Closed(b) /\ Chosen(b)' = Chosen(b)
    <3>1. ASSUME NEW b \in Decisions \ contested, Closed(b)'
          PROVE  Closed(b) /\ Chosen(b)' = Chosen(b)
      <4>1. Closed(b)
        BY <1>1, <2>2, <2>4, <3>1 DEF Closed
      <4>2. b # d
        BY <2>2, <4>1 DEF OutcomeInv
      <4>3. QED BY <1>1, <2>2, <4>1, <4>2 DEF Chosen
    <3>2. QED BY <3>1
  <2> HIDE DEF d
  <2>6. QED BY <2>1, <2>3, <2>5 DEF OutcomeInv
<1>8. ASSUME NEW c \in Clients, CloseDecision(c) PROVE OutcomeInv'
  <2> DEFINE d == calls[c].bead
             event == [bead |-> d, chosen |-> Chosen(d)]
  <2>1. UNCHANGED <<closing, contested>>
    BY <1>8 DEF CloseDecision, handlerVars
  <2>2. /\ d \in Decisions /\ event \in CloseEvent /\ calls[c] # NoCall
        /\ calls'[c] = NoCall /\ \A e \in Clients : e # c => calls'[e] = calls[e]
        /\ \A b \in Beads : b # d => beads'[b] = beads[b]
        /\ beads'[d].fields = beads[d].fields
        /\ \/ beads'[d] = beads[d] /\ closedQ' = closedQ
           \/ closedQ' = IF IsOpen(d) THEN Heard("decisions", closedQ, event) ELSE closedQ
    BY <1>1, <1>8, CloseDecisionEffect
  <2>3. \A i \in DOMAIN closedQ' : \/ i \in DOMAIN closedQ /\ closedQ'[i] = closedQ[i]
                                  \/ closedQ'[i] = event
    <3>1. closedQ \in Seq(CloseEvent)
      BY <1>1 DEF DecTypeOK
    <3>2. QED BY <2>2, <3>1, QueueHeard
  <2>4. \A b \in Decisions : Chosen(b)' = Chosen(b)
    BY <1>1, <2>2 DEF Chosen
  <2>5. event.bead = d /\ event.chosen = Chosen(d)
    OBVIOUS
  <2> HIDE DEF event
  <2>6. ASSUME NEW b \in Decisions \ contested, Closed(b)'
        PROVE  /\ \A e \in Clients : calls'[e] # NoCall => calls'[e].bead # b
               /\ \A i \in DOMAIN closedQ' : closedQ'[i].bead = b => closedQ'[i].chosen = Chosen(b)
               /\ closing # Nothing /\ closing.bead = b => closing.chosen = Chosen(b)
    <3>1. CASE b = d
      <4>1. ~Closed(b)
        BY <2>2, <2>6, <3>1 DEF OutcomeInv
      <4>2. \A e \in Clients : calls'[e] # NoCall => calls'[e].bead # b
        BY <2>2, <2>6, <3>1 DEF OutcomeInv
      <4>3. \A i \in DOMAIN closedQ : closedQ[i].bead # b
        BY <1>2, <4>1
      <4>4. closing # Nothing => closing.bead # b
        BY <1>1, <4>1 DEF HeardInv
      <4>5. QED BY <2>3, <2>5, <3>1, <4>2, <4>3, <4>4
    <3>2. CASE b # d
      <4>1. Closed(b)
        BY <1>1, <2>2, <2>6, <3>2 DEF Closed
      <4>2. QED BY <2>2, <2>3, <2>5, <2>6, <3>2, <4>1 DEF OutcomeInv
    <3>3. QED BY <3>1, <3>2
  <2>7. \A e \in Clients : calls'[e] # NoCall => calls'[e] = calls[e]
    BY <2>2
  <2> HIDE DEF d
  <2>8. QED BY <2>1, <2>4, <2>6, <2>7 DEF OutcomeInv
<1>9. ASSUME NEW c \in Clients, NEW d \in Decisions, Click(c, d) PROVE OutcomeInv'
  <2>1. UNCHANGED <<closedQ, closing>> /\ Contest(d)
    BY <1>9 DEF Click, natsVars, handlerVars
  <2>2. /\ beads' = beads /\ calls[c] = NoCall /\ beads[d] # NoBead
        /\ \A e \in Clients : e # c => calls'[e] = calls[e]
        /\ calls' = calls \/ calls'[c].bead = d
    BY <1>1, <1>9, ClickEffect
  <2>3. \A b \in Decisions : Closed(b)' = Closed(b) /\ Chosen(b)' = Chosen(b)
    BY <2>2 DEF Closed, Chosen
  <2>4. contested \subseteq contested'
    BY <2>1 DEF Contest
  <2>5. CASE calls' = calls
    BY <1>3, <2>1, <2>3, <2>4, <2>5
  <2>6. CASE calls'[c].bead = d
    <3>1. CASE Answered(d)
      <4>1. d \in contested'
        BY <2>1, <3>1 DEF Contest
      <4>2. \A e \in Clients : calls'[e] # NoCall /\ calls'[e].bead # d => calls'[e] = calls[e]
        BY <2>2, <2>6
      <4>3. QED BY <2>1, <2>3, <2>4, <4>1, <4>2 DEF OutcomeInv
    <3>2. CASE ~Answered(d)
      <4>1. ~Closed(d) /\ \A e \in Clients : calls[e] # NoCall => calls[e].bead # d
        BY <3>2 DEF Answered, IsOpen, Closed
      <4>2. \A e \in Clients : calls'[e] = calls[e] \/ (e = c /\ calls'[e].bead = d)
        BY <2>2, <2>6
      <4>3. contested' = contested
        BY <2>1, <3>2 DEF Contest
      <4>4. \A b \in Decisions : Closed(b) => b # d
        BY <4>1
      <4>5. QED BY <2>1, <2>3, <4>1, <4>2, <4>3, <4>4 DEF OutcomeInv
    <3>3. QED BY <3>1, <3>2
  <2>7. QED BY <2>2, <2>5, <2>6
<1>10. ASSUME NEW d \in Decisions, OpenDecision(d) PROVE OutcomeInv'
  <2>1. UNCHANGED <<calls, closedQ, closing, contested>>
    BY <1>10 DEF OpenDecision, handlerVars
  <2>2. beads'[d].open /\ \A a \in Beads : a # d => beads'[a] = beads[a]
    BY <1>1, <1>10, OpenEffect DEF OpenDecision
  <2>3. \A b \in Decisions : Closed(b)' => Closed(b) /\ Chosen(b)' = Chosen(b)
    BY <1>1, <2>2 DEF Closed, Chosen
  <2>4. QED BY <1>3, <2>1, <2>3
<1>11. ASSUME NEW d \in Decisions, AnswerDecision(d) PROVE OutcomeInv'
  <2> DEFINE event == [bead |-> d, chosen |-> Chosen(d)']
  <2>1. UNCHANGED closing /\ Contest(d)
    BY <1>11 DEF AnswerDecision, handlerVars
  <2>2. /\ calls' = calls /\ IsOpen(d) /\ \A b \in Beads : b # d => beads'[b] = beads[b]
        /\ closedQ' = Heard("decisions", closedQ, event) /\ event \in CloseEvent
    BY <1>1, <1>11, AnswerEffect
  <2>3. \A i \in DOMAIN closedQ' : \/ i \in DOMAIN closedQ /\ closedQ'[i] = closedQ[i]
                                  \/ closedQ'[i] = event
    <3>1. closedQ \in Seq(CloseEvent)
      BY <1>1 DEF DecTypeOK
    <3>2. QED BY <2>2, <3>1, QueueHeard
  <2>4. event.bead = d /\ event.chosen = Chosen(d)'
    OBVIOUS
  <2> HIDE DEF event
  <2>5. contested \subseteq contested' /\ (d \notin contested' => ~Answered(d))
    BY <2>1 DEF Contest
  <2>6. ASSUME NEW b \in Decisions \ contested', Closed(b)'
        PROVE  /\ \A e \in Clients : calls[e] # NoCall => calls[e].bead # b
               /\ \A i \in DOMAIN closedQ' : closedQ'[i].bead = b => closedQ'[i].chosen = Chosen(b)'
               /\ closing # Nothing /\ closing.bead = b => closing.chosen = Chosen(b)'
    <3>1. CASE b = d
      <4>1. ~Closed(b) /\ \A e \in Clients : calls[e] # NoCall => calls[e].bead # b
        BY <2>2, <2>5, <2>6, <3>1 DEF Answered, Closed, IsOpen
      <4>2. \A i \in DOMAIN closedQ : closedQ[i].bead # b
        BY <1>2, <4>1
      <4>3. closing # Nothing => closing.bead # b
        BY <1>1, <4>1 DEF HeardInv
      <4>4. QED BY <2>3, <2>4, <3>1, <4>1, <4>2, <4>3
    <3>2. CASE b # d
      <4>1. Closed(b) /\ Chosen(b)' = Chosen(b)
        BY <1>1, <2>2, <2>6, <3>2 DEF Closed, Chosen
      <4>2. b \in Decisions \ contested
        BY <2>5
      <4>3. QED BY <2>3, <2>4, <3>2, <4>1, <4>2 DEF OutcomeInv
    <3>3. QED BY <3>1, <3>2
  <2>7. QED BY <2>1, <2>2, <2>5, <2>6 DEF OutcomeInv
<1>12. ASSUME NEW m \in Mails, SendMail(m) PROVE OutcomeInv'
  <2>1. UNCHANGED <<calls, closedQ, closing, contested>> /\ m \in Beads /\ m \notin Decisions
    BY <1>12, DecisionsAssumption DEF SendMail, handlerVars
  <2>2. \A a \in Beads : a # m => beads'[a] = beads[a]
    BY <1>1, <1>12, <2>1, OpenEffect DEF SendMail
  <2>3. \A b \in Decisions : Closed(b)' => Closed(b) /\ Chosen(b)' = Chosen(b)
    BY <1>1, <2>1, <2>2 DEF Closed, Chosen
  <2>4. QED BY <1>3, <2>1, <2>3
<1>13. ASSUME UNCHANGED <<beads, calls, closedQ, closing, contested>> PROVE OutcomeInv'
  BY <1>3, <1>13 DEF Closed, Chosen
<1>14. QED
  BY <1>4, <1>5, <1>6, <1>7, <1>8, <1>9, <1>10, <1>11, <1>12, <1>13
     DEF DecNext, decVars, clientVars, Clicks, handleCreated, handleClosed, PostMessage,
         StoreTimestamp, handleMail, Connect, Connection, natsVars, handlerVars

-----------------------------------------------------------------------------
(* Refinement of DecisionOutcome.                                          *)

\* What DecisionOutcome sees of the beads and of Slack.
Decided == [d \in Decisions |-> IF Closed(d) THEN beads[d].fields["chosen"] ELSE ""]
Resolved == [d \in Decisions |-> IF slack[d] \in Choices THEN slack[d] ELSE ""]

\* No choice is the absence of one.
LEMMA ChoicesAreChoices == "" \notin Choices /\ "asked" \notin Choices /\ Nothing \notin Choices
BY DecisionsAssumption, NothingAssumption

\* Nothing is decided, told or shown at first.
LEMMA OutcomeInit == DecInit => Outcome!Init
<1> SUFFICES ASSUME DecInit PROVE Outcome!Init
  OBVIOUS
<1>1. \A d \in Decisions : ~Closed(d) /\ slack[d] \notin Choices
  BY DecisionsAssumption, ChoicesAreChoices DEF DecInit, Closed
<1>2. QED BY <1>1 DEF DecInit, Outcome!Init

\* A step decides, tells, shows or answers twice, or is none of the agent's business.
LEMMA OutcomeStep ==
  DecInv /\ OutcomeInv /\ PostInv /\ [DecNext]_decVars => [Outcome!Next]_(Outcome!vars)
<1> SUFFICES ASSUME DecInv, OutcomeInv, PostInv, [DecNext]_decVars
             PROVE  Outcome!Next \/ UNCHANGED Outcome!vars
  OBVIOUS
<1>1. /\ DecTypeOK /\ ChoiceInv /\ HeardInv /\ ClientTypeOK
      /\ Decisions \subseteq Beads /\ "" \in Notes
  BY DecisionsAssumption DEF DecInv, DecTypeOK
<1>2. ASSUME Decided' = Decided, Resolved' = Resolved, UNCHANGED <<told, contested>>
      PROVE  UNCHANGED Outcome!vars
  BY <1>2 DEF Decided, Resolved, Outcome!vars
<1>3. ASSUME NEW d \in Decisions, Decided[d] = "" \/ d \in contested, NEW choice \in Choices,
             Decided' = [Decided EXCEPT ![d] = choice],
             Resolved' = Resolved, UNCHANGED <<told, contested>>
      PROVE  Outcome!Next
  <2>1. Outcome!Decide(d)
    BY <1>3 DEF Decided, Resolved, Outcome!Decide
  <2>2. QED BY <2>1 DEF Outcome!Next
<1>4. ASSUME NEW d \in Decisions, contested' = contested \cup {d},
             \/ Decided' = Decided
             \/ \E choice \in Choices : Decided' = [Decided EXCEPT ![d] = choice],
             Resolved' = Resolved, UNCHANGED told
      PROVE  Outcome!Next
  <2>1. Outcome!AnswerTwice(d)
    BY <1>4 DEF Decided, Resolved, Outcome!AnswerTwice
  <2>2. QED BY <2>1 DEF Outcome!Next
<1>5. ASSUME beads' = beads PROVE Decided' = Decided
  BY <1>5 DEF Decided, Closed
<1>6. ASSUME slack' = slack PROVE Resolved' = Resolved
  BY <1>6 DEF Resolved
<1>7. ASSUME UNCHANGED <<beads, slack, told, contested>> PROVE UNCHANGED Outcome!vars
  BY <1>2, <1>5, <1>6, <1>7
<1>8. \A d \in Decisions : Closed(d) /\ d \notin contested => Outcome!Sayable(d) = {Chosen(d)}
  BY <1>1, ChoicesAreChoices DEF Outcome!Sayable, Chosen, ChoiceInv
<1>9. \A d \in Decisions : d \in contested => Outcome!Sayable(d) = Choices
  BY DEF Outcome!Sayable
<1>10. CASE PostMessage
  <2> DEFINE h == Head(createdQ)
  <2>1. UNCHANGED <<beads, told, contested>> /\ createdQ # <<>>
        /\ (slack' = slack \/ slack' = [slack EXCEPT ![h] = "asked"])
    BY <1>10 DEF PostMessage, clientVars, agentVars
  <2>2. h \in Decisions /\ slack[h] = Nothing
    <3>1. h \in Decisions /\ 1 \in DOMAIN createdQ /\ h = createdQ[1]
      BY <1>1, <2>1, QueueTail DEF DecTypeOK
    <3>2. QED BY <3>1 DEF PostInv
  <2>3. Resolved' = Resolved
    BY <1>1, <2>1, <2>2, ChoicesAreChoices DEF Resolved, DecTypeOK
  <2>4. QED BY <1>2, <1>5, <2>1, <2>3
<1>11. CASE UpdateMessage
  <2> DEFINE event == Head(closedQ)
  <2>1. UNCHANGED <<beads, told, contested>> /\ closedQ # <<>>
        /\ (slack' = slack \/ slack' = [slack EXCEPT ![event.bead] = event.chosen])
    BY <1>11 DEF UpdateMessage, clientVars, agentVars
  <2>2. event \in CloseEvent /\ 1 \in DOMAIN closedQ /\ event = closedQ[1]
    BY <1>1, <2>1, QueueTail DEF DecTypeOK
  <2>3. event.bead \in Decisions /\ event.chosen \in Choices /\ Closed(event.bead)
    BY <1>1, <2>2 DEF HeardInv, CloseEvent
  <2>4. event.bead \notin contested => event.chosen = Chosen(event.bead)
    BY <2>2, <2>3 DEF OutcomeInv
  <2> HIDE DEF event
  <2>5. event.chosen \in Outcome!Sayable(event.bead)
    BY <1>8, <1>9, <2>3, <2>4
  <2>6. CASE slack' = slack
    BY <1>7, <2>1, <2>6
  <2>7. CASE slack' = [slack EXCEPT ![event.bead] = event.chosen]
    <3>1. Resolved' = [Resolved EXCEPT ![event.bead] = event.chosen]
      BY <1>1, <2>3, <2>7 DEF Resolved, DecTypeOK
    <3>2. Decided' = Decided
      BY <1>5, <2>1
    <3>3. PICK d \in Decisions : d = event.bead
      BY <2>3
    <3>4. Outcome!Show(d)
      BY <2>1, <2>5, <3>1, <3>2, <3>3 DEF Outcome!Show, Resolved, Decided
    <3>5. QED BY <3>4 DEF Outcome!Next
  <2>8. QED BY <2>1, <2>6, <2>7
<1>12. CASE nudgeAgent
  <2>1. UNCHANGED <<beads, slack, contested>> /\ closing # Nothing
        /\ (told' = told \/ told' = [told EXCEPT ![closing.bead] = @ \cup {closing.chosen}])
    BY <1>12 DEF nudgeAgent, clientVars
  <2>2. closing.bead \in Decisions /\ closing.chosen \in Choices /\ Closed(closing.bead)
    BY <1>1, <2>1 DEF HeardInv, DecTypeOK, CloseEvent
  <2>3. closing.bead \notin contested => closing.chosen = Chosen(closing.bead)
    BY <2>1, <2>2 DEF OutcomeInv
  <2>4. closing.chosen \in Outcome!Sayable(closing.bead)
    BY <1>8, <1>9, <2>2, <2>3
  <2>5. Decided' = Decided /\ Resolved' = Resolved
    BY <1>5, <1>6, <2>1
  <2>6. CASE told' = told
    BY <1>7, <2>1, <2>6
  <2>7. CASE told' = [told EXCEPT ![closing.bead] = @ \cup {closing.chosen}]
    <3>1. Outcome!Tell(closing.bead)
      BY <2>1, <2>4, <2>5, <2>7 DEF Outcome!Tell, Resolved, Decided
    <3>2. QED BY <2>2, <3>1 DEF Outcome!Next
  <2>8. QED BY <2>1, <2>6, <2>7
<1>13. ASSUME NEW c \in Clients, WriteChoice(c) PROVE Outcome!Next \/ UNCHANGED Outcome!vars
  <2> DEFINE d == calls[c].bead
  <2>1. UNCHANGED <<slack, told, contested>>
    BY <1>13 DEF WriteChoice, agentVars
  <2>2. /\ calls[c] # NoCall /\ d \in Decisions
        /\ \A b \in Beads : b # d => beads'[b] = beads[b]
        /\ beads'[d] # NoBead /\ beads'[d].open = beads[d].open
        /\ beads'[d] = beads[d] \/ beads'[d].fields = calls[c].fields
    BY <1>1, <1>13, WriteChoiceEffect
  <2>3. beads[d] # NoBead /\ calls[c].fields["chosen"] \in Choices
    BY <1>1, <2>2 DEF ChoiceInv
  <2> HIDE DEF d
  <2>4. CASE Closed(d)
    <3>1. d \in contested
      BY <2>2, <2>4 DEF OutcomeInv, d
    <3>2. \A b \in Decisions : b # d => Decided'[b] = Decided[b]
      BY <1>1, <2>2 DEF Decided, Closed
    <3>3. Decided'[d] = Decided[d] \/ Decided'[d] = calls[c].fields["chosen"]
      BY <2>2, <2>4 DEF Decided, Closed
    <3>4. Decided' = Decided \/ Decided' = [Decided EXCEPT ![d] = calls[c].fields["chosen"]]
      BY <2>2, <3>2, <3>3 DEF Decided
    <3>5. QED BY <1>2, <1>3, <1>6, <2>1, <2>2, <2>3, <3>1, <3>4
  <2>5. CASE ~Closed(d)
    <3>1. Decided' = Decided
      BY <1>1, <2>2, <2>3, <2>5 DEF Decided, Closed
    <3>2. QED BY <1>2, <1>6, <2>1, <3>1
  <2>6. QED BY <2>4, <2>5
<1>14. ASSUME NEW c \in Clients, CloseDecision(c) PROVE Outcome!Next \/ UNCHANGED Outcome!vars
  <2> DEFINE d == calls[c].bead
  <2>1. UNCHANGED <<slack, told, contested>>
    BY <1>14 DEF CloseDecision, agentVars
  <2>2. /\ d \in Decisions /\ Chosen(d) \in Choices
        /\ \A b \in Beads : b # d => beads'[b] = beads[b]
        /\ beads'[d] # NoBead /\ beads'[d].fields = beads[d].fields
        /\ beads'[d] = beads[d] \/ ~beads'[d].open
    BY <1>1, <1>14, CloseDecisionEffect
  <2> HIDE DEF d
  <2>3. \A b \in Decisions : b # d => Decided'[b] = Decided[b]
    BY <1>1, <2>2 DEF Decided, Closed
  <2>4. \/ Decided'[d] = Decided[d]
        \/ Decided[d] = "" /\ Decided'[d] = Chosen(d)
    BY <2>2 DEF Decided, Closed, Chosen
  <2>5. \/ Decided' = Decided
        \/ Decided[d] = "" /\ Decided' = [Decided EXCEPT ![d] = Chosen(d)]
    BY <2>2, <2>3, <2>4 DEF Decided
  <2>6. QED BY <1>2, <1>3, <1>6, <2>1, <2>2, <2>5
<1>15. ASSUME NEW c \in Clients, NEW d \in Decisions, Click(c, d)
       PROVE  Outcome!Next \/ UNCHANGED Outcome!vars
  <2>1. UNCHANGED <<beads, slack, told>> /\ Contest(d)
    BY <1>1, <1>15, ClickEffect DEF Click, agentVars
  <2>2. contested' = contested \/ contested' = contested \cup {d}
    BY <2>1 DEF Contest
  <2>3. QED BY <1>2, <1>4, <1>5, <1>6, <2>1, <2>2
<1>16. ASSUME NEW d \in Decisions, OpenDecision(d) PROVE UNCHANGED Outcome!vars
  <2>1. UNCHANGED <<slack, told, contested>> /\ beads[d] = NoBead
    BY <1>16 DEF OpenDecision, agentVars
  <2>2. beads'[d].open /\ \A a \in Beads : a # d => beads'[a] = beads[a]
    BY <1>1, <1>16, OpenEffect DEF OpenDecision
  <2>3. Decided' = Decided
    BY <1>1, <2>1, <2>2 DEF Decided, Closed
  <2>4. QED BY <1>2, <1>6, <2>1, <2>3
<1>17. ASSUME NEW d \in Decisions, AnswerDecision(d) PROVE Outcome!Next
  <2>1. UNCHANGED <<slack, told>> /\ Contest(d)
    BY <1>17 DEF AnswerDecision, agentVars
  <2>2. /\ IsOpen(d) /\ \A b \in Beads : b # d => beads'[b] = beads[b]
        /\ beads'[d] # NoBead /\ ~beads'[d].open /\ Chosen(d)' \in Choices
    BY <1>1, <1>17, AnswerEffect
  <2>3. PICK choice \in Choices : choice = Chosen(d)'
    BY <2>2
  <2>4. Decided[d] = "" /\ Decided' = [Decided EXCEPT ![d] = choice]
    BY <1>1, <2>2, <2>3 DEF Decided, Closed, IsOpen, Chosen
  <2>5. contested' = contested \/ contested' = contested \cup {d}
    BY <2>1 DEF Contest
  <2>6. QED BY <1>3, <1>4, <1>6, <2>1, <2>4, <2>5
<1>18. ASSUME NEW m \in Mails, SendMail(m) PROVE UNCHANGED Outcome!vars
  <2>1. UNCHANGED <<slack, told, contested>> /\ m \in Beads /\ m \notin Decisions
    BY <1>18, DecisionsAssumption DEF SendMail, agentVars
  <2>2. \A a \in Beads : a # m => beads'[a] = beads[a]
    BY <1>1, <1>18, <2>1, OpenEffect DEF SendMail
  <2>3. Decided' = Decided
    BY <1>1, <2>1, <2>2 DEF Decided, Closed
  <2>4. QED BY <1>2, <1>6, <2>1, <2>3
<1>19. ASSUME \/ UNCHANGED decVars \/ Crash \/ StoreTimestamp \/ handleMail
              \/ \E w \in Watchers : Connect(w) \/ Connection(w)
       PROVE  UNCHANGED <<beads, slack, told, contested>>
  BY <1>19 DEF decVars, clientVars, agentVars, Crash, StoreTimestamp, handleMail, Connect, Connection
<1>20. QED
  BY <1>7, <1>10, <1>11, <1>12, <1>13, <1>14, <1>15, <1>16, <1>17, <1>18, <1>19
     DEF DecNext, handleCreated, handleClosed, Clicks

\* Decisions implements DecisionOutcome, whatever the faults and however the two watchers
\* and the clicks interleave: a decision that is answered once keeps that outcome, and it
\* alone is told to the agent and shown in the resolved message.
THEOREM ImplementsOutcome == DecSpec => OneOutcome
<1>1. DecInit => DecInv /\ OutcomeInv /\ PostInv
  BY DecInvInit, OutcomeInvInit, PostInvInit
<1>2. DecInv /\ OutcomeInv /\ PostInv /\ [DecNext]_decVars => (DecInv /\ OutcomeInv /\ PostInv)'
  BY DecInvStep, OutcomeInvStep, PostInvStep
<1>3. QED BY <1>1, <1>2, OutcomeInit, OutcomeStep, PTL DEF DecSpec, OneOutcome, Outcome!Spec
=============================================================================
