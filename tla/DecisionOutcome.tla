---------------------------- MODULE DecisionOutcome ----------------------------
(***************************************************************************)
(* What the decision bridge promises: a decision gets one outcome and      *)
(* keeps it, and that outcome alone is told to the agent and shown in      *)
(* Slack.  Either may never happen.  Nothing is promised of a decision     *)
(* that is answered twice.                                                 *)
(***************************************************************************)
CONSTANTS Decisions, Choices, NoChoice

VARIABLES
  outcome,       \* decision -> its choice, or NoChoice
  told,          \* decision -> the choices its agent was told
  shown,         \* decision -> the choice its resolved message shows, or NoChoice
  contested      \* the decisions that are answered twice

vars == <<outcome, told, shown, contested>>

Init ==
  /\ outcome = [d \in Decisions |-> NoChoice]
  /\ told = [d \in Decisions |-> {}]
  /\ shown = [d \in Decisions |-> NoChoice]
  /\ contested = {}

\* What can be said of a decision.
Sayable(d) == IF d \in contested THEN Choices ELSE {outcome[d]} \ {NoChoice}

Decide(d) ==
  /\ outcome[d] = NoChoice \/ d \in contested
  /\ \E choice \in Choices : outcome' = [outcome EXCEPT ![d] = choice]
  /\ UNCHANGED <<told, shown, contested>>

Tell(d) ==
  /\ \E choice \in Sayable(d) : told' = [told EXCEPT ![d] = @ \cup {choice}]
  /\ UNCHANGED <<outcome, shown, contested>>

Show(d) ==
  /\ \E choice \in Sayable(d) : shown' = [shown EXCEPT ![d] = choice]
  /\ UNCHANGED <<outcome, told, contested>>

\* A second answer, which may also be the one that decides.
AnswerTwice(d) ==
  /\ contested' = contested \cup {d}
  /\ outcome' = outcome \/ \E choice \in Choices : outcome' = [outcome EXCEPT ![d] = choice]
  /\ UNCHANGED <<told, shown>>

Next == \E d \in Decisions : Decide(d) \/ Tell(d) \/ Show(d) \/ AnswerTwice(d)

Spec == Init /\ [][Next]_vars
=============================================================================
