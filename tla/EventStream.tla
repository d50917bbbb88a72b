----------------------------- MODULE EventStream -----------------------------
(***************************************************************************)
(* subscriber/nats.go: the durable JetStream consumer (external) and       *)
(* NATSWatcher, which turns its messages into events on a bounded channel. *)
(* Batches are not modelled: a message fetched but not yet processed is    *)
(* one the stream still has.                                               *)
(***************************************************************************)
EXTENDS Naturals, Sequences

CONSTANTS
  Sources,       \* the agents whose beads the messages are about
  ChannelSize    \* capacity of the event channel (nats.go:115)

ASSUME ChannelSizeAssumption == ChannelSize \in Nat \ {0}

VARIABLES
  stream,        \* published messages that were never delivered
  unacked,       \* delivered messages whose acknowledgement did not arrive
  channel        \* events waiting for the main loop

streamVars == <<stream, unacked, channel>>

Message == [agent : Sources,
            action : {"created", "updated", "closed", "deleted"},
            stopping : BOOLEAN,      \* agent_state is "stopping"
            toInProgress : BOOLEAN,  \* the status changed to in_progress
            complete : BOOLEAN]      \* readable, with a role and an agent name

EventType == {"AgentSpawn", "AgentDone", "AgentKill", "AgentStop", "AgentUpdate"}

Event == [type : EventType, agent : Sources]

mapBeadEvent(msg) ==
  CASE msg.action = "created" -> "AgentSpawn"
    [] msg.action = "updated" -> IF msg.stopping THEN "AgentStop"
                                 ELSE IF msg.toInProgress THEN "AgentSpawn"
                                 ELSE "AgentUpdate"
    [] msg.action = "closed"  -> "AgentDone"
    [] msg.action = "deleted" -> "AgentKill"

Publish(msg) == stream' = Append(stream, msg)

SendAlways(msg) == channel' = Append(channel, [type |-> mapBeadEvent(msg), agent |-> msg.agent])

\* What cannot be read or names no agent gives no event; a full channel drops it.
processMessage(msg) ==
  channel' = IF msg.complete /\ Len(channel) < ChannelSize
             THEN Append(channel, [type |-> mapBeadEvent(msg), agent |-> msg.agent])
             ELSE channel

\* The message is acknowledged, dropped or not; the acknowledgement may fail.
Deliver(acked) ==
  /\ stream # <<>>
  /\ processMessage(Head(stream))
  /\ stream' = Tail(stream)
  /\ unacked' = IF acked THEN unacked ELSE unacked \cup {Head(stream)}

RedeliverForever(msg, acked) ==
  msg \in unacked /\ processMessage(msg) /\ UNCHANGED <<stream, unacked>>

\* Without an acknowledgement the message comes again, after later ones.
Redeliver(msg, acked) ==
  /\ msg \in unacked
  /\ processMessage(msg)
  /\ unacked' = IF acked THEN unacked \ {msg} ELSE unacked
  /\ UNCHANGED stream

Watch == \E acked \in BOOLEAN : Deliver(acked) \/ \E msg \in unacked : Redeliver(msg, acked)

\* The process and its channel are gone, the durable consumer stays.
LoseChannel == channel' = <<>> /\ UNCHANGED <<stream, unacked>>

StreamInit == stream = <<>> /\ unacked = {} /\ channel = <<>>

StreamTypeOK ==
  /\ stream \in Seq(Message) /\ unacked \subseteq Message
  /\ channel \in Seq(Event) /\ Len(channel) <= ChannelSize
=============================================================================
