--------------------------- MODULE MCStatusReporter ---------------------------
(* Values for the model checker, and mutants.                               *)
EXTENDS StatusReporter, TLC

CONSTANTS a1, a2

MCNotes == [image : {"", "override"}, coopURL : IPs \cup {NoIP}]
MCKeys == {"agent_state", "model"}
MCValues == {"", "spawning", "working", "done", "failed", "m1", "list"}
MCClients == {"loop", "sync"}
MCNameOrder == [a \in Agents |-> IF a = a1 THEN 1 ELSE 2]
MCTyped == {"list"}
=============================================================================
