------------------------------ MODULE BeadClient ------------------------------
(***************************************************************************)
(* internal/client/client.go: the beads of the daemon and the calls that   *)
(* change one.  The daemon replaces all fields of a bead at once, so an    *)
(* update of some of them is a read, a merge in the caller's memory and a  *)
(* write of the whole; nothing keeps another writer out between the two.   *)
(***************************************************************************)
EXTENDS Naturals, FiniteSets

CONSTANTS
  Beads,         \* bead ids
  Keys,          \* field names
  Values,        \* field values; "" stands for an absent field
  Typed,         \* the values that are not JSON strings: booleans, lists
  Notes,         \* contents of the notes
  Clients,       \* goroutines that call the daemon
  NoBead, NoCall,
  RpcFaults      \* RPC faults: "refused" (no effect), "lost" (applied, answer lost)

ASSUME ValuesAssumption == "" \in Values /\ Typed \subseteq Values \ {""}
ASSUME RpcFaultsAssumption == RpcFaults \subseteq {"refused", "lost"}

VARIABLES
  beads,         \* bead -> its record in the daemon, or NoBead
  calls          \* client -> its field update under way, or NoCall

clientVars == <<beads, calls>>

Bead == [open : BOOLEAN, fields : [Keys -> Values], notes : Notes]

\* A field update that has read the bead: it will write all of fields, and a
\* CloseBead goes on to close.
Call == [bead : Beads, fields : [Keys -> Values], closing : BOOLEAN,
         at : {"write", "close"}]

ASSUME NoBeadAssumption == NoBead \notin Bead
ASSUME NoCallAssumption == NoCall \notin Call

IsOpen(b) == beads[b] # NoBead /\ beads[b].open

RpcResults == {"ok", "lost", "failed"}

\* An answer the daemon can give to a request about bead b.
Answers(b) ==
  (IF beads[b] # NoBead THEN {"ok"} \cup (RpcFaults \cap {"lost"}) ELSE {}) \cup
  (IF beads[b] = NoBead \/ "refused" \in RpcFaults THEN {"failed"} ELSE {})

\* One value that is not a string, and none of them is read.
parseFieldsJSON(fields) ==
  IF \E k \in Keys : fields[k] \in Typed THEN [k \in Keys |-> ""] ELSE fields

MergeNothing(fields, new) == [k \in Keys |-> IF k \in DOMAIN new THEN new[k] ELSE ""]
MergeExisting(fields, new) ==
  [k \in Keys |-> IF k \in DOMAIN new /\ fields[k] # "" THEN new[k] ELSE fields[k]]
Merge(fields, new) == [k \in Keys |-> IF k \in DOMAIN new THEN new[k] ELSE fields[k]]

-----------------------------------------------------------------------------
\* UpdateBeadFields, first half.  An answer that is lost is a failed read.
ReadFields(c, b, new, closing, result) ==
  /\ calls[c] = NoCall
  /\ result \in Answers(b)
  /\ calls' = IF result # "ok" THEN calls
              ELSE [calls EXCEPT ![c] =
                [bead |-> b, fields |-> Merge(parseFieldsJSON(beads[b].fields), new),
                 closing |-> closing, at |-> "write"]]
  /\ UNCHANGED beads

\* UpdateBeadFields, second half.
WriteFields(c, result) ==
  /\ calls[c] # NoCall /\ calls[c].at = "write"
  /\ result \in Answers(calls[c].bead)
  /\ beads' = IF result = "failed" THEN beads
              ELSE [beads EXCEPT ![calls[c].bead].fields = calls[c].fields]
  /\ calls' = IF result = "ok" /\ calls[c].closing
              THEN [calls EXCEPT ![c].at = "close"] ELSE [calls EXCEPT ![c] = NoCall]

\* CloseBead, once its fields are written; a closed bead can be closed again.
CloseBead(c, result) ==
  /\ calls[c] # NoCall /\ calls[c].at = "close"
  /\ result \in Answers(calls[c].bead)
  /\ beads' = IF result = "failed" THEN beads
              ELSE [beads EXCEPT ![calls[c].bead].open = FALSE]
  /\ calls' = [calls EXCEPT ![c] = NoCall]

\* Notes are replaced without a look at the old ones.
UpdateBeadNotes(b, notes, result) ==
  /\ result \in Answers(b)
  /\ beads' = IF result = "failed" THEN beads ELSE [beads EXCEPT ![b].notes = notes]

NoFields == [k \in Keys |-> ""]

ClientInit == calls = [c \in Clients |-> NoCall]

ClientTypeOK ==
  /\ beads \in [Beads -> Bead \cup {NoBead}]
  /\ calls \in [Clients -> Call \cup {NoCall}]
=============================================================================
