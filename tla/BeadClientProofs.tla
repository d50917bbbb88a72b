--------------------------- MODULE BeadClientProofs ---------------------------
(* Lemmas about the calls of the daemon client, for whoever makes them.      *)
EXTENDS BeadClient, TLAPS

-----------------------------------------------------------------------------
(* Fields.                                                                 *)

\* A merge over what was read gives every key a value.
LEMMA MergeType ==
  ASSUME NEW fields \in [Keys -> Values], NEW new,
         \A k \in DOMAIN new : new[k] \in Values
  PROVE  Merge(parseFieldsJSON(fields), new) \in [Keys -> Values]
<1>1. parseFieldsJSON(fields) \in [Keys -> Values]
  BY ValuesAssumption DEF parseFieldsJSON
<1>2. QED BY <1>1 DEF Merge

\* A merge changes the fields it is about, and no other if all fields are strings.
LEMMA MergeEffect ==
  ASSUME NEW fields \in [Keys -> Values], NEW new, NEW k \in Keys
  PROVE  /\ k \in DOMAIN new => Merge(parseFieldsJSON(fields), new)[k] = new[k]
         /\ k \notin DOMAIN new /\ (\A j \in Keys : fields[j] \notin Typed) =>
              Merge(parseFieldsJSON(fields), new)[k] = fields[k]
BY DEF Merge, parseFieldsJSON

-----------------------------------------------------------------------------
(* Calls.                                                                  *)

\* A read changes no bead; one that succeeds leaves the merged fields with the caller.
LEMMA ReadEffect ==
  ASSUME ClientTypeOK, NEW c \in Clients, NEW b \in Beads, NEW new,
         \A k \in DOMAIN new : new[k] \in Values,
         NEW closing \in BOOLEAN, NEW result \in RpcResults,
         ReadFields(c, b, new, closing, result)
  PROVE  /\ ClientTypeOK' /\ beads' = beads /\ calls[c] = NoCall
         /\ \A d \in Clients : d # c => calls'[d] = calls[d]
         /\ result # "ok" => calls' = calls
         /\ result = "ok" =>
              /\ beads[b] # NoBead /\ calls'[c] \in Call /\ calls'[c] # NoCall
              /\ calls'[c] = [bead |-> b, closing |-> closing, at |-> "write",
                              fields |-> Merge(parseFieldsJSON(beads[b].fields), new)]
<1>1. beads' = beads /\ calls[c] = NoCall /\ result \in Answers(b)
  BY DEF ReadFields
<1>2. CASE result # "ok"
  BY <1>1, <1>2 DEF ReadFields, ClientTypeOK
<1>3. CASE result = "ok"
  <2> DEFINE call == [bead |-> b, closing |-> closing, at |-> "write",
                      fields |-> Merge(parseFieldsJSON(beads[b].fields), new)]
  <2>1. beads[b] # NoBead
    BY <1>1, <1>3 DEF Answers
  <2>2. beads[b].fields \in [Keys -> Values]
    BY <2>1 DEF ClientTypeOK, Bead
  <2>3. call \in Call
    <3>1. Merge(parseFieldsJSON(beads[b].fields), new) \in [Keys -> Values]
      BY <2>2, MergeType
    <3>2. QED BY <3>1 DEF Call
  <2>4. calls' = [calls EXCEPT ![c] = call]
    BY <1>3 DEF ReadFields
  <2> HIDE DEF call
  <2>5. ClientTypeOK' /\ calls'[c] = call /\ \A d \in Clients : d # c => calls'[d] = calls[d]
    BY <1>1, <2>3, <2>4 DEF ClientTypeOK
  <2>6. QED BY <1>1, <1>3, <2>1, <2>3, <2>5, NoCallAssumption DEF call
<1>4. QED BY <1>2, <1>3

\* A write ends the call, or leaves the close to do; it is applied as a whole or not.
LEMMA WriteEffect ==
  ASSUME ClientTypeOK, NEW c \in Clients, NEW result \in RpcResults, WriteFields(c, result)
  PROVE  /\ ClientTypeOK'
         /\ calls[c] # NoCall /\ calls[c] \in Call /\ calls[c].at = "write"
         /\ \A d \in Clients : d # c => calls'[d] = calls[d]
         /\ calls'[c] = IF result = "ok" /\ calls[c].closing
                        THEN [calls[c] EXCEPT !.at = "close"] ELSE NoCall
         /\ result = "failed" => beads' = beads
         /\ result # "failed" =>
              /\ beads[calls[c].bead] # NoBead
              /\ beads' = [beads EXCEPT ![calls[c].bead] =
                             [beads[calls[c].bead] EXCEPT !.fields = calls[c].fields]]
<1> DEFINE b == calls[c].bead
<1>1. calls[c] # NoCall /\ calls[c] \in Call /\ calls[c].at = "write" /\ b \in Beads
  BY DEF WriteFields, ClientTypeOK, Call
<1>2. calls' = [calls EXCEPT ![c] = IF result = "ok" /\ calls[c].closing
                                    THEN [calls[c] EXCEPT !.at = "close"] ELSE NoCall]
  BY DEF WriteFields
<1>3. [calls[c] EXCEPT !.at = "close"] \in Call
  BY <1>1 DEF Call
<1>4. calls' \in [Clients -> Call \cup {NoCall}]
  BY <1>2, <1>3 DEF ClientTypeOK
<1>5. CASE result = "failed"
  BY <1>1, <1>2, <1>4, <1>5 DEF WriteFields, ClientTypeOK
<1>6. CASE result # "failed"
  <2>1. beads[b] # NoBead
    BY <1>6 DEF WriteFields, Answers
  <2>2. beads' = [beads EXCEPT ![b] = [beads[b] EXCEPT !.fields = calls[c].fields]]
    BY <1>6 DEF WriteFields
  <2>3. [beads[b] EXCEPT !.fields = calls[c].fields] \in Bead
    BY <1>1, <2>1 DEF ClientTypeOK, Bead, Call
  <2>4. beads' \in [Beads -> Bead \cup {NoBead}]
    BY <2>2, <2>3 DEF ClientTypeOK
  <2>5. QED BY <1>1, <1>2, <1>4, <1>6, <2>1, <2>2, <2>4 DEF ClientTypeOK
<1>7. QED BY <1>5, <1>6

\* A close ends the call; it changes nothing but whether the bead is open.
LEMMA CloseEffect ==
  ASSUME ClientTypeOK, NEW c \in Clients, NEW result \in RpcResults, CloseBead(c, result)
  PROVE  /\ ClientTypeOK'
         /\ calls[c] # NoCall /\ calls[c] \in Call /\ calls[c].at = "close"
         /\ calls' = [calls EXCEPT ![c] = NoCall]
         /\ \/ beads' = beads
            \/ /\ beads[calls[c].bead] # NoBead
               /\ beads' = [beads EXCEPT ![calls[c].bead] =
                              [beads[calls[c].bead] EXCEPT !.open = FALSE]]
<1> DEFINE b == calls[c].bead
<1>1. calls[c] # NoCall /\ calls[c] \in Call /\ calls[c].at = "close" /\ b \in Beads
  BY DEF CloseBead, ClientTypeOK, Call
<1>2. calls' = [calls EXCEPT ![c] = NoCall] /\ calls' \in [Clients -> Call \cup {NoCall}]
  BY DEF CloseBead, ClientTypeOK
<1>3. CASE result = "failed"
  BY <1>1, <1>2, <1>3 DEF CloseBead, ClientTypeOK
<1>4. CASE result # "failed"
  <2>1. beads[b] # NoBead
    BY <1>4 DEF CloseBead, Answers
  <2>2. beads' = [beads EXCEPT ![b] = [beads[b] EXCEPT !.open = FALSE]]
    BY <1>4 DEF CloseBead
  <2>3. [beads[b] EXCEPT !.open = FALSE] \in Bead
    BY <1>1, <2>1 DEF ClientTypeOK, Bead
  <2>4. beads' \in [Beads -> Bead \cup {NoBead}]
    BY <2>2, <2>3 DEF ClientTypeOK
  <2>5. QED BY <1>1, <1>2, <2>1, <2>2, <2>4 DEF ClientTypeOK
<1>5. QED BY <1>3, <1>4

\* Writing the notes of a bead changes nothing else of it.
LEMMA NotesEffect ==
  ASSUME ClientTypeOK, NEW b \in Beads, NEW notes \in Notes, NEW result \in RpcResults,
         UpdateBeadNotes(b, notes, result)
  PROVE  /\ beads' \in [Beads -> Bead \cup {NoBead}]
         /\ \/ beads' = beads
            \/ /\ beads[b] # NoBead
               /\ beads' = [beads EXCEPT ![b] = [beads[b] EXCEPT !.notes = notes]]
<1>1. CASE result = "failed"
  BY <1>1 DEF UpdateBeadNotes, ClientTypeOK
<1>2. CASE result # "failed"
  <2>1. beads[b] # NoBead
    BY <1>2 DEF UpdateBeadNotes, Answers
  <2>2. beads' = [beads EXCEPT ![b] = [beads[b] EXCEPT !.notes = notes]]
    BY <1>2 DEF UpdateBeadNotes
  <2>3. [beads[b] EXCEPT !.notes = notes] \in Bead
    BY <2>1 DEF ClientTypeOK, Bead
  <2>4. QED BY <2>1, <2>2, <2>3 DEF ClientTypeOK
<1>3. QED BY <1>1, <1>2
=============================================================================
