------------------------------ MODULE MCDecisions ------------------------------
(* Values for the model checker.                                            *)
EXTENDS Decisions, TLC

MCKeys == {"chosen", "coop_url"}
MCChoices == {"yes", "no"}
MCValues == {"", "yes", "no", "url"}
MCNotes == {"", "url"}
NoNotes == {""}
NoValues == {}
=============================================================================
