----------------------------- MODULE LatestDigest -----------------------------
(***************************************************************************)
(* What the image digest tracker promises the reconciler, apart from how   *)
(* it counts confirmations: an image gets a baseline once, from anywhere;  *)
(* after that its latest digest is only ever replaced by a digest the tag  *)
(* really has had, so a transient wrong answer of the registry moves it    *)
(* nowhere (imagedigest.go:44-48, 95-98).                                  *)
(***************************************************************************)
CONSTANTS Images, Digests, NoDigest

VARIABLES
  digests,       \* image -> latest known digest, or NoDigest
  served         \* image -> digests its tag has had

TagMoves(i) ==
  /\ \E d \in Digests : served' = [served EXCEPT ![i] = @ \cup {d}]
  /\ UNCHANGED digests

Baseline(i) ==
  /\ digests[i] = NoDigest
  /\ \E d \in Digests : digests' = [digests EXCEPT ![i] = d]
  /\ UNCHANGED served

Confirm(i) ==
  /\ digests[i] # NoDigest
  /\ \E d \in served[i] : digests' = [digests EXCEPT ![i] = d]
  /\ UNCHANGED served

Init ==
  /\ digests = [i \in Images |-> NoDigest]
  /\ \E first \in [Images -> Digests] : served = [i \in Images |-> {first[i]}]

Next == \E i \in Images : TagMoves(i) \/ Baseline(i) \/ Confirm(i)

Spec == Init /\ [][Next]_<<digests, served>>
=============================================================================
