------------------------ MODULE ImageDigestTrackerProofs ------------------------
(* Theorems about ImageDigestTracker for every value of its constants. *)
EXTENDS ImageDigestTracker, TLAPS

-----------------------------------------------------------------------------
(* The types.                                                              *)

LEMMA TypeInit == Init => TypeOK
<1> SUFFICES ASSUME Init PROVE TypeOK
  OBVIOUS
<1>1. registry \in [Images -> Digests] /\ served \in [Images -> SUBSET Digests]
  BY DEF Init
<1>2. /\ pendingConfirms \in [Images -> 0..DigestConfirmThreshold - 1]
      /\ \A i \in Images : pendingConfirms[i] = 0 /\ pendingDigests[i] = NoDigest
  BY DEF Init, DigestConfirmThreshold
<1>3. QED BY <1>1, <1>2 DEF Init, TypeOK

\* One answer, recorded: a first confirmation is one, a second one ends the count.
LEMMA TypeRecord == ASSUME TypeOK, RecordRegistryDigest PROVE TypeOK'
<1> DEFINE i == answer.image
           d == answer.digest
<1>1. i \in Images /\ i \in toCheck /\ d \in Digests /\ d # NoDigest
  BY DigestAssumption DEF TypeOK, RecordRegistryDigest
<1>2. /\ answer' = NoAnswer /\ toCheck' = toCheck \ {i}
      /\ UNCHANGED <<registry, served, glitched, seed, seeded>>
  BY DEF RecordRegistryDigest, registryVars
<1>3. Confirms(i, d) \in 1..DigestConfirmThreshold
  BY <1>1 DEF TypeOK, Confirms, DigestConfirmThreshold
<1>4. CASE /\ digests[i] # d /\ Confirms(i, d) < DigestConfirmThreshold
           /\ pendingDigests' = [pendingDigests EXCEPT ![i] = d]
           /\ pendingConfirms' = [pendingConfirms EXCEPT ![i] = Confirms(i, d)]
           /\ UNCHANGED digests
  BY <1>1, <1>2, <1>3, <1>4 DEF TypeOK, DigestConfirmThreshold
<1>5. CASE Forget(i) /\ (UNCHANGED digests \/ digests' = [digests EXCEPT ![i] = d])
  BY <1>1, <1>2, <1>5 DEF TypeOK, Forget, DigestConfirmThreshold
<1>6. QED BY <1>4, <1>5 DEF RecordRegistryDigest

\* No step leaves the types.
LEMMA TypeStep == TypeOK /\ [Next]_vars => TypeOK'
<1> SUFFICES ASSUME TypeOK, [Next]_vars PROVE TypeOK'
  OBVIOUS
<1> USE DEF TypeOK, registryVars, trackerVars
<1>1. ASSUME NEW i \in Images, PushImage(i) PROVE TypeOK'
  BY <1>1 DEF PushImage
<1>2. ASSUME NEW i \in Images, ExaminePod(i) PROVE TypeOK'
  BY <1>2 DEF ExaminePod, RecordDigest
<1>3. ASSUME NEW i \in Images, CheckRegistryDigest(i) PROVE TypeOK'
  BY <1>3 DEF CheckRegistryDigest
<1>4. ASSUME NEW i \in Images, CheckFails(i) PROVE TypeOK'
  BY <1>4 DEF CheckFails
<1>5. ASSUME SeedCheck PROVE TypeOK'
  BY <1>5 DEF SeedCheck
<1>6. ASSUME SeedRecord PROVE TypeOK'
  BY <1>6, CoopImageAssumption DEF SeedRecord, RecordDigest
<1>7. ASSUME StartRefresh PROVE TypeOK'
  BY <1>7 DEF StartRefresh
<1>8. ASSUME UNCHANGED vars PROVE TypeOK'
  BY <1>8 DEF vars
<1>9. QED BY <1>1, <1>2, <1>3, <1>4, <1>5, <1>6, <1>7, <1>8, TypeRecord DEF Next

\* The tracker's maps stay what imagedigest.go:33-39 says they are; a candidate has
\* one confirmation, nothing else has any.
THEOREM TypeCorrect == Spec => []TypeOK
<1>1. QED BY TypeInit, TypeStep, PTL DEF Spec

-----------------------------------------------------------------------------
(* Why two confirmations are enough: an answer that the tag never gave is  *)
(* followed by a right one, so it is never asked for twice in a row.       *)

InFlight(i) == answer # NoAnswer /\ answer.image = i

Real(i, d) == d \in served[i]

\* A candidate that is no digest of the tag was the last answer to be recorded; the
\* next answer, in flight or still to come, is right.
CandidateInv(i) ==
  \/ pendingDigests[i] = NoDigest \/ Real(i, pendingDigests[i])
  \/ IF InFlight(i) THEN Real(i, answer.digest) ELSE glitched[i]

TransientInv ==
  /\ \A i \in Images : /\ Real(i, registry[i])
                       /\ CandidateInv(i)
                       /\ InFlight(i) => Real(i, answer.digest) \/ glitched[i]
  /\ \A i \in toCheck : digests[i] # NoDigest

TrackerInv == TypeOK /\ TransientInv

LEMMA TransientInit == Init => TransientInv
BY DEF Init, TransientInv, CandidateInv, InFlight, Real

\* A digest becomes the known one only if the tag has had it, and otherwise is the
\* candidate, with the next answer to be a right one.
LEMMA TransientRecord ==
  ASSUME TrackerInv, RecordRegistryDigest
  PROVE  /\ TransientInv'
         /\ \/ UNCHANGED <<digests, served>>
            \/ \E i \in Images : L!Confirm(i)
<1> PICK i, d : i = answer.image /\ d = answer.digest
  OBVIOUS
<1> USE DEF TrackerInv
<1>1. i \in Images /\ i \in toCheck /\ d \in Digests /\ d # NoDigest /\ InFlight(i)
  BY DigestAssumption DEF TypeOK, RecordRegistryDigest, InFlight
<1>2. /\ answer' = NoAnswer /\ toCheck' = toCheck \ {i}
      /\ UNCHANGED <<registry, served, glitched>>
  BY DEF RecordRegistryDigest, registryVars
<1>3. /\ \A j \in Images : Real(j, registry[j])' /\ ~InFlight(j)'
      /\ \A j \in Images \ {i} : ~InFlight(j) /\ CandidateInv(j)
  BY <1>1, <1>2 DEF TransientInv, Real, InFlight
<1>4. CASE /\ digests[i] # d /\ Confirms(i, d) < DigestConfirmThreshold
           /\ pendingDigests' = [pendingDigests EXCEPT ![i] = d]
           /\ UNCHANGED digests
  <2>1. CandidateInv(i)'
    <3>1. Real(i, d) \/ glitched[i]
      BY <1>1 DEF TransientInv
    <3>2. pendingDigests'[i] = d
      BY <1>4, <1>1 DEF TypeOK
    <3>3. QED BY <3>1, <3>2, <1>2, <1>3, <1>1 DEF CandidateInv, Real
  <2>2. \A j \in Images \ {i} : CandidateInv(j)'
    BY <1>2, <1>3, <1>4 DEF CandidateInv, Real, TypeOK
  <2>3. QED BY <2>1, <2>2, <1>1, <1>2, <1>3, <1>4 DEF TransientInv
<1>5. CASE Forget(i) /\ UNCHANGED digests
  <2>1. \A j \in Images : CandidateInv(j)'
    BY <1>2, <1>3, <1>5 DEF CandidateInv, Real, TypeOK, Forget
  <2>2. QED BY <2>1, <1>2, <1>3, <1>5 DEF TransientInv
<1>6. CASE /\ digests[i] # d /\ Confirms(i, d) >= DigestConfirmThreshold
           /\ Forget(i) /\ digests' = [digests EXCEPT ![i] = d]
  <2>1. \A j \in Images : CandidateInv(j)'
    BY <1>2, <1>3, <1>6 DEF CandidateInv, Real, TypeOK, Forget
  <2>2. \A j \in toCheck' : digests'[j] # NoDigest
    BY <1>1, <1>2, <1>6 DEF TransientInv, TypeOK
  <2>3. Real(i, d)
    <3>1. pendingDigests[i] = d
      BY <1>1, <1>6 DEF TypeOK, Confirms, DigestConfirmThreshold
    <3>2. QED BY <3>1, <1>1 DEF TransientInv, CandidateInv
  <2>4. L!Confirm(i)
    BY <1>1, <1>2, <1>6, <2>3 DEF L!Confirm, Real, TransientInv
  <2>5. QED BY <2>1, <2>2, <2>4, <1>1, <1>2, <1>3 DEF TransientInv
<1>7. QED BY <1>4, <1>5, <1>6 DEF RecordRegistryDigest

\* Any other step: a tag moves, a baseline is recorded, or the abstract state stays.
LEMMA OtherSteps ==
  ASSUME TrackerInv, [Next]_vars, ~RecordRegistryDigest
  PROVE  TransientInv' /\ [L!Next]_<<digests, served>>
<1> USE DEF TrackerInv, registryVars, trackerVars
<1>1. ASSUME NEW i \in Images, PushImage(i) PROVE TransientInv' /\ L!TagMoves(i)
  <2>1. PICK e \in Digests : /\ registry' = [registry EXCEPT ![i] = e]
                             /\ served' = [served EXCEPT ![i] = @ \cup {e}]
    BY <1>1 DEF PushImage
  <2>2. UNCHANGED <<digests, glitched, pendingDigests, answer, toCheck>>
    BY <1>1 DEF PushImage
  <2>3. \A j \in Images : Real(j, registry[j])' /\ \A f \in Digests : Real(j, f) => Real(j, f)'
    BY <2>1 DEF TransientInv, TypeOK, Real
  <2>4. \A j \in Images : CandidateInv(j)'
    BY <2>2, <2>3 DEF TransientInv, CandidateInv, InFlight, TypeOK
  <2>5. \A j \in Images : InFlight(j)' => Real(j, answer.digest)' \/ glitched'[j]
    BY <2>2, <2>3 DEF TransientInv, InFlight, TypeOK
  <2>6. QED BY <2>1, <2>2, <2>3, <2>4, <2>5 DEF TransientInv, L!TagMoves
<1>2. ASSUME NEW i \in Images, NEW d \in Digests, RecordDigest(i, d), d # NoDigest,
             UNCHANGED <<registry, served, glitched, pendingDigests, answer, toCheck>>
      PROVE  TransientInv' /\ (L!Baseline(i) \/ UNCHANGED <<digests, served>>)
  <2>1. \A j \in Images : digests'[j] = digests[j] \/ digests'[j] # NoDigest
    BY <1>2 DEF RecordDigest, TypeOK
  <2>2. TransientInv'
    BY <1>2, <2>1 DEF TransientInv, CandidateInv, InFlight, Real, TypeOK
  <2>3. QED BY <1>2, <2>2 DEF RecordDigest, L!Baseline
<1>3. ASSUME NEW i \in Images, ExaminePod(i)
      PROVE  TransientInv' /\ (L!Baseline(i) \/ UNCHANGED <<digests, served>>)
  BY <1>2, <1>3, DigestAssumption DEF ExaminePod, TypeOK
<1>4. ASSUME SeedRecord
      PROVE  TransientInv' /\ (L!Baseline(CoopImage) \/ UNCHANGED <<digests, served>>)
  BY <1>2, <1>4, DigestAssumption, CoopImageAssumption DEF SeedRecord, TypeOK
<1>5. ASSUME NEW i \in Images, CheckRegistryDigest(i)
      PROVE  TransientInv' /\ UNCHANGED <<digests, served>>
  <2>1. PICK d \in IF glitched[i] THEN {registry[i]} ELSE Digests :
          /\ answer' = [image |-> i, digest |-> d]
          /\ glitched' = [glitched EXCEPT ![i] = d # registry[i]]
    BY <1>5 DEF CheckRegistryDigest
  <2>2. /\ answer = NoAnswer /\ i \in toCheck
        /\ UNCHANGED <<registry, served, digests, pendingDigests, toCheck>>
    BY <1>5 DEF CheckRegistryDigest
  <2>3. d \in Digests /\ answer' # NoAnswer /\ answer'.image = i /\ answer'.digest = d
    <3>1. d \in Digests
      BY <2>1 DEF TypeOK
    <3>2. Real(i, registry[i]) /\ (Real(i, d) \/ d # registry[i])
      BY DEF TransientInv
    <3>3. answer' # NoAnswer
      BY <2>1, <3>1, AnswerAssumption
    <3>4. QED BY <2>1, <3>1, <3>3
  <2>4. \A j \in Images : InFlight(j)' => Real(j, answer.digest)' \/ glitched'[j]
    BY <2>1, <2>2, <2>3 DEF TransientInv, InFlight, Real, TypeOK
  <2>5. \A j \in Images : CandidateInv(j)'
    BY <2>1, <2>2, <2>3 DEF TransientInv, CandidateInv, InFlight, Real, TypeOK
  <2>6. QED BY <2>2, <2>4, <2>5 DEF TransientInv, Real
<1>6. ASSUME \/ \E i \in Images : CheckFails(i)
             \/ SeedCheck \/ StartRefresh \/ UNCHANGED vars
      PROVE  TransientInv' /\ UNCHANGED <<digests, served>>
  <2>1. UNCHANGED <<registry, served, glitched, digests, pendingDigests, answer>>
    BY <1>6 DEF CheckFails, SeedCheck, StartRefresh, vars
  <2>2. \A i \in toCheck' : i \in toCheck \/ digests[i] # NoDigest
    BY <1>6 DEF CheckFails, SeedCheck, StartRefresh, vars
  <2>3. QED BY <2>1, <2>2 DEF TransientInv, CandidateInv, InFlight, Real
<1>7. QED BY <1>1, <1>3, <1>4, <1>5, <1>6, CoopImageAssumption DEF Next, L!Next

\* Transient wrong answers move the known digest of no image, however the passes, the
\* refreshes, the seed and pushes interleave (imagedigest.go:95-98): the tracker
\* implements LatestDigest.
THEOREM Refinement == Spec => Implements
<1>1. Init => TrackerInv /\ L!Init
  <2>1. ASSUME Init PROVE L!Init
    BY <2>1 DEF Init, L!Init
  <2>2. QED BY <2>1, TypeInit, TransientInit DEF TrackerInv
<1>2. TrackerInv /\ [Next]_vars => TrackerInv' /\ [L!Next]_<<digests, served>>
  <2>1. ASSUME TrackerInv, [Next]_vars PROVE TransientInv' /\ [L!Next]_<<digests, served>>
    BY <2>1, TransientRecord, OtherSteps DEF L!Next
  <2>2. QED BY <2>1, TypeStep DEF TrackerInv
<1>3. QED BY <1>1, <1>2, PTL DEF Spec, Implements, L!Spec
=============================================================================
