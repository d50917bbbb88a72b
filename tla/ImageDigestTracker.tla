-------------------------- MODULE ImageDigestTracker --------------------------
(***************************************************************************)
(* reconciler/imagedigest.go: the digest each image tag is believed to     *)
(* have.  Pods feed it during a pass (digestDrift), the registry during a  *)
(* refresh between passes, and a goroutine of its own seeds it at startup  *)
(* (main.go:229-243).  observedDigests is written and never read again.    *)
(***************************************************************************)
EXTENDS Naturals, FiniteSets

CONSTANTS
  Images,        \* image references
  Digests,       \* digests
  NoDigest,      \* not known
  NoAnswer,      \* no registry answer is being recorded
  CoopImage      \* the image the controller seeds

DigestConfirmThreshold == 2

ASSUME DigestAssumption == NoDigest \notin Digests /\ NoAnswer \notin Digests
ASSUME AnswerAssumption == NoAnswer \notin [image : Images, digest : Digests]
ASSUME CoopImageAssumption == CoopImage \in Images

VARIABLES
  registry,         \* image -> the digest its tag has
  served,           \* history: image -> the digests its tag has had
  glitched,         \* image -> the last answer to a refresh was wrong
  digests,          \* image -> latest known digest
  pendingDigests,   \* image -> candidate awaiting confirmation
  pendingConfirms,  \* image -> its confirmations
  toCheck,          \* refresh: images still to query
  answer,           \* refresh: the answer to record, with its image
  seed,             \* seeding goroutine: its answer to record
  seeded            \* seeding goroutine: it has started

registryVars == <<registry, served, glitched>>
trackerVars == <<digests, pendingDigests, pendingConfirms>>
vars == <<registryVars, trackerVars, toCheck, answer, seed, seeded>>

Init ==
  /\ registry \in [Images -> Digests]
  /\ served = [i \in Images |-> {registry[i]}]
  /\ glitched = [i \in Images |-> FALSE]
  /\ digests = [i \in Images |-> NoDigest]
  /\ pendingDigests = [i \in Images |-> NoDigest]
  /\ pendingConfirms = [i \in Images |-> 0]
  /\ toCheck = {} /\ answer = NoAnswer
  /\ seed = NoAnswer /\ seeded = FALSE

PushImage(i) ==
  /\ \E d \in Digests \ {registry[i]} :
       /\ registry' = [registry EXCEPT ![i] = d]
       /\ served' = [served EXCEPT ![i] = @ \cup {d}]
  /\ UNCHANGED <<glitched, trackerVars, toCheck, answer, seed, seeded>>

\* An existing digest stays, whoever recorded it.
RecordDigest(i, d) ==
  digests' = IF digests[i] = NoDigest THEN [digests EXCEPT ![i] = d] ELSE digests

\* A pass examines a running pod of the image.
ExaminePod(i) ==
  /\ toCheck = {}
  /\ \E d \in served[i] : RecordDigest(i, d)
  /\ UNCHANGED <<registryVars, pendingDigests, pendingConfirms, toCheck, answer, seed, seeded>>

\* The goroutine asks once; without an answer it gives up.
SeedCheck ==
  /\ ~seeded
  /\ seeded' = TRUE
  /\ seed' \in Digests \cup {NoAnswer}
  /\ UNCHANGED <<registryVars, trackerVars, toCheck, answer>>

SeedRecord ==
  /\ seed # NoAnswer
  /\ RecordDigest(CoopImage, seed)
  /\ seed' = NoAnswer
  /\ UNCHANGED <<registryVars, pendingDigests, pendingConfirms, toCheck, answer, seeded>>

\* RefreshImages: the tracked images, in any order.
StartRefresh ==
  /\ toCheck = {}
  /\ toCheck' = {i \in Images : digests[i] # NoDigest}
  /\ UNCHANGED <<registryVars, trackerVars, answer, seed, seeded>>

\* A wrong answer is transient: the next one is right.
CheckRegistryDigest(i) ==
  /\ i \in toCheck /\ answer = NoAnswer
  /\ \E d \in IF glitched[i] THEN {registry[i]} ELSE Digests :
       /\ answer' = [image |-> i, digest |-> d]
       /\ glitched' = [glitched EXCEPT ![i] = d # registry[i]]
  /\ UNCHANGED <<registry, served, trackerVars, toCheck, seed, seeded>>

\* The query fails, the image is skipped.
CheckFails(i) ==
  /\ i \in toCheck /\ answer = NoAnswer
  /\ toCheck' = toCheck \ {i}
  /\ UNCHANGED <<registryVars, trackerVars, answer, seed, seeded>>

ConfirmsEver(i, d) == pendingConfirms[i] + 1
ConfirmsKnown(i, d) == IF digests[i] = d THEN pendingConfirms[i] + 1 ELSE 1
Confirms(i, d) == IF pendingDigests[i] = d THEN pendingConfirms[i] + 1 ELSE 1

ForgetDigest(i) == pendingDigests' = [pendingDigests EXCEPT ![i] = NoDigest] /\ UNCHANGED pendingConfirms
Forget(i) ==
  /\ pendingDigests' = [pendingDigests EXCEPT ![i] = NoDigest]
  /\ pendingConfirms' = [pendingConfirms EXCEPT ![i] = 0]

RecordRegistryDigest ==
  /\ answer # NoAnswer
  /\ LET i == answer.image
         d == answer.digest
     IN  /\ \/ /\ digests[i] = d
               /\ Forget(i)
               /\ UNCHANGED digests
            \/ /\ digests[i] # d /\ Confirms(i, d) < DigestConfirmThreshold
               /\ pendingDigests' = [pendingDigests EXCEPT ![i] = d]
               /\ pendingConfirms' = [pendingConfirms EXCEPT ![i] = Confirms(i, d)]
               /\ UNCHANGED digests
            \/ /\ digests[i] # d /\ Confirms(i, d) >= DigestConfirmThreshold
               /\ digests' = [digests EXCEPT ![i] = d]
               /\ Forget(i)
         /\ toCheck' = toCheck \ {i}
  /\ answer' = NoAnswer
  /\ UNCHANGED <<registryVars, seed, seeded>>

Next ==
  \/ \E i \in Images : PushImage(i) \/ ExaminePod(i) \/ CheckRegistryDigest(i) \/ CheckFails(i)
  \/ SeedCheck \/ SeedRecord \/ StartRefresh \/ RecordRegistryDigest

Spec == Init /\ [][Next]_vars

\* The refresh comes round (main.go:287-293) and does not fail for ever.
Fairness ==
  /\ WF_vars(StartRefresh) /\ WF_vars(RecordRegistryDigest)
  /\ \A i \in Images : /\ SF_vars(CheckRegistryDigest(i))
                       /\ WF_vars(CheckRegistryDigest(i) \/ CheckFails(i))

FairSpec == Spec /\ Fairness

-----------------------------------------------------------------------------
TypeOK ==
  /\ registry \in [Images -> Digests] /\ served \in [Images -> SUBSET Digests]
  /\ glitched \in [Images -> BOOLEAN]
  /\ digests \in [Images -> Digests \cup {NoDigest}]
  /\ pendingDigests \in [Images -> Digests \cup {NoDigest}]
  /\ pendingConfirms \in [Images -> 0..DigestConfirmThreshold - 1]
  /\ \A i \in Images : pendingConfirms[i] = 0 <=> pendingDigests[i] = NoDigest
  /\ toCheck \subseteq Images
  /\ answer = NoAnswer \/ answer \in [image : toCheck, digest : Digests]
  /\ seed \in Digests \cup {NoAnswer} /\ seeded \in BOOLEAN

\* The tracker implements LatestDigest: as long as the registry's wrong answers are
\* transient, the known digest moves only to digests the tag has had, however
\* refreshes, passes, pushes, the seed and failed queries interleave.
L == INSTANCE LatestDigest WITH digests <- digests, served <- served
Implements == L!Spec

\* Once the tag settles and the registry answers right, a tracked image's digest is
\* the registry's, whatever was pending.
Converges ==
  \A i \in Images, d \in Digests :
    <>[](registry[i] = d /\ ~glitched[i] /\ digests[i] # NoDigest) => <>[](digests[i] = d)
=============================================================================
