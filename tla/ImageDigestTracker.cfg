SPECIFICATION FairSpec
CONSTANTS
  Images = {i1}
  Digests = {d1, d2, d3}
  NoDigest = NoDigest
  NoAnswer = NoAnswer
  CoopImage = i1
INVARIANT
  TypeOK
PROPERTIES
  Implements
  Converges
