SPECIFICATION Spec
CONSTANTS
  a1 = a1
  a2 = a2
  a3 = a3
  i1 = i1
  i2 = i2
  crew = crew
  job = job
  Agents = {a1, a2, a3}
  JobAgents = {}
  Images = {i1}
  Digests = {d1, d2}
  Modes = {crew, job}
  Mode <- MCMode
  NameMode <- MCMode
  NoPod = NoPod
  NoDigest = NoDigest
  NoBead = NoBead
  NoAgent = NoAgent
  Faults = {"refused"}
  MaxPods = 0
  BurstLimit = 2
  GraceEndsFirst = TRUE
  EmptyAnswers = FALSE
  Restarts = FALSE
INVARIANTS
  OneUpgradePerMode
SYMMETRY Interchangeable
ACTION_CONSTRAINT BetweenPasses
