SPECIFICATION Spec
CONSTANTS
  a1 = a1
  a2 = a2
  a3 = a3
  i1 = i1
  i2 = i2
  crew = crew
  job = job
  Agents = {a1, a2}
  JobAgents = {a2}
  Images = {i1, i2}
  Digests = {d1}
  Modes = {crew, job}
  Mode <- MCMode
  NameMode <- MCMode
  NoPod = NoPod
  NoDigest = NoDigest
  NoBead = NoBead
  NoAgent = NoAgent
  Faults = {"refused", "lost"}
  MaxPods = 1
  BurstLimit = 1
  GraceEndsFirst = FALSE
  EmptyAnswers = TRUE
  Restarts = TRUE
INVARIANTS
  TypeOK
  MaxPodsRespected
PROPERTY
  NoNeedlessKill
ACTION_CONSTRAINT ReadyBetweenPasses
VIEW WithoutDigests
