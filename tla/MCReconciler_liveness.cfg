SPECIFICATION SettledSpec
CONSTANTS
  a1 = a1
  a2 = a2
  a3 = a3
  i1 = i1
  i2 = i2
  crew = crew
  job = job
  Agents = {a1, a2}
  JobAgents = {}
  Images = {i1, i2}
  Digests = {d1}
  Modes = {crew, job}
  Mode <- MCMode
  NameMode <- MCMode
  NoPod = NoPod
  NoDigest = NoDigest
  NoBead = NoBead
  NoAgent = NoAgent
  Faults = {}
  MaxPods = 0
  BurstLimit = 1
  GraceEndsFirst = FALSE
  EmptyAnswers = FALSE
  Restarts = FALSE
PROPERTIES
  BeadGetsItsPod
  OrphanReaped
