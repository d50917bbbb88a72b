SPECIFICATION ControllerSpec
CONSTANTS
  a1 = a1
  a2 = a2
  i1 = i1
  i2 = i2
  crew = crew
  job = job
  Agents = {a1, a2}
  Sources = {a1, a2}
  JobAgents = {}
  Images = {i1}
  EventImages = {i1}
  Digests = {d1, d2}
  Modes = {crew, job}
  Mode <- MCMode
  NameMode <- MCMode
  NoPod = NoPod
  NoDigest = NoDigest
  NoBead = NoBead
  NoAgent = NoAgent
  Faults = {}
  MaxPods = 0
  BurstLimit = 1
  GraceEndsFirst = TRUE
  EmptyAnswers = FALSE
  Restarts = FALSE
  ChannelSize = 1
  MaxMessages = 1
INVARIANTS
  ControllerTypeOK
  OneUpgradePerMode
SYMMETRY Interchangeable
CONSTRAINT OneMessage
ACTION_CONSTRAINT BetweenPasses
