\* One decision and one mail, two clicks at a time, crashes, connections that break,
\* every call failing or losing its answer.
SPECIFICATION DecSpec
CONSTANTS
  Decisions = {d1}
  Mails = {m1}
  Agent = agent
  Priorities = {1, 2}
  Beads = {d1, m1, agent}
  Clients = {c1, c2}
  NoBead = NoBead
  NoCall = NoCall
  Nothing = Nothing
  Keys <- MCKeys
  Values <- MCValues
  Choices <- MCChoices
  Typed <- NoValues
  Notes <- NoNotes
  Outages = TRUE
  RpcFaults = {"refused", "lost"}
  SlackFaults = {"refused", "lost"}
  NudgeFaults = {"refused", "lost"}
INVARIANT DecTypeOK
PROPERTIES OneOutcome AgentIsTold
