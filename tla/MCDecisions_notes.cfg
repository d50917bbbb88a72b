\* No call fails; the status reporter has written the address to the notes.
SPECIFICATION DecSpec
CONSTANTS
  Decisions = {d1}
  Mails = {}
  Agent = agent
  Priorities = {1, 2}
  Beads = {d1, agent}
  Clients = {c1, c2}
  NoBead = NoBead
  NoCall = NoCall
  Nothing = Nothing
  Keys <- MCKeys
  Values <- MCValues
  Choices <- MCChoices
  Typed <- NoValues
  Notes <- MCNotes
  Outages = FALSE
  RpcFaults = {}
  SlackFaults = {}
  NudgeFaults = {}
PROPERTY AgentIsFound
CHECK_DEADLOCK FALSE
