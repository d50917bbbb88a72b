\* An agent whose user does one thing, and one before it in the lists whose pod stays as
\* it is and whose reports may all fail.
SPECIFICATION RepSpec
CONSTANTS
  a1 = a1
  a2 = a2
  Agents = {a1, a2}
  Beads = {a1, a2}
  Images = {i1}
  Image = i1
  Digests = {d1}
  NoPod = NoPod
  NoDigest = NoDigest
  JobAgents = {}
  Faults = {}
  RpcFaults = {"refused"}
  IPs = {ip1, ip2}
  NoIP = NoIP
  Nobody = Nobody
  NoProject = {}
  NoBead = NoBead
  NoCall = NoCall
  MaxEdits = 1
  Watched = {a2}
  NameOrder <- MCNameOrder
  Keys <- MCKeys
  Values <- MCValues
  Typed <- MCTyped
  Notes <- MCNotes
  Clients <- MCClients
INVARIANTS RepTypeOK RemovalStaysReported UserFieldKept
PROPERTIES StateConverges CoopURLConverges
