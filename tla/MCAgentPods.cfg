\* A persistent agent and a job of one project, an edit by a user, a crash, calls
\* that fail or lose their answer.
SPECIFICATION PodsSpec
CONSTANTS
  a1 = a1
  a2 = a2
  Agents = {a1, a2}
  Identity <- MCIdentity
  Projects = {"p1"}
  Entries <- MCEntries
  Configs <- MCConfigs
  Models <- MCModels
  NoteImages <- MCNoteImages
  NoWorkspace = NoWorkspace
  NoClone = NoClone
  NoProject = NoProject
  NoBead = NoBead
  NoClaim = NoClaim
  PodFaults = {"refused", "lost"}
  MaxEdits = 1
  MaxCrashes = 1
INVARIANTS PodsTypeOK SameSpec PodsWhole
PROPERTY CleanPassConverges
