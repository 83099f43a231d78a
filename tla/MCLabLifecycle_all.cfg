SPECIFICATION Spec
CONSTANTS
  d1 = d1
  d2 = d2
  p1 = p1
  p2 = p2
  p3 = p3
  NoDir = NoDir
  Procs <- MCTwoShells
  DirOf <- MCTwoShellsDir
  Dirs <- MCDirs
  Labs <- MCLabs
  LabOf <- MCLabOf
  Providers <- MCProviders
  Primary = "libvirt"
  Commands <- AllCommands
  DirRaces <- NoRaces
  TornReads = TRUE
  LabRaces <- UpRaces
INVARIANTS
  StartedIsComplete
