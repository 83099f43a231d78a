SPECIFICATION Spec
CONSTANTS
  d1 = d1
  d2 = d2
  p1 = p1
  p2 = p2
  p3 = p3
  NoDir = NoDir
  Procs <- MCThreeShells
  DirOf <- MCThreeShellsDir
  Dirs <- MCDirs
  Labs <- MCLabs
  LabOf <- MCLabOf
  Providers <- MCProviders
  Primary = "libvirt"
  Commands <- StartStop
  DirRaces <- UpRaces
  TornReads = FALSE
  LabRaces <- UpRaces
INVARIANTS
  OneInstance
  RunningIsManaged
  DownLeavesNothing
PROPERTIES
  ImplementsRegistry
