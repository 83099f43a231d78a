SPECIFICATION ApiSpec
CONSTANTS
  j1 = j1
  j2 = j2
  c1 = c1
  wd = wd
  Home = Home
  LabDir = LabDir
  Default = Default
  Server = Server
  Unlocked = Unlocked
  Workdir <- MCWorkdir
  Jobs <- MCJobs
  Clients <- MCClients
  Bad <- MCBad
INVARIANTS
  WorksInPlace
PROPERTIES
  FinalStays
  JobsFinish
CHECK_DEADLOCK FALSE
