SPECIFICATION Spec
CONSTANTS
  p1 = p1
  p2 = p2
  p3 = p3
  lab1 = lab1
  lab2 = lab2
  started = started
  stopping = stopping
  NoEntry = NoEntry
  Nobody = Nobody
  Missing = Missing
  Torn = Torn
  Error = Error
  Procs <- MCProcs
  Labs <- MCLabs
  Values <- MCValues
INVARIANTS
  NoLostUpdate
PROPERTIES
  ImplementsAtomicStatus
  WaitersLeave
