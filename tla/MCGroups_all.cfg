CONSTANTS
  Labs <- AllLabs
  Names <- MCNames
  AsNames <- MCAsNames
  Devices <- MCDevices
  Hosts <- MCHosts
  DefaultDevice = "ios"
  NoDevice = NoDevice
  NoAs = NoAs
SPECIFICATION Spec
INVARIANTS
  InnermostWins
  TemplatesInOrder
  AsGroupsAreExact
CHECK_DEADLOCK FALSE
