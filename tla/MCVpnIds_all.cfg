CONSTANTS
  Labs <- MCLabs
  MaxVrfId = 4
  StartVni = 100
  StartTransit = 200
SPECIFICATION OverlaySpec
INVARIANTS
  VrfsDiffer
  RoutesGoAsTold
  VnisDiffer
  FloodsReachTheVlan
  ServicesMeet
  IrbReaches
CHECK_DEADLOCK FALSE
