CONSTANTS
  BL_HDR_OFF = 3
  SECTOR = 2
  CfgLens = {1, 2}
  Stage2Lens = {1}
  MaxPushes = 2
SPECIFICATION CacheSpec
INVARIANT ConfigOnlyNoOps
