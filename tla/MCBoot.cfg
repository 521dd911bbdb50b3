CONSTANTS
  k1 = k1
  k2 = k2
  v1 = v1
  v2 = v2
  Keys = {k1, k2}
  Values = {v1, v2}
  Unset = Unset
  CachePos = 1
  FacresPos = 2
  RootPos = 3
  MaxTries = 2
  Overrides = {"", "ro", "rw", "other"}
  MaxFaults = 2
SPECIFICATION BootSpec
INVARIANTS TypeOK ModeMatchesIntent CleanHandover
PROPERTIES SealedDiskFrozen ConfigAtomic BootSettles ConfigConsumed
