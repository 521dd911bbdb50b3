CONSTANTS
  k1 = k1
  v1 = v1
  Keys = {k1}
  Values = {v1}
  Unset = Unset
  CachePos = 1
  FacresPos = 1
  RootPos = 2
  MaxTries = 2
  Overrides = {"", "ro", "rw"}
SPECIFICATION Spec
INVARIANTS RescueOnlyWithoutRootfs
