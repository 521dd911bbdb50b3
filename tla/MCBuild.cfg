CONSTANTS
  Profiles = {"kiosk", "bare"}
  Requests = {{"kiosk"}, {"kiosk", "bare"}}
  Sizes = {3}
  UserdataSize = 4
  SystemASize = 2
  SystemADefault = 1
  KernelSizes = {2, 3, 5}
  BootPadSize = 4
  BootPartSize = 5
  MaxRev = 2
  MaxBuilds = 3
  Tracked = {"Makefile", "sound.c"}
  Patches <- AllPatches
  Edits <- PatchEdits
  Creates <- PatchCreates
  Renames <- PatchRenames
  AllSeries <- TheSeries
  Git = {TRUE, FALSE}
  MaxKernelBuilds = 3
  MaxKills = 2
SPECIFICATION BuildSpec
INVARIANTS VbmetaChains BootSetOfOneBuild RootfsFitsBoard TornOnlyIfKernelSkipped AppliesAfterAnything BuildsTheSeries
