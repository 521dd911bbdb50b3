CONSTANTS
  Profiles = {"kiosk", "bare"}
  Requests = {{"kiosk"}, {"kiosk", "bare"}}
  Sizes = {3}
  UserdataSize = 4
  SystemASize = 2
  SystemADefault = 1
  KernelSizes = {2, 3, 5}
  BootPadSize = 4
  BootPartSize = 5
  MaxRev = 2
  MaxBuilds = 2
SPECIFICATION Spec
INVARIANT RootfsForBoard
