CONSTANTS
  NUL = NUL
  Junk = Junk
  NoFile = NoFile
  NonAscii = {"high"}
  ENV_DATA_SIZE = 9
  p1 = p1
  p2 = p2
  Path = {p1, p2}
  Text <- AllTexts
  Payloads <- AllPayloads
  Modifies <- AllModifies
  Deletes <- AllDeletes
  MaxCommands = 3
  KernelSizes = {33554432, 45000000}
  Dtbos = {"blank", "dtb", "dtbo"}
SYMMETRY FileSymmetry
SPECIFICATION EnvSpec
INVARIANTS
  SavedIsRequested KeepsUntouched RefusalHarmless PresetReady
  SavedFromWhole DeleteNeverTooLarge
  SlotCoherent ChoiceHonoured
