CONSTANTS
  Byte = {0, 1}
  BLK_SZ = 2
  U32 = 17
  MaxLen = 9
  Partitions = {"zeroed", "used"}
  Pages = {1024, 2048, 4096}
  Sizes = {0, 1, 2, 3, 4, 511, 2047, 2048, 2049}
  Cmdlines = {0, 1536, 1537}
  Magics = {"fdt", "elf-aarch64", "elf-x86", "other"}
  NP = 4
  NB = 3
  TOTAL = 12
  BL_HDR_OFF = 3
  SECTOR = 2
  CfgLens = {1, 2, 3, 7}
  Stage2Lens = {0, 1, 2}
  MaxPushes = 2
SPECIFICATION ImagesSpec
INVARIANTS
  OnlyRawWritten Coalesced
  PartsFound
  MiddleKept StaysReadable Restored
  PushUnderstood
PROPERTIES SparseConverts
