CONSTANTS
  FLEN = 2
  Marks = {6}
  TAIL = 3
  RX_MAX = 4
  RX_KEEP = 3
  MaxBytes = 3
  MaxFrames = 3
  DataLens = {1, 4}
SPECIFICATION Spec
INVARIANTS AnchoredAtEnd
