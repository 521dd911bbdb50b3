CONSTANTS
  FLEN = 2
  Marks = {6}
  TAIL = 3
  RX_MAX = 4
  RX_KEEP = 3
  MaxBytes = 3
  MaxFrames = 2
  DataLens = {1, 4}
  MaxResets = 2
  INTERVAL = 10
  BREAK_SEC = 3
  STARTUP = 30
  Margin = 5
  MaxLag = 1
  MaxRuns = 3
  MaxFaults = 1
SPECIFICATION BenchSpec
INVARIANTS
  StreamIntact TailKept PromptCaught
  ReportTrueIfStopped
  CycleCuts
PROPERTIES CatchEnds NotLeftAtPrompt BannerNoticed StaysOn
