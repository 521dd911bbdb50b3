CONSTANTS
  INTERVAL = 10
  BREAK_SEC = 3
  STARTUP = 30
  Margin = 5
  MaxLag = 1
  MaxRuns = 3
  MaxFaults = 0
SPECIFICATION PoeSpec
INVARIANTS SingleCycle
