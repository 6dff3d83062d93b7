SPECIFICATION MCSpec
CHECK_DEADLOCK FALSE
CONSTANTS
  Client = {c1}
  Script = {op}
  MaxVersion = 2
  MaxRuns = 1
  None = None
PROPERTIES
  RerunRecords
