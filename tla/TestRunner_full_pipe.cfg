SPECIFICATION FairSpec
CONSTANTS
  NumTests = 1
  MaxOutput = 2
  Capacity = 1
  ReadSize = 1
  Limits = {4}
  Failures = {}
PROPERTIES
  RunnerEnds
CHECK_DEADLOCK FALSE
