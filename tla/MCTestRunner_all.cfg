\* Output may exceed the pipes, so that tests block on a full one.  The runner may
\* then wait for a blocked test, which is a deadlock of the real program.
SPECIFICATION DebugSpec
CONSTANTS
  NumTests = 3
  Names <- MCNames
  MaxOutput = 3
  Capacity = 2
  ReadSize = 1
  Limits = {3, 4}
  Failures = {"fork", "read"}
INVARIANTS
  TypeOK
  SummaryIsRight
  FailuresAreShown
  DescriptorsSuffice
PROPERTIES
  RunnerEndsIfPipesSuffice
  OrphansEnd
  DebuggingEnds
CHECK_DEADLOCK FALSE
