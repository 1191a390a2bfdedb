SPECIFICATION FairSpec
CONSTANTS
  Sources <- RecoverySources
INVARIANTS
  BlockDiscipline
  IncompleteOnlyAtEOF
PROPERTIES
  ParseTerminates
