SPECIFICATION Spec
CONSTANTS
  Sources <- PlainSources
INVARIANTS
  TypeOK
  BlockDiscipline
  NullNeverAccepted
  AcceptedIsBalanced
  BlockReturnFlag
PROPERTIES
  EofIsNotAnError
