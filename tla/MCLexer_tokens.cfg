SPECIFICATION FairSpec
CONSTANTS
  Sources <- AllSources
INVARIANTS
  TypeOK
  TokensTile
  TokensAreLongest
  KeywordsRecognised
  LinesAreExact
PROPERTIES
  LexingEnds
