SPECIFICATION FairSpec
CONSTANTS
  Sources <- PointSources
PROPERTIES
  LexingEnds
