SPECIFICATION Spec
CONSTANTS
  Sources <- VariadicSources
PROPERTIES
  EofIsNotAnError
