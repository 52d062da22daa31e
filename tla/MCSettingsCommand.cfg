CONSTANTS
  Paths = {p1, p2}
  NoPaths = noPaths
SPECIFICATION Spec
INVARIANT CommandModeKeepsSettings
