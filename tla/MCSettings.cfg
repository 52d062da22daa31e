CONSTANTS
  Paths = {p1, p2}
  NoPaths = noPaths
SPECIFICATION Spec
INVARIANTS
  TypeOK
  SettingsKept
  ConfIsCurrent
PROPERTY ChoiceRemembered
