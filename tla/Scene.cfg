SPECIFICATION Spec
CONSTANTS
  Names <- MCNames
  None = None
  Blocked = Blocked
  Reader = Reader
  MaxArcs = 3
  MaxDepth = 6
  InitialStages <- MCStages
  MaxSteps = 3
INVARIANTS ReferencesSound
PROPERTIES AppearanceKept TargetsKept
CHECK_DEADLOCK FALSE
