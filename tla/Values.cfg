SPECIFICATION Spec
CONSTANTS
  None = None
  Block = Block
  Unit = 16
  Times = {0, 1, 2, 3}
  InitialStages <- MCStages
  MaxSteps = 2
INVARIANTS ShownKept ExtentsBound SamplesNeeded
PROPERTIES AnalysisTells
CHECK_DEADLOCK FALSE
