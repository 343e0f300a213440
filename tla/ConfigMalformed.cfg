SPECIFICATION Spec
CONSTANTS
  Commands = {"operation", "reportOn", "reportOff", "unknown", "malformed"}
  MaxCommands = 2
  MaxRuns = 1
INVARIANTS StageCacheRestored
