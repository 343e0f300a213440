SPECIFICATION Spec
CONSTANTS
  Ops = {o1, o2}
  Args = {x, y}
  Files = {f1, f2}
  Caller = caller
  Workers = {}
  NoFile = NoFile
  MaxExecutions = 3
  MaxLogs = 2
INVARIANTS ReportNests OnlyToReport NeverToDestroyedReport LoggingRestored
SYMMETRY Alike
