SPECIFICATION Spec
CONSTANTS
  Ops = {o1}
  Args = {x}
  Files = {f1}
  Caller = caller
  Workers = {w1}
  NoFile = NoFile
  MaxExecutions = 1
  MaxLogs = 2
INVARIANTS OnlyToReport
