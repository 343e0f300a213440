SPECIFICATION Spec
CONSTANTS
  Loggers = {t1, t2}
  Messages = {a, b}
  MaxLogs = 4
INVARIANTS CompleteWhenClosed
PROPERTIES NoWriteAfterClose DestructorReturns ImplementsAppendLog
