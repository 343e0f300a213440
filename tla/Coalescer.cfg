SPECIFICATION Spec
CONSTANTS
  Waiters = {w1, w2}
  Owner = owner
  Delay = 4
  Millisecond = 2
  MaxCallbacks = 2
INVARIANTS NoTimerAfterDestroy WakesOnTime
PROPERTIES CallbackAfterBurst TriggerAnswered DestructorReturns
