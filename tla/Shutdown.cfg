SPECIFICATION OpSpec
CONSTANTS
  Users = {u1, u2}
  Exits = {e1, e2}
  Others = {"other"}
  Nobody = Nobody
  MaxCalls = 2
  Islanders = {u1}
  Clashes <- MCClashes
INVARIANTS CallbacksRunOnceInOrder DetectorCovered IslandsAreComponents GroupsReported

PROPERTIES ShutdownReturns
