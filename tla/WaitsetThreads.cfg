SPECIFICATION Spec
CONSTANTS
  WS = {w1, w2}
  Waiters = {t1, t2}
  Destroyers = {d1}
  a1 = a1
  a2 = a2
  Addr = {a1, a2}
  Handles = {h1, h2, h3}
  NoHandle = NoHandle
  NoOne = NoOne
  CreatedKinds = {"sub", "gc"}
  EvTypes <- NoStatuses
  Supported <- NoStatuses
  Inconsistent <- NoStatuses
  ValidStatus <- NoStatusTable
  Calls <- SharedCalls
  MayFail = TRUE
  Overlap = TRUE
  Concurrent = TRUE
SYMMETRY SharedSymmetry
INVARIANTS TypeOK OneUser SweepNeverDangles CacheSafe
PROPERTIES NeverReturnsEarly GuardTriggerKept
\* each failed creation of a waitset leaks a guard condition: the handles run out
CHECK_DEADLOCK FALSE
