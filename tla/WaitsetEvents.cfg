SPECIFICATION Spec
CONSTANTS
  WS = {w1}
  Waiters = {t1}
  Destroyers = {d1}
  a1 = a1
  a2 = a2
  Addr = {a1}
  Handles = {h1, h2, h3}
  NoHandle = NoHandle
  NoOne = NoOne
  CreatedKinds = {"sub", "pub"}
  EvTypes <- Statuses
  Supported <- Statuses
  Inconsistent <- IncompatibleType
  ValidStatus <- StatusTable
  Calls <- EventCalls
  MayFail = FALSE
  Overlap = FALSE
  Concurrent = FALSE
SYMMETRY SharedSymmetry
INVARIANTS WaitedEventsEnabled AttachedAreArgs CacheNeverDangles
