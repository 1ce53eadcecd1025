SPECIFICATION FairSpec
CONSTANTS
  WS = {w1}
  Waiters = {t1, t2}
  Destroyers = {d1, d2}
  a1 = a1
  a2 = a2
  Addr = {a1, a2}
  Handles = {h1, h2, h3}
  NoHandle = NoHandle
  NoOne = NoOne
  CreatedKinds = {"gc"}
  EvTypes <- NoStatuses
  Supported <- NoStatuses
  Inconsistent <- NoStatuses
  ValidStatus <- NoStatusTable
  Calls <- LiveCalls
  MayFail = FALSE
  Overlap = FALSE
  Concurrent = TRUE
PROPERTIES WaitImplementsContract DestroyEnds
