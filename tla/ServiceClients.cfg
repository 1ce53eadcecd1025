SPECIFICATION Spec
CONSTANTS
  Clients = {c1, c2}
  Services = {s1}
  Legacy = {}
  NoClient = NoClient
  SeqMod = 2
  KeepAll = FALSE
  Depth = 1
  BestEffort = FALSE
  MaxSends = 1
  Polls = 1
SYMMETRY ClientSymmetry
INVARIANTS TypeOK OwnResponses ResponseNotLost
PROPERTY ServiceKeepsContract
\* every peer lives once: when all are gone nothing happens any more
CHECK_DEADLOCK FALSE
