SPECIFICATION FairSpec
CONSTANTS
  Clients = {c1}
  Services = {s1, s2}
  Legacy = {s2}
  NoClient = NoClient
  SeqMod = 4
  KeepAll = TRUE
  Depth = 1
  BestEffort = TRUE
  MaxSends = 1
  Polls = 1
PROPERTY AvailableIsPaired SendResponseEnds
\* every peer lives once: when all are gone nothing happens any more
CHECK_DEADLOCK FALSE
