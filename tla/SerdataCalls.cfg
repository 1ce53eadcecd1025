SPECIFICATION Spec
CONSTANTS
  Threads = {t1, t2}
  Objs = {o1, o2}
  Loans = {l1}
  Topics <- MCTopics
  Samples <- MCSamples
  Encodings = {"other"}
  Own = "own"
  Codec <- MCCodec
  Miskeyed <- MCMiskeyed
  Nobody = Nobody
  None = None
  Busy <- MCBusy
SYMMETRY Symmetry
INVARIANTS TypeOK ViewsStable ReferencesExact TakenIsPublished KeysAgree BufferFits
