SPECIFICATION Spec
CONSTANTS
  Kinds = {"sub", "cs", "event"}
  Profiles <- ThreeProfiles
  Instances = {k1}
  Takers = {t1, t2}
  NoSample = NoSample
  Capacity = 2
  MaxSamples = 4
  MaxErrors = 1
SYMMETRY TakerSymmetry
INVARIANTS TypeOK NothingUnannounced AnnouncedOnce
PROPERTY LostOnlyWithError
