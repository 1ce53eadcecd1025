SPECIFICATION Spec
CONSTANTS
  Contexts = {c1, c2}
  Threads = {t1, t2}
  Domains = {0}
  Options = {"Subnet", "NotSet"}
  NotSet = "NotSet"
  NoDomain = NoDomain
  NoOne = NoOne
  MaxNodes = 2
  Failures <- AnyFailure
SYMMETRY ThreadSymmetry
INVARIANTS TypeOK RefcountCovers ThreadUsesLive DomainSharedSafely EverythingResets
