SPECIFICATION FairSpec
CONSTANTS
  Contexts = {c1}
  Threads = {t1, t2, t3}
  Domains = {0}
  Options = {"Subnet", "NotSet"}
  NotSet = "NotSet"
  NoDomain = NoDomain
  NoOne = NoOne
  MaxNodes = 3
  Failures <- SomeFailures
PROPERTY CallsEnd
