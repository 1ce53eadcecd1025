SPECIFICATION FairSpec
CONSTANTS
  client = client
  server = server
  subscription = subscription
  r1 = r1
  Threads = {t1}
  Remotes = {r1}
  Selves = {me1, me2}
  LocalEntities = {client}
  RemoteEntities = {server, subscription}
  KindOf <- Kinds
  NameOf <- Named
  OwnerOf <- Owner
  MaxChanges = 3
  MaxInfo = 1
  NoOne = NoOne
INVARIANTS TypeOK AssociatedExist WholeOrNothing CacheIsWorld QueriesTellWhole NamesComeBack
PROPERTY ThreadRests
\* when the context has lived twice nothing is left to do
CHECK_DEADLOCK FALSE
