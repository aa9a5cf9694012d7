\* Three requests of one account and one change of its security version; two
\* servers of three releases; two commands on a pool of two connections.
CONSTANTS
  NoOne = NoOne
  Attempts = {a1, a2, a3}
  MaxVersion = 2
  Servers = {a1, a2}
  Releases = {"new", "patched"}
  Names = {1, 2, 3}
  Files <- Builds
  Plain = {3}
  Legacy <- EarlierRows
  Nobody = Nobody
  Commands = {a1, a2}
  PoolMax = 2
  Statuses = {p, q}
  Pending = p
SPECIFICATION MCSpec
INVARIANTS
  TypesOK
  OneLiveTokenPerLogin
  EndedSessionsStayOver
  MfaMarkIsProved
  ServersFitSchema
  MigratedOnce
  CopiesAgree
PROPERTIES
  ImplementsChains
  EveryWaitEnds
CHECK_DEADLOCK FALSE
