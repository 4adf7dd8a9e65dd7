SPECIFICATION IFairSpec
CONSTANTS
  Accounts = {1, 2}
  v2 = v2
  Abis <- MCAbis
  BadAbi = bad
  NoAbi = none
  MaxBlock = 3
  Changes <- MCChanges
  Traces = {}
  TracesOf = {{}}
  Configs <- MCConfigs
  MaxRequests = 2
  MaySlowDown = TRUE
  Contents <- MCContents
  OnlyIrreversible = TRUE
  RestartsAreQuiet = TRUE
INVARIANTS
  InteractiveTypeOK
  ServedInOrder
  PendingIsExact
  FoundRowIsAlive
  OwnRowIsFound
PROPERTIES
  ServesRequests
  RequestsServed
CHECK_DEADLOCK FALSE
