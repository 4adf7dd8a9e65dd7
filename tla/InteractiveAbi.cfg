SPECIFICATION ISpec
CONSTANTS
  Accounts = {1, 2}
  v2 = v2
  Abis <- MCAbis
  BadAbi = bad
  NoAbi = none
  MaxBlock = 3
  Changes <- MCChanges
  Traces = {}
  TracesOf = {{}}
  Configs <- MCConfigs
  MaxRequests = 1
  MaySlowDown = FALSE
  Contents <- MCContents
  OnlyIrreversible = TRUE
  RestartsAreQuiet = TRUE
INVARIANTS
  LatestOwnAbi
