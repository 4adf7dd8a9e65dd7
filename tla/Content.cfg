SPECIFICATION Spec
CONSTANTS
  Accounts = {1, 2}
  v1 = v1
  v2 = v2
  Abis <- MCAbis
  BadAbi = bad
  NoAbi = none
  MaxBlock = 3
  Changes <- MCChanges
  Traces <- MCTraces
  TracesOf <- MCTracesOf
  Configs <- MCConfigs
INVARIANTS
  TypeOK
  TableIsLatestUsable
  HistoryIsBranch
  ContextAgrees
  DecodedAsOfBlock
  FiltersAreComplete
