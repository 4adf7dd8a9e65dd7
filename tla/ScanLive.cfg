SPECIFICATION FairSpec
CONSTANTS
  MaxBlock = 5
  MaxForks = 2
  StartBlock = 0
  EndBlock = 9
  InitLib = 1
  WillAck = TRUE
  MaxUnconfirmed = 3
  MaxQueue = 4
  QueueHwm = 4
  UModulus = 16
  IrreversibleOnly = FALSE
  MayStop = FALSE
  MayFailOver = FALSE
  MayReject = FALSE
  NodeKeepsUp = TRUE
  ConsumerKeepsUp = TRUE
  RestartForkSurvives = TRUE
  BaseForkIsSound = TRUE
PROPERTIES
  CatchesUp
  SlowdownEnds
