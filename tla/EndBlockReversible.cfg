SPECIFICATION FairSpec
CONSTANTS
  MaxBlock = 4
  MaxForks = 0
  StartBlock = 0
  EndBlock = 4
  InitLib = 1
  WillAck = TRUE
  MaxUnconfirmed = 2
  MaxQueue = 3
  QueueHwm = 3
  UModulus = 16
  IrreversibleOnly = FALSE
  MayStop = FALSE
  MayFailOver = FALSE
  MayReject = FALSE
  NodeKeepsUp = TRUE
  ConsumerKeepsUp = TRUE
  RestartForkSurvives = TRUE
  BaseForkIsSound = TRUE
PROPERTIES
  StopsAtEnd
