SPECIFICATION Spec
CONSTANTS
  MaxBlock = 4
  MaxForks = 2
  StartBlock = 3
  EndBlock = 9
  InitLib = 1
  WillAck = TRUE
  MaxUnconfirmed = 2
  MaxQueue = 3
  QueueHwm = 3
  UModulus = 16
  IrreversibleOnly = FALSE
  MayStop = TRUE
  MayFailOver = FALSE
  MayReject = FALSE
  NodeKeepsUp = TRUE
  ConsumerKeepsUp = TRUE
  RestartForkSurvives = TRUE
  BaseForkIsSound = TRUE
INVARIANTS
  RollbackTerminates
