SPECIFICATION Spec
CONSTANTS
  MaxBlock = 4
  MaxForks = 1
  StartBlock = 0
  EndBlock = 5
  InitLib = 0
  WillAck = TRUE
  MaxUnconfirmed = 2
  MaxQueue = 3
  QueueHwm = 3
  UModulus = 16
  IrreversibleOnly = FALSE
  MayStop = TRUE
  MayFailOver = TRUE
  MayReject = TRUE
  NodeKeepsUp = FALSE
  ConsumerKeepsUp = FALSE
  RestartForkSurvives = FALSE
  BaseForkIsSound = FALSE
INVARIANTS
  TypeOK
  UnconfirmedIsBounded
CHECK_DEADLOCK FALSE
