SPECIFICATION Spec
CONSTANTS
  MaxBlock = 6
  MaxForks = 2
  StartBlock = 2
  EndBlock = 7
  InitLib = 2
  WillAck = TRUE
  MaxUnconfirmed = 3
  MaxQueue = 5
  QueueHwm = 6
  UModulus = 16
  IrreversibleOnly = FALSE
  MayStop = TRUE
  MayFailOver = TRUE
  MayReject = TRUE
  NodeKeepsUp = TRUE
  ConsumerKeepsUp = TRUE
  RestartForkSurvives = TRUE
  BaseForkIsSound = TRUE
INVARIANTS
  RevisionTracksHead
  CommittedIsFinal
  UndoStatesOnOneChain
  PositionsCoverReversible
  RestartPointProcessed
  UnconfirmedIsBounded
  RollbackTerminates
PROPERTIES
  ConsumerContinuity
  FollowsChain
