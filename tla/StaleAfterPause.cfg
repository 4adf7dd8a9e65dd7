SPECIFICATION Spec
CONSTANTS
  LastBlock = 2
  MaxQueue = 3
  PauseMax = 2
  Deadline = 3
  SendPauseMax = 4
  WriteMax = 1
  QueueHwm = 3
  QueueBound = 5
  MayRejectAbi = FALSE
CHECK_DEADLOCK FALSE
PROPERTIES
  StaleMeansQuiet
