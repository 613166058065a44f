SPECIFICATION EmailSpec
CONSTANTS
  manager = manager
  r1 = r1
  w1 = w1
  w2 = w2
  Staff <- MCStaff
  Managers <- MCStaff
  Step <- MCStep
  Request <- MCRequest
  Sweep <- MCSweep
  UndoWindow = 1
  TxTimeout = 1
  NotifyDelay = 3
  Lease = 4
  SendMax = 3
  MaxEvents = 3
  LastCall = 0
  MaxTime = 7
  MaxFailures = 1
CHECK_DEADLOCK FALSE
PROPERTIES
  ImplementsAnnouncement
