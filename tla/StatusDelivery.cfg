SPECIFICATION DeliverySpec
CONSTANTS
  manager = manager
  r1 = r1
  w1 = w1
  w2 = w2
  Staff <- MCStaff
  Managers <- MCStaff
  Step <- MCStep
  Request <- MCRequest
  Sweep <- MCSweep
  UndoWindow = 1
  TxTimeout = 1
  NotifyDelay = 3
  Lease = 4
  SendMax = 3
  MaxEvents = 3
  LastCall = 3
  MaxTime = 8
  MaxFailures = 1
SYMMETRY Slots
CHECK_DEADLOCK FALSE
INVARIANTS
  DeliveryTypeOK
  UndoneNeverTold
  OneHolder
  AnnouncedOnce
  SupersededNeverTold
  LastWordAnnounced
PROPERTIES
  ImplementsTicket
  StaleOnlyIfOutrun
