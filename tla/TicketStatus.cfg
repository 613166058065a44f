SPECIFICATION TicketSpec
CONSTANTS
  manager = manager
  employee = employee
  r1 = r1
  r2 = r2
  Staff <- MCStaff
  Managers <- MCManagers
  Step <- MCStep
  Request <- MCRequest
  UndoWindow = 1
  TxTimeout = 1
  NotifyDelay = 3
  Lease = 2
  MaxEvents = 4
  LastCall = 2
  MaxTime = 4
SYMMETRY Slots
CHECK_DEADLOCK FALSE
INVARIANTS
  TypeOK
  DivergesOnlyByOvertakenUndo
  HonestTimeline
  CreationIsPermanent
  TicketInv
PROPERTIES
  UndoneWhileCurrent
  PermanentAfterWindow
  UndoneBeforeDue
