SPECIFICATION TeamSpec
CONSTANTS
  u1 = u1
  u2 = u2
  u3 = u3
  b1 = b1
  b2 = b2
  l1 = l1
  l2 = l2
  i1 = i1
  i2 = i2
  r1 = r1
  r2 = r2
  User <- MCUser
  Business <- MCBusiness
  Location <- MCLocation
  Invitation <- MCInvitation
  Request <- MCRequest
  MaxRequests = 4
SYMMETRY Names
CONSTRAINT SentAgain
CHECK_DEADLOCK FALSE
INVARIANTS
  TeamTypeOK
  OwnersDriftOnlyByLateWrites
  DeletedAccountIsOut
  InvitationUsedOnce
  InvitationTellsTheTruth
  ClosedLocationInvitesNobody
PROPERTIES
  OwnerManagesAdmins
