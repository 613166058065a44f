SPECIFICATION FrontSpec
CONSTANTS
  a1 = a1
  a2 = a2
  m1 = m1
  r1 = r1
  r2 = r2
  null = null
  unset = unset
  Customer = {1, 2, 3}
  Ticket = {1, 2, 3}
  Word = {1, 2, 3}
  Redacted = 2
  Stamp = {1, 2}
  Step = {"RECEIVED", "CANCELLED"}
  Address <- MCAddress
  Mail <- MCMail
  Request <- MCRequest
  Updates <- MCUpdates
  Arrivals <- MCArrivals
  Titles = {1}
  Names <- MCNames
  Times <- MCTimes
  Queries <- MCQueries
  MaxRequests = 2
  Take = 1
  MaxPages = 3
SYMMETRY Renamings
CHECK_DEADLOCK FALSE
CONSTRAINTS Apart OneEmail
INVARIANTS
  FrontTypeOK
  FlagFollowsAddress
  ErasedIsGone
  StrayMailWasOvertaken
  CustomerWalkIsWhole
  TicketWalkIsWhole
