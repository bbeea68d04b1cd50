\* Staff decisions on three rival requests, raced by their requesters.
SPECIFICATION Spec
CONSTANTS
  r1 = r1  r2 = r2  r3 = r3
  a = a  b = b  c = c
  v1 = v1
  Requests <- RivalRequests
  Slots <- RivalSlots
  RequestOf <- RivalRequestOf
  StartAt <- RivalStart
  EndAt <- RivalEnd
  Venues <- OneVenue
  VenueOf <- RivalVenueOf
  Workers = {w1, w2}
  Nobody = Nobody
  NoRequest = NoRequest
  CancelLead = 0
  RemindLead = 1
  MaxNow = 0
  Watched = {}
  Ops = {"createFromLine", "createDirect", "approve", "reject", "cancelPendingBooking"}
SYMMETRY WorkerSymmetry
INVARIANTS
  TypeOK
  NoDoubleBooking
  ConstraintIsLastResort
  OnlySweepsDeadlock
PROPERTIES
  StatusMoves
  ImplementsCalendar
