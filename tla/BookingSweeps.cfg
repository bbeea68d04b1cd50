\* The crons against decisions, with one request's watchers and cards followed.
\* The clock is bounded: if nothing was submitted before the slots begin, nothing is left to do.
CHECK_DEADLOCK FALSE
SPECIFICATION Spec
CONSTANTS
  r1 = r1  r2 = r2  r3 = r3
  a = a  b = b  c = c
  v1 = v1
  Requests <- EarlyRequests
  Slots <- EarlySlots
  RequestOf <- EarlyRequestOf
  StartAt <- EarlyStart
  EndAt <- EarlyEnd
  Venues <- OneVenue
  VenueOf <- EarlyVenueOf
  Workers = {w1, w2}
  Nobody = Nobody
  NoRequest = NoRequest
  CancelLead = 0
  RemindLead = 2
  MaxNow = 2
  Watched = {r1}
  Ops = {"createFromLine", "approve", "reject", "cancelPendingBooking", "expireOverdue", "remindUpcoming"}
SYMMETRY WorkerSymmetry
INVARIANTS
  NoDirtyNews
  CardsAreTrue
  RemindedAtMostOnce
  EveryWrittenRowIsAnnounced

