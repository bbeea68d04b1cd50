\* Overdue requests are closed, every handler ends, and the rows stay consistent meanwhile.
\* The clock is bounded: if nothing was submitted before the slots begin, nothing is left to do.
CHECK_DEADLOCK FALSE
SPECIFICATION FairSpec
CONSTANTS
  r1 = r1  r2 = r2  r3 = r3
  a = a  b = b  c = c
  v1 = v1
  Requests <- EarlyRequests
  Slots <- EarlySlots
  RequestOf <- EarlyRequestOf
  StartAt <- EarlyStart
  EndAt <- EarlyEnd
  Venues <- OneVenue
  VenueOf <- EarlyVenueOf
  Workers = {w1, w2}
  Nobody = Nobody
  NoRequest = NoRequest
  CancelLead = 0
  RemindLead = 2
  MaxNow = 2
  Watched = {}
  Ops = {"createFromLine", "approve", "cancelPendingBooking", "expireOverdue"}
INVARIANTS
  RowInvariant
PROPERTIES
  OverdueIsClosed
  HandlersEnd
