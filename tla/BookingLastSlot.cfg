\* Two concurrent slot cancellations of one approved booking.
SPECIFICATION Spec
CONSTANTS
  r1 = r1  r2 = r2  r3 = r3
  a = a  b = b  c = c
  v1 = v1
  Requests <- PairRequests
  Slots <- PairSlots
  RequestOf <- PairRequestOf
  StartAt <- PairStart
  EndAt <- PairEnd
  Venues <- OneVenue
  VenueOf <- PairVenueOf
  Workers = {w1, w2}
  Nobody = Nobody
  NoRequest = NoRequest
  CancelLead = 0
  RemindLead = 1
  MaxNow = 0
  Watched = {}
  Ops = {"createDirect", "cancelApprovedSlot", "cancel"}
SYMMETRY WorkerSymmetry
INVARIANTS
  LastSlotTakesRequest
