\* Slot cancellations by staff and requester, raced by the reminder claim.
SPECIFICATION Spec
CONSTANTS
  r1 = r1  r2 = r2  r3 = r3
  a = a  b = b  c = c
  v1 = v1
  Requests <- PairRequests
  Slots <- PairSlots
  RequestOf <- PairRequestOf
  StartAt <- PairStart
  EndAt <- PairEnd
  Venues <- OneVenue
  VenueOf <- PairVenueOf
  Workers = {w1, w2}
  Nobody = Nobody
  NoRequest = NoRequest
  CancelLead = 0
  RemindLead = 2
  MaxNow = 1
  Watched = {}
  Ops = {"createFromLine", "createDirect", "approve", "cancel", "cancelApprovedSlot", "remindUpcoming"}
SYMMETRY WorkerSymmetry
INVARIANTS
  HoldsMirror
  CancelledIsEmpty
PROPERTIES
  SlotsNeverRevive
