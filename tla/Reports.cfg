\* The reports, read after every step of two requests' lives.
\* When the clock has reached its last instant nothing may be left to do.
CHECK_DEADLOCK FALSE
SPECIFICATION ReportSpec
CONSTANTS
  r1 = r1
  r2 = r2
  hall = hall
  lab = lab
  old = old
  deptA = deptA
  deptB = deptB
  ReportRequests = {r1, r2}
  ReportStaff = {u1}
  NoStaff = NoStaff
  NoDepartment = NoDepartment
  NoVenue = NoVenue
  Trait <- TraitOf
  CancelLead = 4
  Instants <- Times
  VenueIs <- Venues
  DepartmentIs <- Departments
  PurposeRules <- Rules
  ReportRanges <- Ranges
  ReportScopes <- Scopes
  QueueSize = 1
INVARIANTS
  ReportsAgree
  AuditIsTrue
  RoomsAreTrue
