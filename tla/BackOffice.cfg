\* Each component of the back office by itself: see MCBackOffice.
\* Every bound may be used up and every handler idle: nothing is left to do.
CHECK_DEADLOCK FALSE
SPECIFICATION BackOfficeSpec
CONSTANTS
  \* announcements: PATCH, DELETE and the department against a send
  Workers = {w1, w2}
  Nobody = Nobody
  Users <- OneUser
  d1 = d1
  Departments = {d1}
  None = None
  Absent = Absent
  DeptOf <- OneDeptOf
  Texts = {Blank, t1}
  Blank = Blank
  ChunkSize = 1
  MaxStamp = 1
  MaxSends = 1
  MaxChanges = 1
  Forgets = TRUE
  \* option lists
  OptIds = {o1, o2, o3}
  OptHolders = {h1}
  OptClerks = {w1, w2}
  NoOpt = NoOpt
  MaxOptRequests = 3
  \* venue photos
  Photos = {k1, k2}
  PhotoVenues = {v1}
  PhotoClerks = {w1, w2}
  Staged = Staged
  MaxPhotoRequests = 4
  \* feedback and canned replies
  FbIds = {f1, f2}
  FbClerks = {w1, w2}
  CannedIds = {cr1, cr2}
  NoClerk = NoClerk
  CannedMax = 1
  SortOrderMax = 1
  FbMaxAttempts = 2
  MaxFbRequests = 4
  \* triggers of notifications
  TrInstances = {i1, i2}
  TrWorkers = {w1, w2}
  LatestVersion = 2
  ClaimTtl = 1
  MaxTrClock = 1
  MaxTriggers = 3
  \* notifications
  NoteIds = {note1, note2}
  Readers = {u1}
  NoteClerks = {w1, w2}
  MaxNoteRequests = 4
  \* incidents
  IncRequests = {q1}
  IncidentFifo = 1
  IncidentCap = 2
  SignatureLimit = 1
  DraftsMax = 2
  MaxOccurrences = 3
  MaxIncSteps = 3
  \* the numbers: three handlers over a Bangkok and a UTC midnight
  Inserters = {w1, w2, w3}
  DayLength = 2
  Offset = 1
  MaxAttempts = 3
  MaxNow = 2
  MaxBookings = 2
SYMMETRY WorkerSymmetry
INVARIANTS
  ContentFrozen
  DepartmentIffAudience
  OptionsAreSafe
  
  DeskLocksHold
  NoticesOnce
  CountsAddUp
  IncidentsAccounted
  RetriesArePaidFor
PROPERTIES
  SentIsFinal
