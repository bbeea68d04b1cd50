\* The staff sessions with their sockets, and a LINE user.
\* The requests are bounded: when they are used up nothing is left to do.
CHECK_DEADLOCK FALSE
SPECIFICATION PeopleSpec
CONSTANTS
  \* a LINE user: every request and event about him against another
  Workers = {w1, w2}
  Filings = {f1}
  None = None
  Miss = Miss
  MaxName = 2
  MaxRequests = 2
  \* the sessions
  Persons = {p1, p2}
  Sids = {s1, s2}
  Sockets = {k1}
  Requests = {r1, r2}
  NoSid = NoSid
  Cap = 0
  IndexTtl = 1
  MaxTicks = 1
  MaxSteps = 3
  \* staff accounts
  Officers = {o1, o2, o3}
  Staffers = {w1, w2}
  NoOfficer = NoOfficer
  MaxStaffWrites = 2
INVARIANTS
  SuperAdminRemains
  RegistrationsAreSound
  DeletionToldOnce
  Revocable
PROPERTIES
  PrivilegeIsTakenByRight
  
  RevokedStaysDead
  SocketsLoseAuthority
