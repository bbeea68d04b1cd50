\* Two sends against edits, lost answers and late requests; recipients fixed, keys remembered.
\* The row may be deleted or sent with every bound used up: nothing is left to do.
CHECK_DEADLOCK FALSE
SPECIFICATION SteadySpec
CONSTANTS
  Workers = {w1, w2}
  Nobody = Nobody
  Users <- TwoUsers
  d1 = d1
  Departments = {}
  None = None
  Absent = Absent
  DeptOf <- NoDeptOf
  Texts = {Blank, t1, t2}
  Blank = Blank
  ChunkSize = 1
  MaxStamp = 1
  MaxSends = 2
  MaxChanges = 0
  Forgets = FALSE
INVARIANTS
  CountedReceived
  ResendIsSafe
PROPERTIES
  SendEnds
