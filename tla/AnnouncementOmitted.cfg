\* A PATCH of the text against a PATCH of the audience.
\* The row may be deleted or sent with every bound used up: nothing is left to do.
CHECK_DEADLOCK FALSE
SPECIFICATION Spec
CONSTANTS
  Workers = {w1, w2}
  Nobody = Nobody
  Users <- OneUser
  d1 = d1
  Departments = {d1}
  None = None
  Absent = Absent
  DeptOf <- OneDeptOf
  Texts = {Blank, t1}
  Blank = Blank
  ChunkSize = 1
  MaxStamp = 1
  MaxSends = 0
  MaxChanges = 0
  Forgets = FALSE
PROPERTIES
  OmittedIsKept
