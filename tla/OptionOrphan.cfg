\* A holder is given an option while the option is deleted.
\* The requests are bounded: when they are used up nothing is left to do.
CHECK_DEADLOCK FALSE
SPECIFICATION OptSpec
CONSTANTS
  OptIds = {o1, o2, o3}
  OptHolders = {h1}
  OptClerks = {w1, w2}
  NoOpt = NoOpt
  MaxOptRequests = 3
INVARIANTS
  NoOrphanHolders
