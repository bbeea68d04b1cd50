\* A staged photo that was not re-homed, and the sweep.
\* The requests are bounded: when they are used up nothing is left to do.
CHECK_DEADLOCK FALSE
SPECIFICATION PhSpec
CONSTANTS
  Photos = {k1, k2}
  PhotoVenues = {v1}
  PhotoClerks = {w1, w2}
  Staged = Staged
  MaxPhotoRequests = 3
INVARIANTS
  StagedStillRenders
