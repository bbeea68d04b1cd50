----------------------------- MODULE MCBookings -----------------------------
(* Small instances of Bookings for TLC.                                    *)
EXTENDS BookingInvariant, TLC

CONSTANTS r1, r2, r3, a, b, c, v1

(* Rivals: three one-slot requests for one room; r2 overlaps r1 and r3,    *)
(* r1 and r3 touch (one ends when the other starts).                       *)
RivalRequests == {r1, r2, r3}
RivalSlots == {a, b, c}
RivalRequestOf == a :> r1 @@ b :> r2 @@ c :> r3
RivalStart == a :> 1 @@ b :> 2 @@ c :> 3
RivalEnd == a :> 3 @@ b :> 4 @@ c :> 5

(* Pair: a request of two slots and a rival for the second of them.        *)
PairRequests == {r1, r2}
PairSlots == {a, b, c}
PairRequestOf == a :> r1 @@ b :> r1 @@ c :> r2
PairStart == a :> 1 @@ b :> 3 @@ c :> 4
PairEnd == a :> 2 @@ b :> 5 @@ c :> 6

(* Early: two rivals that are both overdue at instant 2, when the second   *)
(* slot of r1 is still to come.                                            *)
EarlyRequests == {r1, r2}
EarlySlots == {a, b, c}
EarlyRequestOf == a :> r1 @@ b :> r1 @@ c :> r2
EarlyStart == a :> 1 @@ b :> 3 @@ c :> 1
EarlyEnd == a :> 2 @@ b :> 5 @@ c :> 4

OneVenue == {v1}
RivalVenueOf == [r \in RivalRequests |-> v1]
PairVenueOf == [r \in PairRequests |-> v1]
EarlyVenueOf == [r \in EarlyRequests |-> v1]

WorkerSymmetry == Permutations(Workers)
=============================================================================
