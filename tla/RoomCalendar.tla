---------------------------- MODULE RoomCalendar ----------------------------
(***************************************************************************)
(* What the booking domain is for: a calendar in which a room is given to  *)
(* one request at a time.  Each operation is one atomic step over the      *)
(* status of the requests and the slots that were given up.  Bookings      *)
(* implements this module: its committed rows are this calendar.           *)
(***************************************************************************)
CONSTANTS Requests, Slots, RequestOf, Clash(_, _)

VARIABLES status,     \* the lifecycle state of each request
          dropped     \* the slots that were cancelled

calendar == <<status, dropped>>

Of(r) == {s \in Slots : RequestOf[s] = r}
Taken == {s \in Slots \ dropped : status[RequestOf[s]] = "APPROVED"}

Set(R, st) == [r \in Requests |-> IF r \in R THEN st ELSE status[r]]
AllPending(R) == \A r \in R : status[r] = "PENDING"

(* A requester asks for a room.  This reserves nothing.                    *)
Submit(r) == /\ status[r] = "NONE"
             /\ status' = Set({r}, "PENDING")
             /\ UNCHANGED dropped

(* A request gets the room: none of its slots clashes with one already     *)
(* taken, and rivals for the same time lose in the same step.              *)
Grant(r, losers) ==
  /\ status[r] \in {"NONE", "PENDING"}
  /\ \A s \in Of(r) \ dropped, t \in Taken : ~Clash(s, t)
  /\ AllPending(losers) /\ r \notin losers
  /\ \A l \in losers : \E s \in Of(r), t \in Of(l) : Clash(s, t)
  /\ status' = [Set(losers, "REJECTED") EXCEPT ![r] = "APPROVED"]
  /\ UNCHANGED dropped

Refuse(r) == /\ status[r] = "PENDING"
             /\ status' = Set({r}, "REJECTED")
             /\ UNCHANGED dropped

Withdraw(r) == /\ status[r] = "PENDING"
               /\ status' = Set({r}, "CANCELLED")
               /\ dropped' = dropped \cup Of(r)

Lapse(R) == /\ R # {} /\ AllPending(R)
            /\ status' = Set(R, "EXPIRED")
            /\ UNCHANGED dropped

(* Slots of a granted request are given back.  The request is closed only  *)
(* if it has nothing left.                                                 *)
Release(r, S) ==
  /\ status[r] = "APPROVED"
  /\ S # {} /\ S \subseteq Of(r) \cap Taken
  /\ dropped' = dropped \cup S
  /\ \/ status' = status
     \/ Of(r) \subseteq dropped' /\ status' = Set({r}, "CANCELLED")

Init == /\ status = [r \in Requests |-> "NONE"]
        /\ dropped = {}

Next ==
  \/ \E r \in Requests :
       \/ Submit(r) \/ Refuse(r) \/ Withdraw(r)
       \/ \E losers \in SUBSET Requests : Grant(r, losers)
       \/ \E S \in SUBSET Slots : Release(r, S)
  \/ \E R \in SUBSET Requests : Lapse(R)

Spec == Init /\ [][Next]_calendar
=============================================================================
