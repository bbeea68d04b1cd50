------------------------------ MODULE MCReports -----------------------------
(* The reports for TLC: two requests of one open venue, at three instants  *)
(* from the last days of a term into the holidays.                         *)
EXTENDS ReportProperties, TLC

CONSTANTS r1, r2, hall, lab, old, deptA, deptB

Span(first, from, last, to) ==
  [start |-> DayStart(first) + from, end |-> DayStart(last) + to]

(* r1 asks for two slots, across the lunch of a Monday and on Tuesday; r2  *)
(* for a weekend long that clashes with the first.                         *)
TraitOf ==
  (r1 :> [venue |-> hall, regDept |-> deptA, ownDept |-> NoDepartment, words |-> {"MEETING"},
          slotLists |-> {<<Span(88, 18, 88, 25), Span(89, 32, 89, 36)>>}]) @@
  (r2 :> [venue |-> hall, regDept |-> deptB, ownDept |-> deptA, words |-> {"TEACHING", "MEETING"},
          slotLists |-> {<<Span(85, 30, 88, 20)>>}])
Times == {DayStart(84) + 20, DayStart(88) + 19, DayStart(91) + 20}
Venues == (hall :> "open") @@ (lab :> "closed") @@ (old :> "deleted")
Departments ==
  (deptA :> [reserved |-> TRUE, deleted |-> FALSE]) @@
  (deptB :> [reserved |-> FALSE, deleted |-> TRUE])
Rules == <<"MEETING", "TEACHING">>
Ranges == {[start |-> 84, end |-> 88], [start |-> 85, end |-> 91]}
Scopes == {[venue |-> NoVenue, dept |-> NoDepartment], [venue |-> hall, dept |-> deptA]}
=============================================================================
