---------------------------- MODULE ReportExport ----------------------------
(* The document of the reports: build() reads the rows once, for a venue,  *)
(* a department or all, and makes every table of them.                     *)
EXTENDS Reports

CONSTANTS
  NoVenue,       \* all the venues
  ReportScopes   \* bound: the scopes asked for, [venue, dept]

(* A reserved department is refused to whom may not see it.                *)
MayAskFor(scope, seesReserved) ==
  scope.dept # NoDepartment /\ DepartmentIs[scope.dept].reserved => seesReserved
ScopedTo(scope) ==
  {r \in Existing : /\ scope.venue \in {NoVenue, Trait[r].venue}
                    /\ scope.dept # NoDepartment => r \in EffectiveDepartmentWhere(scope.dept)}

(* ledgerStatusOf: only a booking that is gone says that it went late.     *)
LedgerStatusOf(row) ==
  CASE row.status = "REJECTED" -> IF IsAutoRejected(row) THEN "rejected, clash" ELSE "rejected"
    [] row.status = "CANCELLED" ->
         IF row.approvedAt # NoInstant /\ LateCancelledSlots(row) # {}
         THEN "cancelled late" ELSE "cancelled"
    [] OTHER -> row.status
(* ledgerWhenOf: of the slots, the one the request starts with.            *)
LedgerWhenOf(row) ==
  LET shown == {i \in DOMAIN row.slots : row.slots[i].start = row.firstStartAt}
      starts(i) == row.slots[i].start IN
  [slot |-> IF shown # {} THEN Min(shown) ELSE 1, slots |-> Len(row.slots),
   weekly |-> \A i \in 2..Len(row.slots) : starts(i) - starts(i - 1) = 7 * DayLength]
Ledger(R) ==
  {[req |-> r, status |-> LedgerStatusOf(RowOf(r)), when |-> LedgerWhenOf(RowOf(r))] : r \in R}

(* mainUserByVenue: the department that holds most of a venue's time.      *)
MainUserOf(v, w, slots, seesReserved) ==
  LET bucketOf(s) == DepartmentBucketOf(EffectiveDepartmentIdOf(s.req), seesReserved)
      heldBy(d) == FoldHeld({s \in slots : s.venue = v /\ bucketOf(s) = d}, w.start, w.end)
      users == {d \in {bucketOf(s) : s \in slots} \ {NoDepartment} : heldBy(d) > 0} IN
  {[dept |-> d, held |-> heldBy(d)]
   : d \in {e \in users : \A other \in users : heldBy(other) <= heldBy(e)}}

(* peakOf: the first of the hours that are held most, in the week's order. *)
PeakOf(cells) ==
  LET at(c) == cells[c \div 8 + 1][c % 8]
      most == Max({at(c) : c \in 0..39}) IN
  IF most = 0 THEN {} ELSE {Min({c \in 0..39 : at(c) = most})}

KeyIndicators(w, R, slots) ==
  [requests |-> FoldStatusCounts(R), discipline |-> FoldDiscipline(R), sla |-> SlaOf(R),
   held |-> FoldHeld(slots, w.start, w.end)]
VenueStatistics(rows) ==
  {[venue |-> row.venue, requests |-> row.requests, held |-> row.held] : row \in rows}
DepartmentAllocation(depts) ==
  {[dept |-> d.dept, requests |-> d.requests, held |-> d.held, approved |-> d.approved]
   : d \in depts}
VenueTable(rows, mainUserByVenue) ==
  {[venue |-> row.venue, held |-> row.held, approved |-> row.approved, auto |-> row.auto,
    peak |-> PeakOf(row.cells), mainUser |-> mainUserByVenue[row.venue]] : row \in rows}

(* buildReportDocument: of the three templates, all the sections.          *)
BuildReportDocument(w, R, slots, venueRows, depts, mainUserByVenue) ==
  LET key == KeyIndicators(w, R, slots) IN
  [isEmpty |-> R = {} /\ key.held = 0, key |-> key, statistics |-> VenueStatistics(venueRows),
   departments |-> DepartmentAllocation(depts), ledger |-> Ledger(R),
   table |-> VenueTable(venueRows, mainUserByVenue)]

BuildDocument(w, scope, seesReserved) ==
  LET R == AttributedRequests(w) \cap ScopedTo(scope)
      slots == {s \in HeldSlots(w) : s.req \in ScopedTo(scope)} IN
  BuildReportDocument(w, R, slots,
    {row \in BuildVenueRows(w, R, slots) : scope.venue \in {NoVenue, row.venue}},
    {d \in FoldDepartments(w, R, slots, seesReserved) : scope.dept \in {NoDepartment, d.dept}},
    [v \in DOMAIN VenueIs |-> MainUserOf(v, w, slots, seesReserved)])
=============================================================================
