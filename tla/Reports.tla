------------------------------- MODULE Reports ------------------------------
(* The reports of the three hubs and the dashboard, computed from the rows *)
(* of ReportRows.  Each fold is an operator on a set of requests or of     *)
(* slots; a percentage is the two numbers it divides.                      *)
EXTENDS ReportRows

CONSTANTS
  VenueIs,       \* of a venue: open, closed or deleted
  DepartmentIs,  \* of a department: [reserved, deleted]
  NoDepartment,  \* no department
  PurposeRules,  \* PURPOSE_RULES: the categories in their order
  ReportRanges,  \* bound: the ranges asked for, [start, end]
  QueueSize      \* DASHBOARD_QUEUE_SIZE

SumOf(f(_), S) == MapThenSumSet(f, S)
RowOf(r) == requestRows[r]
Statuses == {"PENDING", "APPROVED", "REJECTED", "CANCELLED", "EXPIRED"}

(* parseReportRange: a first day, a last day, and at most a leap year.     *)
ParseReportRange(range) ==
  range.start <= range.end /\ InclusiveDays(range.start, range.end) <= 366

(* reportWindowAt: the part of the range that is over; today is not.       *)
ReportWindowAt(range) ==
  LET until == DayOf(clockNow) - 1
      end == Min({range.end, until}) IN
  [open |-> range.start <= end, start |-> range.start, end |-> end, until |-> until,
   schoolDays |-> SchoolDaysIn(range.start, end)]

(* A request belongs to the day of its first live slot, a held slot to     *)
(* every day it is on.                                                     *)
AttributedRequests(w) ==
  {r \in Existing : /\ w.open /\ RowOf(r).firstStartAt >= DayStart(w.start)
                    /\ RowOf(r).firstStartAt < DayStart(w.end + 1)}
SlotOf(r, i) == [req |-> r, venue |-> Trait[r].venue,
                 start |-> RowOf(r).slots[i].start, end |-> RowOf(r).slots[i].end]
ApprovedSlots == UNION {{SlotOf(r, i) : i \in LiveSlots(RowOf(r))} : r \in RowsOf("APPROVED")}
HeldSlots(w) ==
  {s \in ApprovedSlots : w.open /\ s.start < DayStart(w.end + 1) /\ s.end > DayStart(w.start)}

IsAutoRejected(row) == row.status = "REJECTED" /\ row.auto
FoldStatusCounts(R) ==
  [total |-> Cardinality(R), auto |-> Cardinality({r \in R : IsAutoRejected(RowOf(r))}),
   of |-> [s \in Statuses |-> Cardinality({r \in R : RowOf(r).status = s})]]
SumDailyCounts(R, from, to) ==
  FoldStatusCounts({r \in R : DayOf(RowOf(r).firstStartAt) \in from..to})

(* A cancellation is late within the lead of the slot's start, or after.   *)
LateCancelledSlots(row) ==
  {i \in DOMAIN row.slots : /\ row.slots[i].cancelledAt # NoInstant
                            /\ row.slots[i].cancelledAt > row.slots[i].start - CancelLead}
FoldDiscipline(R) ==
  LET granted == {r \in R : RowOf(r).approvedAt # NoInstant} IN
  [granted |-> Cardinality(granted),
   late |-> Cardinality({r \in granted : LateCancelledSlots(RowOf(r)) # {}})]

FoldHeld(slots, from, to) == SumOf(LAMBDA s : SplitAndClip(s, from, to), slots)
OccupancyOf(held, schoolDays, venueCount) ==
  [held |-> held, of |-> schoolDays * SchoolDayLength * venueCount]

-----------------------------------------------------------------------------
(* Hub 1.  The filters are clauses of the queries.                         *)
EffectiveDepartmentWhere(d) ==
  {r \in Existing : \/ RowOf(r).lineUser /\ Trait[r].regDept = d
                    \/ ~RowOf(r).lineUser /\ Trait[r].ownDept = d}

(* A bucket of the trend clips its slots to itself, its school days to the *)
(* part of the range that is over.                                         *)
ClippedSchoolDays(bucket, w) ==
  IF w.open THEN SchoolDaysIn(bucket.from, Min({bucket.to, w.end})) ELSE 0
TrendBucket(bucket, w, R, slots) ==
  [future |-> bucket.from > w.until, days |-> bucket,
   counts |-> SumDailyCounts(R, bucket.from, bucket.to),
   schoolDays |-> ClippedSchoolDays(bucket, w),
   held |-> FoldHeld(slots, bucket.from, bucket.to)]

Trends(range, w, R, slots) ==
  LET trend(buckets) == {TrendBucket(b, w, R, slots) : b \in buckets} IN
  [month |-> trend(MonthBuckets(range.start, range.end)),
   week |-> trend(WeekBuckets(range.start, range.end))]

(* The venues that were held, and for how long.                            *)
VenueUsage(w, slots) ==
  {use \in {[venue |-> v, held |-> FoldHeld({s \in slots : s.venue = v}, w.start, w.end)]
            : v \in {s.venue : s \in slots}} : use.held > 0}

(* getOverview.  What waits for a decision ignores range and filters.      *)
Overview(w, filter) ==
  LET R == AttributedRequests(w) \cap filter
      slots == {s \in HeldSlots(w) : s.req \in filter} IN
  [requests |-> FoldStatusCounts(R), discipline |-> FoldDiscipline(R),
   held |-> FoldHeld(slots, w.start, w.end), venues |-> VenueUsage(w, slots),
   pendingBacklog |-> Cardinality(RowsOf("PENDING"))]

-----------------------------------------------------------------------------
(* Hub 2.  The heatmap has a cell for each hour of each weekday.           *)
(* Mutant of CellOverlap: a segment counts whole in the cell it starts in. *)
CellWhole(seg, j) ==
  LET start == WindowStart(seg.day) + 2 * j IN
  IF seg.start \in start..start + 1 THEN seg.end - seg.start ELSE 0
CellOverlap(seg, j) ==
  LET start == WindowStart(seg.day) + 2 * j IN
  Max({0, Min({seg.end, start + 2}) - Max({seg.start, start})})
SegmentsOf(slots, w) ==
  UNION {{[slot |-> s, day |-> seg.day, start |-> seg.start, end |-> seg.end]
          : seg \in ClipToSchoolWindow(s, w.start, w.end)} : s \in slots}
HeatCell(segs, weekday, j) ==
  SumOf(LAMBDA seg : CellOverlap(seg, j), {seg \in segs : IsoWeekdayOf(seg.day) = weekday})
NoHeat == [weekday \in 1..5 |-> [j \in 0..7 |-> 0]]
FoldHeatmap(slots, w) ==
  LET segs == SegmentsOf(slots, w) IN
  IF segs = {} THEN NoHeat
  ELSE [weekday \in 1..5 |-> [j \in 0..7 |-> HeatCell(segs, weekday, j)]]

(* topClashOf: of the auto-rejected, the weekday and times asked for most. *)
ClashKey(r) ==
  LET first == RowOf(r).slots[1] IN
  <<IsoWeekdayOf(DayOf(first.start)), TimeOfDay(first.start), TimeOfDay(first.end)>>
TopClash(R) ==
  LET auto == {r \in R : IsAutoRejected(RowOf(r))}
      asked(k) == Cardinality({r \in auto : ClashKey(r) = k})
      IsBetterClash(a, b) ==
        \/ asked(a) > asked(b)
        \/ /\ asked(a) = asked(b)
           /\ \/ a[1] < b[1]
              \/ a[1] = b[1] /\ a[2] < b[2]
              \/ a[1] = b[1] /\ a[2] = b[2] /\ a[3] < b[3]
      keys == {ClashKey(r) : r \in auto} IN
  {[key |-> k, count |-> asked(k)] :
     k \in {best \in keys : \A other \in keys \ {best} : IsBetterClash(best, other)}}

(* buildVenueRows: a deleted venue has a row when it has something to say. *)
VenueRow(v, w, R, slots) ==
  LET asked == {r \in R : Trait[r].venue = v}
      mine == {s \in slots : s.venue = v} IN
  [venue |-> v, requests |-> Cardinality(asked),
   approved |-> Cardinality(asked \cap RowsOf("APPROVED")),
   auto |-> Cardinality({r \in asked : IsAutoRejected(RowOf(r))}),
   held |-> FoldHeld(mine, w.start, w.end), cells |-> FoldHeatmap(mine, w),
   clash |-> TopClash(asked)]
BuildVenueRows(w, R, slots) ==
  {row \in {VenueRow(v, w, R, slots) : v \in DOMAIN VenueIs} :
     VenueIs[row.venue] # "deleted" \/ row.requests > 0 \/ row.held > 0}

(* getVenues: only the rooms that are open now could have been held.       *)
VenuesReport(w) ==
  LET R == AttributedRequests(w)
      slots == HeldSlots(w)
      open == {v \in DOMAIN VenueIs : VenueIs[v] = "open"} IN
  [requests |-> FoldStatusCounts(R), heatmap |-> FoldHeatmap(slots, w),
   occupancy |-> OccupancyOf(FoldHeld(slots, w.start, w.end), w.schoolDays, Cardinality(open)),
   weekdays |-> IF w.open THEN SchoolDaysByWeekday(w.start, w.end) ELSE [d \in 1..5 |-> 0],
   rows |-> BuildVenueRows(w, R, slots)]

-----------------------------------------------------------------------------
(* Hub 3.                                                                  *)
EffectiveDepartmentIdOf(r) ==
  IF RowOf(r).lineUser THEN Trait[r].regDept ELSE Trait[r].ownDept
(* departmentBucketOf: the reserved departments are no department to whom  *)
(* may not see them.                                                       *)
DepartmentBucketOf(d, seesReserved) ==
  IF d = NoDepartment \/ (DepartmentIs[d].reserved /\ ~seesReserved) THEN NoDepartment ELSE d

(* foldDepartments: a deleted one has a row when it has something to say,  *)
(* and so has no department at all.                                        *)
FoldDepartments(w, R, slots, seesReserved) ==
  LET bucketOf(r) == DepartmentBucketOf(EffectiveDepartmentIdOf(r), seesReserved)
      row(d) == LET mine == {r \in R : bucketOf(r) = d} IN
        [dept |-> d, requests |-> Cardinality(mine),
         approved |-> Cardinality(mine \cap RowsOf("APPROVED")),
         held |-> FoldHeld({s \in slots : bucketOf(s.req) = d}, w.start, w.end),
         late |-> Cardinality({r \in mine : /\ RowOf(r).approvedAt # NoInstant
                                            /\ LateCancelledSlots(RowOf(r)) # {}})]
      shown(d) == {e \in {row(d)} : e.requests + e.held + e.late > 0} IN
  UNION {shown(d) : d \in {NoDepartment} \cup {e \in DOMAIN DepartmentIs : DepartmentIs[e].deleted
                                                /\ (DepartmentIs[e].reserved => seesReserved)}}
    \cup {row(d) : d \in {e \in DOMAIN DepartmentIs : ~DepartmentIs[e].deleted
                            /\ (DepartmentIs[e].reserved => seesReserved)}}

(* purposeCategoryOf: the first rule that has a word of the purpose.       *)
PurposeCategoryOf(r) ==
  LET fits == {i \in DOMAIN PurposeRules : PurposeRules[i] \in Trait[r].words} IN
  IF fits = {} THEN "OTHER" ELSE PurposeRules[Min(fits)]
FoldPurposes(w, R, slots) ==
  {[category |-> c, requests |-> Cardinality({r \in R : PurposeCategoryOf(r) = c}),
    held |-> FoldHeld({s \in slots : PurposeCategoryOf(s.req) = c}, w.start, w.end)]
   : c \in ToSet(PurposeRules) \cup {"OTHER"}}

(* slaOf: a request is in the first class that takes it; the time a        *)
(* decision took is the last write's when it was a rejection.              *)
SlaClass(row) ==
  CASE row.createdBy # NoStaff -> "staff created"
    [] row.createdBy = NoStaff /\ row.approvedAt # NoInstant -> "approved"
    [] OTHER -> IF IsAutoRejected(row) THEN "auto rejected" ELSE row.status
Turnaround(row) ==
  Max({0, (IF row.approvedAt # NoInstant THEN row.approvedAt ELSE row.updatedAt) - row.createdAt})
SlaOf(R) ==
  LET decided == {r \in R : SlaClass(RowOf(r)) \in {"approved", "REJECTED"}}
      within(test(_)) == Cardinality({r \in decided : test(Turnaround(RowOf(r)))})
      times == SortSeq(SetToSeq({<<r, Turnaround(RowOf(r))>> : r \in decided}),
                       LAMBDA a, b : a[2] < b[2]) IN
  [decided |-> Cardinality(decided),
   classes |-> {[class |-> c, count |-> Cardinality({r \in R : SlaClass(RowOf(r)) = c})]
                : c \in {"staff created", "approved", "auto rejected", "REJECTED",
                         "CANCELLED", "EXPIRED", "PENDING"}},
   median |-> IF decided = {} THEN 0 ELSE times[(Len(times) - 1) \div 2 + 1][2],
   withinSla |-> within(LAMBDA t : t <= 48),
   buckets |-> <<within(LAMBDA t : t < 4), within(LAMBDA t : t >= 4 /\ t < 24),
                 within(LAMBDA t : t >= 24 /\ t <= 48), within(LAMBDA t : t > 48)>>]

(* buildRegistry: a line for each request with a late cancellation, of the *)
(* first of its late slots.                                                *)
BuildRegistry(R, seesReserved) ==
  {[req |-> r, slot |-> Min(LateCancelledSlots(RowOf(r))),
    lateSlots |-> Cardinality(LateCancelledSlots(RowOf(r))),
    dept |-> DepartmentBucketOf(EffectiveDepartmentIdOf(r), seesReserved)]
   : r \in {q \in R : RowOf(q).approvedAt # NoInstant /\ LateCancelledSlots(RowOf(q)) # {}}}

(* getOperations.                                                          *)
OperationsReport(w, seesReserved) ==
  LET R == AttributedRequests(w)
      slots == HeldSlots(w) IN
  [requests |-> FoldStatusCounts(R), discipline |-> FoldDiscipline(R),
   held |-> FoldHeld(slots, w.start, w.end), sla |-> SlaOf(R),
   departments |-> FoldDepartments(w, R, slots, seesReserved),
   purposes |-> FoldPurposes(w, R, slots), registry |-> BuildRegistry(R, seesReserved)]

-----------------------------------------------------------------------------
(* The dashboard.  computeRoomStates, of the rooms not deleted.            *)
(* Mutant of SlotsToday: the slots that start today.                       *)
SlotsBegunToday ==
  {s \in ApprovedSlots : /\ VenueIs[s.venue] # "deleted"
                         /\ s.start < DayStart(DayOf(clockNow) + 1)
                         /\ s.start >= DayStart(DayOf(clockNow))}
SlotsToday ==
  {s \in ApprovedSlots : /\ VenueIs[s.venue] # "deleted"
                         /\ s.start < DayStart(DayOf(clockNow) + 1)
                         /\ s.end > DayStart(DayOf(clockNow))}
RoomState(v) ==
  LET mine == {s \in SlotsToday : s.venue = v}
      current == {s \in mine : s.start <= clockNow /\ clockNow < s.end}
      next == {s.start : s \in {t \in mine : t.start > clockNow}} IN
  IF VenueIs[v] = "closed" THEN [state |-> "OFF", today |-> 0, until |-> NoInstant]
  ELSE IF current # {} THEN [state |-> "BUSY", today |-> Cardinality(mine), until |-> NoInstant]
  ELSE [state |-> "FREE", today |-> Cardinality(mine),
        until |-> IF next = {} THEN NoInstant ELSE Min(next)]
FreeWindow(v) ==
  IF RoomState(v).state # "FREE" THEN "none"
  ELSE IF RoomState(v).until # NoInstant THEN "UNTIL_NEXT"
  ELSE IF TimeOfDay(clockNow) < 24 THEN "ALL_DAY"
  ELSE IF TimeOfDay(clockNow) <= 33 THEN "AFTERNOON" ELSE "REST_OF_DAY"

(* getVitals: the head of the queue, by start and age.                     *)
PendingQueue ==
  LET q == SortSeq(SetToSeq(RowsOf("PENDING")), LAMBDA a, b :
             \/ RowOf(a).firstStartAt < RowOf(b).firstStartAt
             \/ /\ RowOf(a).firstStartAt = RowOf(b).firstStartAt
                /\ RowOf(a).createdAt < RowOf(b).createdAt) IN
  SubSeq(q, 1, Min({Len(q), QueueSize}))
=============================================================================
