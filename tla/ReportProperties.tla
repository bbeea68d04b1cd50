-------------------------- MODULE ReportProperties --------------------------
(* What the screens of the reports may be compared on, whatever happened   *)
(* to the bookings and whenever the reports are read.                      *)
EXTENDS AuditTrail, ReportExport

(* The three screens of a range, the departments' rows for who sees the    *)
(* reserved ones and who does not, and the documents that may be asked for. *)
Screens(range) ==
  LET w == ReportWindowAt(range) IN
  [range |-> range, window |-> w, over |-> Overview(w, Existing), venues |-> VenuesReport(w),
   ops |-> OperationsReport(w, TRUE), hidden |-> OperationsReport(w, FALSE)]
AskedRanges == {g \in ReportRanges : ParseReportRange(g)}
Documents(w) ==
  {[scope |-> a[1], over |-> Overview(w, ScopedTo(a[1])), doc |-> BuildDocument(w, a[1], a[2])] :
     a \in {p \in ReportScopes \X BOOLEAN : MayAskFor(p[1], p[2])}}

RequestsAt(v) == {r \in Existing : Trait[r].venue = v}

(* Each cut of a report adds up to its total: the heatmap, the venues and  *)
(* the purposes to the time held, the classes of decisions to the          *)
(* requests, the times they took to the decisions.  An hour of the week is *)
(* held no more often than it comes in the range.                          *)
CutsAddUp(screens) ==
  LET w == screens.window
      over == screens.over
      venues == screens.venues
      ops == screens.ops
      heat == venues.heatmap
      sla == ops.sla
      ofVenues(f) == SumOf(LAMBDA row : row[f], venues.rows) IN
  /\ over.requests = venues.requests /\ over.requests = ops.requests /\ over.held = ops.held
  /\ over.held = SumOf(LAMBDA c : heat[c[1]][c[2]], (1..5) \X (0..7))
  /\ over.held = SumOf(LAMBDA v : v.held, over.venues)
  /\ over.held = ofVenues("held") /\ over.held = venues.occupancy.held
  /\ over.requests.total = ofVenues("requests") /\ over.requests.auto = ofVenues("auto")
  /\ over.requests.of["APPROVED"] = ofVenues("approved")
  /\ \A row \in venues.rows : \A c \in row.clash : c.count <= row.auto
  /\ over.held = SumOf(LAMBDA p : p.held, ops.purposes)
  /\ over.requests.total = SumOf(LAMBDA p : p.requests, ops.purposes)
  /\ over.requests.total = SumOf(LAMBDA c : c.count, sla.classes)
  /\ sla.decided = sla.buckets[1] + sla.buckets[2] + sla.buckets[3] + sla.buckets[4]
  /\ sla.withinSla = sla.decided - sla.buckets[4]
  /\ sla.decided > 0 => (2 * sla.withinSla > sla.decided => sla.median <= 48)
  /\ \A row \in venues.rows : Cardinality(row.clash) = (IF row.auto > 0 THEN 1 ELSE 0)
  /\ over.requests.of["PENDING"] <= over.pendingBacklog
  /\ w.schoolDays = SumOf(LAMBDA d : venues.weekdays[d], 1..5)
  /\ \A d \in 1..5, j \in 0..7 : heat[d][j] <= 2 * venues.weekdays[d] * Cardinality(over.venues)

(* The departments add up to the same, whoever asks, and so do the late    *)
(* cancellations that the registry lists.                                  *)
DepartmentsAddUp(over, ops) ==
  /\ over.held = SumOf(LAMBDA d : d.held, ops.departments)
  /\ over.requests.total = SumOf(LAMBDA d : d.requests, ops.departments)
  /\ over.discipline = ops.discipline
  /\ over.discipline.late = SumOf(LAMBDA d : d.late, ops.departments)
  /\ over.discipline.late = Cardinality(ops.registry)

(* The trend's weeks and months say the same, and what the totals say of a *)
(* range that is over.                                                     *)
TrendsAgree(screens) ==
  LET w == screens.window
      held == screens.over.held
      slots == HeldSlots(w)
      trends == Trends(screens.range, w, AttributedRequests(w), slots) IN
  \A trend \in {trends.week, trends.month} :
    /\ screens.over.requests.total = SumOf(LAMBDA b : b.counts.total, trend)
    /\ w.schoolDays = SumOf(LAMBDA b : b.schoolDays, trend)
    /\ \A b \in trend : b.future => b.counts.total = 0 /\ b.schoolDays = 0
    /\ held <= SumOf(LAMBDA b : b.held, trend)
    /\ (\A s \in slots : s.end <= DayStart(w.end + 1)) => held = SumOf(LAMBDA b : b.held, trend)

(* No venue is ever held for more than the school days have hours, each    *)
(* half hour of a school window that a slot holds counts once, and so does *)
(* it in the row of a venue that is still shown.                           *)
VenuesHoldAtMostTheirTime(w, venues) ==
  LET window(d) == WindowStart(d)..WindowEnd(d) - 1
      halfHours == UNION {window(d) : d \in SchoolDays(w.start, w.end)}
      heldAt(v) == Cardinality({h \in halfHours :
                     \E s \in ApprovedSlots : s.venue = v /\ s.start <= h /\ h < s.end})
      shown == venues.rows IN
  w.open => /\ \A row \in shown : heldAt(row.venue) = row.held
            /\ \A row \in shown : LET o == OccupancyOf(heldAt(row.venue), w.schoolDays, 1) IN
                                    o.held <= o.of
            /\ \A v \in DOMAIN VenueIs \ {row.venue : row \in shown} : heldAt(v) = 0

(* The filter of a query and the fold that groups rows in memory give one  *)
(* answer: a department's overview is its row of the operations report,    *)
(* and a venue's its row of the venues report.                             *)
FiltersAgree(w, venues, ops) ==
  /\ \A d \in ops.departments : d.dept # NoDepartment =>
       LET o == Overview(w, EffectiveDepartmentWhere(d.dept)) IN
       /\ d.requests = o.requests.total /\ d.approved = o.requests.of["APPROVED"]
       /\ d.held = o.held /\ d.late = o.discipline.late
  /\ \A row \in venues.rows :
       LET o == Overview(w, RequestsAt(row.venue)) IN
       row.requests = o.requests.total /\ row.auto = o.requests.auto /\ row.held = o.held

(* A room is busy when a slot holds it now, and no second one does; it is  *)
(* free until the next one, and no slot starts before the time the         *)
(* dashboard gives.                                                        *)
RoomsAreTrue ==
  \A v \in {u \in DOMAIN VenueIs : VenueIs[u] = "open"} :
    LET holding(t) == {s \in ApprovedSlots : s.venue = v /\ s.start <= t /\ t < s.end} IN
    /\ (RoomState(v).state = "BUSY") = (holding(clockNow) # {})
    /\ \A s, t \in holding(clockNow) : s = t
    /\ FreeWindow(v) = "UNTIL_NEXT" => holding(RoomState(v).until) # {}
    /\ RoomState(v).state = "FREE" =>
         LET last == IF RoomState(v).until # NoInstant THEN RoomState(v).until
                     ELSE DayStart(DayOf(clockNow) + 1) IN
         \A t \in clockNow..last - 1 : holding(t) = {}

(* Nobody who waits comes before the queue that is shown, unless it is     *)
(* full of those who start no later.                                       *)
HeadOfQueue ==
  LET shown == ToSet(PendingQueue) IN
  \A r \in RowsOf("PENDING") \ shown, q \in shown :
    Cardinality(shown) = QueueSize /\ RowOf(q).firstStartAt <= RowOf(r).firstStartAt

(* A document says of its scope what the screens say of it: its tables add *)
(* up to its key figures, in the ledger too, which calls late no more than *)
(* the figures do. A line of the ledger is about a slot that is held while *)
(* one is, and a venue has a busiest hour, and a main user that is no more *)
(* than all of it.                                                         *)
DocumentsAgree(w) ==
  \A d \in Documents(w) :
    LET doc == d.doc
        key == doc.key
        over == d.over
        lines(status) == Cardinality({l \in doc.ledger : l.status = status}) IN
    /\ key.requests = over.requests /\ key.held = over.held /\ key.discipline = over.discipline
    /\ key.requests.total = SumOf(LAMBDA row : row.requests, doc.statistics)
    /\ key.held = SumOf(LAMBDA row : row.held, doc.statistics)
    /\ key.requests.total = SumOf(LAMBDA dept : dept.requests, doc.departments)
    /\ key.held = SumOf(LAMBDA dept : dept.held, doc.departments)
    /\ key.requests.of["APPROVED"] = SumOf(LAMBDA row : row.approved, doc.table)
    /\ key.requests.of["APPROVED"] = SumOf(LAMBDA dept : dept.approved, doc.departments)
    /\ key.requests.auto = SumOf(LAMBDA row : row.auto, doc.table)
    /\ key.requests.auto = lines("rejected, clash")
    /\ key.requests.of["CANCELLED"] = lines("cancelled") + lines("cancelled late")
    /\ lines("cancelled late") <= key.discipline.late
    /\ doc.isEmpty => doc.ledger = {} /\ key.sla.decided = 0
    /\ \A l \in doc.ledger :
         LiveSlots(RowOf(l.req)) # {} => l.when.slot \in LiveSlots(RowOf(l.req))
    /\ \A row \in doc.table :
         /\ \A m \in row.mainUser : m.held <= row.held
         /\ Cardinality(row.peak) = (IF row.held > 0 THEN 1 ELSE 0)

(* The counts above the audit trail are those of its list, action by       *)
(* action: its pages hold each event once.                                 *)
PagesHoldTheTrail(range) ==
  LET events == SynthesiseAuditEvents(range)
      kpis == AuditKpis(events) IN
  /\ kpis.total = SumOf(LAMBDA a : kpis.byAction[a], DOMAIN kpis.byAction)
  /\ \A a \in DOMAIN kpis.byAction :
       LET shown == FilterAuditEvents(events, a, NoStaff) IN
       kpis.byAction[a] =
         Cardinality(UNION {ToSet(AuditPage(shown, p, 1)) : p \in 1..AuditPages(shown, 1)})

ReportsAgree ==
  /\ HeadOfQueue
  /\ \A screens \in {Screens(g) : g \in AskedRanges} :
       /\ CutsAddUp(screens) /\ TrendsAgree(screens)
       /\ DepartmentsAddUp(screens.over, screens.ops)
       /\ DepartmentsAddUp(screens.over, screens.hidden)
       /\ DocumentsAgree(screens.window)
       /\ VenuesHoldAtMostTheirTime(screens.window, screens.venues)
       /\ FiltersAgree(screens.window, screens.venues, screens.ops)
       /\ PagesHoldTheTrail(screens.range)

(* The trail shows, of any days, what the staff did then and nothing else: *)
(* each decision once, a cancellation with its slots and no one else's. It *)
(* says that a booking is all cancelled when that was the last of it, and  *)
(* never while a slot of it is held.                                       *)
AuditIsTrue ==
  \A range \in AskedRanges :
    LET events == SynthesiseAuditEvents(range)
        done == {e \in auditLog : InAuditRange(e.at, range)}
        known(e) == [action |-> e.action, req |-> e.req, at |-> e.at, slots |-> e.slots,
                     by |-> IF e.action = "REJECT" THEN NoStaff ELSE e.by] IN
    /\ {known(e) : e \in events} = {known(e) : e \in done}
    /\ Cardinality(events) = Cardinality(done)
    /\ \A e \in events : e.allGone => RowOf(e.req).status = "CANCELLED"
    /\ \A d \in done : d.action = "CANCEL" /\ d.left = 0 =>
         \E e \in events : e.req = d.req /\ e.at = d.at /\ e.allGone
=============================================================================
