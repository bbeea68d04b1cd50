----------------------------- MODULE AuditTrail -----------------------------
(* The audit trail of the staff.  Nothing records it: it is synthesised    *)
(* from the columns of the bookings, on every request.                     *)
EXTENDS Reports

(* inRange: a time, from the first day's midnight to the one after the     *)
(* last day.                                                               *)
InAuditRange(at, range) ==
  at # NoInstant /\ at >= DayStart(range.start) /\ at < DayStart(range.end + 1)

AuditEvent(action, r, at, u, slots, allGone) ==
  [action |-> action, req |-> r, at |-> at, by |-> u, slots |-> slots, allGone |-> allGone]

(* Mutant of ApprovalsIn: what is still approved was approved.             *)
ApprovedStill(range) ==
  {AuditEvent("APPROVE", r, RowOf(r).approvedAt, RowOf(r).approvedBy, {}, FALSE)
   : r \in {q \in RowsOf("APPROVED") : /\ RowOf(q).createdBy = NoStaff
                                       /\ InAuditRange(RowOf(q).approvedAt, range)}}
ApprovalsIn(range) ==
  {AuditEvent("APPROVE", r, RowOf(r).approvedAt, RowOf(r).approvedBy, {}, FALSE)
   : r \in {q \in Existing : /\ RowOf(q).createdBy = NoStaff
                             /\ InAuditRange(RowOf(q).approvedAt, range)}}
DirectBookingsIn(range) ==
  {AuditEvent("DIRECT_BOOKING", r, RowOf(r).createdAt, RowOf(r).createdBy, {}, FALSE)
   : r \in {q \in Existing : /\ RowOf(q).createdBy # NoStaff
                             /\ InAuditRange(RowOf(q).createdAt, range)}}
(* Who rejected is written nowhere, and when only as the last update.      *)
RejectionsIn(range) ==
  {AuditEvent("REJECT", r, RowOf(r).updatedAt, NoStaff, {}, FALSE)
   : r \in {q \in RowsOf("REJECTED") : /\ ~RowOf(q).auto
                                       /\ InAuditRange(RowOf(q).updatedAt, range)}}

(* The slots that one of the staff cancelled at one time are one event; it *)
(* says that all is cancelled when no slot was cancelled later, or is live.*)
StaffCancelled(r) ==
  {i \in DOMAIN RowOf(r).slots : RowOf(r).slots[i].cancelledAt # NoInstant
                                 /\ RowOf(r).slots[i].byStaff}
AllGone(row, at) ==
  \A i \in DOMAIN row.slots : row.slots[i].cancelledAt # NoInstant
                              /\ row.slots[i].cancelledAt <= at
CancelGroup(r, i) ==
  LET slot == RowOf(r).slots[i] IN
  AuditEvent("CANCEL", r, slot.cancelledAt, slot.cancelledBy,
             {j \in StaffCancelled(r) : /\ RowOf(r).slots[j].cancelledAt = slot.cancelledAt
                                        /\ RowOf(r).slots[j].cancelledBy = slot.cancelledBy},
             AllGone(RowOf(r), slot.cancelledAt))
CancelsIn(range) ==
  UNION {{CancelGroup(r, i) : i \in {j \in StaffCancelled(r) :
            InAuditRange(RowOf(r).slots[j].cancelledAt, range)}} : r \in Existing}

SynthesiseAuditEvents(range) ==
  ApprovalsIn(range) \cup DirectBookingsIn(range) \cup RejectionsIn(range)
    \cup CancelsIn(range)

(* list: the filtered events, a page at a time, the page clamped.          *)
FilterAuditEvents(events, action, u) ==
  {e \in events : action \in {"any", e.action} /\ u \in {NoStaff, e.by}}
AuditPages(events, limit) == Max({1, (Cardinality(events) + limit - 1) \div limit})
AuditPage(events, page, limit) ==
  LET sorted == SortSeq(SetToSeq(events), LAMBDA a, b : a.at > b.at)
      p == Min({Max({1, page}), AuditPages(events, limit)}) IN
  SubSeq(sorted, (p - 1) * limit + 1, Min({p * limit, Len(sorted)}))

(* auditKpisOf: the events of each action, and the most active of those    *)
(* who have a name.                                                        *)
AuditKpis(events) ==
  LET of(u) == Cardinality({e \in events : e.by = u})
      named == {e.by : e \in events} \ {NoStaff} IN
  [total |-> Cardinality(events),
   byAction |-> [a \in {"APPROVE", "REJECT", "CANCEL", "DIRECT_BOOKING"} |->
                   Cardinality({e \in events : e.action = a})],
   top |-> IF named = {} THEN 0 ELSE Max({of(u) : u \in named})]
=============================================================================
