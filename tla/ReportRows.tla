----------------------------- MODULE ReportRows -----------------------------
(* The rows the reports are made of, written as the bookings services      *)
(* write them: every column that a report reads, and when it changes.  A   *)
(* cancellation by a requester reads the clock before its transaction; the *)
(* transactions of the staff read it inside.                               *)
EXTENDS ReportCalendar, Sequences, SequencesExt

CONSTANTS
  ReportRequests, \* booking requests
  ReportStaff,    \* staff members
  NoStaff,        \* nobody
  Trait,          \* of a request: its venue, slots, departments and purpose
  CancelLead,     \* BookingSettings.cancelLeadMinutes
  Instants        \* bound: the instants at which something happens

ASSUME ReportConstants ==
  /\ Instants \subseteq Nat \ {0} /\ Instants # {}
  /\ CancelLead \in Nat /\ NoStaff \notin ReportStaff

(* parseSlots: one slot at least; each ends after it starts, and none      *)
(* overlaps another.                                                       *)
SpansOverlap(a, b) == a.start < b.end /\ b.start < a.end
ASSUME SlotLists ==
  \A r \in ReportRequests : \A slots \in Trait[r].slotLists :
    /\ slots \in Seq([start : Nat, end : Nat]) /\ slots # <<>>
    /\ \A i \in DOMAIN slots : slots[i].start < slots[i].end
    /\ \A i, j \in DOMAIN slots : SpansOverlap(slots[i], slots[j]) => i = j

VARIABLES
  clockNow,     \* the time
  requestRows,  \* the rows, or NoRequestRow
  begun,        \* when a requester began a cancellation, or NoInstant
  auditLog      \* what the staff did: [action, req, at, by, slots, left]

reportVars == <<clockNow, requestRows, begun, auditLog>>

NoInstant == 0
NoRequestRow == [status |-> "none"]
Existing == {r \in ReportRequests : requestRows[r].status # "none"}
LiveSlots(row) == {i \in DOMAIN row.slots : row.slots[i].cancelledAt = NoInstant}
RowsOf(status) == {r \in Existing : requestRows[r].status = status}
FirstStart(slots, live) == Min({slots[i].start : i \in live})

NewRow(slots, status, u, line) ==
  [status |-> status, auto |-> FALSE, lineUser |-> line, createdAt |-> clockNow, updatedAt |-> clockNow,
   approvedAt |-> IF u = NoStaff THEN NoInstant ELSE clockNow, approvedBy |-> u,
   createdBy |-> u, firstStartAt |-> FirstStart(slots, DOMAIN slots),
   slots |-> [i \in DOMAIN slots |->
     [start |-> slots[i].start, end |-> slots[i].end, cancelledAt |-> NoInstant,
      cancelledBy |-> NoStaff, byStaff |-> FALSE]]]

Did(action, r, u, slots, left) ==
  auditLog' = auditLog \cup {[action |-> action, req |-> r, at |-> clockNow, by |-> u,
                              slots |-> slots, left |-> left]}

-----------------------------------------------------------------------------
Clashing(venue, slots, statuses) ==
  {r \in Existing :
     /\ requestRows[r].status \in statuses /\ Trait[r].venue = venue
     /\ \E i \in LiveSlots(requestRows[r]), j \in DOMAIN slots :
          SpansOverlap(requestRows[r].slots[i], slots[j])}
LiveOf(row) == SetToSeq({row.slots[i] : i \in LiveSlots(row)})

(* rejectLosers, at the end of the transaction of a decision.              *)
Decide(r, row, losers) ==
  requestRows' = [q \in ReportRequests |->
    IF q = r THEN row
    ELSE IF q \in losers
         THEN [requestRows[q] EXCEPT !.status = "REJECTED", !.auto = TRUE,
                                     !.updatedAt = clockNow]
         ELSE requestRows[q]]

(* A requester submits; parseSlots lets no slot of the past in.            *)
SubmitRequest(r) ==
  /\ r \notin Existing
  /\ \E slots \in Trait[r].slotLists :
       /\ FirstStart(slots, DOMAIN slots) > clockNow
       /\ Clashing(Trait[r].venue, slots, {"APPROVED"}) = {}
       /\ requestRows' = [requestRows EXCEPT ![r] = NewRow(slots, "PENDING", NoStaff, TRUE)]
  /\ UNCHANGED <<clockNow, begun, auditLog>>

(* createDirect, for a LINE user or for nobody's account.                  *)
BookDirectly(r, u) ==
  /\ r \notin Existing
  /\ \E slots \in Trait[r].slotLists, line \in BOOLEAN :
       /\ FirstStart(slots, DOMAIN slots) > clockNow
       /\ Clashing(Trait[r].venue, slots, {"APPROVED"}) = {}
       /\ Decide(r, NewRow(slots, "APPROVED", u, line), Clashing(Trait[r].venue, slots, {"PENDING"}))
       /\ Did("DIRECT_BOOKING", r, u, {}, 0)
  /\ UNCHANGED <<clockNow, begun>>

ApproveRow(r, u) ==
  LET row == requestRows[r] IN
  /\ r \in RowsOf("PENDING")
  /\ Clashing(Trait[r].venue, LiveOf(row), {"APPROVED"}) = {}
  /\ Decide(r, [row EXCEPT !.status = "APPROVED", !.approvedAt = clockNow,
                           !.approvedBy = u, !.updatedAt = clockNow],
            Clashing(Trait[r].venue, LiveOf(row), {"PENDING"}) \ {r})
  /\ Did("APPROVE", r, u, {}, 0) /\ UNCHANGED <<clockNow, begun>>

RejectRow(r, u) ==
  /\ r \in RowsOf("PENDING")
  /\ requestRows' = [requestRows EXCEPT ![r].status = "REJECTED", ![r].updatedAt = clockNow]
  /\ Did("REJECT", r, u, {}, 0) /\ UNCHANGED <<clockNow, begun>>

(* The slots are cancelled; the request goes with its last one, and else   *)
(* starts with the first that is left.                                     *)
Cancelled(row, targets, at, u, byStaff) ==
  LET slots == [i \in DOMAIN row.slots |->
                  IF i \in targets
                  THEN [row.slots[i] EXCEPT !.cancelledAt = at, !.cancelledBy = u,
                                            !.byStaff = byStaff]
                  ELSE row.slots[i]]
      left == LiveSlots(row) \ targets IN
  [row EXCEPT !.slots = slots, !.updatedAt = clockNow,
              !.status = IF left = {} THEN "CANCELLED" ELSE @,
              !.firstStartAt = IF left = {} THEN @ ELSE FirstStart(slots, left)]

(* The venue's lock lets one cancellation of the staff in at a time, and   *)
(* they read different times.                                              *)
CancelByStaff(r, u) ==
  LET row == requestRows[r] IN
  /\ r \in RowsOf("APPROVED")
  /\ \A e \in auditLog : e.req = r /\ e.action = "CANCEL" => e.at < clockNow
  /\ \E targets \in (SUBSET LiveSlots(row)) \ {{}} :
       /\ requestRows' = [requestRows EXCEPT ![r] = Cancelled(row, targets, clockNow, u, TRUE)]
       /\ Did("CANCEL", r, u, targets, Cardinality(LiveSlots(row) \ targets))
  /\ UNCHANGED <<clockNow, begun>>

(* A requester's cancellation reads the clock, then opens its transaction. *)
BeginCancel(r) ==
  /\ begun[r] = NoInstant
  /\ requestRows[r].status \in {"PENDING", "APPROVED"} /\ requestRows[r].lineUser
  /\ begun' = [begun EXCEPT ![r] = clockNow] /\ UNCHANGED <<clockNow, requestRows, auditLog>>
EndCancel(r) ==
  LET row == requestRows[r] IN
  /\ begun[r] # NoInstant /\ begun' = [begun EXCEPT ![r] = NoInstant]
  /\ \/ /\ row.status = "PENDING"
        /\ requestRows' = [requestRows EXCEPT ![r] =
             Cancelled(row, LiveSlots(row), begun[r], NoStaff, FALSE)]
     \/ /\ row.status = "APPROVED"
        /\ \E i \in LiveSlots(row) :
             /\ row.slots[i].start > begun[r] + CancelLead
             /\ requestRows' = [requestRows EXCEPT ![r] =
                  Cancelled(row, {i}, begun[r], NoStaff, FALSE)]
     \/ requestRows' = requestRows          \* refused
  /\ UNCHANGED <<clockNow, auditLog>>

ExpireOverdue ==
  LET overdue == {r \in RowsOf("PENDING") : requestRows[r].firstStartAt < clockNow} IN
  /\ overdue # {}
  /\ requestRows' = [r \in ReportRequests |->
       IF r \in overdue
       THEN [requestRows[r] EXCEPT !.status = "EXPIRED", !.updatedAt = clockNow]
       ELSE requestRows[r]]
  /\ UNCHANGED <<clockNow, begun, auditLog>>

ClockMoves ==
  /\ \E t \in Instants : t > clockNow
  /\ clockNow' = Min({t \in Instants : t > clockNow})
  /\ UNCHANGED <<requestRows, begun, auditLog>>

ReportInit ==
  /\ clockNow = Min(Instants) /\ requestRows = [r \in ReportRequests |-> NoRequestRow]
  /\ begun = [r \in ReportRequests |-> NoInstant] /\ auditLog = {}

ReportNext ==
  \/ \E r \in ReportRequests :
       \/ SubmitRequest(r) \/ BeginCancel(r) \/ EndCancel(r)
       \/ \E u \in ReportStaff :
            BookDirectly(r, u) \/ ApproveRow(r, u) \/ RejectRow(r, u) \/ CancelByStaff(r, u)
  \/ ExpireOverdue \/ ClockMoves

ReportSpec == ReportInit /\ [][ReportNext]_reportVars
=============================================================================
