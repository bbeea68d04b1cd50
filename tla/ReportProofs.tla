---------------------------- MODULE ReportProofs ----------------------------
(***************************************************************************)
(* What is proved about the reports, for any requests, staff, slots,       *)
(* instants and ranges of days: the audit trail that is synthesised from   *)
(* the columns of the bookings is what the staff did, and the dashboard    *)
(* says of each open room who holds it and until when it is free.          *)
(***************************************************************************)
EXTENDS ReportProperties, FiniteSetTheorems, WellFoundedInduction, TLAPS

(***************************************************************************)
(* The audit trail.                                                        *)
(***************************************************************************)
Canceller == ReportStaff \cup {NoStaff}
SlotColumns ==
  [start : Nat, end : Nat, cancelledAt : Nat, cancelledBy : Canceller, byStaff : BOOLEAN]
RowColumns ==
  [status : Statuses, auto : BOOLEAN, lineUser : BOOLEAN, createdAt : Nat, updatedAt : Nat,
   approvedAt : Nat, approvedBy : Canceller, createdBy : Canceller, firstStartAt : Nat,
   slots : Seq(SlotColumns)]
DeedType ==
  [action : {"APPROVE", "REJECT", "CANCEL", "DIRECT_BOOKING"}, req : ReportRequests,
   at : Nat, by : ReportStaff, slots : SUBSET Nat, left : Nat]

TrailTyped ==
  /\ clockNow \in Nat \ {0} /\ begun \in [ReportRequests -> Nat]
  /\ requestRows \in [ReportRequests -> RowColumns \cup {NoRequestRow}]
  /\ auditLog \subseteq DeedType /\ IsFiniteSet(auditLog)

(* What a row tells of the deeds about it.                                 *)
Deeds(r) == {d \in auditLog : d.req = r}
Of(deeds, action) == {d \in deeds : d.action = action}
Deed(action, r, at, u) ==
  [action |-> action, req |-> r, at |-> at, by |-> u, slots |-> {}, left |-> 0]
ByStaff(row) ==
  {i \in DOMAIN row.slots : row.slots[i].cancelledAt # NoInstant /\ row.slots[i].byStaff}

(* No slot is cancelled ahead of the clock.                                *)
NothingAhead(row, now) == \A i \in DOMAIN row.slots : row.slots[i].cancelledAt <= now
(* A row without a live slot is a cancelled one; what is pending was not   *)
(* decided nor made by the staff; what the system rejected stays rejected. *)
LifeKept(row) ==
  /\ LiveSlots(row) = {} => row.status = "CANCELLED"
  /\ row.status = "PENDING" => row.createdBy = NoStaff /\ row.approvedAt = NoInstant
  /\ row.auto => row.status = "REJECTED"
(* The deeds of each kind about a row, from its columns; of a rejection    *)
(* they do not tell who.                                                   *)
ApprovalTold(r, row, deeds) ==
  Of(deeds, "APPROVE") =
    IF row.createdBy = NoStaff /\ row.approvedAt # NoInstant
    THEN {Deed("APPROVE", r, row.approvedAt, row.approvedBy)} ELSE {}
CreationTold(r, row, deeds) ==
  Of(deeds, "DIRECT_BOOKING") =
    IF row.createdBy = NoStaff THEN {}
    ELSE {Deed("DIRECT_BOOKING", r, row.createdAt, row.createdBy)}
RejectionTold(r, row, deeds) ==
  IF row.status = "REJECTED" /\ ~row.auto
  THEN \E u \in ReportStaff : Of(deeds, "REJECT") = {Deed("REJECT", r, row.updatedAt, u)}
  ELSE Of(deeds, "REJECT") = {}
(* A cancellation is the slots with its time, one of them at least, which  *)
(* also name its author; two are never of one time, and each slot that one *)
(* of the staff cancelled is in one.                                       *)
CancelsTold(row, deeds) ==
  /\ \A d \in Of(deeds, "CANCEL") :
       /\ d.slots = {j \in ByStaff(row) : row.slots[j].cancelledAt = d.at}
       /\ d.slots # {} /\ \A j \in d.slots : row.slots[j].cancelledBy = d.by
       /\ d.left = 0 => AllGone(row, d.at)
  /\ \A d, e \in Of(deeds, "CANCEL") : d.at = e.at => d = e
  /\ \A i \in ByStaff(row) : \E d \in Of(deeds, "CANCEL") : i \in d.slots
Told(r, row, deeds) ==
  /\ row = NoRequestRow => deeds = {}
  /\ row # NoRequestRow =>
       /\ LifeKept(row) /\ CancelsTold(row, deeds) /\ ApprovalTold(r, row, deeds)
       /\ CreationTold(r, row, deeds) /\ RejectionTold(r, row, deeds)

(* The inductive invariant.                                                *)
AuditInvariant ==
  /\ TrailTyped
  /\ \A r \in ReportRequests :
       /\ begun[r] <= clockNow /\ Told(r, requestRows[r], Deeds(r))
       /\ requestRows[r] # NoRequestRow => NothingAhead(requestRows[r], clockNow)

-----------------------------------------------------------------------------
LEMMA LeastInstant ==
  ASSUME NEW S \in SUBSET Nat, S # {}
  PROVE  Min(S) \in S /\ \A m \in S : Min(S) <= m
<1>1. PICK n \in S : \A m \in S : ~(<<m, n>> \in OpToRel(<, Nat))
  BY NatLessThanWellFounded, WFMin, Zenon
<1>2. \A m \in S : ~(m < n)
  BY <1>1 DEF OpToRel
<1>3. \A m \in S : n <= m
  BY <1>2
<1> QED BY <1>3 DEF Min

LEMMA RowsThere ==
  ASSUME TrailTyped, NEW r \in ReportRequests
  PROVE  /\ r \in Existing <=> requestRows[r] # NoRequestRow
         /\ r \in Existing => requestRows[r] \in RowColumns
<1>1. requestRows[r] \in RowColumns \cup {NoRequestRow}
  BY DEF TrailTyped
<1>2. \A row \in RowColumns : row.status # "none"
  BY DEF RowColumns, Statuses
<1>3. NoRequestRow.status = "none"
  BY DEF NoRequestRow
<1> QED BY <1>1, <1>2, <1>3 DEF Existing

LEMMA SlotsAre ==
  ASSUME NEW row \in RowColumns
  PROVE  \E n \in Nat :
           /\ n = Len(row.slots) /\ DOMAIN row.slots = 1 .. n /\ row.slots \in Seq(SlotColumns)
           /\ row.slots = [i \in 1 .. n |-> row.slots[i]]
           /\ \A i \in 1 .. n : row.slots[i] \in SlotColumns
<1>1. row.slots \in Seq(SlotColumns)
  BY DEF RowColumns
<1> DEFINE s == row.slots
<1> HIDE DEF SlotColumns, s
<1>2. s \in Seq(SlotColumns)
  BY <1>1 DEF s
<1>3. PICK n \in Nat : n = Len(s)
  BY <1>2
<1>4. /\ DOMAIN s = 1 .. n /\ s = [i \in 1 .. n |-> s[i]]
      /\ \A i \in 1 .. n : s[i] \in SlotColumns
  BY <1>2, <1>3
<1> QED BY <1>2, <1>3, <1>4 DEF s

(* A row whose slots are as they were tells of the same cancellations.     *)
LEMMA SameSlots ==
  ASSUME NEW row, NEW new, NEW deeds, NEW more, new.slots = row.slots,
         Of(more, "CANCEL") = Of(deeds, "CANCEL")
  PROVE  /\ CancelsTold(row, deeds) => CancelsTold(new, more)
         /\ LiveSlots(new) = LiveSlots(row)
         /\ \A now : NothingAhead(row, now) => NothingAhead(new, now)
<1>1. ByStaff(new) = ByStaff(row)
  BY DEF ByStaff
<1>2. \A at : AllGone(new, at) <=> AllGone(row, at)
  BY DEF AllGone
<1>3. CancelsTold(row, deeds) => CancelsTold(new, more)
  BY <1>1, <1>2 DEF CancelsTold
<1> QED BY <1>3 DEF LiveSlots, NothingAhead

LEMMA NewDeed ==
  ASSUME NEW d, auditLog' = auditLog \cup {d}
  PROVE  /\ Deeds(d.req)' = Deeds(d.req) \cup {d}
         /\ \A q : q # d.req => Deeds(q)' = Deeds(q)
         /\ \A S, a : Of(S \cup {d}, a) = IF d.action = a THEN Of(S, a) \cup {d} ELSE Of(S, a)
BY DEF Deeds, Of

LEMMA RowsKept ==
  ASSUME AuditInvariant, TrailTyped', clockNow <= clockNow',
         \A r \in ReportRequests :
           /\ begun'[r] <= clockNow'
           /\ \/ requestRows'[r] = requestRows[r] /\ Deeds(r)' = Deeds(r)
              \/ /\ requestRows'[r] \in RowColumns /\ Told(r, requestRows'[r], Deeds(r)')
                 /\ NothingAhead(requestRows'[r], clockNow')
  PROVE  AuditInvariant'
<1> SUFFICES ASSUME NEW r \in ReportRequests
             PROVE  /\ Told(r, requestRows[r], Deeds(r))'
                    /\ requestRows'[r] # NoRequestRow => NothingAhead(requestRows'[r], clockNow')
  BY DEF AuditInvariant
<1>1. CASE requestRows'[r] = requestRows[r] /\ Deeds(r)' = Deeds(r)
  <2>1. Told(r, requestRows[r], Deeds(r))'
    BY <1>1 DEF AuditInvariant
  <2>2. ASSUME requestRows[r] # NoRequestRow
        PROVE  NothingAhead(requestRows[r], clockNow')
    <3>1. NothingAhead(requestRows[r], clockNow) /\ requestRows[r] \in RowColumns
      BY <2>2 DEF AuditInvariant, TrailTyped
    <3>2. PICK n \in Nat : DOMAIN requestRows[r].slots = 1 .. n
                           /\ \A i \in 1 .. n : requestRows[r].slots[i] \in SlotColumns
      BY <3>1, SlotsAre
    <3>3. clockNow \in Nat /\ clockNow' \in Nat
      BY DEF AuditInvariant, TrailTyped
    <3>4. ASSUME NEW i \in 1 .. n
          PROVE  requestRows[r].slots[i].cancelledAt <= clockNow'
      <4>1. PICK c \in Nat : c = requestRows[r].slots[i].cancelledAt
        BY <3>2 DEF SlotColumns
      <4>2. c <= clockNow
        BY <3>1, <3>2, <4>1 DEF NothingAhead
      <4> QED BY <3>3, <4>1, <4>2
    <3> QED BY <3>2, <3>4 DEF NothingAhead
  <2> QED BY <1>1, <2>1, <2>2
<1>2. CASE /\ requestRows'[r] \in RowColumns /\ Told(r, requestRows'[r], Deeds(r)')
           /\ NothingAhead(requestRows'[r], clockNow')
  BY <1>2
<1> QED BY <1>1, <1>2

LEMMA PendingTold ==
  ASSUME NEW r, NEW row \in RowColumns, NEW deeds, Told(r, row, deeds), row.status = "PENDING"
  PROVE  /\ LifeKept(row) /\ CancelsTold(row, deeds) /\ LiveSlots(row) # {} /\ ~row.auto
         /\ row.createdBy = NoStaff /\ row.approvedAt = NoInstant
         /\ \A a \in {"APPROVE", "REJECT", "DIRECT_BOOKING"} : Of(deeds, a) = {}
<1>1. row # NoRequestRow
  BY DEF RowColumns, Statuses, NoRequestRow
<1> QED BY <1>1 DEF Told, LifeKept, ApprovalTold, CreationTold, RejectionTold

LEMMA RealRow ==
  ASSUME NEW row \in RowColumns
  PROVE  row # NoRequestRow
BY DEF RowColumns, Statuses, NoRequestRow

(* Auto-rejected, or expired: no deed of anybody.                          *)
LEMMA ClosedTold ==
  ASSUME TrailTyped, NEW r, NEW row \in RowColumns, NEW deeds, Told(r, row, deeds),
         row.status = "PENDING",
         NEW new \in {[row EXCEPT !.status = "REJECTED", !.auto = TRUE, !.updatedAt = clockNow],
                      [row EXCEPT !.status = "EXPIRED", !.updatedAt = clockNow]}
  PROVE  /\ new \in RowColumns /\ Told(r, new, deeds)
         /\ \A now : NothingAhead(row, now) => NothingAhead(new, now)
<1>1. /\ new \in RowColumns /\ new.slots = row.slots /\ new.createdBy = row.createdBy
      /\ new.approvedAt = row.approvedAt /\ new.status \in {"REJECTED", "EXPIRED"}
      /\ new.status = "REJECTED" => new.auto
      /\ new.status = "EXPIRED" => new.auto = row.auto
  BY DEF RowColumns, TrailTyped, Statuses
<1> HIDE DEF RowColumns
<1>2. /\ CancelsTold(row, deeds) /\ LiveSlots(row) # {} /\ ~row.auto
      /\ row.createdBy = NoStaff /\ row.approvedAt = NoInstant
      /\ \A a \in {"APPROVE", "REJECT", "DIRECT_BOOKING"} : Of(deeds, a) = {}
  BY PendingTold
<1>3. /\ CancelsTold(new, deeds) /\ LiveSlots(new) = LiveSlots(row)
      /\ \A now : NothingAhead(row, now) => NothingAhead(new, now)
  BY <1>1, <1>2, SameSlots
<1>4. LifeKept(new)
  BY <1>1, <1>2, <1>3 DEF LifeKept
<1>5. ApprovalTold(r, new, deeds) /\ CreationTold(r, new, deeds) /\ RejectionTold(r, new, deeds)
  BY <1>1, <1>2 DEF ApprovalTold, CreationTold, RejectionTold
<1> QED BY <1>1, <1>3, <1>4, <1>5, RealRow DEF Told

(* The row of an approval, and of a rejection, by somebody.                *)
ApprovedNow(row, u) ==
  [row EXCEPT !.status = "APPROVED", !.approvedAt = clockNow,
              !.approvedBy = u, !.updatedAt = clockNow]

LEMMA ApprovedTold ==
  ASSUME TrailTyped, NEW r, NEW row \in RowColumns, NEW deeds, Told(r, row, deeds),
         row.status = "PENDING", NEW u \in ReportStaff
  PROVE  LET new == ApprovedNow(row, u) IN
         /\ new \in RowColumns /\ Told(r, new, deeds \cup {Deed("APPROVE", r, clockNow, u)})
         /\ \A now : NothingAhead(row, now) => NothingAhead(new, now)
<1> DEFINE new == ApprovedNow(row, u)
           d == Deed("APPROVE", r, clockNow, u)
<1>1. /\ new \in RowColumns /\ new.slots = row.slots /\ new.createdBy = row.createdBy
      /\ new.approvedAt = clockNow /\ new.approvedBy = u /\ new.status = "APPROVED"
      /\ new.auto = row.auto /\ clockNow # NoInstant
  BY DEF ApprovedNow, RowColumns, TrailTyped, Statuses, Canceller, NoInstant
<1> HIDE DEF RowColumns, new
<1>2. /\ CancelsTold(row, deeds) /\ LiveSlots(row) # {} /\ ~row.auto
      /\ row.createdBy = NoStaff /\ row.approvedAt = NoInstant
      /\ \A a \in {"APPROVE", "REJECT", "DIRECT_BOOKING"} : Of(deeds, a) = {}
  BY PendingTold
<1>3. d.action = "APPROVE"
  BY DEF Deed
<1>4. /\ Of(deeds \cup {d}, "APPROVE") = {d} /\ Of(deeds \cup {d}, "REJECT") = {}
      /\ Of(deeds \cup {d}, "DIRECT_BOOKING") = {}
      /\ Of(deeds \cup {d}, "CANCEL") = Of(deeds, "CANCEL")
  BY <1>2, <1>3 DEF Of
<1>5. /\ CancelsTold(new, deeds \cup {d}) /\ LiveSlots(new) = LiveSlots(row)
      /\ \A now : NothingAhead(row, now) => NothingAhead(new, now)
  BY <1>1, <1>2, <1>4, SameSlots
<1>6. LifeKept(new)
  BY <1>1, <1>2, <1>5 DEF LifeKept
<1>7. /\ ApprovalTold(r, new, deeds \cup {d}) /\ CreationTold(r, new, deeds \cup {d})
      /\ RejectionTold(r, new, deeds \cup {d})
  BY <1>1, <1>2, <1>4 DEF ApprovalTold, CreationTold, RejectionTold
<1> QED BY <1>1, <1>5, <1>6, <1>7, RealRow DEF Told, new

RejectedNow(row) ==
  [row EXCEPT !.status = "REJECTED", !.updatedAt = clockNow]

LEMMA RejectedTold ==
  ASSUME TrailTyped, NEW r, NEW row \in RowColumns, NEW deeds, Told(r, row, deeds),
         row.status = "PENDING", NEW u \in ReportStaff
  PROVE  LET new == RejectedNow(row) IN
         /\ new \in RowColumns /\ Told(r, new, deeds \cup {Deed("REJECT", r, clockNow, u)})
         /\ \A now : NothingAhead(row, now) => NothingAhead(new, now)
<1> DEFINE new == RejectedNow(row)
           d == Deed("REJECT", r, clockNow, u)
<1>1. /\ new \in RowColumns /\ new.slots = row.slots /\ new.createdBy = row.createdBy
      /\ new.approvedAt = row.approvedAt /\ new.status = "REJECTED" /\ new.updatedAt = clockNow
      /\ new.auto = row.auto
  BY DEF RejectedNow, RowColumns, TrailTyped, Statuses
<1> HIDE DEF RowColumns, new
<1>2. /\ CancelsTold(row, deeds) /\ LiveSlots(row) # {} /\ ~row.auto
      /\ row.createdBy = NoStaff /\ row.approvedAt = NoInstant
      /\ \A a \in {"APPROVE", "REJECT", "DIRECT_BOOKING"} : Of(deeds, a) = {}
  BY PendingTold
<1>3. d.action = "REJECT"
  BY DEF Deed
<1>4. /\ Of(deeds \cup {d}, "APPROVE") = {} /\ Of(deeds \cup {d}, "REJECT") = {d}
      /\ Of(deeds \cup {d}, "DIRECT_BOOKING") = {}
      /\ Of(deeds \cup {d}, "CANCEL") = Of(deeds, "CANCEL")
  BY <1>2, <1>3 DEF Of
<1>5. /\ CancelsTold(new, deeds \cup {d}) /\ LiveSlots(new) = LiveSlots(row)
      /\ \A now : NothingAhead(row, now) => NothingAhead(new, now)
  BY <1>1, <1>2, <1>4, SameSlots
<1>6. LifeKept(new)
  BY <1>1, <1>2, <1>5 DEF LifeKept
<1>7. /\ ApprovalTold(r, new, deeds \cup {d}) /\ CreationTold(r, new, deeds \cup {d})
      /\ RejectionTold(r, new, deeds \cup {d})
  BY <1>1, <1>2, <1>4 DEF ApprovalTold, CreationTold, RejectionTold
<1> QED BY <1>1, <1>5, <1>6, <1>7, RealRow DEF Told, new

LEMMA FirstStartTyped ==
  ASSUME NEW slots, NEW live, live # {}, \A i \in live : slots[i].start \in Nat
  PROVE  FirstStart(slots, live) \in Nat
<1> DEFINE S == {slots[i].start : i \in live}
<1>1. S \in SUBSET Nat /\ S # {}
  OBVIOUS
<1> HIDE DEF S
<1>2. Min(S) \in Nat
  BY <1>1, LeastInstant
<1> QED BY <1>2 DEF FirstStart, S

LEMMA NewRowTold ==
  ASSUME ReportConstants, SlotLists, TrailTyped, NEW r \in ReportRequests,
         NEW slots \in Trait[r].slotLists, NEW status, NEW u, NEW line \in BOOLEAN, NEW deeds,
         \/ status = "PENDING" /\ u = NoStaff /\ deeds = {}
         \/ /\ status = "APPROVED" /\ u \in ReportStaff
            /\ deeds = {Deed("DIRECT_BOOKING", r, clockNow, u)}
  PROVE  LET row == NewRow(slots, status, u, line) IN
         row \in RowColumns /\ Told(r, row, deeds) /\ NothingAhead(row, clockNow)
<1> DEFINE row == NewRow(slots, status, u, line)
           Blank(i) == [start |-> slots[i].start, end |-> slots[i].end, cancelledAt |-> NoInstant,
                        cancelledBy |-> NoStaff, byStaff |-> FALSE]
<1>1. slots \in Seq([start : Nat, end : Nat]) /\ slots # <<>>
  BY DEF SlotLists
<1>2. PICK n \in Nat : /\ n # 0 /\ DOMAIN slots = 1 .. n
                       /\ \A i \in 1 .. n : slots[i] \in [start : Nat, end : Nat]
  <2> DEFINE Spans == [start : Nat, end : Nat]
  <2>1. slots \in Seq(Spans)
    BY <1>1
  <2> HIDE DEF Spans
  <2>2. PICK n \in Nat : n = Len(slots) /\ n # 0
    BY <1>1, <2>1
  <2>3. DOMAIN slots = 1 .. n /\ \A i \in 1 .. n : slots[i] \in Spans
    BY <2>1, <2>2
  <2> QED BY <2>2, <2>3 DEF Spans
<1>3. FirstStart(slots, DOMAIN slots) \in Nat
  <2>1. DOMAIN slots # {} /\ \A i \in DOMAIN slots : slots[i].start \in Nat
    <3>1. 1 \in 1 .. n
      BY <1>2
    <3> QED BY <1>2, <3>1
  <2> QED BY <2>1, FirstStartTyped
<1>4. /\ [i \in 1 .. n |-> Blank(i)] \in Seq(SlotColumns)
  <2>1. \A i \in 1 .. n : Blank(i) \in SlotColumns
    BY <1>2 DEF SlotColumns, Canceller, NoInstant
  <2> HIDE DEF Blank, SlotColumns
  <2>2. [i \in 1 .. n |-> Blank(i)] \in [1 .. n -> SlotColumns]
    BY <2>1
  <2> QED BY <1>2, <2>2
<1>5. /\ row.status = status /\ row.auto = FALSE /\ row.lineUser = line
      /\ row.createdAt = clockNow /\ row.createdBy = u /\ row.approvedBy = u
      /\ row.approvedAt = (IF u = NoStaff THEN NoInstant ELSE clockNow)
      /\ row.slots = [i \in 1 .. n |-> Blank(i)]
  BY <1>2 DEF NewRow
<1>6. row \in RowColumns
  <2>1. PICK f \in Nat, c \in Nat : f = FirstStart(slots, DOMAIN slots) /\ c = clockNow
    BY <1>3 DEF TrailTyped
  <2>2. PICK ss \in Seq(SlotColumns) : ss = [i \in 1 .. n |-> Blank(i)]
    BY <1>4
  <2>3. row = [status |-> status, auto |-> FALSE, lineUser |-> line, createdAt |-> c,
               updatedAt |-> c, approvedAt |-> IF u = NoStaff THEN NoInstant ELSE c,
               approvedBy |-> u, createdBy |-> u, firstStartAt |-> f, slots |-> ss]
    BY <1>2, <2>1, <2>2 DEF NewRow
  <2>4. status \in Statuses /\ u \in Canceller /\ NoInstant \in Nat
    BY DEF Statuses, Canceller, NoInstant
  <2> HIDE DEF row, Blank, SlotColumns, Statuses, Canceller
  <2> QED BY <2>3, <2>4 DEF RowColumns
<1> HIDE DEF row
<1>7. /\ DOMAIN row.slots = 1 .. n
      /\ \A i \in 1 .. n : row.slots[i].cancelledAt = NoInstant /\ ~row.slots[i].byStaff
  BY <1>5
<1>8. LiveSlots(row) # {} /\ ByStaff(row) = {}
  <2>1. 1 \in 1 .. n
    BY <1>2
  <2> QED BY <1>7, <2>1 DEF LiveSlots, ByStaff
<1>9. NothingAhead(row, clockNow)
  BY <1>7 DEF NothingAhead, NoInstant, TrailTyped
<1>10. LifeKept(row)
  BY <1>5, <1>8 DEF LifeKept
<1>11. CASE status = "PENDING" /\ u = NoStaff /\ deeds = {}
  <2>1. \A a : Of(deeds, a) = {}
    BY <1>11 DEF Of
  <2>2. CancelsTold(row, deeds)
    BY <1>8, <2>1 DEF CancelsTold
  <2>3. ApprovalTold(r, row, deeds) /\ CreationTold(r, row, deeds) /\ RejectionTold(r, row, deeds)
    BY <1>5, <1>11, <2>1 DEF ApprovalTold, CreationTold, RejectionTold
  <2> QED BY <1>6, <1>9, <1>10, <2>2, <2>3, RealRow DEF Told, row
<1>12. CASE /\ status = "APPROVED" /\ u \in ReportStaff
            /\ deeds = {Deed("DIRECT_BOOKING", r, clockNow, u)}
  <2>1. /\ Of(deeds, "CANCEL") = {} /\ Of(deeds, "APPROVE") = {} /\ Of(deeds, "REJECT") = {}
        /\ Of(deeds, "DIRECT_BOOKING") = deeds
    BY <1>12 DEF Of, Deed
  <2>2. CancelsTold(row, deeds)
    BY <1>8, <2>1 DEF CancelsTold
  <2>3. u # NoStaff
    BY <1>12 DEF ReportConstants
  <2>4. ApprovalTold(r, row, deeds) /\ CreationTold(r, row, deeds) /\ RejectionTold(r, row, deeds)
    BY <1>5, <1>12, <2>1, <2>3 DEF ApprovalTold, CreationTold, RejectionTold
  <2> QED BY <1>6, <1>9, <1>10, <2>2, <2>4, RealRow DEF Told, row
<1> QED BY <1>11, <1>12

(* The columns that a cancellation writes, and those it leaves alone.      *)
Writes(row, new, targets, at, u, byStaff) ==
  /\ new \in RowColumns /\ DOMAIN new.slots = DOMAIN row.slots
  /\ \A i \in targets : /\ new.slots[i].cancelledAt = at /\ new.slots[i].cancelledBy = u
                        /\ new.slots[i].byStaff = byStaff
                        /\ new.slots[i].start = row.slots[i].start
                        /\ new.slots[i].end = row.slots[i].end
  /\ \A i \in DOMAIN row.slots \ targets : new.slots[i] = row.slots[i]
  /\ LiveSlots(new) = LiveSlots(row) \ targets
  /\ new.status = (IF LiveSlots(new) = {} THEN "CANCELLED" ELSE row.status)
  /\ new.auto = row.auto /\ new.createdBy = row.createdBy
  /\ new.approvedAt = row.approvedAt /\ new.approvedBy = row.approvedBy
  /\ new.createdAt = row.createdAt

LEMMA CancelledColumns ==
  ASSUME TrailTyped, NEW row \in RowColumns, NEW targets \in SUBSET LiveSlots(row),
         NEW at \in Nat, NEW u \in Canceller, NEW byStaff \in BOOLEAN,
         at # NoInstant, NEW new, new = Cancelled(row, targets, at, u, byStaff)
  PROVE  Writes(row, new, targets, at, u, byStaff)
<1> DEFINE After(i) == IF i \in targets
                       THEN [row.slots[i] EXCEPT !.cancelledAt = at, !.cancelledBy = u,
                                                 !.byStaff = byStaff]
                       ELSE row.slots[i]
           slots == [i \in DOMAIN row.slots |-> After(i)]
           left == LiveSlots(row) \ targets
<1>1. PICK n \in Nat : DOMAIN row.slots = 1 .. n /\ \A i \in 1 .. n : row.slots[i] \in SlotColumns
  BY SlotsAre
<1>2. \A i \in 1 .. n : After(i) \in SlotColumns
  BY <1>1 DEF SlotColumns
<1>3. \A i \in 1 .. n : IF i \in targets
                        THEN /\ After(i).cancelledAt = at /\ After(i).cancelledBy = u
                             /\ After(i).byStaff = byStaff
                             /\ After(i).start = row.slots[i].start
                             /\ After(i).end = row.slots[i].end
                        ELSE After(i) = row.slots[i]
  BY <1>1 DEF SlotColumns
<1> HIDE DEF After
<1>4. slots \in Seq(SlotColumns) /\ DOMAIN slots = 1 .. n /\ \A i \in 1 .. n : slots[i] = After(i)
  <2> HIDE DEF SlotColumns
  <2>1. slots \in [1 .. n -> SlotColumns] /\ DOMAIN slots = 1 .. n
        /\ \A i \in 1 .. n : slots[i] = After(i)
    BY <1>1, <1>2
  <2> QED BY <1>1, <2>1
<1>5. left # {} => FirstStart(slots, left) \in Nat
  <2>1. \A i \in left : i \in 1 .. n
    BY <1>1 DEF LiveSlots
  <2>2. \A i \in left : slots[i].start \in Nat
    BY <1>2, <1>4, <2>1 DEF SlotColumns
  <2> HIDE DEF slots, left
  <2> QED BY <2>2, FirstStartTyped
<1>6. new = [row EXCEPT !.slots = slots, !.updatedAt = clockNow,
                        !.status = IF left = {} THEN "CANCELLED" ELSE @,
                        !.firstStartAt = IF left = {} THEN @ ELSE FirstStart(slots, left)]
  BY DEF Cancelled, After
<1>7. LiveSlots(new) = left
  <2>1. new.slots = slots
    BY <1>6 DEF RowColumns
  <2>2. \A i \in 1 .. n : slots[i].cancelledAt = NoInstant
                          <=> i \notin targets /\ row.slots[i].cancelledAt = NoInstant
    BY <1>3, <1>4
  <2> HIDE DEF slots
  <2> QED BY <1>1, <1>4, <2>1, <2>2 DEF LiveSlots
<1>8. /\ new \in RowColumns /\ new.slots = slots
      /\ new.status = (IF left = {} THEN "CANCELLED" ELSE row.status)
      /\ new.auto = row.auto /\ new.createdBy = row.createdBy
      /\ new.approvedAt = row.approvedAt /\ new.approvedBy = row.approvedBy
      /\ new.createdAt = row.createdAt
  <2>1. PICK c \in Nat : c = clockNow
    BY DEF TrailTyped
  <2>2. PICK f \in Nat : f = IF left = {} THEN row.firstStartAt ELSE FirstStart(slots, left)
    BY <1>5 DEF RowColumns
  <2>3. PICK st \in Statuses : st = IF left = {} THEN "CANCELLED" ELSE row.status
    BY DEF RowColumns, Statuses
  <2>4. new = [row EXCEPT !.slots = slots, !.updatedAt = c, !.status = st, !.firstStartAt = f]
    BY <1>6, <2>1, <2>2, <2>3 DEF RowColumns
  <2> HIDE DEF slots, left, Statuses, SlotColumns, Canceller
  <2> QED BY <1>4, <2>3, <2>4 DEF RowColumns
<1> HIDE DEF slots, left, RowColumns
<1>9. LiveSlots(new) = LiveSlots(row) \ targets
  BY <1>7 DEF left
<1>10. /\ DOMAIN new.slots = DOMAIN row.slots
       /\ \A i \in 1 .. n : new.slots[i] = After(i)
  BY <1>1, <1>4, <1>8
<1>11. /\ \A i \in targets : /\ new.slots[i].cancelledAt = at /\ new.slots[i].cancelledBy = u
                              /\ new.slots[i].byStaff = byStaff
                              /\ new.slots[i].start = row.slots[i].start
                              /\ new.slots[i].end = row.slots[i].end
       /\ \A i \in DOMAIN row.slots \ targets : new.slots[i] = row.slots[i]
  BY <1>1, <1>3, <1>10 DEF LiveSlots
<1> QED BY <1>7, <1>8, <1>9, <1>10, <1>11 DEF Writes

LEMMA CancelTold ==
  ASSUME TrailTyped, NEW r \in ReportRequests, NEW row \in RowColumns, NEW deeds,
         Told(r, row, deeds), NothingAhead(row, clockNow), row.status = "APPROVED",
         \A e \in Of(deeds, "CANCEL") : e.at < clockNow,
         NEW targets \in SUBSET LiveSlots(row), targets # {}, NEW u \in ReportStaff,
         NEW new, new = Cancelled(row, targets, clockNow, u, TRUE),
         NEW d, d = [action |-> "CANCEL", req |-> r, at |-> clockNow, by |-> u,
                     slots |-> targets, left |-> Cardinality(LiveSlots(row) \ targets)]
  PROVE  new \in RowColumns /\ Told(r, new, deeds \cup {d}) /\ NothingAhead(new, clockNow)
<1> DEFINE more == deeds \cup {d}
<1>1. clockNow \in Nat /\ clockNow # NoInstant /\ u \in Canceller
  BY DEF TrailTyped, NoInstant, Canceller
<1>2. Writes(row, new, targets, clockNow, u, TRUE)
  BY <1>1, CancelledColumns
<1> USE DEF Writes
<1>3. /\ LifeKept(row) /\ CancelsTold(row, deeds) /\ ApprovalTold(r, row, deeds)
      /\ CreationTold(r, row, deeds) /\ RejectionTold(r, row, deeds)
  BY RealRow DEF Told
<1>4. PICK n \in Nat : DOMAIN row.slots = 1 .. n /\ \A i \in 1 .. n : row.slots[i] \in SlotColumns
  BY SlotsAre
<1>5. /\ Of(more, "CANCEL") = Of(deeds, "CANCEL") \cup {d}
      /\ \A a : a # "CANCEL" => Of(more, a) = Of(deeds, a)
  BY DEF Of
<1>6. ByStaff(new) = ByStaff(row) \cup targets /\ ByStaff(row) \cap targets = {}
  <2>1. \A i \in targets : i \in ByStaff(new) /\ i \notin ByStaff(row)
    <3>1. ASSUME NEW i \in targets
          PROVE  /\ i \in DOMAIN new.slots /\ new.slots[i].cancelledAt # NoInstant
                 /\ row.slots[i].cancelledAt = NoInstant
      BY <1>1, <1>2 DEF LiveSlots
    <3>2. \A i \in targets : new.slots[i].byStaff
      BY <1>2, Zenon
    <3> QED BY <3>1, <3>2 DEF ByStaff
  <2>2. \A i \in DOMAIN row.slots \ targets : i \in ByStaff(new) <=> i \in ByStaff(row)
    BY <1>2 DEF ByStaff
  <2>3. ByStaff(new) \subseteq DOMAIN row.slots /\ ByStaff(row) \subseteq DOMAIN row.slots
    BY <1>2 DEF ByStaff
  <2> QED BY <2>1, <2>2, <2>3
<1>7. NothingAhead(new, clockNow)
  <2>1. ASSUME NEW i \in 1 .. n PROVE new.slots[i].cancelledAt <= clockNow
    <3>1. CASE i \in targets
      <4>1. new.slots[i].cancelledAt = clockNow
        BY <1>2, <3>1
      <4>2. clockNow <= clockNow
        BY <1>1
      <4> QED BY <4>1, <4>2, Zenon
    <3>2. CASE i \notin targets
      BY <1>2, <1>4, <3>2 DEF NothingAhead
    <3> QED BY <3>1, <3>2
  <2> QED BY <1>2, <1>4, <2>1 DEF NothingAhead
<1>8. CancelsTold(new, more)
  <2>1. ASSUME NEW e \in Of(deeds, "CANCEL")
        PROVE  /\ e.slots = {j \in ByStaff(new) : new.slots[j].cancelledAt = e.at}
               /\ e.slots # {} /\ \A j \in e.slots : new.slots[j].cancelledBy = e.by
               /\ e.left # 0 /\ e.at # clockNow /\ e.slots \cap targets = {}
    <3>1. /\ e.slots = {j \in ByStaff(row) : row.slots[j].cancelledAt = e.at}
          /\ e.slots # {} /\ \A j \in e.slots : row.slots[j].cancelledBy = e.by
          /\ e.left = 0 => AllGone(row, e.at)
      BY <1>3 DEF CancelsTold
    <3>2. e.at # clockNow
      <4>1. PICK j \in ByStaff(row) : row.slots[j].cancelledAt = e.at
        BY <3>1
      <4>2. PICK c \in Nat : c = e.at
        BY <1>4, <4>1 DEF ByStaff, SlotColumns
      <4> QED BY <1>1, <4>2
    <3>3. ~AllGone(row, e.at)
      BY DEF AllGone, LiveSlots
    <3>4. e.slots \subseteq ByStaff(row) /\ e.slots \subseteq DOMAIN row.slots
      BY <3>1 DEF ByStaff
    <3>5. \A j \in e.slots : new.slots[j] = row.slots[j]
      BY <1>2, <1>6, <3>4
    <3>6. e.slots = {j \in ByStaff(new) : new.slots[j].cancelledAt = e.at}
      <4>1. \A j \in ByStaff(row) : new.slots[j] = row.slots[j]
        BY <1>2, <1>6 DEF ByStaff
      <4>2. \A j \in targets : new.slots[j].cancelledAt = clockNow
        BY <1>2 DEF LiveSlots
      <4> QED BY <1>6, <3>1, <3>2, <4>1, <4>2
    <3> QED BY <1>6, <3>1, <3>2, <3>3, <3>4, <3>5, <3>6
  <2>2. /\ d.slots = {j \in ByStaff(new) : new.slots[j].cancelledAt = d.at}
        /\ \A j \in d.slots : new.slots[j].cancelledBy = d.by
    <3>1. \A j \in ByStaff(row) : new.slots[j].cancelledAt # clockNow
      <4>1. ASSUME NEW j \in ByStaff(row) PROVE new.slots[j].cancelledAt # clockNow
        <5>1. PICK e \in Of(deeds, "CANCEL") : j \in e.slots
          BY <1>3 DEF CancelsTold
        <5>2. new.slots[j].cancelledAt = e.at /\ e.at # clockNow
          BY <2>1, <5>1
        <5> QED BY <5>2
      <4> QED BY <4>1
    <3>2. \A j \in targets : new.slots[j].cancelledAt = clockNow /\ new.slots[j].cancelledBy = u
      BY <1>2 DEF LiveSlots
    <3> QED BY <1>6, <3>1, <3>2
  <2>3. d.left = 0 => AllGone(new, d.at)
    <3>1. IsFiniteSet(LiveSlots(row) \ targets)
      <4>1. IsFiniteSet(1 .. n)
        <5>1. 1 \in Int /\ n \in Int
          BY <1>4
        <5> QED BY <5>1, FS_Interval, Zenon
      <4>2. LiveSlots(row) \ targets \subseteq 1 .. n
        BY <1>4 DEF LiveSlots
      <4> QED BY <4>1, <4>2, FS_Subset
    <3>2. d.left = 0 => LiveSlots(new) = {}
      BY <1>2, <3>1, FS_EmptySet
    <3>3. LiveSlots(new) = {} => AllGone(new, clockNow)
      BY <1>7 DEF LiveSlots, AllGone, NothingAhead
    <3> QED BY <3>2, <3>3
  <2>4. \A i \in ByStaff(new) : \E e \in Of(more, "CANCEL") : i \in e.slots
    <3>1. \A i \in ByStaff(row) : \E e \in Of(deeds, "CANCEL") : i \in e.slots
      BY <1>3 DEF CancelsTold
    <3>2. d \in Of(more, "CANCEL") /\ d.slots = targets
      BY <1>5
    <3> HIDE DEF more
    <3> QED BY <1>5, <1>6, <3>1, <3>2
  <2>5. \A e, f \in Of(more, "CANCEL") : e.at = f.at => e = f
    <3>1. \A e, f \in Of(deeds, "CANCEL") : e.at = f.at => e = f
      BY <1>3 DEF CancelsTold
    <3>2. \A e \in Of(deeds, "CANCEL") : e.at # d.at
      BY <2>1
    <3> HIDE DEF more
    <3> QED BY <1>5, <3>1, <3>2
  <2>6. \A e \in Of(more, "CANCEL") :
          /\ e.slots = {j \in ByStaff(new) : new.slots[j].cancelledAt = e.at}
          /\ e.slots # {} /\ \A j \in e.slots : new.slots[j].cancelledBy = e.by
          /\ e.left = 0 => AllGone(new, e.at)
    <3>1. d.slots # {}
      OBVIOUS
    <3>2. ASSUME NEW e \in Of(deeds, "CANCEL") PROVE e.left # 0
      BY <2>1
    <3> HIDE DEF more
    <3>3. ASSUME NEW e \in Of(more, "CANCEL")
          PROVE  /\ e.slots = {j \in ByStaff(new) : new.slots[j].cancelledAt = e.at}
                 /\ e.slots # {} /\ \A j \in e.slots : new.slots[j].cancelledBy = e.by
                 /\ e.left = 0 => AllGone(new, e.at)
      <4>1. CASE e = d
        BY <2>2, <2>3, <3>1, <4>1
      <4>2. CASE e \in Of(deeds, "CANCEL")
        BY <2>1, <4>2
      <4> QED BY <1>5, <4>1, <4>2
    <3> QED BY <3>3
  <2> QED BY <2>4, <2>5, <2>6 DEF CancelsTold
<1>9. LifeKept(new)
  BY <1>2, <1>3 DEF LifeKept
<1>10. /\ ApprovalTold(r, new, more) /\ CreationTold(r, new, more)
       /\ RejectionTold(r, new, more)
  <2>1. new.status # "REJECTED" /\ row.status # "REJECTED"
    BY <1>2
  <2> HIDE DEF more
  <2> QED BY <1>2, <1>3, <1>5, <2>1 DEF ApprovalTold, CreationTold, RejectionTold
<1> QED BY <1>2, <1>7, <1>8, <1>9, <1>10, RealRow DEF Told

(* What a requester gives up is no deed of the staff.                      *)
LEMMA GivenUpTold ==
  ASSUME TrailTyped, NEW r \in ReportRequests, NEW row \in RowColumns, NEW deeds,
         Told(r, row, deeds), NothingAhead(row, clockNow),
         row.status \in {"PENDING", "APPROVED"},
         NEW targets \in SUBSET LiveSlots(row), targets # {},
         NEW at \in Nat, at # NoInstant, at <= clockNow,
         row.status = "PENDING" => targets = LiveSlots(row),
         NEW new, new = Cancelled(row, targets, at, NoStaff, FALSE)
  PROVE  new \in RowColumns /\ Told(r, new, deeds) /\ NothingAhead(new, clockNow)
<1>1. clockNow \in Nat /\ NoStaff \in Canceller
  BY DEF TrailTyped, Canceller
<1>2. Writes(row, new, targets, at, NoStaff, FALSE)
  BY <1>1, CancelledColumns
<1> USE DEF Writes
<1>3. /\ LifeKept(row) /\ CancelsTold(row, deeds) /\ ApprovalTold(r, row, deeds)
      /\ CreationTold(r, row, deeds) /\ RejectionTold(r, row, deeds)
  BY RealRow DEF Told
<1>4. PICK n \in Nat : DOMAIN row.slots = 1 .. n /\ \A i \in 1 .. n : row.slots[i] \in SlotColumns
  BY SlotsAre
<1>5. NothingAhead(new, clockNow)
  <2>1. ASSUME NEW i \in 1 .. n PROVE new.slots[i].cancelledAt <= clockNow
    <3>1. CASE i \in targets
      <4>1. new.slots[i].cancelledAt = at
        BY <1>2, <3>1
      <4> QED BY <1>1, <4>1
    <3>2. CASE i \notin targets
      BY <1>2, <1>4, <3>2 DEF NothingAhead
    <3> QED BY <3>1, <3>2
  <2> QED BY <1>2, <1>4, <2>1 DEF NothingAhead
<1>6. /\ ByStaff(new) = ByStaff(row) /\ \A j \in ByStaff(row) : new.slots[j] = row.slots[j]
  BY <1>2 DEF ByStaff, LiveSlots
<1>7. CancelsTold(new, deeds)
  <2>1. \A at0 : ~AllGone(row, at0)
    BY DEF AllGone, LiveSlots
  <2>2. \A e \in Of(deeds, "CANCEL") :
          /\ e.slots = {j \in ByStaff(new) : new.slots[j].cancelledAt = e.at}
          /\ e.slots # {} /\ \A j \in e.slots : new.slots[j].cancelledBy = e.by
          /\ e.left = 0 => AllGone(new, e.at)
    <3>1. ASSUME NEW e \in Of(deeds, "CANCEL")
          PROVE  /\ e.slots = {j \in ByStaff(new) : new.slots[j].cancelledAt = e.at}
                 /\ e.slots # {} /\ \A j \in e.slots : new.slots[j].cancelledBy = e.by
                 /\ e.left # 0
      <4>1. /\ e.slots = {j \in ByStaff(row) : row.slots[j].cancelledAt = e.at}
            /\ e.slots # {} /\ \A j \in e.slots : row.slots[j].cancelledBy = e.by
            /\ e.left = 0 => AllGone(row, e.at)
        BY <1>3 DEF CancelsTold
      <4> QED BY <1>6, <2>1, <4>1
    <3> QED BY <3>1
  <2>3. /\ \A e, f \in Of(deeds, "CANCEL") : e.at = f.at => e = f
        /\ \A i \in ByStaff(new) : \E e \in Of(deeds, "CANCEL") : i \in e.slots
    BY <1>3, <1>6 DEF CancelsTold
  <2> QED BY <2>2, <2>3 DEF CancelsTold
<1>8. LifeKept(new)
  <2>1. LiveSlots(new) # {} => new.status = "APPROVED"
    BY <1>2
  <2> QED BY <1>2, <1>3, <2>1 DEF LifeKept
<1>9. /\ ApprovalTold(r, new, deeds) /\ CreationTold(r, new, deeds)
      /\ RejectionTold(r, new, deeds)
  <2>1. new.status # "REJECTED" /\ row.status # "REJECTED"
    BY <1>2
  <2> QED BY <1>2, <1>3, <2>1 DEF ApprovalTold, CreationTold, RejectionTold
<1> QED BY <1>2, <1>5, <1>7, <1>8, <1>9, RealRow DEF Told

-----------------------------------------------------------------------------
(* The rows of a decision: its own, the losers', and the others.           *)
LEMMA DecisionKeeps ==
  ASSUME AuditInvariant, NEW r \in ReportRequests, NEW row \in RowColumns,
         NEW losers \in SUBSET RowsOf("PENDING"), NEW d \in DeedType, d.req = r,
         Decide(r, row, losers), auditLog' = auditLog \cup {d}, UNCHANGED <<clockNow, begun>>,
         Told(r, row, Deeds(r) \cup {d}), NothingAhead(row, clockNow)
  PROVE  AuditInvariant'
<1> DEFINE lost(q) == [requestRows[q] EXCEPT !.status = "REJECTED", !.auto = TRUE,
                                             !.updatedAt = clockNow]
<1>1. TrailTyped /\ clockNow \in Nat
  BY DEF AuditInvariant, TrailTyped
<1>2. \A q \in ReportRequests :
        requestRows'[q] = IF q = r THEN row ELSE IF q \in losers THEN lost(q) ELSE requestRows[q]
  BY DEF Decide
<1>3. /\ Deeds(r)' = Deeds(r) \cup {d} /\ \A q : q # r => Deeds(q)' = Deeds(q)
  BY NewDeed
<1>4. ASSUME NEW q \in ReportRequests, q # r, q \in losers
      PROVE  /\ requestRows'[q] \in RowColumns /\ Told(q, requestRows'[q], Deeds(q)')
             /\ NothingAhead(requestRows'[q], clockNow)
  <2>1. q \in Existing /\ requestRows[q].status = "PENDING"
    BY <1>4 DEF RowsOf
  <2>2. requestRows[q] \in RowColumns /\ requestRows[q] # NoRequestRow
    BY <1>1, <2>1, RowsThere
  <2>3. Told(q, requestRows[q], Deeds(q)) /\ NothingAhead(requestRows[q], clockNow)
    BY <2>2 DEF AuditInvariant
  <2>4. /\ lost(q) \in RowColumns /\ Told(q, lost(q), Deeds(q))
        /\ NothingAhead(lost(q), clockNow)
    BY <1>1, <2>1, <2>2, <2>3, ClosedTold
  <2>5. requestRows'[q] = lost(q) /\ Deeds(q)' = Deeds(q)
    BY <1>2, <1>3, <1>4
  <2> QED BY <2>4, <2>5
<1>5. TrailTyped'
  <2>1. \A q \in ReportRequests : requestRows'[q] \in RowColumns \cup {NoRequestRow}
    BY <1>1, <1>2, <1>4 DEF TrailTyped
  <2>2. requestRows' \in [ReportRequests -> RowColumns \cup {NoRequestRow}]
    BY <2>1 DEF Decide
  <2>3. auditLog' \subseteq DeedType /\ IsFiniteSet(auditLog')
    BY <1>1, FS_AddElement DEF TrailTyped
  <2> QED BY <1>1, <2>2, <2>3 DEF TrailTyped
<1>6. ASSUME NEW q \in ReportRequests
      PROVE  /\ begun'[q] <= clockNow'
             /\ \/ requestRows'[q] = requestRows[q] /\ Deeds(q)' = Deeds(q)
                \/ /\ requestRows'[q] \in RowColumns /\ Told(q, requestRows'[q], Deeds(q)')
                   /\ NothingAhead(requestRows'[q], clockNow')
  <2>1. CASE q = r
    BY <1>2, <1>3, <2>1 DEF AuditInvariant
  <2>2. CASE q # r /\ q \in losers
    BY <1>4, <2>2 DEF AuditInvariant
  <2>3. CASE q # r /\ q \notin losers
    BY <1>2, <1>3, <2>3 DEF AuditInvariant
  <2> QED BY <2>1, <2>2, <2>3
<1>7. clockNow <= clockNow'
  BY <1>1
<1> QED BY <1>5, <1>6, <1>7, RowsKept

(* One row is written, and one deed logged, or none.                       *)
LEMMA WriteKeeps ==
  ASSUME AuditInvariant, NEW r \in ReportRequests, NEW row \in RowColumns,
         requestRows' = [requestRows EXCEPT ![r] = row],
         \/ UNCHANGED auditLog
         \/ \E d \in DeedType : d.req = r /\ auditLog' = auditLog \cup {d},
         Told(r, row, Deeds(r)'), NothingAhead(row, clockNow), UNCHANGED clockNow,
         begun' \in [ReportRequests -> Nat], \A q \in ReportRequests : begun'[q] <= clockNow
  PROVE  AuditInvariant'
<1>1. TrailTyped /\ clockNow \in Nat
  BY DEF AuditInvariant, TrailTyped
<1>2. /\ auditLog' \subseteq DeedType /\ IsFiniteSet(auditLog')
      /\ \A q \in ReportRequests : q # r => Deeds(q)' = Deeds(q)
  <2>1. CASE UNCHANGED auditLog
    BY <1>1, <2>1 DEF TrailTyped, Deeds
  <2>2. ASSUME NEW d \in DeedType, d.req = r, auditLog' = auditLog \cup {d}
        PROVE  /\ auditLog' \subseteq DeedType /\ IsFiniteSet(auditLog')
               /\ \A q \in ReportRequests : q # r => Deeds(q)' = Deeds(q)
    <3>1. auditLog' \subseteq DeedType /\ IsFiniteSet(auditLog')
      BY <1>1, <2>2, FS_AddElement DEF TrailTyped
    <3> QED BY <2>2, <3>1, NewDeed
  <2> QED BY <2>1, <2>2
<1>3. requestRows \in [ReportRequests -> RowColumns \cup {NoRequestRow}]
  BY <1>1 DEF TrailTyped
<1>4. /\ requestRows'[r] = row /\ \A q \in ReportRequests : q # r => requestRows'[q] = requestRows[q]
      /\ requestRows' \in [ReportRequests -> RowColumns \cup {NoRequestRow}]
  <2> HIDE DEF RowColumns
  <2> QED BY <1>3
<1>5. TrailTyped'
  BY <1>1, <1>2, <1>4 DEF TrailTyped
<1>6. ASSUME NEW q \in ReportRequests
      PROVE  /\ begun'[q] <= clockNow'
             /\ \/ requestRows'[q] = requestRows[q] /\ Deeds(q)' = Deeds(q)
                \/ /\ requestRows'[q] \in RowColumns /\ Told(q, requestRows'[q], Deeds(q)')
                   /\ NothingAhead(requestRows'[q], clockNow')
  <2>1. CASE q = r
    BY <1>4, <2>1
  <2>2. CASE q # r
    BY <1>2, <1>4, <2>2
  <2> QED BY <2>1, <2>2
<1>7. clockNow <= clockNow'
  BY <1>1
<1> QED BY <1>5, <1>6, <1>7, RowsKept

LEMMA RowKnown ==
  ASSUME AuditInvariant, NEW r \in ReportRequests, r \in Existing
  PROVE  /\ requestRows[r] \in RowColumns /\ Told(r, requestRows[r], Deeds(r))
         /\ NothingAhead(requestRows[r], clockNow)
<1>1. requestRows[r] \in RowColumns /\ requestRows[r] # NoRequestRow
  BY RowsThere DEF AuditInvariant
<1> QED BY <1>1 DEF AuditInvariant

LEMMA NotThere ==
  ASSUME AuditInvariant, NEW r \in ReportRequests, r \notin Existing
  PROVE  Deeds(r) = {}
<1>1. requestRows[r] = NoRequestRow
  BY RowsThere DEF AuditInvariant
<1> QED BY <1>1 DEF AuditInvariant, Told

LEMMA LosersPend ==
  ASSUME NEW venue, NEW slots
  PROVE  Clashing(venue, slots, {"PENDING"}) \subseteq RowsOf("PENDING")
BY DEF Clashing, RowsOf

LEMMA SubmitTold ==
  ASSUME ReportConstants, SlotLists, AuditInvariant, NEW r \in ReportRequests, SubmitRequest(r)
  PROVE  AuditInvariant'
<1>1. TrailTyped /\ Deeds(r) = {}
  BY NotThere DEF SubmitRequest, AuditInvariant
<1>2. PICK slots \in Trait[r].slotLists :
        requestRows' = [requestRows EXCEPT ![r] = NewRow(slots, "PENDING", NoStaff, TRUE)]
  BY DEF SubmitRequest
<1> DEFINE row == NewRow(slots, "PENDING", NoStaff, TRUE)
<1>3. row \in RowColumns /\ Told(r, row, Deeds(r)) /\ NothingAhead(row, clockNow)
  BY <1>1, NewRowTold
<1>4. /\ UNCHANGED <<clockNow, begun, auditLog>> /\ Deeds(r)' = Deeds(r)
      /\ begun \in [ReportRequests -> Nat] /\ \A q \in ReportRequests : begun[q] <= clockNow
  BY DEF SubmitRequest, AuditInvariant, TrailTyped, Deeds
<1> HIDE DEF row
<1>5. requestRows' = [requestRows EXCEPT ![r] = row]
  BY <1>2 DEF row
<1> QED BY <1>3, <1>4, <1>5, WriteKeeps

LEMMA DirectTold ==
  ASSUME ReportConstants, SlotLists, AuditInvariant, NEW r \in ReportRequests,
         NEW u \in ReportStaff, BookDirectly(r, u)
  PROVE  AuditInvariant'
<1>1. TrailTyped /\ Deeds(r) = {} /\ clockNow \in Nat
  BY NotThere DEF BookDirectly, AuditInvariant, TrailTyped
<1>2. PICK slots \in Trait[r].slotLists : \E line \in BOOLEAN :
        Decide(r, NewRow(slots, "APPROVED", u, line), Clashing(Trait[r].venue, slots, {"PENDING"}))
  BY DEF BookDirectly
<1>3. PICK line \in BOOLEAN :
        Decide(r, NewRow(slots, "APPROVED", u, line), Clashing(Trait[r].venue, slots, {"PENDING"}))
  BY <1>2
<1> DEFINE row == NewRow(slots, "APPROVED", u, line)
           d == Deed("DIRECT_BOOKING", r, clockNow, u)
<1>4. row \in RowColumns /\ Told(r, row, {d}) /\ NothingAhead(row, clockNow)
  BY <1>1, NewRowTold
<1>5. d \in DeedType /\ d.req = r
  BY <1>1 DEF Deed, DeedType
<1>6. auditLog' = auditLog \cup {d} /\ UNCHANGED <<clockNow, begun>>
  BY DEF BookDirectly, Did, Deed
<1>7. Deeds(r) \cup {d} = {d}
  BY <1>1
<1> HIDE DEF row, d
<1>8. Decide(r, row, Clashing(Trait[r].venue, slots, {"PENDING"}))
  BY <1>3 DEF row
<1>9. Clashing(Trait[r].venue, slots, {"PENDING"}) \in SUBSET RowsOf("PENDING")
  BY LosersPend
<1> QED BY <1>4, <1>5, <1>6, <1>7, <1>8, <1>9, DecisionKeeps

LEMMA ApprovalKeeps ==
  ASSUME AuditInvariant, NEW r \in ReportRequests, NEW u \in ReportStaff, ApproveRow(r, u)
  PROVE  AuditInvariant'
<1> DEFINE row == requestRows[r]
           new == ApprovedNow(row, u)
           d == Deed("APPROVE", r, clockNow, u)
           losers == Clashing(Trait[r].venue, LiveOf(row), {"PENDING"}) \ {r}
<1>1. TrailTyped /\ clockNow \in Nat /\ r \in Existing /\ row.status = "PENDING"
  BY DEF ApproveRow, RowsOf, AuditInvariant, TrailTyped
<1>2. row \in RowColumns /\ Told(r, row, Deeds(r)) /\ NothingAhead(row, clockNow)
  BY <1>1, RowKnown
<1>3. new \in RowColumns /\ Told(r, new, Deeds(r) \cup {d}) /\ NothingAhead(new, clockNow)
  BY <1>1, <1>2, ApprovedTold
<1>4. d \in DeedType /\ d.req = r
  BY <1>1 DEF Deed, DeedType
<1>5. auditLog' = auditLog \cup {d} /\ UNCHANGED <<clockNow, begun>> /\ Decide(r, new, losers)
  BY DEF ApproveRow, Did, Deed, ApprovedNow
<1>6. losers \in SUBSET RowsOf("PENDING")
  BY LosersPend
<1> HIDE DEF new, d, losers
<1> QED BY <1>3, <1>4, <1>5, <1>6, DecisionKeeps

LEMMA RejectionKeeps ==
  ASSUME AuditInvariant, NEW r \in ReportRequests, NEW u \in ReportStaff, RejectRow(r, u)
  PROVE  AuditInvariant'
<1> DEFINE row == requestRows[r]
           new == RejectedNow(row)
           d == Deed("REJECT", r, clockNow, u)
<1>1. TrailTyped /\ clockNow \in Nat /\ r \in Existing /\ row.status = "PENDING"
  BY DEF RejectRow, RowsOf, AuditInvariant, TrailTyped
<1>2. row \in RowColumns /\ Told(r, row, Deeds(r)) /\ NothingAhead(row, clockNow)
  BY <1>1, RowKnown
<1>3. new \in RowColumns /\ Told(r, new, Deeds(r) \cup {d}) /\ NothingAhead(new, clockNow)
  BY <1>1, <1>2, RejectedTold
<1>4. d \in DeedType /\ d.req = r
  BY <1>1 DEF Deed, DeedType
<1>5. auditLog' = auditLog \cup {d} /\ UNCHANGED <<clockNow, begun>>
  BY DEF RejectRow, Did, Deed
<1>6. requestRows' = [requestRows EXCEPT ![r] = new]
  <2>1. requestRows' = [requestRows EXCEPT ![r].status = "REJECTED", ![r].updatedAt = clockNow]
    BY DEF RejectRow
  <2>2. requestRows \in [ReportRequests -> RowColumns \cup {NoRequestRow}]
    BY <1>1 DEF TrailTyped
  <2> HIDE DEF RowColumns
  <2> QED BY <2>1, <2>2 DEF RejectedNow
<1>7. Deeds(r)' = Deeds(r) \cup {d}
  BY <1>4, <1>5, NewDeed
<1>8. begun \in [ReportRequests -> Nat] /\ \A q \in ReportRequests : begun[q] <= clockNow
  BY DEF AuditInvariant, TrailTyped
<1> HIDE DEF new, d
<1> QED BY <1>3, <1>4, <1>5, <1>6, <1>7, <1>8, WriteKeeps

LEMMA CancelKeeps ==
  ASSUME AuditInvariant, NEW r \in ReportRequests, NEW u \in ReportStaff, CancelByStaff(r, u)
  PROVE  AuditInvariant'
<1> DEFINE row == requestRows[r]
<1>1. TrailTyped /\ clockNow \in Nat /\ r \in Existing /\ row.status = "APPROVED"
  BY DEF CancelByStaff, RowsOf, AuditInvariant, TrailTyped
<1>2. row \in RowColumns /\ Told(r, row, Deeds(r)) /\ NothingAhead(row, clockNow)
  BY <1>1, RowKnown
<1>3. PICK targets \in (SUBSET LiveSlots(row)) \ {{}} :
        /\ requestRows' = [requestRows EXCEPT ![r] = Cancelled(row, targets, clockNow, u, TRUE)]
        /\ Did("CANCEL", r, u, targets, Cardinality(LiveSlots(row) \ targets))
  BY DEF CancelByStaff
<1> DEFINE d == [action |-> "CANCEL", req |-> r, at |-> clockNow, by |-> u,
                 slots |-> targets, left |-> Cardinality(LiveSlots(row) \ targets)]
           new == Cancelled(row, targets, clockNow, u, TRUE)
<1>4. \A e \in Of(Deeds(r), "CANCEL") : e.at < clockNow
  BY DEF CancelByStaff, Of, Deeds
<1>5. new \in RowColumns /\ Told(r, new, Deeds(r) \cup {d}) /\ NothingAhead(new, clockNow)
  BY <1>1, <1>2, <1>3, <1>4, CancelTold
<1>6. d \in DeedType /\ d.req = r
  <2>1. PICK n \in Nat : DOMAIN row.slots = 1 .. n
    BY <1>2, SlotsAre
  <2>2. targets \in SUBSET Nat /\ LiveSlots(row) \ targets \subseteq 1 .. n
    BY <1>3, <2>1 DEF LiveSlots
  <2>3. IsFiniteSet(1 .. n)
    <3>1. 1 \in Int /\ n \in Int
      BY <2>1
    <3> QED BY <3>1, FS_Interval, Zenon
  <2>4. Cardinality(LiveSlots(row) \ targets) \in Nat
    BY <2>2, <2>3, FS_Subset, FS_CardinalityType
  <2> QED BY <1>1, <2>2, <2>4 DEF DeedType
<1>7. auditLog' = auditLog \cup {d} /\ UNCHANGED <<clockNow, begun>>
  BY <1>3 DEF CancelByStaff, Did
<1>8. requestRows' = [requestRows EXCEPT ![r] = new]
  BY <1>3
<1> HIDE DEF new, d
<1>9. Deeds(r)' = Deeds(r) \cup {d}
  BY <1>6, <1>7, NewDeed
<1>10. begun \in [ReportRequests -> Nat] /\ \A q \in ReportRequests : begun[q] <= clockNow
  BY DEF AuditInvariant, TrailTyped
<1> QED BY <1>5, <1>6, <1>7, <1>8, <1>9, <1>10, WriteKeeps

LEMMA GivingUpKeeps ==
  ASSUME AuditInvariant, NEW r \in ReportRequests, EndCancel(r)
  PROVE  AuditInvariant'
<1> DEFINE row == requestRows[r]
<1>1. /\ TrailTyped /\ clockNow \in Nat /\ begun[r] \in Nat /\ begun[r] # NoInstant
      /\ begun[r] <= clockNow /\ UNCHANGED <<clockNow, auditLog>>
      /\ begun' = [begun EXCEPT ![r] = NoInstant]
  BY DEF EndCancel, AuditInvariant, TrailTyped
<1>2. Deeds(r)' = Deeds(r) /\ begun' \in [ReportRequests -> Nat]
      /\ \A q \in ReportRequests : begun'[q] <= clockNow
  <2>1. /\ begun \in [ReportRequests -> Nat]
        /\ \A q \in ReportRequests : begun[q] <= clockNow
    BY DEF AuditInvariant, TrailTyped
  <2>2. begun' \in [ReportRequests -> Nat]
    BY <1>1, <2>1 DEF NoInstant
  <2>3. 0 <= clockNow
    BY <1>1
  <2>4. \A q \in ReportRequests : begun'[q] <= clockNow
    BY <1>1, <2>1, <2>3 DEF NoInstant
  <2>5. Deeds(r)' = Deeds(r)
    BY <1>1 DEF Deeds
  <2> QED BY <2>2, <2>4, <2>5
<1>3. ASSUME NEW targets \in SUBSET LiveSlots(row), targets # {},
             row.status \in {"PENDING", "APPROVED"},
             row.status = "PENDING" => targets = LiveSlots(row),
             requestRows' = [requestRows EXCEPT ![r] =
                               Cancelled(row, targets, begun[r], NoStaff, FALSE)]
      PROVE  AuditInvariant'
  <2> DEFINE new == Cancelled(row, targets, begun[r], NoStaff, FALSE)
  <2>1. r \in Existing
    BY <1>3 DEF Existing
  <2>2. row \in RowColumns /\ Told(r, row, Deeds(r)) /\ NothingAhead(row, clockNow)
    BY <2>1, RowKnown
  <2>3. new \in RowColumns /\ Told(r, new, Deeds(r)) /\ NothingAhead(new, clockNow)
    BY <1>1, <1>3, <2>2, GivenUpTold
  <2>4. requestRows' = [requestRows EXCEPT ![r] = new]
    BY <1>3
  <2> HIDE DEF new
  <2> QED BY <1>1, <1>2, <2>3, <2>4, WriteKeeps
<1>4. CASE row.status = "PENDING" /\ requestRows' = [requestRows EXCEPT ![r] =
             Cancelled(row, LiveSlots(row), begun[r], NoStaff, FALSE)]
  <2>1. r \in Existing
    BY <1>4 DEF Existing
  <2>2. row \in RowColumns /\ Told(r, row, Deeds(r))
    BY <2>1, RowKnown
  <2>3. LiveSlots(row) # {}
    BY <1>4, <2>2, PendingTold
  <2> QED BY <1>3, <1>4, <2>3
<1>5. CASE /\ row.status = "APPROVED"
           /\ \E i \in LiveSlots(row) :
                requestRows' = [requestRows EXCEPT ![r] =
                                  Cancelled(row, {i}, begun[r], NoStaff, FALSE)]
  <2>1. PICK i \in LiveSlots(row) :
          requestRows' = [requestRows EXCEPT ![r] =
                            Cancelled(row, {i}, begun[r], NoStaff, FALSE)]
    BY <1>5
  <2>2. {i} \in SUBSET LiveSlots(row) /\ {i} # {}
    BY <2>1
  <2> QED BY <1>3, <1>5, <2>1, <2>2
<1>6. CASE requestRows' = requestRows
  <2>1. TrailTyped' /\ clockNow <= clockNow'
    BY <1>1, <1>2, <1>6 DEF TrailTyped
  <2>2. \A q \in ReportRequests : Deeds(q)' = Deeds(q)
    BY <1>1 DEF Deeds
  <2> QED BY <1>1, <1>2, <1>6, <2>1, <2>2, RowsKept
<1> QED BY <1>4, <1>5, <1>6 DEF EndCancel

LEMMA ExpiryKeeps ==
  ASSUME AuditInvariant, ExpireOverdue
  PROVE  AuditInvariant'
<1> DEFINE overdue == {r \in RowsOf("PENDING") : requestRows[r].firstStartAt < clockNow}
           closed(q) == [requestRows[q] EXCEPT !.status = "EXPIRED", !.updatedAt = clockNow]
<1>1. TrailTyped /\ clockNow \in Nat /\ UNCHANGED <<clockNow, begun, auditLog>>
  BY DEF ExpireOverdue, AuditInvariant, TrailTyped
<1>2. requestRows' = [q \in ReportRequests |->
                        IF q \in overdue THEN closed(q) ELSE requestRows[q]]
  BY DEF ExpireOverdue
<1>3. ASSUME NEW q \in ReportRequests, q \in overdue
      PROVE  /\ closed(q) \in RowColumns /\ Told(q, closed(q), Deeds(q))
             /\ NothingAhead(closed(q), clockNow)
  <2>1. q \in Existing /\ requestRows[q].status = "PENDING"
    BY <1>3 DEF RowsOf
  <2>2. /\ requestRows[q] \in RowColumns /\ Told(q, requestRows[q], Deeds(q))
        /\ NothingAhead(requestRows[q], clockNow)
    BY <2>1, RowKnown
  <2> QED BY <1>1, <2>1, <2>2, ClosedTold
<1> HIDE DEF overdue, closed
<1>4. \A q \in ReportRequests : Deeds(q)' = Deeds(q)
  BY <1>1 DEF Deeds
<1>5. TrailTyped'
  <2>1. \A q \in ReportRequests : requestRows'[q] \in RowColumns \cup {NoRequestRow}
    BY <1>1, <1>2, <1>3 DEF TrailTyped
  <2>2. requestRows' \in [ReportRequests -> RowColumns \cup {NoRequestRow}]
    BY <1>2, <2>1
  <2> QED BY <1>1, <2>2 DEF TrailTyped
<1>6. ASSUME NEW q \in ReportRequests
      PROVE  /\ begun'[q] <= clockNow'
             /\ \/ requestRows'[q] = requestRows[q] /\ Deeds(q)' = Deeds(q)
                \/ /\ requestRows'[q] \in RowColumns /\ Told(q, requestRows'[q], Deeds(q)')
                   /\ NothingAhead(requestRows'[q], clockNow')
  <2>1. begun'[q] <= clockNow'
    BY <1>1 DEF AuditInvariant
  <2>2. CASE q \in overdue
    BY <1>1, <1>2, <1>3, <1>4, <2>1, <2>2
  <2>3. CASE q \notin overdue
    BY <1>2, <1>4, <2>1, <2>3
  <2> QED BY <2>2, <2>3
<1>7. clockNow <= clockNow'
  BY <1>1
<1> QED BY <1>5, <1>6, <1>7, RowsKept

LEMMA ClockKeeps ==
  ASSUME ReportConstants, AuditInvariant, ClockMoves
  PROVE  AuditInvariant'
<1> DEFINE later == {t \in Instants : t > clockNow}
<1>1. TrailTyped /\ clockNow \in Nat /\ UNCHANGED <<requestRows, begun, auditLog>>
  BY DEF ClockMoves, AuditInvariant, TrailTyped
<1>2. later \in SUBSET Nat /\ later # {}
  BY DEF ClockMoves, ReportConstants
<1>3. clockNow' = Min(later)
  BY DEF ClockMoves
<1> HIDE DEF later
<1>4. clockNow' \in later
  BY <1>2, <1>3, LeastInstant
<1>5. clockNow' \in Nat \ {0} /\ clockNow <= clockNow'
  BY <1>1, <1>4 DEF later, ReportConstants
<1>6. TrailTyped' /\ \A q \in ReportRequests : Deeds(q)' = Deeds(q)
  BY <1>1, <1>5 DEF TrailTyped, Deeds
<1>7. ASSUME NEW q \in ReportRequests PROVE begun'[q] <= clockNow'
  <2>1. PICK b \in Nat : b = begun[q] /\ b <= clockNow
    BY <1>1 DEF AuditInvariant, TrailTyped
  <2> QED BY <1>1, <1>5, <2>1
<1> QED BY <1>1, <1>5, <1>6, <1>7, RowsKept

LEMMA BeginKeeps ==
  ASSUME AuditInvariant, NEW r \in ReportRequests, BeginCancel(r)
  PROVE  AuditInvariant'
<1>1. /\ TrailTyped /\ clockNow \in Nat /\ UNCHANGED <<clockNow, requestRows, auditLog>>
      /\ begun' = [begun EXCEPT ![r] = clockNow] /\ begun \in [ReportRequests -> Nat]
  BY DEF BeginCancel, AuditInvariant, TrailTyped
<1>2. begun' \in [ReportRequests -> Nat] /\ \A q \in ReportRequests : begun'[q] <= clockNow
  BY <1>1 DEF AuditInvariant
<1>3. TrailTyped' /\ clockNow <= clockNow' /\ \A q \in ReportRequests : Deeds(q)' = Deeds(q)
  BY <1>1, <1>2 DEF TrailTyped, Deeds
<1> QED BY <1>1, <1>2, <1>3, RowsKept

LEMMA TrailBegins ==
  ASSUME ReportConstants, ReportInit
  PROVE  AuditInvariant
<1>1. clockNow \in Nat \ {0}
  <2>1. Instants \in SUBSET Nat /\ Instants # {}
    BY DEF ReportConstants
  <2>2. Min(Instants) \in Instants
    BY <2>1, LeastInstant
  <2> QED BY <2>2 DEF ReportInit, ReportConstants
<1>2. TrailTyped
  <2>1. IsFiniteSet(auditLog)
    BY FS_EmptySet DEF ReportInit
  <2> QED BY <1>1, <2>1 DEF ReportInit, TrailTyped, NoInstant
<1>3. \A r \in ReportRequests :
        begun[r] <= clockNow /\ requestRows[r] = NoRequestRow /\ Deeds(r) = {}
  BY <1>1 DEF ReportInit, Deeds, NoInstant
<1> QED BY <1>2, <1>3 DEF AuditInvariant, Told

LEMMA TrailNext ==
  ASSUME ReportConstants, SlotLists, AuditInvariant, [ReportNext]_reportVars
  PROVE  AuditInvariant'
<1>1. CASE UNCHANGED reportVars
  <2> USE <1>1 DEF reportVars
  <2>1. TrailTyped' /\ \A q \in ReportRequests : Deeds(q)' = Deeds(q)
    BY DEF AuditInvariant, TrailTyped, Deeds
  <2>2. clockNow <= clockNow' /\ \A q \in ReportRequests : begun'[q] <= clockNow'
    BY DEF AuditInvariant, TrailTyped
  <2> QED BY <2>1, <2>2, RowsKept
<1>2. CASE ExpireOverdue \/ ClockMoves
  BY <1>2, ExpiryKeeps, ClockKeeps
<1>3. ASSUME NEW r \in ReportRequests, SubmitRequest(r) \/ BeginCancel(r) \/ EndCancel(r)
      PROVE  AuditInvariant'
  BY <1>3, SubmitTold, BeginKeeps, GivingUpKeeps
<1>4. ASSUME NEW r \in ReportRequests, NEW u \in ReportStaff,
             \/ BookDirectly(r, u) \/ ApproveRow(r, u)
             \/ RejectRow(r, u) \/ CancelByStaff(r, u)
      PROVE  AuditInvariant'
  BY <1>4, DirectTold, ApprovalKeeps, RejectionKeeps, CancelKeeps
<1> QED BY <1>1, <1>2, <1>3, <1>4 DEF ReportNext

-----------------------------------------------------------------------------
(* The event that shows a deed.                                            *)
EventOf(d) ==
  AuditEvent(d.action, d.req, d.at, IF d.action = "REJECT" THEN NoStaff ELSE d.by, d.slots,
             d.action = "CANCEL" /\ AllGone(RowOf(d.req), d.at))
DoneIn(range) == {d \in auditLog : InAuditRange(d.at, range)}

(* What the columns tell of a deed of a row there is.                      *)
LEMMA DeedKnown ==
  ASSUME AuditInvariant, NEW r \in ReportRequests, r \in Existing
  PROVE  /\ requestRows[r] \in RowColumns /\ LifeKept(requestRows[r])
         /\ CancelsTold(requestRows[r], Deeds(r)) /\ ApprovalTold(r, requestRows[r], Deeds(r))
         /\ CreationTold(r, requestRows[r], Deeds(r))
         /\ RejectionTold(r, requestRows[r], Deeds(r))
<1>1. requestRows[r] \in RowColumns /\ Told(r, requestRows[r], Deeds(r))
  BY RowKnown
<1> QED BY <1>1, RealRow DEF Told

LEMMA DeedThere ==
  ASSUME AuditInvariant, NEW range, NEW d \in DoneIn(range)
  PROVE  /\ d \in DeedType /\ d.req \in ReportRequests /\ d.req \in Existing
         /\ d \in Of(Deeds(d.req), d.action) /\ InAuditRange(d.at, range)
<1>1. d \in DeedType /\ d.req \in ReportRequests /\ d \in Deeds(d.req) /\ InAuditRange(d.at, range)
  BY DEF DoneIn, AuditInvariant, TrailTyped, DeedType, Deeds
<1>2. d.req \in Existing
  BY <1>1, NotThere
<1> QED BY <1>1, <1>2 DEF Of

(* The event of a group of slots is the event of the deed that cancelled   *)
(* any of them.                                                            *)
LEMMA GroupOfDeed ==
  ASSUME AuditInvariant, NEW r \in ReportRequests, r \in Existing,
         NEW d \in Of(Deeds(r), "CANCEL"), NEW i \in d.slots
  PROVE  /\ i \in StaffCancelled(r) /\ RowOf(r).slots[i].cancelledAt = d.at
         /\ CancelGroup(r, i) = EventOf(d)
<1> DEFINE row == requestRows[r]
<1>1. /\ d.slots = {j \in ByStaff(row) : row.slots[j].cancelledAt = d.at}
      /\ \A j \in d.slots : row.slots[j].cancelledBy = d.by
  BY DeedKnown DEF CancelsTold
<1>2. /\ i \in ByStaff(row) /\ row.slots[i].cancelledAt = d.at /\ row.slots[i].cancelledBy = d.by
  BY <1>1
<1>3. StaffCancelled(r) = ByStaff(row) /\ RowOf(r) = row
  BY DEF StaffCancelled, ByStaff, RowOf
<1>4. d.slots = {j \in ByStaff(row) : /\ row.slots[j].cancelledAt = d.at
                                      /\ row.slots[j].cancelledBy = d.by}
  BY <1>1
<1>5. d.req = r /\ d.action = "CANCEL"
  BY DEF Of, Deeds
<1> HIDE DEF row
<1>6. CancelGroup(r, i) =
        AuditEvent("CANCEL", r, d.at, d.by,
                   {j \in ByStaff(row) : /\ row.slots[j].cancelledAt = d.at
                                         /\ row.slots[j].cancelledBy = d.by}, AllGone(row, d.at))
  BY <1>2, <1>3 DEF CancelGroup
<1>7. EventOf(d) = AuditEvent("CANCEL", r, d.at, d.by, d.slots, AllGone(row, d.at))
  <2>1. (d.action = "CANCEL" /\ AllGone(RowOf(d.req), d.at)) = AllGone(row, d.at)
    BY <1>3, <1>5 DEF AllGone
  <2>2. (IF d.action = "REJECT" THEN NoStaff ELSE d.by) = d.by
    BY <1>5
  <2> QED BY <1>5, <2>1, <2>2, Zenon DEF EventOf
<1> QED BY <1>2, <1>3, <1>4, <1>6, <1>7

LEMMA DeedShown ==
  ASSUME AuditInvariant, NEW range, NEW d \in DoneIn(range)
  PROVE  EventOf(d) \in SynthesiseAuditEvents(range)
<1> DEFINE r == d.req
           row == requestRows[r]
<1>1. /\ d \in DeedType /\ r \in ReportRequests /\ r \in Existing
      /\ d \in Of(Deeds(r), d.action) /\ InAuditRange(d.at, range)
  BY DeedThere
<1>2. /\ CancelsTold(row, Deeds(r)) /\ ApprovalTold(r, row, Deeds(r))
      /\ CreationTold(r, row, Deeds(r)) /\ RejectionTold(r, row, Deeds(r))
  BY <1>1, DeedKnown
<1>3. CASE d.action = "APPROVE"
  <2>1. row.createdBy = NoStaff /\ d = Deed("APPROVE", r, row.approvedAt, row.approvedBy)
    BY <1>1, <1>2, <1>3 DEF ApprovalTold
  <2>2. d.at = row.approvedAt
    BY <2>1 DEF Deed
  <2>3. EventOf(d) = AuditEvent("APPROVE", r, row.approvedAt, row.approvedBy, {}, FALSE)
    <3>1. d.action = "APPROVE" /\ d.req = r /\ d.at = row.approvedAt /\ d.by = row.approvedBy /\ d.slots = {}
      BY <2>1 DEF Deed
    <3>2. (d.action = "CANCEL" /\ AllGone(RowOf(d.req), d.at)) = FALSE
      BY <3>1
    <3>3. (IF d.action = "REJECT" THEN NoStaff ELSE d.by) = row.approvedBy
      BY <3>1
    <3> HIDE DEF row, r
    <3> QED BY <3>1, <3>2, <3>3, Zenon DEF EventOf
  <2>4. EventOf(d) \in ApprovalsIn(range)
    BY <1>1, <2>1, <2>2, <2>3 DEF ApprovalsIn, RowOf
  <2> QED BY <2>4 DEF SynthesiseAuditEvents
<1>4. CASE d.action = "DIRECT_BOOKING"
  <2>1. row.createdBy # NoStaff /\ d = Deed("DIRECT_BOOKING", r, row.createdAt, row.createdBy)
    BY <1>1, <1>2, <1>4 DEF CreationTold
  <2>2. d.at = row.createdAt
    BY <2>1 DEF Deed
  <2>3. EventOf(d) = AuditEvent("DIRECT_BOOKING", r, row.createdAt, row.createdBy, {}, FALSE)
    <3>1. d.action = "DIRECT_BOOKING" /\ d.req = r /\ d.at = row.createdAt /\ d.by = row.createdBy /\ d.slots = {}
      BY <2>1 DEF Deed
    <3>2. (d.action = "CANCEL" /\ AllGone(RowOf(d.req), d.at)) = FALSE
      BY <3>1
    <3>3. (IF d.action = "REJECT" THEN NoStaff ELSE d.by) = row.createdBy
      BY <3>1
    <3> HIDE DEF row, r
    <3> QED BY <3>1, <3>2, <3>3, Zenon DEF EventOf
  <2>4. EventOf(d) \in DirectBookingsIn(range)
    BY <1>1, <2>1, <2>2, <2>3 DEF DirectBookingsIn, RowOf
  <2> QED BY <2>4 DEF SynthesiseAuditEvents
<1>5. CASE d.action = "REJECT"
  <2>1. row.status = "REJECTED" /\ ~row.auto
    BY <1>1, <1>2, <1>5 DEF RejectionTold
  <2>2. PICK u \in ReportStaff : d = Deed("REJECT", r, row.updatedAt, u)
    BY <1>1, <1>2, <1>5, <2>1 DEF RejectionTold
  <2>3. d.at = row.updatedAt
    BY <2>2 DEF Deed
  <2>4. EventOf(d) = AuditEvent("REJECT", r, row.updatedAt, NoStaff, {}, FALSE)
    <3>1. d.action = "REJECT" /\ d.req = r /\ d.at = row.updatedAt /\ d.slots = {}
      BY <2>2 DEF Deed
    <3>2. (d.action = "CANCEL" /\ AllGone(RowOf(d.req), d.at)) = FALSE
      BY <3>1
    <3>3. (IF d.action = "REJECT" THEN NoStaff ELSE d.by) = NoStaff
      BY <3>1
    <3> HIDE DEF row, r
    <3> QED BY <3>1, <3>2, <3>3, Zenon DEF EventOf
  <2>5. EventOf(d) \in RejectionsIn(range)
    BY <1>1, <2>1, <2>3, <2>4 DEF RejectionsIn, RowOf, RowsOf
  <2> QED BY <2>5 DEF SynthesiseAuditEvents
<1>6. CASE d.action = "CANCEL"
  <2>1. PICK i \in d.slots : TRUE
    BY <1>1, <1>2, <1>6 DEF CancelsTold
  <2>2. /\ i \in StaffCancelled(r) /\ RowOf(r).slots[i].cancelledAt = d.at
        /\ CancelGroup(r, i) = EventOf(d)
    BY <1>1, <1>6, GroupOfDeed
  <2>3. EventOf(d) \in CancelsIn(range)
    BY <1>1, <2>2 DEF CancelsIn
  <2> QED BY <2>3 DEF SynthesiseAuditEvents
<1> QED BY <1>1, <1>3, <1>4, <1>5, <1>6 DEF DeedType

LEMMA ShownWasDone ==
  ASSUME AuditInvariant, NEW range, NEW e \in SynthesiseAuditEvents(range)
  PROVE  \E d \in DoneIn(range) : e = EventOf(d)
<1>1. ASSUME NEW r \in Existing, NEW a, NEW d \in Of(Deeds(r), a), e = EventOf(d),
             InAuditRange(d.at, range)
      PROVE  \E f \in DoneIn(range) : e = EventOf(f)
  <2>1. d \in DoneIn(range)
    BY <1>1 DEF Of, Deeds, DoneIn
  <2> QED BY <1>1, <2>1
<1>2. \A r \in Existing : r \in ReportRequests
  BY DEF Existing
<1>3. CASE e \in ApprovalsIn(range)
  <2>1. PICK r \in Existing :
          /\ RowOf(r).createdBy = NoStaff /\ InAuditRange(RowOf(r).approvedAt, range)
          /\ e = AuditEvent("APPROVE", r, RowOf(r).approvedAt, RowOf(r).approvedBy, {}, FALSE)
    BY <1>3 DEF ApprovalsIn
  <2> DEFINE row == RowOf(r)
             d == Deed("APPROVE", r, row.approvedAt, row.approvedBy)
  <2>2. row = requestRows[r] /\ row.approvedAt # NoInstant
    BY <2>1 DEF RowOf, InAuditRange
  <2>3. ApprovalTold(r, row, Deeds(r))
    BY <1>2, <2>2, DeedKnown
  <2>4. d \in Of(Deeds(r), "APPROVE")
    BY <2>1, <2>2, <2>3 DEF ApprovalTold
  <2>5. e = EventOf(d) /\ d.at = row.approvedAt
    BY <2>1 DEF EventOf, AuditEvent, Deed
  <2> QED BY <1>1, <2>1, <2>4, <2>5
<1>4. CASE e \in DirectBookingsIn(range)
  <2>1. PICK r \in Existing :
          /\ RowOf(r).createdBy # NoStaff /\ InAuditRange(RowOf(r).createdAt, range)
          /\ e = AuditEvent("DIRECT_BOOKING", r, RowOf(r).createdAt, RowOf(r).createdBy, {}, FALSE)
    BY <1>4 DEF DirectBookingsIn
  <2> DEFINE row == RowOf(r)
             d == Deed("DIRECT_BOOKING", r, row.createdAt, row.createdBy)
  <2>2. row = requestRows[r]
    BY DEF RowOf
  <2>3. CreationTold(r, row, Deeds(r))
    BY <1>2, <2>2, DeedKnown
  <2>4. d \in Of(Deeds(r), "DIRECT_BOOKING")
    BY <2>1, <2>3 DEF CreationTold
  <2>5. e = EventOf(d) /\ d.at = row.createdAt
    BY <2>1 DEF EventOf, AuditEvent, Deed
  <2> QED BY <1>1, <2>1, <2>4, <2>5
<1>5. CASE e \in RejectionsIn(range)
  <2>1. PICK r \in RowsOf("REJECTED") :
          /\ ~RowOf(r).auto /\ InAuditRange(RowOf(r).updatedAt, range)
          /\ e = AuditEvent("REJECT", r, RowOf(r).updatedAt, NoStaff, {}, FALSE)
    BY <1>5 DEF RejectionsIn
  <2> DEFINE row == RowOf(r)
  <2>2. row = requestRows[r] /\ r \in Existing /\ row.status = "REJECTED"
    BY DEF RowOf, RowsOf
  <2>3. RejectionTold(r, row, Deeds(r))
    BY <1>2, <2>2, DeedKnown
  <2>4. PICK u \in ReportStaff : Of(Deeds(r), "REJECT") = {Deed("REJECT", r, row.updatedAt, u)}
    BY <2>1, <2>2, <2>3 DEF RejectionTold
  <2> DEFINE d == Deed("REJECT", r, row.updatedAt, u)
  <2>5. d \in Of(Deeds(r), "REJECT")
    BY <2>4
  <2>6. e = EventOf(d) /\ d.at = row.updatedAt
    BY <2>1 DEF EventOf, AuditEvent, Deed
  <2> QED BY <1>1, <2>1, <2>2, <2>5, <2>6
<1>6. CASE e \in CancelsIn(range)
  <2>1. PICK r \in Existing : \E i \in StaffCancelled(r) :
          InAuditRange(RowOf(r).slots[i].cancelledAt, range) /\ e = CancelGroup(r, i)
    BY <1>6 DEF CancelsIn
  <2>2. PICK i \in StaffCancelled(r) :
          InAuditRange(RowOf(r).slots[i].cancelledAt, range) /\ e = CancelGroup(r, i)
    BY <2>1
  <2>3. CancelsTold(requestRows[r], Deeds(r)) /\ i \in ByStaff(requestRows[r])
    BY <1>2, DeedKnown DEF StaffCancelled, ByStaff, RowOf
  <2>4. PICK d \in Of(Deeds(r), "CANCEL") : i \in d.slots
    BY <2>3 DEF CancelsTold
  <2>5. RowOf(r).slots[i].cancelledAt = d.at /\ CancelGroup(r, i) = EventOf(d)
    BY <1>2, <2>4, GroupOfDeed
  <2> QED BY <1>1, <2>2, <2>4, <2>5
<1> QED BY <1>3, <1>4, <1>5, <1>6 DEF SynthesiseAuditEvents

(* No two deeds of one kind are done to one request at one time.           *)
LEMMA OneDeed ==
  ASSUME AuditInvariant, NEW range, NEW d \in DoneIn(range), NEW e \in DoneIn(range),
         d.action = e.action, d.req = e.req, d.at = e.at
  PROVE  d = e
<1> DEFINE r == d.req
           row == requestRows[r]
<1>1. /\ d \in DeedType /\ r \in ReportRequests /\ r \in Existing
      /\ d \in Of(Deeds(r), d.action) /\ e \in Of(Deeds(r), d.action)
  <2>1. /\ d \in DeedType /\ r \in ReportRequests /\ r \in Existing
        /\ d \in Of(Deeds(r), d.action)
    BY DeedThere
  <2>2. e \in Of(Deeds(e.req), e.action)
    BY DeedThere
  <2> QED BY <2>1, <2>2
<1>2. /\ CancelsTold(row, Deeds(r)) /\ ApprovalTold(r, row, Deeds(r))
      /\ CreationTold(r, row, Deeds(r)) /\ RejectionTold(r, row, Deeds(r))
  BY <1>1, DeedKnown
<1> HIDE DEF row, r
<1>3. CASE d.action = "APPROVE"
  BY <1>1, <1>2, <1>3 DEF ApprovalTold
<1>4. CASE d.action = "DIRECT_BOOKING"
  BY <1>1, <1>2, <1>4 DEF CreationTold
<1>5. CASE d.action = "REJECT"
  BY <1>1, <1>2, <1>5 DEF RejectionTold
<1>6. CASE d.action = "CANCEL"
  BY <1>1, <1>2, <1>6 DEF CancelsTold
<1> QED BY <1>1, <1>3, <1>4, <1>5, <1>6 DEF DeedType

(* The trail of a range is its deeds, each shown as one event.             *)
LEMMA TrailIsItsDeeds ==
  ASSUME AuditInvariant, NEW range
  PROVE  /\ SynthesiseAuditEvents(range) = {EventOf(d) : d \in DoneIn(range)}
         /\ Cardinality(SynthesiseAuditEvents(range)) = Cardinality(DoneIn(range))
<1> DEFINE events == SynthesiseAuditEvents(range)
           done == DoneIn(range)
           f == [d \in done |-> EventOf(d)]
<1>1. \A e \in events : \E d \in done : e = EventOf(d)
  BY ShownWasDone
<1>2. \A d \in done : EventOf(d) \in events
  BY DeedShown
<1>3. \A d, e \in done : EventOf(d) = EventOf(e) => d = e
  <2> SUFFICES ASSUME NEW d \in done, NEW e \in done, EventOf(d) = EventOf(e) PROVE d = e
    OBVIOUS
  <2>1. d.action = e.action /\ d.req = e.req /\ d.at = e.at
    BY DEF EventOf, AuditEvent
  <2> QED BY <2>1, OneDeed
<1>4. IsFiniteSet(done)
  <2>1. IsFiniteSet(auditLog) /\ done \subseteq auditLog
    BY DEF AuditInvariant, TrailTyped, DoneIn
  <2> QED BY <2>1, FS_Subset
<1> HIDE DEF events, done
<1>5. events = {EventOf(d) : d \in done}
  BY <1>1, <1>2
<1>6. ExistsBijection(done, events)
  <2>1. f \in [done -> events]
    BY <1>2
  <2>2. \A a, b \in done : f[a] = f[b] => a = b
    BY <1>3
  <2>3. \A e \in events : \E d \in done : f[d] = e
    BY <1>1
  <2> HIDE DEF f
  <2>4. f \in Bijection(done, events)
    BY <2>1, <2>2, <2>3 DEF Bijection, Injection, Surjection, IsInjective
  <2> QED BY <2>4 DEF ExistsBijection
<1>7. Cardinality(events) = Cardinality(done)
  BY <1>4, <1>6, FS_Bijection, Zenon
<1> QED BY <1>5, <1>7 DEF events, done

LEMMA AuditOfInvariant ==
  ASSUME AuditInvariant
  PROVE  AuditIsTrue
<1> SUFFICES ASSUME NEW range \in AskedRanges
             PROVE  LET events == SynthesiseAuditEvents(range)
                        done == DoneIn(range)
                        known(e) == [action |-> e.action, req |-> e.req, at |-> e.at,
                                     slots |-> e.slots,
                                     by |-> IF e.action = "REJECT" THEN NoStaff ELSE e.by] IN
                    /\ {known(e) : e \in events} = {known(e) : e \in done}
                    /\ Cardinality(events) = Cardinality(done)
                    /\ \A e \in events : e.allGone => RowOf(e.req).status = "CANCELLED"
                    /\ \A d \in done : d.action = "CANCEL" /\ d.left = 0 =>
                         \E e \in events : e.req = d.req /\ e.at = d.at /\ e.allGone
  BY DEF AuditIsTrue, DoneIn
<1> DEFINE events == SynthesiseAuditEvents(range)
           done == DoneIn(range)
           known(e) == [action |-> e.action, req |-> e.req, at |-> e.at, slots |-> e.slots,
                        by |-> IF e.action = "REJECT" THEN NoStaff ELSE e.by]
<1>1. events = {EventOf(d) : d \in done} /\ Cardinality(events) = Cardinality(done)
  BY TrailIsItsDeeds
<1>2. \A d \in done : /\ d \in DeedType /\ d.req \in ReportRequests /\ d.req \in Existing
                      /\ d \in Of(Deeds(d.req), d.action)
  BY DeedThere
<1> HIDE DEF events, done
<1>3. \A d : known(EventOf(d)) = known(d)
  BY DEF EventOf, AuditEvent
<1>4. {known(e) : e \in events} = {known(e) : e \in done}
  <2> HIDE DEF known
  <2> QED BY <1>1, <1>3
<1>5. \A e \in events : e.allGone => RowOf(e.req).status = "CANCELLED"
  <2> SUFFICES ASSUME NEW d \in done, EventOf(d).allGone
               PROVE  RowOf(EventOf(d).req).status = "CANCELLED"
    BY <1>1
  <2>1. EventOf(d).req = d.req /\ AllGone(RowOf(d.req), d.at)
    BY DEF EventOf, AuditEvent
  <2>2. LiveSlots(RowOf(d.req)) = {}
    BY <2>1 DEF AllGone, LiveSlots
  <2>3. LifeKept(RowOf(d.req))
    BY <1>2, DeedKnown DEF RowOf
  <2> QED BY <2>1, <2>2, <2>3 DEF LifeKept
<1>6. \A d \in done : d.action = "CANCEL" /\ d.left = 0 =>
        \E e \in events : e.req = d.req /\ e.at = d.at /\ e.allGone
  <2> SUFFICES ASSUME NEW d \in done, d.action = "CANCEL", d.left = 0
               PROVE  \E e \in events : e.req = d.req /\ e.at = d.at /\ e.allGone
    OBVIOUS
  <2>1. CancelsTold(RowOf(d.req), Deeds(d.req)) /\ d \in Of(Deeds(d.req), "CANCEL")
    BY <1>2, DeedKnown DEF RowOf
  <2>2. AllGone(RowOf(d.req), d.at)
    BY <2>1 DEF CancelsTold
  <2>3. EventOf(d).req = d.req /\ EventOf(d).at = d.at /\ EventOf(d).allGone
    BY <2>2 DEF EventOf, AuditEvent
  <2>4. EventOf(d) \in events
    BY <1>1
  <2> QED BY <2>3, <2>4
<1> QED BY <1>1, <1>4, <1>5, <1>6 DEF events, done

-----------------------------------------------------------------------------
(* The columns of a row tell of each deed of the staff about it: when one  *)
(* of them approved, rejected or made it, and of each of the cancellations *)
(* which slots went, with one at a time and never one ahead of the clock.  *)
THEOREM AuditInvariantHolds == ReportSpec => []AuditInvariant
<1>1. ReportInit => AuditInvariant
  BY ReportConstants, TrailBegins
<1>2. AuditInvariant /\ [ReportNext]_reportVars => AuditInvariant'
  BY ReportConstants, SlotLists, TrailNext
<1> QED BY <1>1, <1>2, PTL DEF ReportSpec

(* What report-audit.ts synthesises for a range of days is what the staff  *)
(* did in it: each decision once, a cancellation with its slots and no     *)
(* one else's, the last one of a booking as such.                          *)
THEOREM TrailIsTrue == ReportSpec => []AuditIsTrue
<1>1. AuditInvariant => AuditIsTrue
  BY AuditOfInvariant
<1> QED BY <1>1, AuditInvariantHolds, PTL

(***************************************************************************)
(* The rooms of the dashboard.                                             *)
(***************************************************************************)
(* The slots of a row are in order, and no two of them overlap; nor do the *)
(* live ones of two approved rows of one venue.                            *)
SpansFit(slots) ==
  /\ \A i \in DOMAIN slots : slots[i].start < slots[i].end
  /\ \A i, j \in DOMAIN slots : SpansOverlap(slots[i], slots[j]) => i = j
Apart(row, other) ==
  \A i \in LiveSlots(row), j \in LiveSlots(other) : ~SpansOverlap(row.slots[i], other.slots[j])
RoomKept ==
  /\ \A r \in Existing : SpansFit(requestRows[r].slots)
  /\ \A r \in ReportRequests, q \in ReportRequests :
       /\ r # q /\ Trait[r].venue = Trait[q].venue
       /\ requestRows[r].status = "APPROVED" /\ requestRows[q].status = "APPROVED"
       => Apart(requestRows[r], requestRows[q])

(* What a step may do to a row: hold less with the slots it has, or be     *)
(* made or approved, clear of the others.                                  *)
Narrows(row, new) ==
  /\ row.status # "none" /\ new.status # "none"
  /\ new.status = "APPROVED" => row.status = "APPROVED"
  /\ DOMAIN new.slots = DOMAIN row.slots /\ LiveSlots(new) \subseteq LiveSlots(row)
  /\ \A i \in DOMAIN row.slots : /\ new.slots[i].start = row.slots[i].start
                                 /\ new.slots[i].end = row.slots[i].end
Clear(r, new) ==
  /\ SpansFit(new.slots)
  /\ new.status = "APPROVED" =>
       \A q \in ReportRequests :
         /\ q # r /\ Trait[q].venue = Trait[r].venue /\ requestRows[q].status = "APPROVED"
         => Apart(requestRows[q], new)

LEMMA ApartBothWays ==
  ASSUME NEW row, NEW other, Apart(row, other)
  PROVE  Apart(other, row)
BY DEF Apart, SpansOverlap

LEMMA NarrowsKeepsApart ==
  ASSUME NEW row, NEW new, NEW other, Narrows(row, new) \/ new = row, Apart(row, other)
  PROVE  Apart(new, other) 
<1> SUFFICES ASSUME Narrows(row, new), NEW i \in LiveSlots(new), NEW j \in LiveSlots(other)
             PROVE  ~SpansOverlap(new.slots[i], other.slots[j])
  BY DEF Apart
<1>1. i \in LiveSlots(row) /\ i \in DOMAIN row.slots
  BY DEF Narrows, LiveSlots
<1>2. new.slots[i].start = row.slots[i].start /\ new.slots[i].end = row.slots[i].end
  BY <1>1 DEF Narrows
<1>3. ~SpansOverlap(row.slots[i], other.slots[j])
  BY <1>1 DEF Apart
<1> QED BY <1>2, <1>3 DEF SpansOverlap

LEMMA NarrowsKeepsFit ==
  ASSUME NEW row, NEW new, Narrows(row, new), SpansFit(row.slots)
  PROVE  SpansFit(new.slots)
BY DEF Narrows, SpansFit, SpansOverlap

LEMMA RoomStep ==
  ASSUME RoomKept, NEW p \in ReportRequests,
         \A r \in ReportRequests :
           \/ requestRows'[r] = requestRows[r] \/ Narrows(requestRows[r], requestRows'[r])
           \/ r = p /\ Clear(p, requestRows'[p])
  PROVE  RoomKept'
<1> DEFINE Less(r) == requestRows'[r] = requestRows[r] \/ Narrows(requestRows[r], requestRows'[r])
<1>1. ASSUME NEW r \in ReportRequests, requestRows'[r].status # "none"
      PROVE  SpansFit(requestRows'[r].slots)
  <2>1. CASE requestRows'[r] = requestRows[r]
    BY <1>1, <2>1 DEF RoomKept, Existing
  <2>2. CASE Narrows(requestRows[r], requestRows'[r])
    <3>1. SpansFit(requestRows[r].slots)
      BY <2>2 DEF RoomKept, Existing, Narrows
    <3> QED BY <2>2, <3>1, NarrowsKeepsFit
  <2>3. CASE r = p /\ Clear(p, requestRows'[p])
    BY <2>3 DEF Clear
  <2> QED BY <2>1, <2>2, <2>3
<1>2. ASSUME NEW r \in ReportRequests, NEW q \in ReportRequests, r # q,
             Trait[r].venue = Trait[q].venue, Less(r), Less(q) \/ Clear(q, requestRows'[q]),
             requestRows'[r].status = "APPROVED", requestRows'[q].status = "APPROVED"
      PROVE  Apart(requestRows'[r], requestRows'[q])
  <2>1. requestRows[r].status = "APPROVED"
    BY <1>2 DEF Narrows
  <2>2. Apart(requestRows[r], requestRows'[q])
    <3>1. CASE Less(q)
      <4>1. requestRows[q].status = "APPROVED"
        BY <1>2, <3>1 DEF Narrows
      <4>2. Apart(requestRows[q], requestRows[r])
        BY <1>2, <2>1, <4>1 DEF RoomKept
      <4> QED BY <3>1, <4>2, NarrowsKeepsApart, ApartBothWays
    <3>2. CASE Clear(q, requestRows'[q])
      BY <1>2, <2>1, <3>2 DEF Clear
    <3> QED BY <1>2, <3>1, <3>2
  <2> QED BY <1>2, <2>2, NarrowsKeepsApart
<1>3. ASSUME NEW r \in ReportRequests, NEW q \in ReportRequests, r # q,
             Trait[r].venue = Trait[q].venue,
             requestRows'[r].status = "APPROVED", requestRows'[q].status = "APPROVED"
      PROVE  Apart(requestRows'[r], requestRows'[q])
  <2>1. CASE r # p
    <3>1. Less(r) /\ (Less(q) \/ Clear(q, requestRows'[q]))
      BY <2>1
    <3> HIDE DEF Less
    <3> QED BY <1>2, <1>3, <3>1
  <2>2. CASE r = p
    <3>1. Less(q) /\ (Less(r) \/ Clear(r, requestRows'[r]))
      BY <1>3, <2>2
    <3> HIDE DEF Less
    <3>2. Apart(requestRows'[q], requestRows'[r])
      BY <1>2, <1>3, <3>1
    <3> QED BY <3>2, ApartBothWays
  <2> QED BY <2>1, <2>2
<1> QED BY <1>1, <1>3 DEF RoomKept, Existing

-----------------------------------------------------------------------------
(* A row whose slots are as they were, and which is not approved anew.     *)
LEMMA SameSlotsNarrow ==
  ASSUME NEW row, NEW new, row.status # "none", new.status # "none", new.slots = row.slots,
         new.status = "APPROVED" => row.status = "APPROVED"
  PROVE  Narrows(row, new)
BY DEF Narrows, LiveSlots

LEMMA CancelledNarrows ==
  ASSUME TrailTyped, NEW row \in RowColumns, NEW targets \in SUBSET LiveSlots(row),
         NEW at \in Nat, NEW u \in Canceller, NEW byStaff \in BOOLEAN, at # NoInstant
  PROVE  Narrows(row, Cancelled(row, targets, at, u, byStaff))
<1> DEFINE new == Cancelled(row, targets, at, u, byStaff)
<1>1. Writes(row, new, targets, at, u, byStaff)
  BY CancelledColumns
<1> HIDE DEF new
<1>2. row.status # "none" /\ new.status # "none"
  BY <1>1 DEF Writes, RowColumns, Statuses
<1>3. \A i \in DOMAIN row.slots : /\ new.slots[i].start = row.slots[i].start
                                  /\ new.slots[i].end = row.slots[i].end
  <2> SUFFICES ASSUME NEW i \in DOMAIN row.slots
               PROVE  /\ new.slots[i].start = row.slots[i].start
                      /\ new.slots[i].end = row.slots[i].end
    OBVIOUS
  <2>1. CASE i \in targets
    BY <1>1, <2>1 DEF Writes
  <2>2. CASE i \notin targets
    BY <1>1, <2>2 DEF Writes
  <2> QED BY <2>1, <2>2
<1>4. /\ DOMAIN new.slots = DOMAIN row.slots /\ LiveSlots(new) \subseteq LiveSlots(row)
      /\ new.status = "APPROVED" => row.status = "APPROVED"
  BY <1>1 DEF Writes
<1> QED BY <1>2, <1>3, <1>4 DEF Narrows, new

(* SetToSeq leaves no live slot out.                                       *)
LEMMA LiveOfHasAll ==
  ASSUME NEW row \in RowColumns, NEW i \in LiveSlots(row)
  PROVE  \E k \in DOMAIN LiveOf(row) : LiveOf(row)[k] = row.slots[i]
<1> DEFINE S == {row.slots[j] : j \in LiveSlots(row)}
<1>1. IsFiniteSet(S)
  <2>1. PICK n \in Nat : DOMAIN row.slots = 1 .. n
    BY SlotsAre
  <2>2. 1 \in Int /\ n \in Int
    OBVIOUS
  <2>3. IsFiniteSet(1 .. n)
    BY <2>2, FS_Interval, Zenon
  <2>4. LiveSlots(row) \subseteq 1 .. n
    BY <2>1 DEF LiveSlots
  <2>5. IsFiniteSet(LiveSlots(row))
    BY <2>3, <2>4, FS_Subset, Zenon
  <2> DEFINE f == [j \in LiveSlots(row) |-> row.slots[j]]
  <2>6. f \in Surjection(LiveSlots(row), S)
    BY DEF Surjection
  <2> HIDE DEF f, S
  <2> QED BY <2>5, <2>6, FS_Surjection, Zenon
<1>2. row.slots[i] \in S
  OBVIOUS
<1>3. LiveOf(row) = SetToSeq(S)
  BY DEF LiveOf
<1> HIDE DEF S
<1>4. PICK n \in Nat : n = Cardinality(S)
  BY <1>1, FS_CardinalityType
<1>5. IsFiniteSet(1 .. n) /\ Cardinality(1 .. n) = n
  <2>1. 1 \in Int /\ n \in Int
    OBVIOUS
  <2>2. IsFiniteSet(1 .. n) /\ Cardinality(1 .. n) = IF 1 > n THEN 0 ELSE n - 1 + 1
    BY <2>1, FS_Interval, Zenon
  <2> QED BY <2>2
<1>6. \E f \in [1 .. n -> S] : IsInjective(f)
  <2>1. ExistsBijection(1 .. n, S)
    BY <1>1, <1>4, <1>5, FS_SameCardinalityBij, Zenon
  <2> QED BY <2>1 DEF ExistsBijection, Bijection, Injection
<1>7. SetToSeq(S) \in [1 .. n -> S] /\ IsInjective(SetToSeq(S))
  BY <1>4, <1>6, Zenon DEF SetToSeq
<1> DEFINE g == SetToSeq(S)
<1>8. g \in Injection(1 .. n, S)
  BY <1>7 DEF Injection
<1> HIDE DEF g
<1>9. g \in Surjection(1 .. n, S)
  BY <1>1, <1>4, <1>5, <1>8, FS_Injection, Zenon
<1>10. DOMAIN g = 1 .. n /\ \E k \in 1 .. n : g[k] = row.slots[i]
  BY <1>2, <1>9 DEF Surjection
<1> QED BY <1>3, <1>10 DEF g

(* A clear row overlaps nothing that is approved.                          *)
LEMMA NoClash ==
  ASSUME NEW r \in ReportRequests, NEW slots,
         Clashing(Trait[r].venue, slots, {"APPROVED"}) = {},
         NEW q \in ReportRequests, Trait[q].venue = Trait[r].venue,
         requestRows[q].status = "APPROVED", NEW i \in LiveSlots(requestRows[q]),
         NEW j \in DOMAIN slots
  PROVE  ~SpansOverlap(requestRows[q].slots[i], slots[j])
BY DEF Clashing, Existing

LEMMA NewRowClear ==
  ASSUME SlotLists, NEW r \in ReportRequests, NEW slots \in Trait[r].slotLists,
         NEW status, NEW u, NEW line,
         Clashing(Trait[r].venue, slots, {"APPROVED"}) = {}
  PROVE  Clear(r, NewRow(slots, status, u, line))
<1> DEFINE row == NewRow(slots, status, u, line)
<1>1. /\ DOMAIN row.slots = DOMAIN slots
      /\ \A i \in DOMAIN slots : /\ row.slots[i].start = slots[i].start
                                 /\ row.slots[i].end = slots[i].end
  BY DEF NewRow
<1> HIDE DEF row
<1>2. SpansFit(row.slots)
  BY <1>1 DEF SpansFit, SpansOverlap, SlotLists
<1>3. ASSUME NEW q \in ReportRequests, Trait[q].venue = Trait[r].venue,
             requestRows[q].status = "APPROVED"
      PROVE  Apart(requestRows[q], row)
  <2> SUFFICES ASSUME NEW i \in LiveSlots(requestRows[q]), NEW j \in LiveSlots(row)
               PROVE  ~SpansOverlap(requestRows[q].slots[i], row.slots[j])
    BY DEF Apart
  <2>1. j \in DOMAIN slots
    BY <1>1 DEF LiveSlots
  <2>2. ~SpansOverlap(requestRows[q].slots[i], slots[j])
    BY <1>3, <2>1, NoClash
  <2> QED BY <1>1, <2>1, <2>2 DEF SpansOverlap
<1> QED BY <1>2, <1>3 DEF Clear, row

(* Those who lose to a decision hold less than they did.                   *)
LEMMA DecisionNarrows ==
  ASSUME TrailTyped, RoomKept, NEW r \in ReportRequests, NEW row,
         NEW losers \in SUBSET RowsOf("PENDING"), Decide(r, row, losers), Clear(r, row)
  PROVE  RoomKept'
<1>1. ASSUME NEW q \in ReportRequests, q # r
      PROVE  requestRows'[q] = requestRows[q] \/ Narrows(requestRows[q], requestRows'[q])
  <2>1. CASE q \in losers
    <3> DEFINE new == [requestRows[q] EXCEPT !.status = "REJECTED", !.auto = TRUE,
                                             !.updatedAt = clockNow]
    <3>1. requestRows'[q] = new
      BY <1>1, <2>1 DEF Decide
    <3>2. requestRows[q] \in RowColumns /\ requestRows[q].status = "PENDING"
      BY <2>1, RowsThere DEF RowsOf
    <3>3. new.status = "REJECTED" /\ new.slots = requestRows[q].slots
      BY <3>2 DEF RowColumns
    <3> HIDE DEF new
    <3>4. Narrows(requestRows[q], new)
      BY <3>2, <3>3, SameSlotsNarrow
    <3> QED BY <3>1, <3>4
  <2>2. CASE q \notin losers
    BY <1>1, <2>2 DEF Decide
  <2> QED BY <2>1, <2>2
<1>2. requestRows'[r] = row
  BY DEF Decide
<1>3. Clear(r, requestRows'[r])
  BY <1>2
<1> QED BY <1>1, <1>3, RoomStep

LEMMA OneRowWritten ==
  ASSUME TrailTyped, RoomKept, NEW r \in ReportRequests, NEW new,
         requestRows' = [requestRows EXCEPT ![r] = new],
         Narrows(requestRows[r], new) \/ Clear(r, new)
  PROVE  RoomKept'
<1>1. requestRows \in [ReportRequests -> RowColumns \cup {NoRequestRow}]
  BY DEF TrailTyped
<1> HIDE DEF RowColumns, NoRequestRow
<1>2. requestRows'[r] = new /\ \A q \in ReportRequests : q # r => requestRows'[q] = requestRows[q]
  BY <1>1
<1>3. \A q \in ReportRequests :
        \/ requestRows'[q] = requestRows[q] \/ Narrows(requestRows[q], requestRows'[q])
        \/ q = r /\ Clear(r, requestRows'[r])
  BY <1>2
<1> QED BY <1>3, RoomStep

LEMMA RoomsSame ==
  ASSUME RoomKept, UNCHANGED requestRows
  PROVE  RoomKept'
BY DEF RoomKept, Existing

LEMMA ApprovedClear ==
  ASSUME AuditInvariant, RoomKept, NEW r \in ReportRequests, NEW u \in ReportStaff,
         ApproveRow(r, u)
  PROVE  RoomKept'
<1> DEFINE row == requestRows[r]
           new == [row EXCEPT !.status = "APPROVED", !.approvedAt = clockNow,
                              !.approvedBy = u, !.updatedAt = clockNow]
           losers == Clashing(Trait[r].venue, LiveOf(row), {"PENDING"}) \ {r}
<1>1. TrailTyped
  BY DEF AuditInvariant
<1>2. /\ r \in Existing /\ Clashing(Trait[r].venue, LiveOf(row), {"APPROVED"}) = {}
      /\ Decide(r, new, losers)
  BY DEF ApproveRow, RowsOf
<1>3. row \in RowColumns
  BY <1>1, <1>2, RowsThere
<1>4. new.slots = row.slots
  BY <1>3 DEF RowColumns
<1>5. losers \in SUBSET RowsOf("PENDING")
  BY DEF Clashing, RowsOf
<1> HIDE DEF new, losers
<1>6. SpansFit(new.slots)
  BY <1>2, <1>4 DEF RoomKept
<1>7. ASSUME NEW q \in ReportRequests, Trait[q].venue = Trait[r].venue,
             requestRows[q].status = "APPROVED"
      PROVE  Apart(requestRows[q], new)
  <2> SUFFICES ASSUME NEW i \in LiveSlots(requestRows[q]), NEW j \in LiveSlots(row)
               PROVE  ~SpansOverlap(requestRows[q].slots[i], row.slots[j])
    BY <1>4 DEF Apart, LiveSlots
  <2>1. PICK k \in DOMAIN LiveOf(row) : LiveOf(row)[k] = row.slots[j]
    BY <1>3, LiveOfHasAll
  <2> HIDE DEF row
  <2>2. ~SpansOverlap(requestRows[q].slots[i], LiveOf(row)[k])
    BY <1>2, <1>7, NoClash
  <2> QED BY <2>1, <2>2
<1>8. Clear(r, new)
  BY <1>6, <1>7 DEF Clear
<1> QED BY <1>1, <1>2, <1>5, <1>8, DecisionNarrows

LEMMA DirectClear ==
  ASSUME SlotLists, AuditInvariant, RoomKept, NEW r \in ReportRequests, NEW u \in ReportStaff,
         BookDirectly(r, u)
  PROVE  RoomKept'
<1>1. PICK slots \in Trait[r].slotLists, line \in BOOLEAN :
        /\ Clashing(Trait[r].venue, slots, {"APPROVED"}) = {}
        /\ Decide(r, NewRow(slots, "APPROVED", u, line),
                  Clashing(Trait[r].venue, slots, {"PENDING"}))
  BY DEF BookDirectly
<1>2. Clear(r, NewRow(slots, "APPROVED", u, line))
  BY <1>1, NewRowClear
<1>3. Clashing(Trait[r].venue, slots, {"PENDING"}) \in SUBSET RowsOf("PENDING")
  BY DEF Clashing, RowsOf
<1> QED BY <1>1, <1>2, <1>3, DecisionNarrows DEF AuditInvariant

LEMMA SubmitClear ==
  ASSUME SlotLists, AuditInvariant, RoomKept, NEW r \in ReportRequests, SubmitRequest(r)
  PROVE  RoomKept'
<1>1. PICK slots \in Trait[r].slotLists :
        /\ Clashing(Trait[r].venue, slots, {"APPROVED"}) = {}
        /\ requestRows' = [requestRows EXCEPT ![r] = NewRow(slots, "PENDING", NoStaff, TRUE)]
  BY DEF SubmitRequest
<1>2. Clear(r, NewRow(slots, "PENDING", NoStaff, TRUE))
  BY <1>1, NewRowClear
<1> QED BY <1>1, <1>2, OneRowWritten DEF AuditInvariant

LEMMA RejectNarrows ==
  ASSUME AuditInvariant, RoomKept, NEW r \in ReportRequests, NEW u \in ReportStaff,
         RejectRow(r, u)
  PROVE  RoomKept'
<1> DEFINE row == requestRows[r]
           new == [row EXCEPT !.status = "REJECTED", !.updatedAt = clockNow]
<1>1. TrailTyped /\ r \in Existing /\ row.status = "PENDING"
  BY DEF AuditInvariant, RejectRow, RowsOf
<1>2. row \in RowColumns
  BY <1>1, RowsThere
<1>3. requestRows' = [requestRows EXCEPT ![r] = new]
  <2>1. requestRows' = [requestRows EXCEPT ![r].status = "REJECTED", ![r].updatedAt = clockNow]
    BY DEF RejectRow
  <2>2. requestRows \in [ReportRequests -> RowColumns \cup {NoRequestRow}]
    BY <1>1 DEF TrailTyped
  <2> HIDE DEF RowColumns, NoRequestRow
  <2> QED BY <2>1, <2>2
<1>4. new.status = "REJECTED" /\ new.slots = row.slots
  BY <1>2 DEF RowColumns
<1> HIDE DEF new
<1>5. Narrows(row, new)
  BY <1>1, <1>4, SameSlotsNarrow
<1> QED BY <1>1, <1>3, <1>5, OneRowWritten

LEMMA CancelNarrows ==
  ASSUME AuditInvariant, RoomKept, NEW r \in ReportRequests, NEW u \in ReportStaff,
         CancelByStaff(r, u)
  PROVE  RoomKept'
<1>1. TrailTyped /\ r \in Existing /\ clockNow \in Nat /\ clockNow # NoInstant
  BY DEF AuditInvariant, TrailTyped, CancelByStaff, RowsOf, NoInstant
<1>2. requestRows[r] \in RowColumns
  BY <1>1, RowsThere
<1>3. PICK targets \in (SUBSET LiveSlots(requestRows[r])) \ {{}} :
        requestRows' =
          [requestRows EXCEPT ![r] = Cancelled(requestRows[r], targets, clockNow, u, TRUE)]
  BY DEF CancelByStaff
<1>4. u \in Canceller
  BY DEF Canceller
<1>5. Narrows(requestRows[r], Cancelled(requestRows[r], targets, clockNow, u, TRUE))
  BY <1>1, <1>2, <1>3, <1>4, CancelledNarrows
<1> QED BY <1>1, <1>3, <1>5, OneRowWritten

LEMMA GivingUpNarrows ==
  ASSUME AuditInvariant, RoomKept, NEW r \in ReportRequests, EndCancel(r)
  PROVE  RoomKept'
<1> DEFINE row == requestRows[r]
           new(targets) == Cancelled(row, targets, begun[r], NoStaff, FALSE)
<1>1. TrailTyped /\ begun[r] \in Nat /\ begun[r] # NoInstant /\ NoStaff \in Canceller
  BY DEF AuditInvariant, TrailTyped, EndCancel, Canceller
<1>2. CASE requestRows' = requestRows
  BY <1>2, RoomsSame
<1>3. ASSUME NEW targets \in SUBSET LiveSlots(row), row.status \in {"PENDING", "APPROVED"},
             requestRows' = [requestRows EXCEPT ![r] = new(targets)]
      PROVE  RoomKept'
  <2>1. row \in RowColumns
    BY <1>1, <1>3, RowsThere DEF Existing
  <2>2. Narrows(row, new(targets))
    BY <1>1, <2>1, CancelledNarrows
  <2> HIDE DEF new
  <2> QED BY <1>1, <1>3, <2>2, OneRowWritten
<1>4. CASE row.status = "PENDING" /\ requestRows' = [requestRows EXCEPT ![r] = new(LiveSlots(row))]
  BY <1>3, <1>4
<1>5. CASE row.status = "APPROVED" /\ \E i \in LiveSlots(row) :
             requestRows' = [requestRows EXCEPT ![r] = new({i})]
  <2>1. PICK i \in LiveSlots(row) : requestRows' = [requestRows EXCEPT ![r] = new({i})]
    BY <1>5
  <2>2. {i} \in SUBSET LiveSlots(row)
    BY <2>1
  <2> QED BY <1>3, <1>5, <2>1, <2>2
<1> QED BY <1>2, <1>4, <1>5 DEF EndCancel

LEMMA ExpiryNarrows ==
  ASSUME AuditInvariant, RoomKept, ExpireOverdue
  PROVE  RoomKept'
<1> DEFINE overdue == {r \in RowsOf("PENDING") : requestRows[r].firstStartAt < clockNow}
           closed(q) == [requestRows[q] EXCEPT !.status = "EXPIRED", !.updatedAt = clockNow]
<1>1. /\ TrailTyped /\ overdue # {}
      /\ requestRows' = [q \in ReportRequests |->
                           IF q \in overdue THEN closed(q) ELSE requestRows[q]]
  BY DEF ExpireOverdue, AuditInvariant
<1>2. ASSUME NEW q \in ReportRequests
      PROVE  requestRows'[q] = requestRows[q] \/ Narrows(requestRows[q], requestRows'[q])
  <2>1. CASE q \in overdue
    <3>1. requestRows'[q] = closed(q)
      BY <1>1, <2>1
    <3>2. requestRows[q] \in RowColumns /\ requestRows[q].status = "PENDING"
      BY <1>1, <2>1, RowsThere DEF RowsOf
    <3>3. closed(q).status = "EXPIRED" /\ closed(q).slots = requestRows[q].slots
      BY <3>2 DEF RowColumns
    <3> HIDE DEF closed
    <3>4. Narrows(requestRows[q], closed(q))
      BY <3>2, <3>3, SameSlotsNarrow
    <3> QED BY <3>1, <3>4
  <2>2. CASE q \notin overdue
    BY <1>1, <2>2
  <2> QED BY <2>1, <2>2
<1>3. PICK p \in ReportRequests : p \in overdue
  BY <1>1 DEF RowsOf, Existing
<1> QED BY <1>2, <1>3, RoomStep

LEMMA RoomNext ==
  ASSUME SlotLists, AuditInvariant, RoomKept, [ReportNext]_reportVars
  PROVE  RoomKept'
<1>1. CASE UNCHANGED reportVars \/ ClockMoves
  BY <1>1, RoomsSame DEF reportVars, ClockMoves
<1>2. CASE ExpireOverdue
  BY <1>2, ExpiryNarrows
<1>3. ASSUME NEW r \in ReportRequests, SubmitRequest(r) \/ BeginCancel(r) \/ EndCancel(r)
      PROVE  RoomKept'
  BY <1>3, SubmitClear, GivingUpNarrows, RoomsSame DEF BeginCancel
<1>4. ASSUME NEW r \in ReportRequests, NEW u \in ReportStaff,
             \/ BookDirectly(r, u) \/ ApproveRow(r, u)
             \/ RejectRow(r, u) \/ CancelByStaff(r, u)
      PROVE  RoomKept'
  BY <1>4, DirectClear, ApprovedClear, RejectNarrows, CancelNarrows
<1> QED BY <1>1, <1>2, <1>3, <1>4 DEF ReportNext

-----------------------------------------------------------------------------
LEMMA TodayIsAround ==
  ASSUME NEW now \in Nat
  PROVE  \E from \in Nat, to \in Nat :
           /\ from = DayStart(DayOf(now)) /\ to = DayStart(DayOf(now) + 1)
           /\ from <= now /\ now < to
<1>1. PICK d \in Nat : d = now \div 48 /\ d * 48 <= now /\ now < (d + 1) * 48
  <2>1. now \div 48 \in Nat /\ (now \div 48) * 48 <= now /\ now < (now \div 48 + 1) * 48
    OBVIOUS
  <2> QED BY <2>1
<1>2. d * 48 \in Nat /\ (d + 1) * 48 \in Nat
  OBVIOUS
<1> QED BY <1>1, <1>2 DEF DayStart, DayOf, DayLength

(* A slot that holds a room is a span of time; two that overlap are one.   *)
LEMMA HeldSpans ==
  ASSUME TrailTyped, RoomKept, NEW s \in ApprovedSlots
  PROVE  s.start \in Nat /\ s.end \in Nat /\ s.start < s.end
<1>1. PICK r \in RowsOf("APPROVED") : \E i \in LiveSlots(RowOf(r)) : s = SlotOf(r, i)
  BY DEF ApprovedSlots
<1>2. PICK i \in LiveSlots(RowOf(r)) : s = SlotOf(r, i)
  BY <1>1
<1>3. requestRows[r] \in RowColumns /\ RowOf(r) = requestRows[r] /\ r \in Existing
  BY <1>1, RowsThere DEF RowsOf, RowOf, Existing
<1>4. requestRows[r].slots[i] \in SlotColumns /\ i \in DOMAIN requestRows[r].slots
  BY <1>2, <1>3, SlotsAre DEF LiveSlots
<1>5. requestRows[r].slots[i].start < requestRows[r].slots[i].end
  BY <1>3, <1>4 DEF RoomKept, SpansFit
<1>6. s.start = requestRows[r].slots[i].start /\ s.end = requestRows[r].slots[i].end
  BY <1>2, <1>3 DEF SlotOf
<1> QED BY <1>4, <1>5, <1>6 DEF SlotColumns

LEMMA HeldByOne ==
  ASSUME TrailTyped, RoomKept, NEW s \in ApprovedSlots, NEW t \in ApprovedSlots,
         s.venue = t.venue, SpansOverlap(s, t)
  PROVE  s = t
<1>1. PICK r \in RowsOf("APPROVED") : \E i \in LiveSlots(RowOf(r)) : s = SlotOf(r, i)
  BY DEF ApprovedSlots
<1>2. PICK i \in LiveSlots(RowOf(r)) : s = SlotOf(r, i)
  BY <1>1
<1>3. PICK q \in RowsOf("APPROVED") : \E j \in LiveSlots(RowOf(q)) : t = SlotOf(q, j)
  BY DEF ApprovedSlots
<1>4. PICK j \in LiveSlots(RowOf(q)) : t = SlotOf(q, j)
  BY <1>3
<1>5. /\ s.venue = Trait[r].venue /\ t.venue = Trait[q].venue
      /\ s.start = requestRows[r].slots[i].start /\ s.end = requestRows[r].slots[i].end
      /\ t.start = requestRows[q].slots[j].start /\ t.end = requestRows[q].slots[j].end
  BY <1>2, <1>4 DEF SlotOf, RowOf
<1>6. SpansOverlap(requestRows[r].slots[i], requestRows[q].slots[j])
  BY <1>5 DEF SpansOverlap
<1>7. /\ r \in Existing /\ r \in ReportRequests /\ requestRows[r].status = "APPROVED"
      /\ q \in ReportRequests /\ requestRows[q].status = "APPROVED"
  BY DEF RowsOf, Existing
<1>8. CASE r = q
  <2>1. SpansFit(requestRows[r].slots)
    BY <1>7 DEF RoomKept
  <2>2. i = j
    BY <1>2, <1>4, <1>6, <1>8, <2>1 DEF SpansFit, LiveSlots, RowOf
  <2> QED BY <1>2, <1>4, <1>8, <2>2
<1>9. CASE r # q
  BY <1>2, <1>4, <1>5, <1>6, <1>7, <1>9 DEF RoomKept, Apart, RowOf
<1> QED BY <1>8, <1>9

LEMMA RoomsOfInvariant ==
  ASSUME AuditInvariant, RoomKept
  PROVE  RoomsAreTrue
<1>1. TrailTyped /\ clockNow \in Nat /\ clockNow # 0
  BY DEF AuditInvariant, TrailTyped
<1> SUFFICES ASSUME NEW v \in DOMAIN VenueIs, VenueIs[v] = "open"
             PROVE  LET holding(t) == {s \in ApprovedSlots :
                                         s.venue = v /\ s.start <= t /\ t < s.end} IN
                    /\ (RoomState(v).state = "BUSY") = (holding(clockNow) # {})
                    /\ \A s, t \in holding(clockNow) : s = t
                    /\ FreeWindow(v) = "UNTIL_NEXT" => holding(RoomState(v).until) # {}
                    /\ RoomState(v).state = "FREE" =>
                         LET last == IF RoomState(v).until # NoInstant THEN RoomState(v).until
                                     ELSE DayStart(DayOf(clockNow) + 1) IN
                         \A t \in clockNow..last - 1 : holding(t) = {}
  BY DEF RoomsAreTrue
<1> DEFINE holding(t) == {s \in ApprovedSlots : s.venue = v /\ s.start <= t /\ t < s.end}
           mine == {s \in SlotsToday : s.venue = v}
           current == {s \in mine : s.start <= clockNow /\ clockNow < s.end}
           next == {s.start : s \in {t \in mine : t.start > clockNow}}
           until == IF next = {} THEN NoInstant ELSE Min(next)
<1>2. PICK from \in Nat, to \in Nat :
        /\ from = DayStart(DayOf(clockNow)) /\ to = DayStart(DayOf(clockNow) + 1)
        /\ from <= clockNow /\ clockNow < to
  BY <1>1, TodayIsAround
<1>3. \A s : s \in mine <=> s \in ApprovedSlots /\ s.venue = v /\ s.start < to /\ s.end > from
  BY <1>2 DEF SlotsToday
<1>4. \A s \in ApprovedSlots : s.start \in Nat /\ s.end \in Nat /\ s.start < s.end
  BY <1>1, HeldSpans
<1>5. current = holding(clockNow)
  <2> HIDE DEF mine
  <2> QED BY <1>1, <1>2, <1>3, <1>4
<1>6. /\ current # {} => RoomState(v).state = "BUSY" /\ RoomState(v).until = NoInstant
      /\ current = {} => RoomState(v).state = "FREE" /\ RoomState(v).until = until
  <2>1. RoomState(v) =
          IF current # {} THEN [state |-> "BUSY", today |-> Cardinality(mine), until |-> NoInstant]
          ELSE [state |-> "FREE", today |-> Cardinality(mine), until |-> until]
    BY Zenon DEF RoomState
  <2> HIDE DEF current, mine, until
  <2> QED BY <2>1
<1>7. next # {} => until \in next
  <2>1. next \in SUBSET Nat
    <3> HIDE DEF mine
    <3> QED BY <1>3, <1>4
  <2> HIDE DEF next
  <2> QED BY <2>1, LeastInstant
<1>8. \A n \in next : n \in Nat /\ until <= n /\ n > clockNow /\ n < to
  <2>1. \A n \in next : n \in Nat /\ n > clockNow /\ n < to
    <3> HIDE DEF mine
    <3> QED BY <1>3, <1>4
  <2>2. ASSUME NEW n \in next PROVE Min(next) <= n
    <3>1. next \in SUBSET Nat /\ next # {}
      BY <2>1
    <3> HIDE DEF next
    <3> QED BY <3>1, LeastInstant
  <2> HIDE DEF next
  <2> QED BY <2>1, <2>2
<1>9. (RoomState(v).state = "BUSY") = (holding(clockNow) # {})
  <2> HIDE DEF current, holding
  <2> QED BY <1>5, <1>6
<1>10. \A s, t \in holding(clockNow) : s = t
  <2> SUFFICES ASSUME NEW s \in holding(clockNow), NEW t \in holding(clockNow) PROVE s = t
    OBVIOUS
  <2>1. SpansOverlap(s, t)
    BY <1>1, <1>4 DEF SpansOverlap
  <2> QED BY <1>1, <2>1, HeldByOne
<1>11. FreeWindow(v) = "UNTIL_NEXT" => holding(RoomState(v).until) # {}
  <2> SUFFICES ASSUME FreeWindow(v) = "UNTIL_NEXT" PROVE holding(RoomState(v).until) # {}
    OBVIOUS
  <2>1. RoomState(v).state = "FREE" /\ RoomState(v).until # NoInstant
    BY DEF FreeWindow
  <2>2. current = {}
    BY <1>6, <2>1
  <2>3. RoomState(v).until = until /\ next # {}
    <3> HIDE DEF current, next
    <3> QED BY <1>6, <2>1, <2>2
  <2>4. PICK s \in mine : until = s.start
    <3> HIDE DEF until
    <3> QED BY <1>7, <2>3
  <2>5. s \in ApprovedSlots /\ s.venue = v
    BY <1>3
  <2>6. s \in holding(s.start)
    BY <1>4, <2>5
  <2> HIDE DEF holding, until
  <2> QED BY <2>3, <2>4, <2>6
<1>12. ASSUME RoomState(v).state = "FREE", NEW last,
              last = IF RoomState(v).until # NoInstant THEN RoomState(v).until ELSE to,
              NEW t \in clockNow..last - 1
       PROVE  holding(t) = {}
  <2>1. current = {} /\ RoomState(v).until = until
    BY <1>6, <1>12
  <2>2. last \in Nat /\ last <= to /\ (\A n \in next : last <= n)
    <3>1. CASE next = {}
      <4>1. last = to
        BY <1>12, <2>1, <3>1
      <4> QED BY <3>1, <4>1
    <3>2. CASE next # {}
      <4>1. until \in next
        BY <1>7, <3>2
      <4> HIDE DEF next, until
      <4>2. until \in Nat /\ until > clockNow /\ until < to
        BY <1>8, <4>1
      <4>3. last = until
        BY <1>1, <1>12, <2>1, <4>2 DEF NoInstant
      <4> QED BY <1>8, <4>2, <4>3
    <3> QED BY <3>1, <3>2
  <2> SUFFICES ASSUME NEW s \in holding(t) PROVE FALSE
    OBVIOUS
  <2>3. /\ s \in ApprovedSlots /\ s.venue = v /\ s.start <= t /\ t < s.end
        /\ s.start \in Nat /\ s.end \in Nat
    BY <1>4
  <2>4. t \in Nat /\ clockNow <= t /\ t < last
    BY <1>1, <2>2
  <2>5. s \in mine
    <3> HIDE DEF mine, holding, next
    <3>1. s.start < to
      BY <2>2, <2>3, <2>4
    <3>2. s.end > from
      BY <1>1, <1>2, <2>3, <2>4
    <3> QED BY <1>3, <2>3, <3>1, <3>2
  <2>6. CASE s.start <= clockNow
    <3>1. s \in current
      BY <1>1, <2>3, <2>4, <2>5, <2>6
    <3> QED BY <2>1, <3>1
  <2>7. CASE s.start > clockNow
    <3>1. s.start \in next
      BY <2>5, <2>7
    <3>2. last <= s.start
      BY <2>2, <3>1
    <3> QED BY <2>2, <2>3, <2>4, <3>2
  <2> QED BY <1>1, <2>3, <2>6, <2>7
<1> HIDE DEF holding
<1>13. RoomState(v).state = "FREE" =>
         LET last == IF RoomState(v).until # NoInstant THEN RoomState(v).until
                     ELSE DayStart(DayOf(clockNow) + 1) IN
         \A t \in clockNow..last - 1 : holding(t) = {}
  BY <1>2, <1>12, Zenon
<1> QED BY <1>9, <1>10, <1>11, <1>13 DEF holding

-----------------------------------------------------------------------------
(* SlotLists and the guards of the decisions keep the live slots of the    *)
(* approved bookings of a room apart, as parseSlots and                    *)
(* assertNoApprovedClash do.                                               *)
THEOREM RoomsKept == ReportSpec => []RoomKept
<1>1. ReportInit => RoomKept
  BY DEF ReportInit, RoomKept, Existing, NoRequestRow
<1>2. AuditInvariant /\ RoomKept /\ [ReportNext]_reportVars => RoomKept'
  BY SlotLists, RoomNext
<1> QED BY <1>1, <1>2, AuditInvariantHolds, PTL DEF ReportSpec

(* What computeRoomStates (dashboard-rooms.ts) says of an open room: busy  *)
(* by the one slot that holds it now, free up to the next one or to the    *)
(* end of the day.                                                         *)
THEOREM RoomsShownTrue == ReportSpec => []RoomsAreTrue
<1>1. AuditInvariant /\ RoomKept => RoomsAreTrue
  BY RoomsOfInvariant
<1> QED BY <1>1, RoomsKept, AuditInvariantHolds, PTL
=============================================================================
