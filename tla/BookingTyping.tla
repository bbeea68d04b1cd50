---------------------------- MODULE BookingTyping ---------------------------
(***************************************************************************)
(* Type correctness of Bookings, for any requests, slots, rooms and        *)
(* workers: TypeOK is inductive together with Shape.                       *)
(***************************************************************************)
EXTENDS BookingInvariant, TLAPS

-----------------------------------------------------------------------------
(* Type correctness.                                                       *)

(* A handler that has not begun, or has ended.                             *)
LEMMA IdleType == Idle \in TxState /\ WellShaped(Idle)
<1>1. Idle \in TxState
  BY DEF Idle, TxState, AllOps, StaffOps, LineOps, CronOps, Statuses
<1>2. WellShaped(Idle)
  BY DEF Idle, WellShaped
<1> QED
  BY <1>1, <1>2

(* The empty tables and the idle handlers are well typed.                  *)
LEMMA InitTypeOK == Init => TypeOK /\ Shape
<1> SUFFICES ASSUME Init PROVE TypeOK /\ Shape
  OBVIOUS
<1>2. NoRow \in RequestRow /\ NoSlot \in SlotRow
  BY DEF NoRow, RequestRow, Statuses, NoSlot, SlotRow
<1>3. TypeOK
  BY IdleType, <1>2 DEF Init, TypeOK, Statuses
<1>4. Shape
  BY IdleType DEF Init, Shape
<1> QED
  BY <1>3, <1>4

(* One handler moves on, to a state of the right type.                     *)
LEMMA TxStep ==
  ASSUME TypeOK, Shape, NEW w \in Workers, NEW t \in TxState, WellShaped(t),
         tx' = [tx EXCEPT ![w] = t]
  PROVE  tx' \in [Workers -> TxState] /\ Shape'
<1>1. \A x \in Workers : tx'[x] = IF x = w THEN t ELSE tx[x]
  BY DEF TypeOK
<1>2. tx' \in [Workers -> TxState]
  BY DEF TypeOK
<1>3. Shape'
  BY <1>1 DEF Shape
<1> QED
  BY <1>2, <1>3

(* A rollback restores typed versions and frees the locks.                 *)
LEMMA RollbackType ==
  ASSUME TypeOK, Shape, NEW w \in Workers, Rollback(w)
  PROVE  TypeOK' /\ Shape'
<1>1. tx' \in [Workers -> TxState] /\ Shape'
  BY TxStep, IdleType DEF Rollback
<1>2. TypeOK'
  BY <1>1 DEF TypeOK, Rollback, outside
<1> QED
  BY <1>1, <1>2

(* A step that changes only what one handler remembers.                    *)
LEMMA PassType ==
  ASSUME TypeOK, Shape, NEW w \in Workers, NEW t \in TxState, WellShaped(t),
         Pass(w, t)
  PROVE  TypeOK' /\ Shape'
<1>1. tx' \in [Workers -> TxState] /\ Shape'
  BY TxStep DEF Pass
<1>2. TypeOK'
  BY <1>1 DEF TypeOK, Pass, outside, rows
<1> QED
  BY <1>1, <1>2

(* An UPDATE of a request, with its trigger, stores typed rows.            *)
LEMMA WriteRequestType ==
  ASSUME TypeOK, NEW w \in Workers, NEW r \in Requests, NEW row \in RequestRow,
         WriteRequest(w, r, row)
  PROVE  /\ req' = req /\ slot' = slot
         /\ reqNew' \in [Requests -> RequestRow]
         /\ reqLock' \in [Requests -> Workers \cup {Nobody}]
         /\ slotNew' \in [Slots -> SlotRow]
         /\ slotLock' \in [Slots -> Workers \cup {Nobody}]
<1> DEFINE kids == Refreshed(w, r, row.status)
<1>1. \A s \in Slots : [SlotOf(w, s) EXCEPT !.holds = Holds(w, s, row.status)] \in SlotRow
  <2> TAKE s \in Slots
  <2>1. SlotOf(w, s) \in SlotRow
    BY DEF SlotOf, TypeOK
  <2>2. Holds(w, s, row.status) \in BOOLEAN
    BY DEF Holds
  <2> QED
    BY <2>1, <2>2 DEF SlotRow
<1>2. slotNew' = [s \in Slots |-> IF s \in kids
                    THEN [SlotOf(w, s) EXCEPT !.holds = Holds(w, s, row.status)]
                    ELSE slotNew[s]]
  BY DEF WriteRequest
<1>3. slotNew' \in [Slots -> SlotRow]
  BY <1>1, <1>2 DEF TypeOK
<1> QED
  BY <1>3 DEF WriteRequest, TypeOK

(* An UPDATE of a slot, with its trigger, stores a typed row.              *)
LEMMA WriteSlotType ==
  ASSUME TypeOK, NEW w \in Workers, NEW s \in Slots, NEW row \in SlotRow,
         WriteSlot(w, s, row)
  PROVE  /\ UNCHANGED <<req, reqNew, reqLock, slot>>
         /\ slotNew' \in [Slots -> SlotRow]
         /\ slotLock' \in [Slots -> Workers \cup {Nobody}]
<1>1. \A h \in BOOLEAN : [row EXCEPT !.holds = h] \in SlotRow
  BY DEF SlotRow
<1>2. (~row.cancelled /\ ReqOf(w, RequestOf[s]).status = "APPROVED") \in BOOLEAN
  OBVIOUS
<1> QED
  BY <1>1, <1>2 DEF WriteSlot, TypeOK

(* A handler begins: every endpoint, and the two crons.                    *)
LEMMA StartType ==
  ASSUME TypeOK, Shape, NEW w \in Workers, NEW op \in AllOps,
         NEW pc \in InTx, NEW r \in Requests \cup {NoRequest},
         NEW line \in BOOLEAN, NEW picked \in SUBSET Slots,
         Start(w, op, pc, r, line, picked),
         \/ pc \in {"lock", "check"} /\ r \in Requests
         \/ pc = "remind" /\ op = "remindUpcoming"
  PROVE  TypeOK' /\ Shape'
<1> DEFINE t == [Idle EXCEPT !.op = op, !.pc = pc, !.r = r, !.line = line,
                             !.picked = picked]
<1>1. t \in TxState
  BY IdleType DEF TxState
<1>2. t.op = op /\ t.pc = pc /\ t.r = r
  BY DEF Idle
<1>3. WellShaped(t)
  BY <1>2 DEF WellShaped, AllOps, StaffOps, LineOps, CronOps
<1>4. Pass(w, t)
  BY DEF Start, Pass
<1> HIDE DEF t
<1> QED
  BY PassType, <1>1, <1>3, <1>4

(* Every endpoint and cron starts a handler of its shape.                  *)
LEMMA BeginType ==
  ASSUME TypeOK, Shape, NEW w \in Workers, Begin(w)
  PROVE  TypeOK' /\ Shape'
<1>1. ASSUME NEW r \in Requests,
             \/ CreateFromLine(w, r) \/ CreateDirect(w, r)
             \/ Approve(w, r) \/ Reject(w, r) \/ Cancel(w, r)
             \/ CancelPendingBooking(w, r)
      PROVE  TypeOK' /\ Shape'
  <2>1. PICK op \in AllOps, pc \in {"lock", "check"}, line \in BOOLEAN,
             picked \in SUBSET Slots : Start(w, op, pc, r, line, picked)
    BY <1>1 DEF CreateFromLine, CreateDirect, Approve, Reject, Cancel,
                CancelPendingBooking, AllOps, StaffOps, LineOps, CronOps, SlotsOf
  <2>2. pc \in InTx /\ r \in Requests \cup {NoRequest}
    BY DEF InTx
  <2> QED
    BY <2>1, <2>2, StartType, Zenon
<1>2. ASSUME NEW s \in Slots, CancelApprovedSlot(w, s)
      PROVE  TypeOK' /\ Shape'
  <2>1. Start(w, "cancelApprovedSlot", "check", RequestOf[s], FALSE, {s})
    BY <1>2 DEF CancelApprovedSlot
  <2>2. /\ RequestOf[s] \in Requests
        /\ RequestOf[s] \in Requests \cup {NoRequest}
        /\ {s} \in SUBSET Slots
    BY SlotsAssumption
  <2>3. /\ "cancelApprovedSlot" \in AllOps /\ "check" \in InTx
        /\ "check" \in {"lock", "check"} /\ FALSE \in BOOLEAN
    BY DEF AllOps, StaffOps, LineOps, CronOps, InTx
  <2> QED
    BY <2>1, <2>2, <2>3, StartType, Zenon
<1>3. CASE ExpireOverdue(w)
  <2> DEFINE t == [Idle EXCEPT !.op = "expireOverdue", !.pc = "expire",
                               !.ids = {r \in Requests : Overdue(r)}]
  <2>1. t \in TxState
    BY IdleType DEF TxState, AllOps, StaffOps, LineOps, CronOps, InTx
  <2>2. WellShaped(t)
    BY DEF WellShaped, Idle
  <2>3. Pass(w, t)
    BY <1>3 DEF ExpireOverdue, Pass
  <2> HIDE DEF t
  <2> QED
    BY <2>1, <2>2, <2>3, PassType
<1>4. CASE RemindUpcoming(w)
  <2> DEFINE due == {s \in Slots : Due(s)}
  <2>1. Start(w, "remindUpcoming", "remind", NoRequest, FALSE, due)
    BY <1>4 DEF RemindUpcoming
  <2>2. due \in SUBSET Slots
    OBVIOUS
  <2>3. "remindUpcoming" \in AllOps /\ "remind" \in InTx
    BY DEF AllOps, StaffOps, LineOps, CronOps, InTx
  <2> HIDE DEF due
  <2> QED
    BY <2>1, <2>2, <2>3, StartType, Zenon
<1> QED
  BY <1>1, <1>2, <1>3, <1>4 DEF Begin

(* The reads: each passes to the next statement or throws.                 *)
LEMMA ReadsType ==
  ASSUME TypeOK, Shape, NEW w \in Workers,
         \/ CheckCreate(w) \/ CheckApprove(w) \/ CheckPending(w)
         \/ CheckSlot(w) \/ CheckCancel(w) \/ FindPendingLosers(w)
         \/ ReadRemaining(w) \/ PublishRead(w)
  PROVE  TypeOK' /\ Shape'
<1> USE DEF At
<1>1. tx[w] \in TxState /\ WellShaped(tx[w])
  BY DEF TypeOK, Shape
<1>2. \A r : LiveSlots(w, r) \in SUBSET Slots
  BY DEF LiveSlots, SlotsOf
<1>3. CASE CheckCreate(w)
  <2> DEFINE t == [tx[w] EXCEPT !.pc = IF tx[w].op = "createDirect"
                                       THEN "losers" ELSE "insert"]
  <2>1. t \in TxState
    BY <1>1 DEF TxState, InTx
  <2>2. WellShaped(t)
    BY <1>1, <1>3 DEF CheckCreate, WellShaped, TxState, Creates
  <2>3. Rollback(w) \/ Pass(w, t)
    BY <1>3 DEF CheckCreate
  <2> HIDE DEF t
  <2> QED
    BY <2>1, <2>2, <2>3, RollbackType, PassType
<1>4. CASE CheckApprove(w)
  <2> DEFINE live == LiveSlots(w, tx[w].r)
             t == [tx[w] EXCEPT !.pc = "losers", !.picked = live]
  <2>1. t \in TxState
    BY <1>1, <1>2 DEF TxState, InTx
  <2>2. WellShaped(t)
    BY <1>1, <1>4 DEF CheckApprove, WellShaped, TxState
  <2>3. Rollback(w) \/ Pass(w, t)
    BY <1>4 DEF CheckApprove
  <2> HIDE DEF t
  <2> QED
    BY <2>1, <2>2, <2>3, RollbackType, PassType
<1>5. CASE CheckPending(w)
  <2> DEFINE t == [tx[w] EXCEPT !.pc = "flip"]
  <2>1. t \in TxState
    BY <1>1 DEF TxState, InTx
  <2>2. WellShaped(t)
    BY <1>1, <1>5 DEF CheckPending, WellShaped, TxState
  <2>3. Rollback(w) \/ Pass(w, t)
    BY <1>5 DEF CheckPending
  <2> HIDE DEF t
  <2> QED
    BY <2>1, <2>2, <2>3, RollbackType, PassType
<1>6. CASE CheckSlot(w)
  <2> DEFINE t == [tx[w] EXCEPT !.pc = "slots"]
  <2>1. t \in TxState
    BY <1>1 DEF TxState, InTx
  <2>2. WellShaped(t)
    BY <1>1, <1>6 DEF CheckSlot, WellShaped, TxState, SlotCancels
  <2>3. Rollback(w) \/ Pass(w, t)
    BY <1>6 DEF CheckSlot
  <2> HIDE DEF t
  <2> QED
    BY <2>1, <2>2, <2>3, RollbackType, PassType
<1>7. CASE CheckCancel(w)
  <2> DEFINE live == LiveSlots(w, tx[w].r)
             targets == IF tx[w].picked = {} THEN live ELSE tx[w].picked
             t == [tx[w] EXCEPT !.pc = "slots", !.picked = targets,
                                !.remaining = live \ targets]
  <2>0. targets \in SUBSET Slots /\ live \ targets \in SUBSET Slots
    BY <1>1, <1>2 DEF TxState
  <2> HIDE DEF live, targets
  <2>1. t \in TxState
    BY <1>1, <2>0 DEF TxState, InTx
  <2>2. WellShaped(t)
    BY <1>1, <1>7 DEF CheckCancel, WellShaped, TxState, SlotCancels
  <2>3. Rollback(w) \/ Pass(w, t)
    BY <1>7 DEF CheckCancel, live, targets
  <2> HIDE DEF t
  <2> QED
    BY <2>1, <2>2, <2>3, RollbackType, PassType
<1>8. CASE FindPendingLosers(w)
  <2> DEFINE lost == PendingLosers(w, tx[w].r, tx[w].picked)
             t == [tx[w] EXCEPT
                     !.pc = IF tx[w].op = "approve" THEN "flip" ELSE "insert",
                     !.ids = lost]
  <2>0. lost \in SUBSET Requests
    BY DEF PendingLosers
  <2> HIDE DEF lost
  <2>1. t \in TxState
    BY <1>1, <2>0 DEF TxState, InTx
  <2>2. WellShaped(t)
    BY <1>1, <1>8 DEF FindPendingLosers, WellShaped, TxState, Creates
  <2>3. Pass(w, t)
    BY <1>8 DEF FindPendingLosers, lost
  <2> HIDE DEF t
  <2> QED
    BY <2>1, <2>2, <2>3, PassType
<1>9. CASE ReadRemaining(w)
  <2> DEFINE left == LiveSlots(w, tx[w].r)
             t == [tx[w] EXCEPT !.pc = "request", !.remaining = left]
  <2>1. t \in TxState
    BY <1>1, <1>2 DEF TxState, InTx
  <2>2. WellShaped(t)
    BY <1>1, <1>9 DEF ReadRemaining, WellShaped, TxState
  <2>3. Pass(w, t)
    BY <1>9 DEF ReadRemaining
  <2> HIDE DEF t
  <2> QED
    BY <2>1, <2>2, <2>3, PassType
<1>10. CASE PublishRead(w)
  <2> DEFINE heard == [x \in Requests |-> IF x \in tx[w].ids \cap Watched
                                          THEN req[x].status ELSE "NONE"]
             t == [tx[w] EXCEPT !.pc = "emit", !.seen = heard]
  <2>0. heard \in [Requests -> Statuses]
    BY DEF TypeOK, RequestRow, Statuses
  <2> HIDE DEF heard
  <2>1. t \in TxState
    BY <1>1, <2>0 DEF TxState, AfterTx
  <2>2. WellShaped(t)
    BY <1>1, <1>10 DEF PublishRead, WellShaped, TxState
  <2>3. Pass(w, t)
    BY <1>10 DEF PublishRead, heard
  <2> HIDE DEF t
  <2> QED
    BY <2>1, <2>2, <2>3, PassType
<1> QED
  BY <1>3, <1>4, <1>5, <1>6, <1>7, <1>8, <1>9, <1>10

(* The statements that write rows.                                         *)
LEMMA WritesType ==
  ASSUME TypeOK, Shape, NEW w \in Workers,
         \/ Insert(w) \/ Flip(w) \/ Refresh(w) \/ RejectLosers(w) \/ CancelSlots(w)
         \/ UpdateRequest(w) \/ ExpireRows(w) \/ ClaimReminders(w)
  PROVE  TypeOK' /\ Shape'
<1>1. tx[w] \in TxState /\ WellShaped(tx[w])
  BY DEF TypeOK, Shape
<1>2. \A r \in Requests : req[r] \in RequestRow /\ ReqOf(w, r) \in RequestRow
  BY DEF TypeOK, ReqOf
<1>3. \A row \in RequestRow, st \in Statuses :
        [row EXCEPT !.status = st] \in RequestRow
  BY DEF RequestRow
<1>4. ASSUME NEW r \in Requests, NEW row \in RequestRow, WriteRequest(w, r, row),
             UNCHANGED <<tx, venueLock, now, outside>>
      PROVE  TypeOK' /\ Shape'
  BY <1>4, WriteRequestType DEF TypeOK, Shape, outside
<1>5. ASSUME NEW s \in Slots, NEW row \in SlotRow, WriteSlot(w, s, row),
             UNCHANGED <<tx, venueLock, now, outside>>
      PROVE  TypeOK' /\ Shape'
  BY <1>5, WriteSlotType DEF TypeOK, Shape, outside
<1>6. CASE Insert(w)
  <2> DEFINE r == tx[w].r
             direct == tx[w].op = "createDirect"
             next == IF direct THEN "rejectLosers" ELSE "commit"
             t == [tx[w] EXCEPT !.pc = next]
             newRow == [status |-> IF direct THEN "APPROVED" ELSE "PENDING",
                        span |-> SlotsOf(r), line |-> tx[w].line]
             newSlot == [cancelled |-> FALSE, holds |-> direct,
                         reminded |-> FALSE]
  <2>1. CASE Rollback(w)
    BY <2>1, RollbackType
  <2>2. CASE ~Rollback(w)
    <3>1. r \in Requests
      BY <1>1, <1>6 DEF Insert, WellShaped
    <3>2. newRow \in RequestRow
      BY <1>1 DEF RequestRow, Statuses, TxState, SlotsOf
    <3>3. newSlot \in SlotRow
      BY DEF SlotRow
    <3>4. t \in TxState
      BY <1>1 DEF TxState, InTx
    <3>5. WellShaped(t)
      BY <1>1, <1>6 DEF Insert, WellShaped, TxState
    <3>6. /\ reqNew' = [reqNew EXCEPT ![r] = newRow]
          /\ reqLock' = [reqLock EXCEPT ![r] = w]
          /\ slotNew' = [s \in Slots |-> IF RequestOf[s] = r THEN newSlot
                                         ELSE slotNew[s]]
          /\ slotLock' = [s \in Slots |-> IF RequestOf[s] = r THEN w
                                          ELSE slotLock[s]]
          /\ tx' = [tx EXCEPT ![w] = t]
          /\ UNCHANGED <<req, slot, venueLock, now, outside>>
      BY <1>6, <2>2 DEF Insert, Goto
    <3> HIDE DEF newRow, newSlot, t, r
    <3>7. tx' \in [Workers -> TxState] /\ Shape'
      BY <3>4, <3>5, <3>6, TxStep
    <3> QED
      BY <3>2, <3>3, <3>6, <3>7 DEF TypeOK, outside
  <2> QED
    BY <2>1, <2>2
<1>13. CASE Flip(w)
  <2> DEFINE t == [tx[w] EXCEPT !.pc = "refresh"]
  <2>1. CASE Rollback(w)
    BY <2>1, RollbackType
  <2>2. CASE ~Rollback(w)
    <3>1. t \in TxState
      BY <1>1 DEF TxState, InTx
    <3>2. WellShaped(t)
      BY <1>1, <1>13 DEF Flip, WellShaped, TxState
    <3>3. /\ reqLock' = [reqLock EXCEPT ![tx[w].r] = w]
          /\ tx' = [tx EXCEPT ![w] = t]
          /\ UNCHANGED <<req, reqNew, slot, slotNew, slotLock>>
          /\ UNCHANGED <<venueLock, now, outside>>
      BY <1>13, <2>2 DEF Flip, Goto
    <3> HIDE DEF t
    <3>4. tx' \in [Workers -> TxState] /\ Shape'
      BY <3>1, <3>2, <3>3, TxStep
    <3> QED
      BY <3>3, <3>4 DEF TypeOK, outside
  <2> QED
    BY <2>1, <2>2
<1>7. CASE Refresh(w)
  <2> DEFINE r == tx[w].r
             st == FlippedTo[tx[w].op]
             next == CASE tx[w].op = "approve" -> "rejectLosers"
                       [] tx[w].op = "reject" -> "commit"
                       [] OTHER -> "slots"
             pick == IF tx[w].op = "cancelPendingBooking"
                     THEN LiveSlots(w, r) ELSE tx[w].picked
             t == [tx[w] EXCEPT !.pc = next, !.picked = pick]
             row == [ReqOf(w, r) EXCEPT !.status = st]
  <2>1. CASE Rollback(w)
    BY <2>1, RollbackType
  <2>2. CASE ~Rollback(w)
    <3>1. r \in Requests /\ tx[w].op \in {"approve", "reject", "cancelPendingBooking"}
      BY <1>1, <1>7 DEF Refresh, WellShaped
    <3>2. st \in Statuses
      BY <3>1 DEF FlippedTo, Statuses
    <3>3. row \in RequestRow
      BY <1>2, <1>3, <3>1, <3>2
    <3>4. pick \in SUBSET Slots
      BY <1>1 DEF TxState, LiveSlots, SlotsOf
    <3>5. next \in {"rejectLosers", "commit", "slots"}
          /\ (next = "slots" => tx[w].op = "cancelPendingBooking")
      BY <3>1
    <3>6. /\ WriteRequest(w, r, row)
          /\ tx' = [tx EXCEPT ![w] = t]
          /\ UNCHANGED <<venueLock, now, outside>>
      BY <1>7, <2>2 DEF Refresh
    <3> HIDE DEF next, pick, st
    <3>7. t \in TxState
      BY <1>1, <3>4, <3>5 DEF TxState, InTx
    <3>8. t.pc = next /\ t.op = tx[w].op /\ t.r = tx[w].r
      BY <1>1 DEF TxState
    <3>9. WellShaped(t)
      BY <1>1, <1>7, <3>1, <3>5, <3>8 DEF WellShaped, Refresh
    <3> HIDE DEF row, t, r
    <3>10. tx' \in [Workers -> TxState] /\ Shape'
      BY <3>6, <3>7, <3>9, TxStep
    <3> QED
      BY <3>1, <3>3, <3>6, <3>10, WriteRequestType DEF TypeOK, outside
  <2> QED
    BY <2>1, <2>2
<1>8. CASE RejectLosers(w)
  <2> DEFINE t == [tx[w] EXCEPT !.pc = "commit"]
  <2>1. ASSUME NEW l \in ToReject(w),
               WriteRequest(w, l, [req[l] EXCEPT !.status = "REJECTED"]),
               UNCHANGED <<tx, venueLock, now, outside>>
        PROVE  TypeOK' /\ Shape'
    <3>1. l \in Requests
      BY <1>1 DEF ToReject, TxState
    <3>2. [req[l] EXCEPT !.status = "REJECTED"] \in RequestRow
      BY <1>2, <1>3, <3>1 DEF Statuses
    <3> QED
      BY <1>4, <2>1, <3>1, <3>2
  <2>2. t \in TxState
    BY <1>1 DEF TxState, InTx
  <2>3. WellShaped(t)
    BY <1>1, <1>8 DEF RejectLosers, WellShaped, TxState
  <2>4. ASSUME Pass(w, t) PROVE TypeOK' /\ Shape'
    BY <2>2, <2>3, <2>4, PassType
  <2> QED
    BY <1>8, <2>1, <2>4 DEF RejectLosers
<1>9. CASE CancelSlots(w)
  <2> DEFINE todo == {s \in tx[w].picked : slotLock[s] # w}
             gone == {s \in todo : slot[s].cancelled}
             next == CASE tx[w].op = "cancelPendingBooking" -> "commit"
                       [] tx[w].op = "cancelApprovedSlot" -> "remaining"
                       [] OTHER -> "request"
             t == [tx[w] EXCEPT !.picked = @ \ gone]
             u == [tx[w] EXCEPT !.pc = next]
  <2>1. todo \subseteq Slots
    BY <1>1 DEF TxState
  <2>2. ASSUME NEW s \in todo \ gone,
               WriteSlot(w, s, [slot[s] EXCEPT !.cancelled = TRUE]),
               UNCHANGED <<tx, venueLock, now, outside>>
        PROVE  TypeOK' /\ Shape'
    <3>1. s \in Slots
      BY <2>1
    <3>2. [slot[s] EXCEPT !.cancelled = TRUE] \in SlotRow
      BY <3>1 DEF TypeOK, SlotRow
    <3> QED
      BY <1>5, <2>2, <3>1, <3>2
  <2>3. t \in TxState /\ WellShaped(t)
    BY <1>1, <1>9 DEF TxState, CancelSlots, WellShaped
  <2>4. next \in {"commit", "remaining", "request"}
        /\ (next # "commit" => tx[w].op \in SlotCancels)
    BY <1>1, <1>9 DEF CancelSlots, WellShaped, SlotCancels
  <2>5. \/ Rollback(w) \/ Pass(w, t) \/ Pass(w, u)
        \/ \E s \in todo \ gone :
              /\ WriteSlot(w, s, [slot[s] EXCEPT !.cancelled = TRUE])
              /\ UNCHANGED <<tx, venueLock, now, outside>>
    BY <1>9 DEF CancelSlots
  <2> HIDE DEF next, gone
  <2>6. u \in TxState
    BY <1>1, <2>4 DEF TxState, InTx
  <2>7. u.pc = next /\ u.op = tx[w].op /\ u.r = tx[w].r
    BY <1>1 DEF TxState
  <2>8. WellShaped(u)
    BY <1>1, <1>9, <2>4, <2>7 DEF WellShaped, CancelSlots
  <2> HIDE DEF t, u, todo
  <2> QED
    BY <2>2, <2>3, <2>5, <2>6, <2>8, PassType, RollbackType
<1>10. CASE UpdateRequest(w)
  <2> DEFINE r == tx[w].r
             row == IF tx[w].remaining = {}
                    THEN [ReqOf(w, r) EXCEPT !.status = "CANCELLED"]
                    ELSE [ReqOf(w, r) EXCEPT !.span = tx[w].remaining]
             t == [tx[w] EXCEPT !.pc = "commit"]
  <2>1. r \in Requests
    BY <1>1, <1>10 DEF UpdateRequest, WellShaped
  <2>2. row \in RequestRow
    BY <1>1, <1>2, <2>1 DEF RequestRow, Statuses, TxState
  <2>3. t \in TxState /\ WellShaped(t)
    BY <1>1, <1>10 DEF TxState, InTx, UpdateRequest, WellShaped
  <2>4. /\ WriteRequest(w, r, row)
        /\ tx' = [tx EXCEPT ![w] = t]
        /\ UNCHANGED <<venueLock, now, outside>>
    BY <1>10 DEF UpdateRequest, Goto
  <2> HIDE DEF r, row, t
  <2>5. tx' \in [Workers -> TxState] /\ Shape'
    BY <2>3, <2>4, TxStep
  <2> QED
    BY <2>1, <2>2, <2>4, <2>5, WriteRequestType DEF TypeOK, outside
<1>11. CASE ExpireRows(w)
  <2> DEFINE todo == {r \in tx[w].ids : reqLock[r] # w}
             gone == {r \in todo : req[r].status # "PENDING"}
             t == [tx[w] EXCEPT !.ids = @ \ gone]
             u == [tx[w] EXCEPT !.pc = "commit"]
  <2>1. todo \subseteq Requests
    BY <1>1 DEF TxState
  <2>2. ASSUME NEW r \in todo \ gone,
               WriteRequest(w, r, [req[r] EXCEPT !.status = "EXPIRED"]),
               UNCHANGED <<tx, venueLock, now, outside>>
        PROVE  TypeOK' /\ Shape'
    <3>1. r \in Requests
      BY <2>1
    <3>2. [req[r] EXCEPT !.status = "EXPIRED"] \in RequestRow
      BY <1>2, <1>3, <3>1 DEF Statuses
    <3> QED
      BY <1>4, <2>2, <3>1, <3>2
  <2>3. t \in TxState /\ WellShaped(t)
    BY <1>1, <1>11 DEF TxState, ExpireRows, WellShaped
  <2>4. u \in TxState /\ WellShaped(u)
    BY <1>1, <1>11 DEF TxState, InTx, ExpireRows, WellShaped
  <2>5. \/ Pass(w, t) \/ Pass(w, u)
        \/ \E r \in todo \ gone :
              /\ WriteRequest(w, r, [req[r] EXCEPT !.status = "EXPIRED"])
              /\ UNCHANGED <<tx, venueLock, now, outside>>
    BY <1>11 DEF ExpireRows
  <2> HIDE DEF t, u, todo, gone
  <2> QED
    BY <2>2, <2>3, <2>4, <2>5, PassType
<1>12. CASE ClaimReminders(w)
  <2> DEFINE todo == {s \in tx[w].picked : slotLock[s] # w}
             gone == {s \in todo : slot[s].reminded \/ slot[s].cancelled}
             t == [tx[w] EXCEPT !.picked = @ \ gone]
             u == [tx[w] EXCEPT !.pc = "commit"]
  <2>1. todo \subseteq Slots
    BY <1>1 DEF TxState
  <2>2. ASSUME NEW s \in todo \ gone,
               WriteSlot(w, s, [slot[s] EXCEPT !.reminded = TRUE]),
               UNCHANGED <<tx, venueLock, now, outside>>
        PROVE  TypeOK' /\ Shape'
    <3>1. s \in Slots
      BY <2>1
    <3>2. [slot[s] EXCEPT !.reminded = TRUE] \in SlotRow
      BY <3>1 DEF TypeOK, SlotRow
    <3> QED
      BY <1>5, <2>2, <3>1, <3>2
  <2>3. t \in TxState /\ WellShaped(t)
    BY <1>1, <1>12 DEF TxState, ClaimReminders, WellShaped
  <2>4. u \in TxState /\ WellShaped(u)
    BY <1>1, <1>12 DEF TxState, InTx, ClaimReminders, WellShaped
  <2>5. \/ Pass(w, t) \/ Pass(w, u)
        \/ \E s \in todo \ gone :
              /\ WriteSlot(w, s, [slot[s] EXCEPT !.reminded = TRUE])
              /\ UNCHANGED <<tx, venueLock, now, outside>>
    BY <1>12 DEF ClaimReminders
  <2> HIDE DEF t, u, todo, gone
  <2> QED
    BY <2>2, <2>3, <2>4, <2>5, PassType
<1> QED
  BY <1>6, <1>7, <1>8, <1>9, <1>10, <1>11, <1>12, <1>13

(* The locks, the commit, and what follows the commit.                     *)
LEMMA OthersType ==
  ASSUME TypeOK, Shape, NEW w \in Workers,
         \/ LockVenue(w) \/ Commit(w) \/ Emit(w) \/ NotifyDecisions(w)
         \/ NotifyReminders(w) \/ CodeCollision(w) \/ Abort(w) \/ Crash(w)
  PROVE  TypeOK' /\ Shape'
<1>1. tx[w] \in TxState /\ WellShaped(tx[w])
  BY DEF TypeOK, Shape
<1>2. [v \in Venues |-> IF venueLock[v] = w THEN Nobody ELSE venueLock[v]]
        \in [Venues -> Workers \cup {Nobody}]
  BY DEF TypeOK
<1>3. CASE LockVenue(w)
  <2> DEFINE t == [tx[w] EXCEPT !.pc = "check"]
  <2>1. t \in TxState /\ WellShaped(t)
    BY <1>1, <1>3 DEF TxState, InTx, LockVenue, WellShaped
  <2>2. tx' = [tx EXCEPT ![w] = t]
    BY <1>3 DEF LockVenue, Goto
  <2> HIDE DEF t
  <2>3. tx' \in [Workers -> TxState] /\ Shape'
    BY <2>1, <2>2, TxStep
  <2> QED
    BY <1>3, <2>3 DEF LockVenue, TypeOK, outside, rows
<1>4. CASE Commit(w)
  <2> DEFINE ids == Announced(w)
             notify == [tx[w] EXCEPT !.pc = "notify"]
             publish == [tx[w] EXCEPT !.pc = "publish", !.ids = ids]
  <2>1. ids \in SUBSET Requests
    BY <1>1 DEF Announced, TxState
  <2>2. PICK t \in {Idle, notify, publish} : tx' = [tx EXCEPT ![w] = t]
    BY <1>4 DEF Commit
  <2> HIDE DEF ids
  <2>3. notify \in TxState /\ WellShaped(notify)
    BY <1>1, <1>4 DEF TxState, AfterTx, WellShaped, Commit
  <2>4. publish \in TxState /\ WellShaped(publish)
    BY <1>1, <1>4, <2>1 DEF TxState, AfterTx, WellShaped, Commit
  <2> HIDE DEF notify, publish
  <2>5. tx' \in [Workers -> TxState] /\ Shape'
    BY <2>2, <2>3, <2>4, IdleType, TxStep
  <2>6. /\ [r \in Requests |-> ReqOf(w, r)] \in [Requests -> RequestRow]
        /\ [s \in Slots |-> SlotOf(w, s)] \in [Slots -> SlotRow]
    BY DEF TypeOK, ReqOf, SlotOf
  <2> QED
    BY <1>2, <1>4, <2>5, <2>6 DEF Commit, TypeOK, outside
<1>5. CASE Emit(w)
  <2> DEFINE t == [tx[w] EXCEPT !.pc = "notify", !.seen = Idle.seen]
  <2>1. t \in TxState /\ WellShaped(t)
    BY <1>1, <1>5 DEF TxState, AfterTx, Emit, WellShaped, Idle, Statuses
  <2>2. tx' = [tx EXCEPT ![w] = t]
    BY <1>5 DEF Emit
  <2> HIDE DEF t
  <2>3. tx' \in [Workers -> TxState] /\ Shape'
    BY <2>1, <2>2, TxStep
  <2>4. screen' \in [Requests -> Statuses]
    BY <1>1, <1>5 DEF Emit, TypeOK, TxState
  <2> QED
    BY <1>5, <2>3, <2>4 DEF Emit, TypeOK, rows
<1>6. CASE NotifyDecisions(w)
  <2>1. tx' \in [Workers -> TxState] /\ Shape'
    BY <1>6, IdleType, TxStep DEF NotifyDecisions
  <2>2. tx[w].op \in AllOps \ {"remindUpcoming"}
    BY <1>1, <1>6 DEF NotifyDecisions, WellShaped, TxState
  <2>3. CardFor[tx[w].op] \in CardKinds /\ {"EXPIRED", "AUTO_REJECTED"} \subseteq CardKinds
    BY <2>2 DEF CardFor, CardKinds, AllOps, StaffOps, LineOps, CronOps
  <2>4. \A n \in Notices(w) : n[1] \in Watched => n \in Requests \X CardKinds
    BY <1>1, <2>3, BoundsAssumption DEF Notices, TxState
  <2>5. cards' \subseteq Requests \X CardKinds
    BY <1>6, <2>4 DEF NotifyDecisions, TypeOK
  <2> QED
    BY <1>6, <2>1, <2>5 DEF NotifyDecisions, TypeOK, rows
<1>7. CASE NotifyReminders(w)
  <2>1. tx' \in [Workers -> TxState] /\ Shape'
    BY <1>7, IdleType, TxStep DEF NotifyReminders
  <2>2. reminders' \in [Slots -> Nat]
    BY <1>7 DEF NotifyReminders, TypeOK
  <2> QED
    BY <1>7, <2>1, <2>2 DEF NotifyReminders, TypeOK, rows
<1>8. CASE CodeCollision(w)
  <2> DEFINE next == IF tx[w].op = "createDirect" THEN "lock" ELSE "check"
             t == [tx[w] EXCEPT !.ids = {}, !.pc = next]
  <2>1. t \in TxState /\ WellShaped(t)
    BY <1>1, <1>8 DEF TxState, InTx, CodeCollision, WellShaped
  <2>2. tx' = [tx EXCEPT ![w] = t]
    BY <1>8 DEF CodeCollision
  <2> HIDE DEF t
  <2>3. tx' \in [Workers -> TxState] /\ Shape'
    BY <2>1, <2>2, TxStep
  <2> QED
    BY <1>2, <1>8, <2>3 DEF CodeCollision, TypeOK, outside, rows
<1>9. CASE Abort(w)
  BY <1>9, RollbackType DEF Abort
<1>10. CASE Crash(w)
  <2>1. Pass(w, Idle)
    BY <1>10 DEF Crash, Pass
  <2> QED
    BY <2>1, IdleType, PassType
<1> QED
  BY <1>3, <1>4, <1>5, <1>6, <1>7, <1>8, <1>9, <1>10

(* Typing and the shape of the handlers are inductive together.            *)
LEMMA NextType == TypeOK /\ Shape /\ [Next]_vars => TypeOK' /\ Shape'
<1> SUFFICES ASSUME TypeOK, Shape, [Next]_vars PROVE TypeOK' /\ Shape'
  OBVIOUS
<1>1. CASE Tick
  BY <1>1, BoundsAssumption DEF Tick, TypeOK, Shape, rows, outside
<1>2. ASSUME NEW w \in Workers, Begin(w) PROVE TypeOK' /\ Shape'
  BY <1>2, BeginType
<1>3. ASSUME NEW w \in Workers, Proceed(w) PROVE TypeOK' /\ Shape'
  BY <1>3, ReadsType, WritesType, OthersType DEF Proceed
<1>4. ASSUME NEW w \in Workers, CodeCollision(w) \/ Abort(w) \/ Crash(w)
      PROVE  TypeOK' /\ Shape'
  BY <1>4, OthersType
<1>5. CASE UNCHANGED vars
  BY <1>5 DEF vars, rows, outside, TypeOK, Shape
<1> QED
  BY <1>1, <1>2, <1>3, <1>4, <1>5 DEF Next

(* Type correctness of every reachable state, whatever runs concurrently.  *)
THEOREM TypeCorrect == Spec => []TypeOK
<1>1. Spec => [](TypeOK /\ Shape)
  BY InitTypeOK, NextType, PTL DEF Spec
<1> QED
  BY <1>1, PTL
=============================================================================
