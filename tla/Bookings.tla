------------------------------ MODULE Bookings ------------------------------
(***************************************************************************)
(* The booking domain of easybook-service: every endpoint and cron that    *)
(* writes booking_requests / booking_slots, statement by statement, over   *)
(* PostgreSQL at READ COMMITTED.                                           *)
(*                                                                         *)
(*  - src/src/bookings/bookings.service.ts        the LIFF (LINE) side     *)
(*  - src/src/bookings/admin-bookings.service.ts  the staff side           *)
(*  - src/src/bookings/booking-expiry.cron.ts, booking-reminder.cron.ts    *)
(*  - src/src/bookings/booking-overlap.ts         the overlap rule         *)
(*  - src/src/bookings/booking-realtime.ts, booking-notifier.ts            *)
(*  - the triggers and the EXCLUDE constraint of the migration             *)
(*    20260904061248_add_booking_overlap_constraint                        *)
(*                                                                         *)
(* A worker is one HTTP request being served, or one cron tick.  A row has *)
(* a committed version, the newest version written, and the worker that    *)
(* holds its row lock; a statement of worker w sees the rows w wrote and,  *)
(* of every other row, the version committed when the statement runs.     *)
(***************************************************************************)
EXTENDS Naturals, FiniteSets

CONSTANTS
  Requests,     \* ids of the booking requests that may be made
  Venues,
  VenueOf,      \* a request never changes venue (schema.prisma, BookingSlot)
  Slots,        \* ids of the slots of all the requests
  RequestOf,    \* bookingRequestId of a slot
  StartAt,      \* startAt / endAt of a slot: written once, by the insert
  EndAt,
  Workers,
  Nobody,       \* the owner of a free row lock or venue lock
  NoRequest,    \* the request of a cron tick, which names none
  CancelLead,   \* booking.cancel_lead_minutes
  RemindLead,   \* BOOKING_REMINDER_LEAD_MINUTES
  MaxNow,       \* bound: the last instant of the clock
  Ops,          \* bound: the endpoints and crons that may be called
  Watched       \* bound: the requests whose screens, cards and reminders
                \* are recorded

StaffOps == {"createDirect", "approve", "reject", "cancel"}
LineOps == {"createFromLine", "cancelPendingBooking", "cancelApprovedSlot"}
CronOps == {"expireOverdue", "remindUpcoming"}
AllOps == StaffOps \cup LineOps \cup CronOps

ASSUME RequestsAssumption ==
  /\ VenueOf \in [Requests -> Venues]
  /\ NoRequest \notin Requests
ASSUME SlotsAssumption ==
  /\ RequestOf \in [Slots -> Requests]
  /\ StartAt \in [Slots -> Nat]
  /\ EndAt \in [Slots -> Nat]
ASSUME WorkersAssumption == Nobody \notin Workers
ASSUME BoundsAssumption ==
  /\ CancelLead \in Nat
  /\ RemindLead \in Nat
  /\ MaxNow \in Nat
  /\ Ops \subseteq AllOps
  /\ Watched \subseteq Requests

VARIABLES
  req, reqNew, reqLock,      \* booking_requests: committed, newest, row lock
  slot, slotNew, slotLock,   \* booking_slots
  venueLock,                 \* pg_advisory_xact_lock per venue
  tx,                        \* what each worker is doing
  now,                       \* the application clock
  screen,                    \* the status each watcher last heard of a request
  cards,                     \* the decision cards pushed to LINE
  reminders                  \* how often each slot's reminder was pushed

rows == <<req, reqNew, reqLock, slot, slotNew, slotLock>>
outside == <<screen, cards, reminders>>
vars == <<rows, venueLock, tx, now, outside>>

-----------------------------------------------------------------------------
(* The rows.                                                               *)

Statuses == {"NONE", "PENDING", "APPROVED", "REJECTED", "CANCELLED", "EXPIRED"}

(* firstStartAt / lastEndAt are kept as the set of slots they summarise;   *)
(* line says whether the row has a LINE owner (lineUserId is not null).    *)
RequestRow == [status : Statuses, span : SUBSET Slots, line : BOOLEAN]
SlotRow == [cancelled : BOOLEAN, holds : BOOLEAN, reminded : BOOLEAN]

CardKinds == {"PENDING", "APPROVED", "REJECTED", "AUTO_REJECTED", "EXPIRED",
              "CANCELLED_BY_USER", "CANCELLED_BY_STAFF"}

InTx == {"lock", "check", "losers", "insert", "flip", "refresh",
         "rejectLosers", "slots", "remaining", "request", "expire", "remind",
         "commit"}
AfterTx == {"publish", "emit", "notify"}

Idle == [op |-> "none", pc |-> "idle", r |-> NoRequest, line |-> FALSE,
         ids |-> {}, picked |-> {}, remaining |-> {},
         seen |-> [x \in Requests |-> "NONE"]]

TxState == [op : AllOps \cup {"none"}, pc : InTx \cup AfterTx \cup {"idle"},
            r : Requests \cup {NoRequest}, line : BOOLEAN,
            ids : SUBSET Requests, picked : SUBSET Slots,
            remaining : SUBSET Slots, seen : [Requests -> Statuses]]

SlotsOf(r) == {s \in Slots : RequestOf[s] = r}
RoomOf(s) == VenueOf[RequestOf[s]]

(* What a statement of worker w reads.                                     *)
ReqOf(w, r) == IF reqLock[r] = w THEN reqNew[r] ELSE req[r]
SlotOf(w, s) == IF slotLock[s] = w THEN slotNew[s] ELSE slot[s]
LiveSlots(w, r) == {s \in SlotsOf(r) : ~SlotOf(w, s).cancelled}

(* A row another transaction has written cannot be written before that     *)
(* transaction ends.                                                       *)
ReqFree(w, r) == reqLock[r] \in {Nobody, w}
SlotFree(w, s) == slotLock[s] \in {Nobody, w}

-----------------------------------------------------------------------------
(* booking-overlap.ts                                                      *)

(* Mutant of Overlaps: finds only rivals that start within the span.       *)
StartsWithin(s, t) == StartAt[s] <= StartAt[t] /\ StartAt[t] < EndAt[s]

(* Half-open [startAt, endAt): overlapOr, and tsrange(.., '[)') && in the   *)
(* constraint.                                                             *)
Overlaps(s, t) == StartAt[t] < EndAt[s] /\ EndAt[t] > StartAt[s]

(* parseSlots: each slot ends after it starts, starts after now, and none  *)
(* overlaps another of the same request.  The DTO asks for one at least.   *)
ParseSlots(r) ==
  /\ SlotsOf(r) # {}
  /\ \A s \in SlotsOf(r) : EndAt[s] > StartAt[s] /\ StartAt[s] > now
  /\ \A s, t \in SlotsOf(r) : s # t => ~Overlaps(s, t)

(* findApprovedClash: a live slot of another APPROVED request in the room. *)
ApprovedClash(w, r, spans) ==
  \E t \in Slots :
    /\ RoomOf(t) = VenueOf[r]
    /\ RequestOf[t] # r
    /\ ~SlotOf(w, t).cancelled
    /\ ReqOf(w, RequestOf[t]).status = "APPROVED"
    /\ \E s \in spans : Overlaps(s, t)

(* Mutant of PendingLosers: every PENDING request for the room loses.      *)
AllPendingOfVenue(w, r, spans) ==
  {l \in Requests \ {r} : VenueOf[l] = VenueOf[r]
                           /\ ReqOf(w, l).status = "PENDING"}

(* findPendingLosers: the PENDING requests this decision will reject.      *)
PendingLosers(w, r, spans) ==
  {l \in Requests \ {r} :
     /\ VenueOf[l] = VenueOf[r]
     /\ ReqOf(w, l).status = "PENDING"
     /\ \E t \in LiveSlots(w, l) : \E s \in spans : Overlaps(s, t)}

-----------------------------------------------------------------------------
(* The constraint booking_slots_no_overlap and the holdsSlot triggers.     *)

Collide(s, t) == s # t /\ RoomOf(s) = RoomOf(t) /\ Overlaps(s, t)

(* Entering the slots H into the partial index: wait for a rival whose     *)
(* fate another transaction is still deciding, fail on one that holds.     *)
MustWait(w, H) ==
  \E t \in Slots : /\ ~SlotFree(w, t)
                   /\ slot[t].holds \/ slotNew[t].holds
                   /\ \E s \in H : Collide(s, t)
Excluded(w, H) ==
  \E t \in Slots : /\ t \in H \/ SlotOf(w, t).holds
                   /\ \E s \in H : Collide(s, t)

(* Mutant of Refreshed: the trigger on the parent is missing.              *)
NothingRefreshed(w, r, st) == {}

(* The children whose holdsSlot the AFTER UPDATE OF status trigger changes *)
(* when w gives request r the status st, and the value it gives them.      *)
Holds(w, s, st) == ~SlotOf(w, s).cancelled /\ st = "APPROVED"
Refreshed(w, r, st) ==
  {s \in SlotsOf(r) : st # ReqOf(w, r).status
                      /\ SlotOf(w, s).holds # Holds(w, s, st)}

(* UPDATE booking_requests by w: the row, then what the trigger does.      *)
WriteRequest(w, r, row) ==
  LET kids == Refreshed(w, r, row.status)
  IN  /\ ReqFree(w, r)
      /\ \A s \in kids : SlotFree(w, s)
      /\ reqNew' = [reqNew EXCEPT ![r] = row]
      /\ reqLock' = [reqLock EXCEPT ![r] = w]
      /\ slotNew' = [s \in Slots |->
                       IF s \in kids
                       THEN [SlotOf(w, s) EXCEPT
                               !.holds = Holds(w, s, row.status)]
                       ELSE slotNew[s]]
      /\ slotLock' = [s \in Slots |-> IF s \in kids THEN w ELSE slotLock[s]]
      /\ UNCHANGED <<req, slot>>

(* UPDATE booking_slots by w; the BEFORE trigger derives holdsSlot from    *)
(* the row being written and the parent as w sees it.                      *)
WriteSlot(w, s, row) ==
  /\ SlotFree(w, s)
  /\ slotNew' = [slotNew EXCEPT ![s] =
       [row EXCEPT !.holds = ~row.cancelled
                             /\ ReqOf(w, RequestOf[s]).status = "APPROVED"]]
  /\ slotLock' = [slotLock EXCEPT ![s] = w]
  /\ UNCHANGED <<req, reqNew, reqLock, slot>>

-----------------------------------------------------------------------------
(* Transactions.                                                           *)

(* ROLLBACK: what a throw inside the callback, a dead connection, a lost   *)
(* process or being chosen as deadlock victim does.                        *)
Rollback(w) ==
  /\ reqNew' = [r \in Requests |-> IF reqLock[r] = w THEN req[r] ELSE reqNew[r]]
  /\ reqLock' = [r \in Requests |-> IF reqLock[r] = w THEN Nobody ELSE reqLock[r]]
  /\ slotNew' = [s \in Slots |-> IF slotLock[s] = w THEN slot[s] ELSE slotNew[s]]
  /\ slotLock' = [s \in Slots |-> IF slotLock[s] = w THEN Nobody ELSE slotLock[s]]
  /\ venueLock' = [v \in Venues |-> IF venueLock[v] = w THEN Nobody ELSE venueLock[v]]
  /\ tx' = [tx EXCEPT ![w] = Idle]
  /\ UNCHANGED <<req, slot, now, outside>>

Goto(w, pc) == tx' = [tx EXCEPT ![w].pc = pc]

Start(w, op, pc, r, line, picked) ==
  /\ tx[w].pc = "idle"
  /\ op \in Ops
  /\ tx' = [tx EXCEPT ![w] = [Idle EXCEPT !.op = op, !.pc = pc, !.r = r,
                                          !.line = line, !.picked = picked]]
  /\ UNCHANGED <<rows, venueLock, now, outside>>

At(w, op, pc) == tx[w].op = op /\ tx[w].pc = pc

(* BEGIN: the endpoints and crons.  What precedes the transaction reads     *)
(* only what cannot change afterwards (existence, ownership, startAt).     *)

(* POST /line-users/bookings                                               *)
CreateFromLine(w, r) ==
  /\ req[r].status = "NONE"
  /\ \A x \in Workers : tx[x].r # r
  /\ ParseSlots(r)
  /\ Start(w, "createFromLine", "check", r, TRUE, SlotsOf(r))

(* POST /booking-requests/direct, for a LINE user or for nobody on LINE.   *)
CreateDirect(w, r) ==
  /\ req[r].status = "NONE"
  /\ \A x \in Workers : tx[x].r # r
  /\ ParseSlots(r)
  /\ \E line \in BOOLEAN :
       Start(w, "createDirect", "lock", r, line, SlotsOf(r))

(* POST /booking-requests/:id/approve                                      *)
Approve(w, r) ==
  /\ req[r].status # "NONE"
  /\ Start(w, "approve", "lock", r, FALSE, {})

(* POST /booking-requests/:id/reject                                       *)
Reject(w, r) ==
  /\ req[r].status # "NONE"
  /\ Start(w, "reject", "check", r, FALSE, {})

(* POST /booking-requests/:id/cancel: the named slots, or all ({}).        *)
Cancel(w, r) ==
  /\ req[r].status # "NONE"
  /\ \E slotIds \in SUBSET SlotsOf(r) :
       Start(w, "cancel", "lock", r, FALSE, slotIds)

(* PATCH /line-users/bookings/:id/cancel, by the owner.                    *)
CancelPendingBooking(w, r) ==
  /\ req[r].status # "NONE" /\ req[r].line
  /\ Start(w, "cancelPendingBooking", "check", r, FALSE, {})

(* PATCH /line-users/bookings/:id/slots/:slotId/cancel, by the owner and   *)
(* not later than the lead time before the slot starts.                    *)
CancelApprovedSlot(w, s) ==
  /\ req[RequestOf[s]].status # "NONE" /\ req[RequestOf[s]].line
  /\ StartAt[s] > now + CancelLead
  /\ Start(w, "cancelApprovedSlot", "check", RequestOf[s], FALSE, {s})

(* The expiry UPDATE starts: the rows its snapshot selects.  firstStartAt  *)
(* is before now when some slot it summarises starts before now.           *)
Overdue(r) == /\ req[r].status = "PENDING"
              /\ \E s \in req[r].span : StartAt[s] < now

(* Mutant of ExpireOverdue: expiry by lastEndAt, the rule it superseded.   *)
ExpireOver(w) ==
  /\ tx[w].pc = "idle" /\ "expireOverdue" \in Ops
  /\ \E r \in Requests : Overdue(r) /\ \A s \in req[r].span : EndAt[s] < now
  /\ tx' = [tx EXCEPT ![w] =
       [Idle EXCEPT !.op = "expireOverdue", !.pc = "expire",
                    !.ids = {r \in Requests : Overdue(r) /\
                               \A s \in req[r].span : EndAt[s] < now}]]
  /\ UNCHANGED <<rows, venueLock, now, outside>>

ExpireOverdue(w) ==
  /\ tx[w].pc = "idle" /\ "expireOverdue" \in Ops
  /\ \E r \in Requests : Overdue(r)
  /\ tx' = [tx EXCEPT ![w] =
       [Idle EXCEPT !.op = "expireOverdue", !.pc = "expire",
                    !.ids = {r \in Requests : Overdue(r)}]]
  /\ UNCHANGED <<rows, venueLock, now, outside>>

(* The reminder claim starts.                                              *)
Due(s) == /\ ~slot[s].reminded /\ ~slot[s].cancelled
          /\ StartAt[s] > now /\ StartAt[s] <= now + RemindLead
          /\ req[RequestOf[s]].status = "APPROVED"
          /\ req[RequestOf[s]].line
RemindUpcoming(w) ==
  /\ \E s \in Slots : Due(s)
  /\ Start(w, "remindUpcoming", "remind", NoRequest, FALSE,
           {s \in Slots : Due(s)})

-----------------------------------------------------------------------------
(* The statements of the transactions.                                     *)

(* Mutant of LockVenue: no lock is taken.                                  *)
LockNothing(w) == /\ tx[w].pc = "lock"
                  /\ Goto(w, "check")
                  /\ UNCHANGED <<rows, venueLock, now, outside>>

(* SELECT pg_advisory_xact_lock(.., hashtext(venueId))                     *)
LockVenue(w) ==
  LET v == VenueOf[tx[w].r]
  IN  /\ tx[w].pc = "lock"
      /\ venueLock[v] = Nobody
      /\ venueLock' = [venueLock EXCEPT ![v] = w]
      /\ Goto(w, "check")
      /\ UNCHANGED <<rows, now, outside>>

(* The reads a decision is made on.  Each is an alternative of "check": it *)
(* passes to the next statement or throws, which rolls back.               *)
Pass(w, next) == tx' = [tx EXCEPT ![w] = next]
                 /\ UNCHANGED <<rows, venueLock, now, outside>>

CheckCreate(w) ==
  /\ tx[w].op \in {"createFromLine", "createDirect"} /\ tx[w].pc = "check"
  /\ IF ApprovedClash(w, tx[w].r, tx[w].picked)
     THEN Rollback(w)
     ELSE Pass(w, [tx[w] EXCEPT !.pc = IF tx[w].op = "createDirect"
                                       THEN "losers" ELSE "insert"])

CheckApprove(w) ==
  LET r == tx[w].r
      live == LiveSlots(w, r)
  IN  /\ At(w, "approve", "check")
      /\ IF ReqOf(w, r).status # "PENDING" \/ live = {}
            \/ ApprovedClash(w, r, live)
         THEN Rollback(w)
         ELSE Pass(w, [tx[w] EXCEPT !.pc = "losers", !.picked = live])

CheckPending(w) ==
  /\ tx[w].op \in {"reject", "cancelPendingBooking"} /\ tx[w].pc = "check"
  /\ IF ReqOf(w, tx[w].r).status # "PENDING"
     THEN Rollback(w)
     ELSE Pass(w, [tx[w] EXCEPT !.pc = "flip"])

CheckSlot(w) ==
  /\ At(w, "cancelApprovedSlot", "check")
  /\ IF ReqOf(w, tx[w].r).status # "APPROVED"
        \/ \E s \in tx[w].picked : SlotOf(w, s).cancelled
     THEN Rollback(w)
     ELSE Pass(w, [tx[w] EXCEPT !.pc = "slots"])

CheckCancel(w) ==
  LET r == tx[w].r
      live == LiveSlots(w, r)
      targets == IF tx[w].picked = {} THEN live ELSE tx[w].picked
  IN  /\ At(w, "cancel", "check")
      /\ IF ReqOf(w, r).status # "APPROVED" \/ live = {}
            \/ ~(targets \subseteq live)
         THEN Rollback(w)
         ELSE Pass(w, [tx[w] EXCEPT !.pc = "slots", !.picked = targets,
                                    !.remaining = live \ targets])

(* The losers, collected before the deciding request's own status flips.   *)
FindPendingLosers(w) ==
  /\ tx[w].pc = "losers"
  /\ Pass(w, [tx[w] EXCEPT
                !.pc = IF tx[w].op = "approve" THEN "flip" ELSE "insert",
                !.ids = PendingLosers(w, tx[w].r, tx[w].picked)])

(* INSERT of the request and its slots.  A booking born APPROVED enters    *)
(* its slots into the exclusion index.                                     *)
Insert(w) ==
  LET r == tx[w].r
      direct == tx[w].op = "createDirect"
      born == IF direct THEN "APPROVED" ELSE "PENDING"
      held == IF direct THEN SlotsOf(r) ELSE {}
  IN  /\ tx[w].pc = "insert"
      /\ ReqFree(w, r) /\ \A s \in SlotsOf(r) : SlotFree(w, s)
      /\ ~MustWait(w, held)
      /\ IF Excluded(w, held)
         THEN Rollback(w)
         ELSE /\ reqNew' = [reqNew EXCEPT ![r] =
                   [status |-> born, span |-> SlotsOf(r), line |-> tx[w].line]]
              /\ reqLock' = [reqLock EXCEPT ![r] = w]
              /\ slotNew' = [s \in Slots |->
                   IF RequestOf[s] = r
                   THEN [cancelled |-> FALSE, holds |-> direct,
                         reminded |-> FALSE]
                   ELSE slotNew[s]]
              /\ slotLock' = [s \in Slots |->
                   IF RequestOf[s] = r THEN w ELSE slotLock[s]]
              /\ Goto(w, IF direct THEN "rejectLosers" ELSE "commit")
              /\ UNCHANGED <<req, slot, venueLock, now, outside>>

(* The booking code collided (P2002): the transaction is rolled back and   *)
(* run again from its first statement.  BookingCode counts the attempts.   *)
CodeCollision(w) ==
  /\ tx[w].pc = "insert"
  /\ venueLock' = [v \in Venues |-> IF venueLock[v] = w THEN Nobody ELSE venueLock[v]]
  /\ tx' = [tx EXCEPT ![w].ids = {},
                      ![w].pc = IF tx[w].op = "createDirect"
                                THEN "lock" ELSE "check"]
  /\ UNCHANGED <<rows, now, outside>>

(* Mutant of FlippedTo: a status that is not in the enum.                  *)
FlippedToRefused == [approve |-> "APPROVED", reject |-> "REFUSED",
                     cancelPendingBooking |-> "CANCELLED"]

(* UPDATE .. SET status WHERE id AND status = 'PENDING'; a count other     *)
(* than 1 throws.  The row is locked first.                                *)
FlippedTo == [approve |-> "APPROVED", reject |-> "REJECTED",
              cancelPendingBooking |-> "CANCELLED"]
Flip(w) ==
  LET r == tx[w].r
  IN  /\ tx[w].pc = "flip"
      /\ IF req[r].status # "PENDING"
         THEN Rollback(w)
         ELSE /\ reqLock[r] = Nobody
              /\ reqLock' = [reqLock EXCEPT ![r] = w]
              /\ Goto(w, "refresh")
              /\ UNCHANGED <<req, reqNew, slot, slotNew, slotLock>>
              /\ UNCHANGED <<venueLock, now, outside>>

(* The row's new version and the trigger: approving enters the live slots  *)
(* into the index, and waits there with the row locked.                    *)
Refresh(w) ==
  LET r == tx[w].r
      st == FlippedTo[tx[w].op]
      held == {s \in SlotsOf(r) : Holds(w, s, st)}
  IN  /\ tx[w].pc = "refresh"
      /\ ~MustWait(w, held)
      /\ IF Excluded(w, held)
         THEN Rollback(w)
         ELSE /\ WriteRequest(w, r, [ReqOf(w, r) EXCEPT !.status = st])
              /\ tx' = [tx EXCEPT ![w].pc =
                   CASE tx[w].op = "approve" -> "rejectLosers"
                     [] tx[w].op = "reject" -> "commit"
                     [] OTHER -> "slots",
                   ![w].picked = IF tx[w].op = "cancelPendingBooking"
                                 THEN LiveSlots(w, r) ELSE @]
              /\ UNCHANGED <<venueLock, now, outside>>

(* Mutant of ToReject: no status = 'PENDING' in the WHERE.                 *)
ToRejectAny(w) == {l \in tx[w].ids : reqLock[l] # w}

(* rejectLosers: UPDATE .. WHERE id IN (losers) AND status = 'PENDING', a  *)
(* row at a time.  A loser no longer PENDING is passed over and stays in   *)
(* the list that is returned.                                              *)
ToReject(w) == {l \in tx[w].ids : reqLock[l] # w /\ req[l].status = "PENDING"}
RejectLosers(w) ==
  /\ tx[w].pc = "rejectLosers"
  /\ \/ \E l \in ToReject(w) :
          /\ WriteRequest(w, l, [req[l] EXCEPT !.status = "REJECTED"])
          /\ UNCHANGED <<tx, venueLock, now, outside>>
     \/ /\ ToReject(w) = {}
        /\ Pass(w, [tx[w] EXCEPT !.pc = "commit"])

(* UPDATE booking_slots SET isCancelled .. WHERE NOT isCancelled, a row at *)
(* a time.  A target cancelled meanwhile makes the count fall short: the   *)
(* two slot cancellations throw, the withdrawal does not look.             *)
CancelSlots(w) ==
  LET todo == {s \in tx[w].picked : slotLock[s] # w}
      gone == {s \in todo : slot[s].cancelled}
  IN  /\ tx[w].pc = "slots"
      /\ \/ /\ gone # {}
            /\ IF tx[w].op = "cancelPendingBooking"
               THEN Pass(w, [tx[w] EXCEPT !.picked = @ \ gone])
               ELSE Rollback(w)
         \/ \E s \in todo \ gone :
              /\ WriteSlot(w, s, [slot[s] EXCEPT !.cancelled = TRUE])
              /\ UNCHANGED <<tx, venueLock, now, outside>>
         \/ /\ todo = {}
            /\ Pass(w, [tx[w] EXCEPT !.pc =
                 CASE tx[w].op = "cancelPendingBooking" -> "commit"
                   [] tx[w].op = "cancelApprovedSlot" -> "remaining"
                   [] OTHER -> "request"])

(* Mutant of ReadRemaining: looks only at the slots that come later.       *)
ReadRemainingLater(w) ==
  /\ tx[w].pc = "remaining"
  /\ Pass(w, [tx[w] EXCEPT !.pc = "request",
       !.remaining = {s \in LiveSlots(w, tx[w].r) :
                        \A t \in tx[w].picked : StartAt[s] > StartAt[t]}])

(* cancelApprovedSlot reads back what is still live.                       *)
ReadRemaining(w) ==
  /\ tx[w].pc = "remaining"
  /\ Pass(w, [tx[w] EXCEPT !.pc = "request",
                           !.remaining = LiveSlots(w, tx[w].r)])

(* Mutant of UpdateRequest: any cancelled slot closes the request.         *)
UpdateRequestAlwaysCloses(w) ==
  /\ tx[w].pc = "request"
  /\ WriteRequest(w, tx[w].r, [ReqOf(w, tx[w].r) EXCEPT !.status = "CANCELLED"])
  /\ Goto(w, "commit")
  /\ UNCHANGED <<venueLock, now, outside>>

(* Both slot cancellations end with an unconditional UPDATE of the parent: *)
(* CANCELLED when nothing remains, else the span of what remains.          *)
UpdateRequest(w) ==
  LET r == tx[w].r
      row == IF tx[w].remaining = {}
             THEN [ReqOf(w, r) EXCEPT !.status = "CANCELLED"]
             ELSE [ReqOf(w, r) EXCEPT !.span = tx[w].remaining]
  IN  /\ tx[w].pc = "request"
      /\ WriteRequest(w, r, row)
      /\ Goto(w, "commit")
      /\ UNCHANGED <<venueLock, now, outside>>

(* Mutant of ExpireRows: announces the rows of an earlier read instead of  *)
(* the RETURNING set.                                                      *)
ExpireRowsReportsRead(w) ==
  LET todo == {r \in tx[w].ids : reqLock[r] # w /\ req[r].status = "PENDING"}
  IN  /\ tx[w].pc = "expire"
      /\ \/ \E r \in todo :
              /\ WriteRequest(w, r, [req[r] EXCEPT !.status = "EXPIRED"])
              /\ UNCHANGED <<tx, venueLock, now, outside>>
         \/ todo = {} /\ Pass(w, [tx[w] EXCEPT !.pc = "commit"])

(* Mutant of ExpireRows: SELECT, then UPDATE by id.                        *)
ExpireRowsById(w) ==
  LET todo == {r \in tx[w].ids : reqLock[r] # w}
  IN  /\ tx[w].pc = "expire"
      /\ \/ \E r \in todo :
              /\ WriteRequest(w, r, [req[r] EXCEPT !.status = "EXPIRED"])
              /\ UNCHANGED <<tx, venueLock, now, outside>>
         \/ todo = {} /\ Pass(w, [tx[w] EXCEPT !.pc = "commit"])

(* The expiry UPDATE, a row at a time: a row ruled on before its lock was  *)
(* granted is skipped and not returned.                                    *)
ExpireRows(w) ==
  LET todo == {r \in tx[w].ids : reqLock[r] # w}
      gone == {r \in todo : req[r].status # "PENDING"}
  IN  /\ tx[w].pc = "expire"
      /\ \/ gone # {} /\ Pass(w, [tx[w] EXCEPT !.ids = @ \ gone])
         \/ \E r \in todo \ gone :
              /\ WriteRequest(w, r, [req[r] EXCEPT !.status = "EXPIRED"])
              /\ UNCHANGED <<tx, venueLock, now, outside>>
         \/ todo = {} /\ Pass(w, [tx[w] EXCEPT !.pc = "commit"])

(* Mutant of ClaimReminders: the guard is not looked at under the lock.    *)
ClaimRemindersById(w) ==
  LET todo == {s \in tx[w].picked : slotLock[s] # w}
  IN  /\ tx[w].pc = "remind"
      /\ \/ \E s \in todo :
              /\ WriteSlot(w, s, [slot[s] EXCEPT !.reminded = TRUE])
              /\ UNCHANGED <<tx, venueLock, now, outside>>
         \/ todo = {} /\ Pass(w, [tx[w] EXCEPT !.pc = "commit"])

(* Mutant of ClaimReminders: saves the whole row as it was read.           *)
ClaimRemindersSaves(w) ==
  LET todo == {s \in tx[w].picked : slotLock[s] # w}
  IN  /\ tx[w].pc = "remind"
      /\ \/ \E s \in todo :
              /\ WriteSlot(w, s, [slot[s] EXCEPT !.reminded = TRUE,
                                                !.cancelled = FALSE])
              /\ UNCHANGED <<tx, venueLock, now, outside>>
         \/ todo = {} /\ Pass(w, [tx[w] EXCEPT !.pc = "commit"])

(* The reminder claim, a row at a time: the slot's own columns are looked  *)
(* at again under its lock.                                                *)
ClaimReminders(w) ==
  LET todo == {s \in tx[w].picked : slotLock[s] # w}
      gone == {s \in todo : slot[s].reminded \/ slot[s].cancelled}
  IN  /\ tx[w].pc = "remind"
      /\ \/ gone # {} /\ Pass(w, [tx[w] EXCEPT !.picked = @ \ gone])
         \/ \E s \in todo \ gone :
              /\ WriteSlot(w, s, [slot[s] EXCEPT !.reminded = TRUE])
              /\ UNCHANGED <<tx, venueLock, now, outside>>
         \/ todo = {} /\ Pass(w, [tx[w] EXCEPT !.pc = "commit"])

(* Mutant of Announced: only the subject of the decision.                  *)
AnnouncedSubject(w) == {tx[w].r} \ {NoRequest}

(* What follows the commit announces the request and every loser, or every *)
(* expired row.                                                            *)
Announced(w) == tx[w].ids \cup ({tx[w].r} \ {NoRequest})

(* Mutant of Commit: the advisory lock belongs to the session and not to   *)
(* the transaction.                                                        *)
CommitKeepsVenueLock(w) ==
  /\ tx[w].pc = "commit"
  /\ req' = [r \in Requests |-> ReqOf(w, r)]
  /\ slot' = [s \in Slots |-> SlotOf(w, s)]
  /\ reqLock' = [r \in Requests |-> IF reqLock[r] = w THEN Nobody ELSE reqLock[r]]
  /\ slotLock' = [s \in Slots |-> IF slotLock[s] = w THEN Nobody ELSE slotLock[s]]
  /\ tx' = [tx EXCEPT ![w] =
       IF tx[w].op = "remindUpcoming"
       THEN IF tx[w].picked = {} THEN Idle ELSE [@ EXCEPT !.pc = "notify"]
       ELSE IF Announced(w) = {} THEN Idle
            ELSE [@ EXCEPT !.pc = "publish", !.ids = Announced(w)]]
  /\ UNCHANGED <<reqNew, slotNew, venueLock, now, outside>>

(* COMMIT: what w wrote becomes visible and its locks are released.        *)
Commit(w) ==
  /\ tx[w].pc = "commit"
  /\ req' = [r \in Requests |-> ReqOf(w, r)]
  /\ slot' = [s \in Slots |-> SlotOf(w, s)]
  /\ reqLock' = [r \in Requests |-> IF reqLock[r] = w THEN Nobody ELSE reqLock[r]]
  /\ slotLock' = [s \in Slots |-> IF slotLock[s] = w THEN Nobody ELSE slotLock[s]]
  /\ venueLock' = [v \in Venues |-> IF venueLock[v] = w THEN Nobody ELSE venueLock[v]]
  /\ tx' = [tx EXCEPT ![w] =
       IF tx[w].op = "remindUpcoming"
       THEN IF tx[w].picked = {} THEN Idle ELSE [@ EXCEPT !.pc = "notify"]
       ELSE IF Announced(w) = {} THEN Idle
            ELSE [@ EXCEPT !.pc = "publish", !.ids = Announced(w)]]
  /\ UNCHANGED <<reqNew, slotNew, now, outside>>

-----------------------------------------------------------------------------
(* After the commit: the realtime fan-out and the LINE cards.              *)

(* Mutant of PublishRead: reads rows that are not committed.               *)
PublishReadDirty(w) ==
  /\ tx[w].pc = "publish"
  /\ Pass(w, [tx[w] EXCEPT !.pc = "emit",
                !.seen = [x \in Requests |-> IF x \in tx[w].ids \cap Watched
                                             THEN reqNew[x].status ELSE "NONE"]])

(* publishBookingRequests re-reads the rows, and emits when they arrive.   *)
PublishRead(w) ==
  /\ tx[w].pc = "publish"
  /\ Pass(w, [tx[w] EXCEPT !.pc = "emit",
                !.seen = [x \in Requests |-> IF x \in tx[w].ids \cap Watched
                                             THEN req[x].status ELSE "NONE"]])

(* Fail-soft: a fan-out that fails is logged and the handler goes on.      *)
Emit(w) ==
  /\ tx[w].pc = "emit"
  /\ \E heard \in BOOLEAN :
       screen' = [x \in Requests |-> IF heard /\ tx[w].seen[x] # "NONE"
                                     THEN tx[w].seen[x] ELSE screen[x]]
  /\ tx' = [tx EXCEPT ![w].pc = "notify", ![w].seen = Idle.seen]
  /\ UNCHANGED <<rows, venueLock, now, cards, reminders>>

CardFor == [createFromLine |-> "PENDING", createDirect |-> "APPROVED",
            approve |-> "APPROVED", reject |-> "REJECTED",
            cancelPendingBooking |-> "CANCELLED_BY_USER",
            cancelApprovedSlot |-> "CANCELLED_BY_USER",
            cancel |-> "CANCELLED_BY_STAFF", expireOverdue |-> "EXPIRED",
            remindUpcoming |-> "NONE"]

(* The notices a handler passes to notifyDecisions.  The card's kind is    *)
(* the caller's word, not read back from the row.                          *)
Notices(w) ==
  IF tx[w].op = "expireOverdue" THEN tx[w].ids \X {"EXPIRED"}
  ELSE {<<tx[w].r, CardFor[tx[w].op]>>}
       \cup (tx[w].ids \ {tx[w].r}) \X {"AUTO_REJECTED"}

(* Rows with a LINE owner only; an unfollowed owner, an opt-out and a      *)
(* failed push all mean that the card is not sent.                         *)
NotifyDecisions(w) ==
  /\ tx[w].pc = "notify" /\ tx[w].op # "remindUpcoming"
  /\ \E sent \in SUBSET {n \in Notices(w) :
                           n[1] \in Watched /\ req[n[1]].line} :
       cards' = cards \cup sent
  /\ tx' = [tx EXCEPT ![w] = Idle]
  /\ UNCHANGED <<rows, venueLock, now, screen, reminders>>

NotifyReminders(w) ==
  /\ At(w, "remindUpcoming", "notify")
  /\ \E sent \in SUBSET {s \in tx[w].picked : RequestOf[s] \in Watched} :
       reminders' = [s \in Slots |-> IF s \in sent THEN reminders[s] + 1
                                     ELSE reminders[s]]
  /\ tx' = [tx EXCEPT ![w] = Idle]
  /\ UNCHANGED <<rows, venueLock, now, screen, cards>>

-----------------------------------------------------------------------------
(* A transaction ends without committing: an error of the database, the    *)
(* deadlock detector (40P01, a 409 to the caller), a lost process.         *)
Abort(w) == tx[w].pc \in InTx /\ Rollback(w)

(* The process is lost between the commit and the end of the handler.      *)
Crash(w) ==
  /\ tx[w].pc \in AfterTx
  /\ tx' = [tx EXCEPT ![w] = Idle]
  /\ UNCHANGED <<rows, venueLock, now, outside>>

Tick == /\ now < MaxNow
        /\ now' = now + 1
        /\ UNCHANGED <<rows, venueLock, tx, outside>>

Begin(w) ==
  \/ \E r \in Requests :
       \/ CreateFromLine(w, r) \/ CreateDirect(w, r)
       \/ Approve(w, r) \/ Reject(w, r) \/ Cancel(w, r)
       \/ CancelPendingBooking(w, r)
  \/ \E s \in Slots : CancelApprovedSlot(w, s)
  \/ ExpireOverdue(w)
  \/ RemindUpcoming(w)

(* A statement of the handler, under way on its own.                       *)
Proceed(w) ==
  \/ LockVenue(w) \/ CheckCreate(w) \/ CheckApprove(w) \/ CheckPending(w)
  \/ CheckSlot(w) \/ CheckCancel(w) \/ FindPendingLosers(w) \/ Insert(w)
  \/ Flip(w) \/ Refresh(w) \/ RejectLosers(w) \/ CancelSlots(w)
  \/ ReadRemaining(w) \/ UpdateRequest(w) \/ ExpireRows(w) \/ ClaimReminders(w) \/ Commit(w)
  \/ PublishRead(w) \/ Emit(w) \/ NotifyDecisions(w) \/ NotifyReminders(w)

Next ==
  \/ Tick
  \/ \E w \in Workers :
       Begin(w) \/ Proceed(w) \/ CodeCollision(w) \/ Abort(w) \/ Crash(w)

NoRow == [status |-> "NONE", span |-> {}, line |-> FALSE]
NoSlot == [cancelled |-> FALSE, holds |-> FALSE, reminded |-> FALSE]

Init ==
  /\ req = [r \in Requests |-> NoRow]   /\ reqNew = req
  /\ reqLock = [r \in Requests |-> Nobody]
  /\ slot = [s \in Slots |-> NoSlot]    /\ slotNew = slot
  /\ slotLock = [s \in Slots |-> Nobody]
  /\ venueLock = [v \in Venues |-> Nobody]
  /\ tx = [w \in Workers |-> Idle]
  /\ now = 0
  /\ screen = [r \in Requests |-> "NONE"]
  /\ cards = {}
  /\ reminders = [s \in Slots |-> 0]

Spec == Init /\ [][Next]_vars
=============================================================================
