------------------------- MODULE BookingOutcomeProofs ------------------------
(***************************************************************************)
(* What becomes of a booking and what is told of it, for any requests,     *)
(* slots, rooms and workers: slots never revive, screens and cards state   *)
(* the truth, nobody is reminded twice, the exclusion constraint is a last *)
(* resort, decisions do not deadlock, and the commits are the steps of     *)
(* RoomCalendar.                                                           *)
(*                                                                         *)
(* The argument: OutcomeInvariant is inductive on top of RowInvariant.  A  *)
(* step of one handler leaves the others what they know (Leaves); what it  *)
(* has itself written and may tell is established action by action.        *)
(***************************************************************************)
EXTENDS BookingsProofs

(* What a step of w leaves to the other handlers.                          *)
Leaves(w) ==
  /\ \A x \in Workers \ {w} :
       /\ tx'[x] = tx[x]
       /\ \A r \in Requests :
            /\ reqLock'[r] = x <=> reqLock[r] = x
            /\ reqLock[r] = x => req'[r] = req[r] /\ reqNew'[r] = reqNew[r]
       /\ \A s \in Slots :
            /\ slotLock'[s] = x <=> slotLock[s] = x
            /\ slotLock[s] = x => slot'[s] = slot[s] /\ slotNew'[s] = slotNew[s]
       /\ \A v \in Venues : venueLock'[v] = x <=> venueLock[v] = x
  /\ \A r \in Requests :
       /\ req'[r].status = req[r].status \/ <<req[r].status, req'[r].status>> \in Moves
       /\ req'[r].status = "APPROVED"
            => req[r].status = "APPROVED" \/ venueLock[VenueOf[r]] = w
  /\ \A s \in Slots :
       /\ slot[s].cancelled => slot'[s].cancelled
       /\ slot[s].reminded => slot'[s].reminded
       /\ slot'[s].holds => slot[s].holds \/ venueLock[RoomOf(s)] = w
       /\ reminders'[s] = reminders[s] \/ (Reminding(w) /\ s \in tx[w].picked)

-----------------------------------------------------------------------------
(* Statuses.                                                               *)

(* A status that was told stays one the request has had.                   *)
LEMMA SinceGrows ==
  ASSUME NEW p \in Statuses, NEW q \in Statuses, NEW n \in Since[p],
         q = p \/ <<p, q>> \in Moves
  PROVE  n \in Since[q]
BY DEF Since, Moves, Statuses

(* A status has been had by the request that has it; so has NONE.          *)
LEMMA SinceItself ==
  ASSUME NEW p \in Statuses
  PROVE  p \in Since[p] /\ "NONE" \in Since[p]
BY DEF Since, Statuses

(* What a card said stays true.                                            *)
LEMMA CardStaysTrue ==
  ASSUME TypeOK, TypeOK', NEW r \in Requests, NEW kind, CardTrue(r, kind),
         req'[r].status = req[r].status \/ <<req[r].status, req'[r].status>> \in Moves,
         \A s \in Slots : slot[s].cancelled => slot'[s].cancelled
  PROVE  CardTrue(r, kind)'
<1>1. (\E s \in SlotsOf(r) : slot[s].cancelled)
        => \E s \in SlotsOf(r) : slot'[s].cancelled
  BY DEF SlotsOf
<1>2. /\ req[r].status # "NONE" => req'[r].status # "NONE"
      /\ req[r].status \in {"APPROVED", "CANCELLED"}
           => req'[r].status \in {"APPROVED", "CANCELLED"}
      /\ req[r].status = "REJECTED" => req'[r].status = "REJECTED"
      /\ req[r].status = "EXPIRED" => req'[r].status = "EXPIRED"
  BY DEF Moves
<1>3. CASE kind = "PENDING"
  BY <1>2, <1>3 DEF CardTrue
<1>4. CASE kind = "APPROVED"
  BY <1>2, <1>4 DEF CardTrue
<1>5. CASE kind \in {"REJECTED", "AUTO_REJECTED"}
  BY <1>2, <1>5 DEF CardTrue
<1>6. CASE kind = "EXPIRED"
  BY <1>2, <1>6 DEF CardTrue
<1>7. CASE kind \notin {"PENDING", "APPROVED", "REJECTED", "AUTO_REJECTED", "EXPIRED"}
  BY <1>1, <1>7 DEF CardTrue
<1> QED
  BY <1>3, <1>4, <1>5, <1>6, <1>7

-----------------------------------------------------------------------------
(* The other handlers.                                                     *)

(* The request of a handler that is under way and no cron.                 *)
LEMMA SubjectKnown ==
  ASSUME TypeOK, NEW x \in Workers, Route(tx[x]), tx[x].pc # "idle",
         tx[x].op \notin Sweeps
  PROVE  tx[x].r \in Requests
BY DEF TypeOK, TxState, Route

(* A step of w takes nothing that another handler knows.                   *)
LEMMA OthersKnow ==
  ASSUME TypeOK, TypeOK', RemindedOnce, NEW w \in Workers, Leaves(w),
         NEW x \in Workers \ {w}, Outcome(x), CleanHandler(x)
  PROVE  Outcome(x)'
<1> USE SlotsAssumption, RequestsAssumption
<1>1. /\ tx'[x] = tx[x] /\ tx[x] \in TxState /\ Route(tx[x])
      /\ WroteRequests(x) /\ WroteSlots(x) /\ Done(x) /\ Losers(x) /\ Subject(x)
      /\ VenueHeld(x) /\ Unrivalled(x) /\ Heard(x) /\ Tells(x)
  BY DEF Leaves, Outcome, TypeOK
<1>2. /\ \A r \in Requests : 
            /\ reqLock'[r] = x <=> reqLock[r] = x
            /\ reqLock[r] = x => req'[r] = req[r] /\ reqNew'[r] = reqNew[r]
      /\ \A s \in Slots :
            /\ slotLock'[s] = x <=> slotLock[s] = x
            /\ slotLock[s] = x => slot'[s] = slot[s] /\ slotNew'[s] = slotNew[s]
      /\ \A v \in Venues : venueLock'[v] = x <=> venueLock[v] = x
  BY DEF Leaves
<1>3. tx[x].pc # "idle" /\ tx[x].op \notin Sweeps => tx[x].r \in Requests
  BY <1>1, SubjectKnown
<1>4. Route(tx[x])'
  BY <1>1 DEF Route, SlotsOf
<1>5. WroteRequests(x)'
  BY <1>1, <1>2 DEF WroteRequests, WroteRequest
<1>6. WroteSlots(x)'
  BY <1>1, <1>2 DEF WroteSlots, WroteSlot
<1>7. Done(x)'
  <2>1. \A s \in Slots : SlotOf(x, s).cancelled => SlotOf(x, s)'.cancelled
    BY <1>2 DEF SlotOf, Leaves
  <2>2. \A s \in SlotsOf(tx[x].r) : s \in Slots
    BY DEF SlotsOf
  <2>3. /\ tx[x].picked \subseteq Slots /\ tx[x].ids \subseteq Requests
        /\ tx[x].op \in Creates \cup SlotCancels \cup Withdraws \cup {"approve", "reject"}
             /\ tx[x].pc # "idle"
             => tx[x].r \in Requests
    BY <1>1, <1>3 DEF TxState, Sweeps, Creates, SlotCancels, Withdraws
  <2>4. tx[x].op \in Creates /\ tx[x].pc \in {"rejectLosers", "commit"}
          => reqLock'[tx[x].r] = x
    BY <1>1, <1>2, <2>3 DEF Done
  <2>5. tx[x].op \in {"approve", "reject", "cancelPendingBooking"}
           /\ tx[x].pc \in {"refresh", "rejectLosers", "slots", "commit"}
           => reqLock'[tx[x].r] = x
    BY <1>1, <1>2, <2>3 DEF Done, Withdraws
  <2>6. tx[x].op \in Withdraws /\ tx[x].pc = "slots"
           => \A s \in SlotsOf(tx[x].r) : s \in tx[x].picked \/ slot'[s].cancelled
    BY <1>1, <2>2 DEF Done, Leaves
  <2>7. tx[x].op \in Withdraws /\ tx[x].pc = "commit"
           => \A s \in SlotsOf(tx[x].r) : SlotOf(x, s)'.cancelled
    BY <1>1, <2>1, <2>2 DEF Done
  <2>8. tx[x].op \in SlotCancels /\ tx[x].pc = "commit"
           => /\ reqLock'[tx[x].r] = x /\ tx[x].picked # {}
              /\ \A s \in tx[x].picked : slotLock'[s] = x
    BY <1>1, <1>2, <2>3 DEF Done
  <2>9. /\ tx[x].op = "expireOverdue" /\ tx[x].pc = "commit"
             => \A r \in tx[x].ids : reqLock'[r] = x
        /\ tx[x].op = "remindUpcoming" /\ tx[x].pc = "commit"
             => \A s \in tx[x].picked : slotLock'[s] = x
    BY <1>1, <1>2, <2>3 DEF Done
  <2> QED
    BY <1>1, <2>4, <2>5, <2>6, <2>7, <2>8, <2>9 DEF Done, SlotsOf
<1>8. Losers(x)'
  BY <1>1 DEF Losers, Rivals, SlotsOf, Collide, RoomOf, Overlaps
<1>9. Subject(x)'
  <2>1. \A r \in Requests : req[r].status # "NONE" => req'[r].status # "NONE"
    BY DEF Leaves, Moves
  <2> QED
    BY <1>1, <1>3, <2>1 DEF Subject, WellParsed, SlotsOf, Overlaps
<1>10. VenueHeld(x)'
  <2>1. tx[x].op \in TakesVenueLock /\ tx[x].pc \in InTx => VenueOf[tx[x].r] \in Venues
    BY <1>3 DEF TakesVenueLock, Decides, Sweeps, InTx
  <2> QED
    BY <1>1, <1>2, <2>1 DEF VenueHeld
<1>11. Unrivalled(x)'
  <2> SUFFICES ASSUME tx[x].op \in Decides,
                      tx[x].pc \in {"losers", "flip", "refresh", "insert"}
               PROVE  /\ req'[tx[x].r].status # "APPROVED"
                      /\ \A s \in tx[x].picked, u \in Slots :
                           slot'[u].holds => ~Collide(s, u)
    BY <1>1 DEF Unrivalled, Collide, RoomOf, Overlaps
  <2>1. tx[x].r \in Requests
    BY <1>3 DEF Decides, Sweeps
  <2>2. venueLock[VenueOf[tx[x].r]] = x
    BY <1>1 DEF VenueHeld, TakesVenueLock, InTx
  <2>3. \A s \in tx[x].picked : s \in Slots /\ RoomOf(s) = VenueOf[tx[x].r]
    BY <1>1, <2>1 DEF Route, SlotsOf, RoomOf, Decides
  <2>4. /\ req[tx[x].r].status # "APPROVED"
        /\ \A s \in tx[x].picked, u \in Slots : slot[u].holds => ~Collide(s, u)
    BY <1>1 DEF Unrivalled
  <2>5. req'[tx[x].r].status # "APPROVED"
    BY <2>1, <2>2, <2>4 DEF Leaves
  <2>6. \A s \in tx[x].picked, u \in Slots : slot'[u].holds => ~Collide(s, u)
    BY <2>2, <2>3, <2>4 DEF Leaves, Collide
  <2> QED
    BY <2>5, <2>6
<1>12. Heard(x)'
  <2> SUFFICES ASSUME NEW r \in Requests
               PROVE  tx[x].seen[r] \in Since[req'[r].status]
    BY <1>1 DEF Heard
  <2>1. req[r].status \in Statuses /\ req'[r].status \in Statuses
    BY DEF TypeOK, RequestRow
  <2>2. tx[x].seen[r] \in Since[req[r].status]
    BY <1>1 DEF Heard
  <2>3. \/ req'[r].status = req[r].status
        \/ <<req[r].status, req'[r].status>> \in Moves
    BY DEF Leaves
  <2> QED
    BY <2>1, <2>2, <2>3, SinceGrows
<1>13. Tells(x)'
  <2> SUFFICES ASSUME tx[x].pc \in AfterTx
               PROVE  Tells(x)'
    BY <1>1 DEF Tells
  <2>1. CASE tx[x].op = "expireOverdue"
    <3>1. \A r \in tx[x].ids : r \in Requests /\ req[r].status = "EXPIRED"
      BY <1>1, <2>1 DEF Tells, TxState
    <3>2. \A r \in tx[x].ids : req'[r].status = "EXPIRED"
      BY <3>1 DEF Leaves, Moves
    <3> QED
      BY <1>1, <2>1, <3>2 DEF Tells
  <2>2. CASE tx[x].op = "remindUpcoming"
    <3>1. \A s \in tx[x].picked : s \in Slots /\ slot[s].reminded /\ reminders[s] = 0
      BY <1>1, <2>2 DEF Tells, TxState
    <3>2. Reminding(x)
      BY <1>1, <2>2 DEF Reminding, Route, AfterTx
    <3>3. \A s \in tx[x].picked : slot'[s].reminded /\ reminders'[s] = 0
      BY <3>1, <3>2 DEF Leaves, RemindedOnce
    <3> QED
      BY <1>1, <2>2, <3>3 DEF Tells
  <2>3. CASE tx[x].op \notin Sweeps
    <3>1. tx[x].r \in Requests /\ CardTrue(tx[x].r, CardFor[tx[x].op])
      BY <1>1, <1>3, <2>3 DEF Tells, Sweeps, AfterTx
    <3>2. CardTrue(tx[x].r, CardFor[tx[x].op])'
      BY <3>1, <1>1, CardStaysTrue DEF Leaves
    <3> QED
      BY <1>1, <2>3, <3>2 DEF Tells, Sweeps
  <2> QED
    BY <2>1, <2>2, <2>3 DEF Sweeps
<1> QED
  BY <1>4, <1>5, <1>6, <1>7, <1>8, <1>9, <1>10, <1>11, <1>12, <1>13 DEF Outcome

-----------------------------------------------------------------------------
(* Steps that touch neither committed rows nor the outside.                *)

Works(w) ==
  /\ UNCHANGED <<req, slot, outside>>
  /\ \A x \in Workers \ {w} :
       /\ tx'[x] = tx[x]
       /\ \A r \in Requests :
            /\ reqLock'[r] = x <=> reqLock[r] = x
            /\ reqLock[r] = x => reqNew'[r] = reqNew[r]
       /\ \A s \in Slots :
            /\ slotLock'[s] = x <=> slotLock[s] = x
            /\ slotLock[s] = x => slotNew'[s] = slotNew[s]
       /\ \A v \in Venues : venueLock'[v] = x <=> venueLock[v] = x

(* Working leaves the others what they know.                               *)
LEMMA WorksLeaves ==
  ASSUME NEW w \in Workers, Works(w)
  PROVE  Leaves(w)
BY DEF Works, Leaves, outside

(* A step keeps the invariant if it keeps what is committed and told, and  *)
(* leaves the other handlers and itself in order.                          *)
LEMMA OutcomeKept ==
  ASSUME TypeOK, TypeOK', RowInvariant, OutcomeInvariant,
         NEW w \in Workers, Leaves(w), Outcome(w)',
         Parsed', Unmarked', RemindedOnce', CancelledIsEmpty', NoDirtyNews',
         CardsAreTrue'
  PROVE  OutcomeInvariant'
<1>1. ASSUME NEW x \in Workers \ {w} PROVE Outcome(x)'
  BY <1>1, OthersKnow DEF OutcomeInvariant, RowInvariant, Handler
<1> QED
  BY <1>1 DEF OutcomeInvariant

(* A step of w that only works needs no more than its own outcome.         *)
LEMMA WorkKept ==
  ASSUME TypeOK, TypeOK', RowInvariant, OutcomeInvariant,
         NEW w \in Workers, Works(w), Outcome(w)', ~Reminding(w)'
  PROVE  OutcomeInvariant'
<1>1. Leaves(w)
  BY WorksLeaves
<1>2. /\ Parsed /\ Unmarked /\ RemindedOnce /\ CancelledIsEmpty
      /\ NoDirtyNews /\ CardsAreTrue
  BY DEF OutcomeInvariant
<1>3. req' = req /\ slot' = slot /\ reminders' = reminders /\ screen' = screen
      /\ cards' = cards /\ \A x \in Workers \ {w} : tx'[x] = tx[x]
  BY DEF Works, outside
<1>4. Parsed' /\ Unmarked' /\ CancelledIsEmpty' /\ NoDirtyNews'
  BY <1>2, <1>3 DEF Parsed, WellParsed, SlotsOf, Overlaps, Unmarked,
                    CancelledIsEmpty, NoDirtyNews
<1>5. CardsAreTrue'
  BY <1>2, <1>3 DEF CardsAreTrue, CardTrue, SlotsOf
<1>6. RemindedOnce'
  BY <1>2, <1>3 DEF RemindedOnce, Reminding
<1> QED
  BY <1>1, <1>4, <1>5, <1>6, OutcomeKept

(* A handler that is done knows nothing and holds nothing.                 *)
LEMMA EndsKnowing ==
  ASSUME NEW w \in Workers, TypeOK', tx'[w] = Idle, HoldsNothing(w)',
         \A v \in Venues : venueLock'[v] # w
  PROVE  Outcome(w)' /\ ~Reminding(w)'
<1>1. /\ Idle.pc = "idle" /\ Idle.op = "none"
      /\ \A r \in Requests : Idle.seen[r] = "NONE"
  BY DEF Idle
<1>2. Heard(w)'
  <2>1. \A r \in Requests : req'[r].status \in Statuses
    BY DEF TypeOK, RequestRow
  <2> QED
    BY <1>1, <2>1, SinceItself DEF Heard
<1>3. Route(tx[w])' /\ Subject(w)' /\ Tells(w)'
  BY <1>1 DEF Route, Subject, Tells, AfterTx
<1>4. WroteRequests(w)' /\ WroteSlots(w)'
  BY DEF WroteRequests, WroteSlots, HoldsNothing, HoldsNoRequest
<1>5. Done(w)' /\ Losers(w)' /\ VenueHeld(w)' /\ Unrivalled(w)'
  BY <1>1 DEF Done, Losers, VenueHeld, Unrivalled, Creates, Withdraws,
              SlotCancels, Decides, TakesVenueLock
<1> QED
  BY <1>1, <1>2, <1>3, <1>4, <1>5 DEF Outcome, Reminding

(* A rollback, by a throw or by the database.                              *)
LEMMA RollbackOutcome ==
  ASSUME TypeOK, TypeOK', RowInvariant, OutcomeInvariant, NEW w \in Workers,
         Rollback(w)
  PROVE  OutcomeInvariant'
<1> USE WorkersAssumption
<1>1. tx'[w] = Idle /\ HoldsNothing(w)' /\ \A v \in Venues : venueLock'[v] # w
  BY DEF Rollback, TypeOK, HoldsNothing, HoldsNoRequest
<1>2. Works(w)
  BY DEF Rollback, TypeOK, Works
<1> QED
  BY <1>1, <1>2, EndsKnowing, WorkKept

(* What is told after a commit may be left untold.                         *)
LEMMA CrashOutcome ==
  ASSUME TypeOK, TypeOK', RowInvariant, OutcomeInvariant, NEW w \in Workers,
         Crash(w)
  PROVE  OutcomeInvariant'
<1>1. tx'[w] = Idle
  BY DEF Crash, TypeOK
<1>2. HoldsNothing(w) /\ VenueHeld(w)
  BY DEF RowInvariant, Handler, CleanHandler, Clean, Crash, OutcomeInvariant, Outcome
<1>3. HoldsNothing(w)' /\ \A v \in Venues : venueLock'[v] # w
  BY <1>2 DEF Crash, rows, HoldsNothing, HoldsNoRequest, VenueHeld, InTx, AfterTx
<1>4. Works(w)
  BY DEF Crash, rows, TypeOK, Works
<1> QED
  BY <1>1, <1>3, <1>4, EndsKnowing, WorkKept

-----------------------------------------------------------------------------
(* Steps that only move a handler on.                                      *)

(* A handler moves on without writing: what it has to show for it.         *)
LEMMA MovesOn ==
  ASSUME TypeOK, TypeOK', RowInvariant, OutcomeInvariant, NEW w \in Workers,
         UNCHANGED <<rows, venueLock, outside>>,
         NEW t, tx' = [tx EXCEPT ![w] = t],
         t.op = tx[w].op, t.r = tx[w].r, t.seen = tx[w].seen,
         tx[w].pc \in InTx, t.pc \in InTx, t.pc # "lock",
         tx[w].op \in TakesVenueLock => tx[w].pc # "lock",
         Route(t), WroteRequests(w)', WroteSlots(w)', Done(w)', Losers(w)',
         Unrivalled(w)'
  PROVE  OutcomeInvariant'
<1>1. tx'[w] = t /\ \A x \in Workers \ {w} : tx'[x] = tx[x]
  BY DEF TypeOK
<1>2. Works(w)
  BY <1>1 DEF Works, rows
<1>3. Subject(w) /\ VenueHeld(w) /\ Heard(w)
  BY DEF OutcomeInvariant, Outcome
<1>4. req' = req /\ venueLock' = venueLock
  BY DEF rows
<1>5. Subject(w)'
  BY <1>1, <1>3, <1>4 DEF Subject, InTx, WellParsed, SlotsOf, Overlaps
<1>6. VenueHeld(w)'
  BY <1>1, <1>3, <1>4 DEF VenueHeld
<1>7. Heard(w)'
  BY <1>1, <1>3, <1>4 DEF Heard
<1>8. Tells(w)' /\ ~Reminding(w)' /\ Route(tx[w])'
  BY <1>1 DEF Tells, Reminding, InTx, AfterTx, Route, SlotsOf
<1> QED
  BY <1>2, <1>5, <1>6, <1>7, <1>8, WorkKept DEF Outcome

-----------------------------------------------------------------------------
(* A handler begins.                                                       *)

(* An idle handler takes up an operation.                                  *)
LEMMA TakesUp ==
  ASSUME TypeOK, TypeOK', RowInvariant, OutcomeInvariant, NEW w \in Workers,
         tx[w].pc = "idle", UNCHANGED <<rows, venueLock, outside>>,
         NEW t, tx' = [tx EXCEPT ![w] = t],
         t.pc \in {"lock", "check", "expire", "remind"},
         t.seen = Idle.seen, Route(t),
         t.op \in TakesVenueLock => t.pc = "lock",
         t.op \notin Sweeps =>
           WellParsed(t.r) /\ (t.op \in Creates \/ req[t.r].status # "NONE")
  PROVE  OutcomeInvariant'
<1>1. tx'[w] = t /\ \A x \in Workers \ {w} : tx'[x] = tx[x]
  BY DEF TypeOK
<1>2. Works(w)
  BY <1>1 DEF Works, rows
<1>3. HoldsNothing(w) /\ VenueHeld(w)
  BY DEF RowInvariant, Handler, CleanHandler, Clean, OutcomeInvariant, Outcome
<1>4. WroteRequests(w)' /\ WroteSlots(w)'
  BY <1>3 DEF rows, WroteRequests, WroteSlots, HoldsNothing, HoldsNoRequest
<1>5. Done(w)' /\ Losers(w)' /\ Unrivalled(w)'
  BY <1>1 DEF Done, Losers, Unrivalled
<1>6. VenueHeld(w)'
  BY <1>1, <1>3 DEF VenueHeld, InTx
<1>7. Subject(w)'
  BY <1>1 DEF Subject, WellParsed, SlotsOf, Overlaps, rows
<1>8. Heard(w)'
  <2>1. \A r \in Requests : req'[r].status \in Statuses /\ t.seen[r] = "NONE"
    BY DEF TypeOK, RequestRow, Idle
  <2> QED
    BY <1>1, <2>1, SinceItself DEF Heard
<1>9. Tells(w)' /\ ~Reminding(w)' /\ Route(tx[w])'
  BY <1>1 DEF Tells, Reminding, AfterTx, Route, SlotsOf
<1> QED
  BY <1>2, <1>4, <1>5, <1>6, <1>7, <1>8, <1>9, WorkKept DEF Outcome

(* An endpoint takes up a request that it creates, or that is there.       *)
Takes(w, op, pc, r, line, picked) ==
  /\ Start(w, op, pc, r, line, picked)
  /\ (pc = "lock") <=> (op \in TakesVenueLock)
  /\ op \in {"reject", "cancelPendingBooking"} => picked = {}
  /\ op = "cancelApprovedSlot" => \A s, u \in picked : s = u
  /\ op \in Creates => WellParsed(r)
  /\ op \notin Creates => req[r].status # "NONE"

(* So it begins with what a handler has to know.                           *)
LEMMA EndpointBegins ==
  ASSUME TypeOK, TypeOK', RowInvariant, OutcomeInvariant, NEW w \in Workers,
         NEW op \in AllOps \ Sweeps, NEW pc \in {"lock", "check"},
         NEW r \in Requests, NEW line \in BOOLEAN, NEW picked \in SUBSET SlotsOf(r),
         Takes(w, op, pc, r, line, picked)
  PROVE  OutcomeInvariant'
<1> DEFINE t == [Idle EXCEPT !.op = op, !.pc = pc, !.r = r, !.line = line,
                             !.picked = picked]
<1>1. /\ t.op = op /\ t.pc = pc /\ t.r = r /\ t.picked = picked
      /\ t.seen = Idle.seen
  BY DEF Idle
<1>2. tx[w].pc = "idle" /\ tx' = [tx EXCEPT ![w] = t]
      /\ UNCHANGED <<rows, venueLock, outside>>
  BY DEF Takes, Start
<1> HIDE DEF t
<1>3. WellParsed(r) /\ (op \in Creates \/ req[r].status # "NONE")
  BY DEF OutcomeInvariant, Parsed, Takes
<1>4. r # NoRequest
  BY RequestsAssumption
<1>5. t.pc \in Statements[t.op]
  BY <1>1 DEF Statements, AllOps, StaffOps, LineOps, CronOps, Sweeps,
              TakesVenueLock, Decides, Takes
<1>6. Route(t)
  BY <1>1, <1>4, <1>5 DEF Route, Takes
<1> QED
  BY <1>1, <1>2, <1>3, <1>6, TakesUp DEF Takes

(* A cron takes up the rows it selects.                                    *)
LEMMA CronBegins ==
  ASSUME TypeOK, TypeOK', RowInvariant, OutcomeInvariant, NEW w \in Workers,
         ExpireOverdue(w) \/ RemindUpcoming(w)
  PROVE  OutcomeInvariant'
<1>1. PICK t : /\ tx[w].pc = "idle" /\ tx' = [tx EXCEPT ![w] = t]
               /\ UNCHANGED <<rows, venueLock, outside>>
               /\ t.r = NoRequest /\ t.seen = Idle.seen
               /\ \/ t.op = "expireOverdue" /\ t.pc = "expire" /\ t.picked = {}
                  \/ t.op = "remindUpcoming" /\ t.pc = "remind"
  <2>1. CASE ExpireOverdue(w)
    <3> DEFINE t == [Idle EXCEPT !.op = "expireOverdue", !.pc = "expire",
                                 !.ids = {r \in Requests : Overdue(r)}]
    <3>1. t.r = NoRequest /\ t.seen = Idle.seen /\ t.op = "expireOverdue"
          /\ t.pc = "expire" /\ t.picked = {}
      BY DEF Idle
    <3>2. /\ tx[w].pc = "idle" /\ tx' = [tx EXCEPT ![w] = t]
          /\ UNCHANGED <<rows, venueLock, outside>>
      BY <2>1 DEF ExpireOverdue
    <3> QED
      BY <3>1, <3>2
  <2>2. CASE RemindUpcoming(w)
    <3> DEFINE t == [Idle EXCEPT !.op = "remindUpcoming", !.pc = "remind",
                       !.r = NoRequest, !.line = FALSE,
                       !.picked = {s \in Slots : Due(s)}]
    <3>1. t.r = NoRequest /\ t.seen = Idle.seen /\ t.op = "remindUpcoming"
          /\ t.pc = "remind"
      BY DEF Idle
    <3>2. /\ tx[w].pc = "idle" /\ tx' = [tx EXCEPT ![w] = t]
          /\ UNCHANGED <<rows, venueLock, outside>>
      BY <2>2 DEF RemindUpcoming, Start
    <3> QED
      BY <3>1, <3>2
  <2> QED
    BY <2>1, <2>2
<1>2. Route(t)
  BY <1>1 DEF Route, Statements, AllOps, CronOps, Sweeps
<1> QED
  BY <1>1, <1>2, TakesUp DEF TakesVenueLock, Decides, Sweeps

(* Every way in which a handler begins.                                    *)
LEMMA BeginOutcome ==
  ASSUME TypeOK, TypeOK', RowInvariant, OutcomeInvariant, NEW w \in Workers,
         Begin(w)
  PROVE  OutcomeInvariant'
<1> USE SlotsAssumption
<1> DEFINE Endpoint(r) == \E op \in AllOps \ Sweeps, pc \in {"lock", "check"},
                             line \in BOOLEAN, picked \in SUBSET SlotsOf(r) :
                            Takes(w, op, pc, r, line, picked)
<1>1. ASSUME NEW r \in Requests, Endpoint(r) PROVE OutcomeInvariant'
  <2>1. PICK op \in AllOps \ Sweeps, pc \in {"lock", "check"}, line \in BOOLEAN,
             picked \in SUBSET SlotsOf(r) : Takes(w, op, pc, r, line, picked)
    BY <1>1
  <2> QED
    BY <2>1, EndpointBegins
<1>2. /\ AllOps \ Sweeps = {"createDirect", "approve", "reject", "cancel", "createFromLine",
                            "cancelPendingBooking", "cancelApprovedSlot"}
      /\ Creates = {"createFromLine", "createDirect"}
      /\ TakesVenueLock = {"approve", "createDirect", "cancel"}
  BY DEF AllOps, StaffOps, LineOps, CronOps, Sweeps, Creates, TakesVenueLock, Decides
<1>3. ASSUME NEW r \in Requests, CreateFromLine(w, r) \/ CreateDirect(w, r)
      PROVE  Endpoint(r)
  BY <1>2, <1>3 DEF CreateFromLine, CreateDirect, ParseSlots, WellParsed, Takes
<1>4. ASSUME NEW r \in Requests, Approve(w, r) \/ Reject(w, r) \/ CancelPendingBooking(w, r)
      PROVE  Endpoint(r)
  <2>1. \E op \in {"approve", "reject", "cancelPendingBooking"}, pc \in {"lock", "check"} :
          /\ Start(w, op, pc, r, FALSE, {})
          /\ (pc = "lock") <=> (op = "approve")
          /\ req[r].status # "NONE"
    BY <1>4 DEF Approve, Reject, CancelPendingBooking
  <2>2. {} \in SUBSET SlotsOf(r) /\ FALSE \in BOOLEAN
    OBVIOUS
  <2>3. \A op \in {"approve", "reject", "cancelPendingBooking"}, pc \in {"lock", "check"} :
          (/\ Start(w, op, pc, r, FALSE, {})
           /\ (pc = "lock") <=> (op = "approve")
           /\ req[r].status # "NONE")
          => Takes(w, op, pc, r, FALSE, {})
    BY <1>2 DEF Takes
  <2> QED
    BY <1>2, <2>1, <2>2, <2>3
<1>5. ASSUME NEW r \in Requests, Cancel(w, r) PROVE Endpoint(r)
  <2>1. PICK slotIds \in SUBSET SlotsOf(r) : Start(w, "cancel", "lock", r, FALSE, slotIds)
    BY <1>5 DEF Cancel
  <2>2. Takes(w, "cancel", "lock", r, FALSE, slotIds)
    BY <1>2, <1>5, <2>1 DEF Takes, Cancel
  <2> QED
    BY <1>2, <2>2
<1>6. ASSUME NEW s \in Slots, CancelApprovedSlot(w, s) PROVE Endpoint(RequestOf[s])
  <2>1. {s} \in SUBSET SlotsOf(RequestOf[s])
    BY DEF SlotsOf
  <2>2. Takes(w, "cancelApprovedSlot", "check", RequestOf[s], FALSE, {s})
    BY <1>2, <1>6 DEF CancelApprovedSlot, Takes
  <2> QED
    BY <1>2, <2>1, <2>2
<1> HIDE DEF Endpoint
<1> QED
  BY <1>1, <1>3, <1>4, <1>5, <1>6, CronBegins DEF Begin

-----------------------------------------------------------------------------
(* The statements that read.                                               *)

(* A handler that holds no row sees the committed ones.                    *)
LEMMA CleanSees ==
  ASSUME NEW w \in Workers, HoldsNothing(w)
  PROVE  /\ \A r \in Requests : ReqOf(w, r) = req[r]
         /\ \A s \in Slots : SlotOf(w, s) = slot[s]
         /\ \A r : LiveSlots(w, r) = {s \in SlotsOf(r) : ~slot[s].cancelled}
BY DEF HoldsNothing, HoldsNoRequest, ReqOf, SlotOf, LiveSlots, SlotsOf

(* The clash check: what it lets through clashes with nothing committed.   *)
LEMMA NoClash ==
  ASSUME TypeOK, HoldsMirror, NEW w \in Workers, HoldsNothing(w),
         NEW r \in Requests, req[r].status # "APPROVED",
         NEW spans \in SUBSET SlotsOf(r), ~ApprovedClash(w, r, spans)
  PROVE  \A s \in spans, u \in Slots : slot[u].holds => ~Collide(s, u)
<1> USE SlotsAssumption
<1> SUFFICES ASSUME NEW s \in spans, NEW u \in Slots, slot[u].holds, Collide(s, u)
             PROVE  FALSE
  OBVIOUS
<1>1. s \in Slots /\ RequestOf[s] = r /\ RequestOf[u] \in Requests
  BY DEF SlotsOf
<1>2. ~slot[u].cancelled /\ req[RequestOf[u]].status = "APPROVED"
  BY DEF HoldsMirror, Occupies
<1>3. RoomOf(u) = VenueOf[r] /\ Overlaps(s, u)
  BY <1>1 DEF Collide, RoomOf
<1> QED
  BY <1>1, <1>2, <1>3, CleanSees DEF ApprovedClash

(* A handler that has written nothing passes to its next statement.        *)
LEMMA PassesClean ==
  ASSUME TypeOK, TypeOK', RowInvariant, OutcomeInvariant, NEW w \in Workers,
         NEW t, Pass(w, t),
         tx[w].pc \in {"check", "losers"},
         t.op = tx[w].op, t.r = tx[w].r, t.seen = tx[w].seen,
         t.pc \in {"losers", "insert", "flip", "slots"},
         t.pc = "slots" => t.op \in SlotCancels, Route(t),
         t.op \in Decides /\ t.pc \in {"flip", "insert"}
           => \A l \in t.ids : Rivals(t.r, l),
         t.op \in Decides /\ t.pc \in {"losers", "insert", "flip"}
           => /\ req[t.r].status # "APPROVED"
              /\ \A s \in t.picked, u \in Slots : slot[u].holds => ~Collide(s, u)
  PROVE  OutcomeInvariant'
<1>1. UNCHANGED <<rows, venueLock, outside>> /\ tx' = [tx EXCEPT ![w] = t] /\ tx'[w] = t
  BY DEF Pass, TypeOK
<1>2. HoldsNothing(w)
  BY DEF RowInvariant, Handler, CleanHandler, Clean
<1>3. WroteRequests(w)' /\ WroteSlots(w)'
  BY <1>1, <1>2 DEF rows, WroteRequests, WroteSlots, HoldsNothing, HoldsNoRequest
<1>4. Done(w)'
  BY <1>1 DEF Done, SlotCancels, Withdraws
<1>5. Losers(w)'
  BY <1>1 DEF Losers, Rivals, SlotsOf, Collide, RoomOf, Overlaps
<1>6. Unrivalled(w)'
  BY <1>1 DEF Unrivalled, rows, Collide, RoomOf, Overlaps
<1>7. tx[w].pc \in InTx /\ t.pc \in InTx /\ t.pc # "lock" /\ tx[w].pc # "lock"
  BY DEF InTx
<1> QED
  BY <1>1, <1>3, <1>4, <1>5, <1>6, <1>7, MovesOn

(* The route of a handler that moves from one of its statements to another *)
(* with the same slots.                                                    *)
LEMMA RouteGoesOn ==
  ASSUME NEW w \in Workers, tx[w] \in TxState, Route(tx[w]), tx[w].pc \in InTx,
         NEW t, t.op = tx[w].op, t.r = tx[w].r,
         t.picked \subseteq tx[w].picked,
         t.pc \in Statements[t.op] \cup {"commit"},
         t.pc \in {"check", "flip", "refresh"} => tx[w].pc \in {"check", "flip", "refresh"}
  PROVE  Route(t)
<1>1. /\ tx[w].op \in AllOps
      /\ tx[w].op \in Sweeps <=> tx[w].r = NoRequest
      /\ tx[w].op # "remindUpcoming" => tx[w].picked \subseteq SlotsOf(tx[w].r)
      /\ tx[w].op \in {"reject", "cancelPendingBooking"}
           /\ tx[w].pc \in {"check", "flip", "refresh"} => tx[w].picked = {}
      /\ tx[w].op = "cancelApprovedSlot" => \A s, u \in tx[w].picked : s = u
  BY DEF Route, InTx
<1>2. t.op = "remindUpcoming" => t.pc \notin {"publish", "emit"}
  BY DEF Statements
<1> QED
  BY <1>1, <1>2 DEF Route

(* The clash checks of a creation and of an approval.                      *)
LEMMA CheckDecision ==
  ASSUME TypeOK, TypeOK', RowInvariant, OutcomeInvariant, NEW w \in Workers,
         CheckCreate(w) \/ CheckApprove(w)
  PROVE  OutcomeInvariant'
<1>1. CASE Rollback(w)
  BY <1>1, RollbackOutcome
<1>2. CASE ~Rollback(w)
  <2> DEFINE live == LiveSlots(w, tx[w].r)
             t == [tx[w] EXCEPT !.pc = IF tx[w].op = "createDirect" THEN "losers" ELSE "insert"]
             u == [tx[w] EXCEPT !.pc = "losers", !.picked = live]
  <2>1. /\ tx[w] \in TxState /\ tx[w].pc = "check" /\ Route(tx[w]) /\ HoldsMirror
        /\ HoldsNothing(w)
    BY DEF TypeOK, CheckCreate, CheckApprove, At, OutcomeInvariant, Outcome,
           RowInvariant, Rows, Handler, CleanHandler, Clean
  <2>2. CASE CheckCreate(w)
    <3>1. /\ tx[w].op \in {"createFromLine", "createDirect"}
          /\ ~ApprovedClash(w, tx[w].r, tx[w].picked) /\ Pass(w, t)
      BY <1>2, <2>2 DEF CheckCreate
    <3>2. /\ t.pc = IF tx[w].op = "createDirect" THEN "losers" ELSE "insert"
          /\ t.op = tx[w].op /\ t.r = tx[w].r /\ t.seen = tx[w].seen
          /\ t.picked = tx[w].picked
      BY <2>1 DEF TxState
    <3> HIDE DEF t
    <3>3. tx[w].r \in Requests /\ tx[w].picked \in SUBSET SlotsOf(tx[w].r)
      BY <2>1, <3>1, SubjectKnown DEF Route, Sweeps
    <3>4. req[tx[w].r].status = "NONE"
      BY <2>1, <3>1 DEF RowInvariant, Handler, CreatingHandler, Creating, Creates
    <3>5. \A s \in tx[w].picked, x \in Slots : slot[x].holds => ~Collide(s, x)
      BY <2>1, <3>1, <3>3, <3>4, NoClash
    <3>6. t.pc \in Statements[t.op]
      BY <3>1, <3>2 DEF Statements
    <3>7. Route(t)
      BY <2>1, <3>1, <3>2, <3>6, RouteGoesOn DEF InTx
    <3> QED
      BY <2>1, <3>1, <3>2, <3>4, <3>5, <3>7, PassesClean DEF Decides
  <2>3. CASE CheckApprove(w)
    <3>1. /\ tx[w].op = "approve" /\ ReqOf(w, tx[w].r).status = "PENDING"
          /\ ~ApprovedClash(w, tx[w].r, live) /\ Pass(w, u)
      BY <1>2, <2>3 DEF CheckApprove, At
    <3>2. /\ u.pc = "losers" /\ u.op = tx[w].op /\ u.r = tx[w].r /\ u.seen = tx[w].seen
          /\ u.picked = live
      BY <2>1 DEF TxState
    <3>3. tx[w].r \in Requests /\ live \in SUBSET SlotsOf(tx[w].r)
      BY <2>1, <3>1, SubjectKnown DEF Sweeps, LiveSlots
    <3> HIDE DEF u, live
    <3>4. req[tx[w].r].status = "PENDING"
      BY <2>1, <3>1, <3>3, CleanSees
    <3>5. \A s \in live, x \in Slots : slot[x].holds => ~Collide(s, x)
      BY <2>1, <3>1, <3>3, <3>4, NoClash
    <3>6. Route(u)
      BY <2>1, <3>1, <3>2, <3>3 DEF Route, Statements, Sweeps
    <3> QED
      BY <2>1, <3>1, <3>2, <3>4, <3>5, <3>6, PassesClean
  <2> QED
    BY <2>2, <2>3
<1> QED
  BY <1>1, <1>2

(* The status checks of a rejection, a withdrawal and the cancellations.   *)
LEMMA CheckRuling ==
  ASSUME TypeOK, TypeOK', RowInvariant, OutcomeInvariant, NEW w \in Workers,
         CheckPending(w) \/ CheckSlot(w) \/ CheckCancel(w)
  PROVE  OutcomeInvariant'
<1>1. CASE Rollback(w)
  BY <1>1, RollbackOutcome
<1>2. CASE ~Rollback(w)
  <2> DEFINE live == LiveSlots(w, tx[w].r)
             targets == IF tx[w].picked = {} THEN live ELSE tx[w].picked
             t == [tx[w] EXCEPT !.pc = "flip"]
             u == [tx[w] EXCEPT !.pc = "slots"]
             v == [tx[w] EXCEPT !.pc = "slots", !.picked = targets,
                                !.remaining = live \ targets]
  <2>1. tx[w] \in TxState /\ tx[w].pc = "check" /\ Route(tx[w])
    BY DEF TypeOK, CheckPending, CheckSlot, CheckCancel, At, OutcomeInvariant, Outcome
  <2>2. CASE CheckPending(w)
    <3>1. tx[w].op \in {"reject", "cancelPendingBooking"} /\ Pass(w, t)
      BY <1>2, <2>2 DEF CheckPending
    <3>2. /\ t.pc = "flip" /\ t.op = tx[w].op /\ t.r = tx[w].r /\ t.seen = tx[w].seen
          /\ t.picked = tx[w].picked
      BY <2>1 DEF TxState
    <3> HIDE DEF t
    <3>3. t.pc \in Statements[t.op]
      BY <3>1, <3>2 DEF Statements
    <3>4. Route(t)
      BY <2>1, <3>2, <3>3, RouteGoesOn DEF InTx
    <3> QED
      BY <2>1, <3>1, <3>2, <3>4, PassesClean DEF Decides
  <2>3. CASE CheckSlot(w)
    <3>1. tx[w].op = "cancelApprovedSlot" /\ Pass(w, u)
      BY <1>2, <2>3 DEF CheckSlot, At
    <3>2. /\ u.pc = "slots" /\ u.op = tx[w].op /\ u.r = tx[w].r /\ u.seen = tx[w].seen
          /\ u.picked = tx[w].picked
      BY <2>1 DEF TxState
    <3> HIDE DEF u
    <3>3. u.pc \in Statements[u.op]
      BY <3>1, <3>2 DEF Statements
    <3>4. Route(u)
      BY <2>1, <3>2, <3>3, RouteGoesOn DEF InTx
    <3> QED
      BY <2>1, <3>1, <3>2, <3>4, PassesClean DEF Decides, SlotCancels
  <2>4. CASE CheckCancel(w)
    <3>1. tx[w].op = "cancel" /\ Pass(w, v) /\ targets \subseteq live
      BY <1>2, <2>4 DEF CheckCancel, At
    <3>2. /\ v.pc = "slots" /\ v.op = tx[w].op /\ v.r = tx[w].r /\ v.seen = tx[w].seen
          /\ v.picked = targets
      BY <2>1 DEF TxState
    <3>3. live \subseteq SlotsOf(tx[w].r)
      BY DEF LiveSlots
    <3> HIDE DEF v, live, targets
    <3>4. Route(v)
      BY <2>1, <3>1, <3>2, <3>3 DEF Route, Statements, Sweeps
    <3> QED
      BY <2>1, <3>1, <3>2, <3>4, PassesClean DEF Decides, SlotCancels
  <2> QED
    BY <2>2, <2>3, <2>4
<1> QED
  BY <1>1, <1>2

(* findPendingLosers collects rivals only.                                 *)
LEMMA FindLosersOutcome ==
  ASSUME TypeOK, TypeOK', RowInvariant, OutcomeInvariant, NEW w \in Workers,
         FindPendingLosers(w)
  PROVE  OutcomeInvariant'
<1> USE SlotsAssumption
<1> DEFINE t == [tx[w] EXCEPT
                   !.pc = IF tx[w].op = "approve" THEN "flip" ELSE "insert",
                   !.ids = PendingLosers(w, tx[w].r, tx[w].picked)]
<1>1. /\ tx[w] \in TxState /\ tx[w].pc = "losers" /\ Route(tx[w]) /\ Pass(w, t)
      /\ tx[w].op \in Decides /\ Unrivalled(w)
  BY DEF TypeOK, FindPendingLosers, OutcomeInvariant, Outcome, RowInvariant, Shape,
         WellShaped, Decides
<1>2. /\ t.pc = IF tx[w].op = "approve" THEN "flip" ELSE "insert"
      /\ t.op = tx[w].op /\ t.r = tx[w].r /\ t.seen = tx[w].seen
      /\ t.picked = tx[w].picked /\ t.ids = PendingLosers(w, tx[w].r, tx[w].picked)
  BY <1>1 DEF TxState
<1> HIDE DEF t
<1>3. tx[w].r \in Requests /\ tx[w].picked \subseteq SlotsOf(tx[w].r)
  BY <1>1, SubjectKnown DEF Route, Decides, Sweeps
<1>4. ASSUME NEW l \in t.ids PROVE Rivals(tx[w].r, l)
  <2>1. /\ l \in Requests /\ l # tx[w].r /\ VenueOf[l] = VenueOf[tx[w].r]
        /\ \E x \in LiveSlots(w, l) : \E s \in tx[w].picked : Overlaps(s, x)
    BY <1>2, <1>4 DEF PendingLosers
  <2>2. PICK x \in LiveSlots(w, l), s \in tx[w].picked : Overlaps(s, x)
    BY <2>1
  <2>3. /\ x \in SlotsOf(l) /\ s \in SlotsOf(tx[w].r) /\ RequestOf[x] = l
        /\ RequestOf[s] = tx[w].r
    BY <1>3, <2>2 DEF LiveSlots, SlotsOf
  <2>4. Collide(s, x)
    BY <2>1, <2>2, <2>3 DEF Collide, RoomOf
  <2> QED
    BY <2>1, <2>3, <2>4 DEF Rivals
<1>5. t.pc \in Statements[t.op]
  BY <1>1, <1>2 DEF Statements, Decides
<1>6. t.pc \in {"check", "flip", "refresh"} => t.op = "approve"
  BY <1>2
<1>7. Route(t)
  BY <1>1, <1>2, <1>5, <1>6 DEF Route, Decides, Sweeps
<1>8. /\ req[t.r].status # "APPROVED"
      /\ \A s \in t.picked, u \in Slots : slot[u].holds => ~Collide(s, u)
  BY <1>1, <1>2 DEF Unrivalled
<1> QED
  BY <1>1, <1>2, <1>4, <1>7, <1>8, PassesClean

(* What a cancelled slot left is read back.                                *)
LEMMA ReadRemainingOutcome ==
  ASSUME TypeOK, TypeOK', RowInvariant, OutcomeInvariant, NEW w \in Workers,
         ReadRemaining(w)
  PROVE  OutcomeInvariant'
<1> DEFINE t == [tx[w] EXCEPT !.pc = "request", !.remaining = LiveSlots(w, tx[w].r)]
<1>1. /\ tx[w] \in TxState /\ tx[w].pc = "remaining" /\ tx[w].op \in SlotCancels
      /\ Route(tx[w]) /\ WroteRequests(w) /\ WroteSlots(w)
      /\ HoldsNoRequest(w) /\ tx' = [tx EXCEPT ![w] = t]
      /\ UNCHANGED <<rows, venueLock, outside>>
  BY DEF TypeOK, ReadRemaining, Pass, RowInvariant, Handler, CancellingHandler,
         Shape, WellShaped, OutcomeInvariant, Outcome
<1>2. /\ t.pc = "request" /\ t.op = tx[w].op /\ t.r = tx[w].r /\ t.seen = tx[w].seen
      /\ t.picked = tx[w].picked /\ tx'[w] = t
  BY <1>1 DEF TxState, TypeOK
<1> HIDE DEF t
<1>3. t.pc \in Statements[t.op]
  BY <1>1, <1>2 DEF Statements, SlotCancels, Route, AfterTx
<1>4. Route(t)
  BY <1>1, <1>2, <1>3, RouteGoesOn DEF InTx
<1>5. WroteRequests(w)'
  BY <1>1 DEF WroteRequests, HoldsNoRequest, rows
<1>6. WroteSlots(w)'
  BY <1>1, <1>2 DEF WroteSlots, WroteSlot, rows
<1>7. Done(w)' /\ Losers(w)' /\ Unrivalled(w)'
  BY <1>1, <1>2 DEF Done, Losers, Unrivalled, SlotCancels, Decides
<1> QED
  BY <1>1, <1>2, <1>4, <1>5, <1>6, <1>7, MovesOn DEF InTx

-----------------------------------------------------------------------------
(* The venue lock.                                                         *)

(* A handler that holds no row moves to "lock" or "check", taking or       *)
(* giving back the venue lock.                                             *)
LEMMA VenueStep ==
  ASSUME TypeOK, TypeOK', RowInvariant, OutcomeInvariant, NEW w \in Workers,
         UNCHANGED <<rows, outside>>, tx[w].pc \in {"lock", "insert"},
         NEW t, tx' = [tx EXCEPT ![w] = t],
         t.op = tx[w].op, t.r = tx[w].r, t.seen = tx[w].seen,
         t.pc \in {"lock", "check"}, Route(t),
         \A x \in Workers \ {w}, v \in Venues : venueLock'[v] = x <=> venueLock[v] = x,
         VenueHeld(w)'
  PROVE  OutcomeInvariant'
<1>1. tx'[w] = t /\ \A x \in Workers \ {w} : tx'[x] = tx[x]
  BY DEF TypeOK
<1>2. Works(w)
  BY <1>1 DEF Works, rows
<1>3. HoldsNothing(w) /\ Subject(w) /\ Heard(w)
  BY DEF RowInvariant, Handler, CleanHandler, Clean, OutcomeInvariant, Outcome
<1>4. WroteRequests(w)' /\ WroteSlots(w)'
  BY <1>3 DEF rows, WroteRequests, WroteSlots, HoldsNothing, HoldsNoRequest
<1>5. Done(w)' /\ Losers(w)' /\ Unrivalled(w)'
  BY <1>1 DEF Done, Losers, Unrivalled
<1>6. Subject(w)'
  BY <1>1, <1>3 DEF Subject, WellParsed, SlotsOf, Overlaps, rows
<1>7. Heard(w)'
  BY <1>1, <1>3 DEF Heard, rows
<1>8. Tells(w)' /\ ~Reminding(w)' /\ Route(tx[w])'
  BY <1>1 DEF Tells, Reminding, AfterTx, Route, SlotsOf
<1> QED
  BY <1>2, <1>4, <1>5, <1>6, <1>7, <1>8, WorkKept DEF Outcome

(* pg_advisory_xact_lock is granted.                                       *)
LEMMA LockVenueOutcome ==
  ASSUME TypeOK, TypeOK', RowInvariant, OutcomeInvariant, NEW w \in Workers,
         LockVenue(w)
  PROVE  OutcomeInvariant'
<1> USE RequestsAssumption, WorkersAssumption
<1> DEFINE t == [tx[w] EXCEPT !.pc = "check"]
           v == VenueOf[tx[w].r]
<1>1. /\ tx[w] \in TxState /\ tx[w].pc = "lock" /\ Route(tx[w]) /\ VenueHeld(w)
      /\ UNCHANGED <<rows, outside>> /\ tx' = [tx EXCEPT ![w] = t]
      /\ venueLock[v] = Nobody /\ venueLock' = [venueLock EXCEPT ![v] = w]
      /\ tx[w].r \in Requests
  BY DEF TypeOK, LockVenue, Goto, OutcomeInvariant, Outcome, RowInvariant, Shape, WellShaped
<1>2. /\ t.pc = "check" /\ t.op = tx[w].op /\ t.r = tx[w].r /\ t.seen = tx[w].seen
      /\ t.picked = tx[w].picked /\ tx'[w] = t
  BY <1>1 DEF TxState, TypeOK
<1> HIDE DEF t
<1>3. tx[w].op \in TakesVenueLock /\ v \in Venues
  BY <1>1 DEF Route, Statements, AllOps, StaffOps, LineOps, CronOps, TakesVenueLock,
              Decides, AfterTx
<1> HIDE DEF v
<1>4. Route(t)
  BY <1>1, <1>2, <1>3 DEF Route, Statements, TakesVenueLock, Decides, Sweeps
<1>5. \A u \in Venues : venueLock'[u] = IF u = v THEN w ELSE venueLock[u]
  BY <1>1 DEF TypeOK
<1>6. VenueHeld(w)'
  BY <1>1, <1>2, <1>3, <1>5 DEF VenueHeld, InTx, v
<1>7. \A x \in Workers \ {w}, u \in Venues : venueLock'[u] = x <=> venueLock[u] = x
  BY <1>1, <1>5
<1> QED
  BY <1>1, <1>2, <1>4, <1>6, <1>7, VenueStep

(* The code collided: the transaction starts again, without the lock.      *)
LEMMA CollisionOutcome ==
  ASSUME TypeOK, TypeOK', RowInvariant, OutcomeInvariant, NEW w \in Workers,
         CodeCollision(w)
  PROVE  OutcomeInvariant'
<1> USE WorkersAssumption
<1> DEFINE t == [tx[w] EXCEPT !.ids = {}, !.pc = IF tx[w].op = "createDirect"
                                                 THEN "lock" ELSE "check"]
<1>1. /\ tx[w] \in TxState /\ tx[w].pc = "insert" /\ Route(tx[w]) /\ VenueHeld(w)
      /\ UNCHANGED <<rows, outside>> /\ tx[w].op \in Creates
      /\ venueLock' = [v \in Venues |-> IF venueLock[v] = w THEN Nobody ELSE venueLock[v]]
  BY DEF TypeOK, CodeCollision, OutcomeInvariant, Outcome, RowInvariant, Shape, WellShaped
<1>2. tx' = [tx EXCEPT ![w] = t]
  BY DEF CodeCollision, TypeOK
<1>3. /\ t.pc = (IF tx[w].op = "createDirect" THEN "lock" ELSE "check")
      /\ t.op = tx[w].op /\ t.r = tx[w].r /\ t.seen = tx[w].seen
      /\ t.picked = tx[w].picked /\ tx'[w] = t
  BY <1>1, <1>2 DEF TxState, TypeOK
<1> HIDE DEF t
<1>4. Route(t)
  BY <1>1, <1>3 DEF Route, Statements, Creates, Sweeps
<1>5. VenueHeld(w)'
  BY <1>1, <1>3 DEF VenueHeld, TakesVenueLock, Decides, Creates
<1>6. \A x \in Workers \ {w}, u \in Venues : venueLock'[u] = x <=> venueLock[u] = x
  BY <1>1
<1> QED
  BY <1>1, <1>2, <1>3, <1>4, <1>5, <1>6, VenueStep

-----------------------------------------------------------------------------
(* The statements that write.                                              *)

(* A handler writes: what it has to show for it.                           *)
LEMMA WritesOn ==
  ASSUME TypeOK, TypeOK', RowInvariant, OutcomeInvariant, NEW w \in Workers,
         UNCHANGED <<req, slot, venueLock, outside>>,
         \A x \in Workers \ {w} :
           /\ \A r \in Requests :
                /\ reqLock'[r] = x <=> reqLock[r] = x
                /\ reqLock[r] = x => reqNew'[r] = reqNew[r]
           /\ \A s \in Slots :
                /\ slotLock'[s] = x <=> slotLock[s] = x
                /\ slotLock[s] = x => slotNew'[s] = slotNew[s],
         NEW t, tx' = [tx EXCEPT ![w] = t],
         t.op = tx[w].op, t.r = tx[w].r, t.seen = tx[w].seen,
         tx[w].pc \in InTx \ {"lock"}, t.pc \in InTx \ {"lock"},
         Route(t), WroteRequests(w)', WroteSlots(w)', Done(w)', Losers(w)',
         Unrivalled(w)'
  PROVE  OutcomeInvariant'
<1>1. tx'[w] = t /\ \A x \in Workers \ {w} : tx'[x] = tx[x]
  BY DEF TypeOK
<1>2. Works(w)
  BY <1>1 DEF Works
<1>3. Subject(w) /\ VenueHeld(w) /\ Heard(w)
  BY DEF OutcomeInvariant, Outcome
<1>4. Subject(w)'
  BY <1>1, <1>3 DEF Subject, InTx, WellParsed, SlotsOf, Overlaps
<1>5. VenueHeld(w)'
  BY <1>1, <1>3 DEF VenueHeld
<1>6. Heard(w)'
  BY <1>1, <1>3 DEF Heard
<1>7. Tells(w)' /\ ~Reminding(w)' /\ Route(tx[w])'
  BY <1>1 DEF Tells, Reminding, InTx, AfterTx, Route, SlotsOf
<1> QED
  BY <1>2, <1>4, <1>5, <1>6, <1>7, WorkKept DEF Outcome

(* The guarded UPDATE locks its row.                                       *)
LEMMA FlipOutcome ==
  ASSUME TypeOK, TypeOK', RowInvariant, OutcomeInvariant, NEW w \in Workers,
         Flip(w)
  PROVE  OutcomeInvariant'
<1> USE WorkersAssumption
<1>1. CASE Rollback(w)
  BY <1>1, RollbackOutcome
<1>2. CASE ~Rollback(w)
  <2> DEFINE r == tx[w].r
             t == [tx[w] EXCEPT !.pc = "refresh"]
  <2>1. /\ tx[w] \in TxState /\ tx[w].pc = "flip" /\ Route(tx[w])
        /\ HoldsNothing(w) /\ Losers(w) /\ Unrivalled(w) /\ Rows
        /\ tx[w].op \in {"approve", "reject", "cancelPendingBooking"} /\ r \in Requests
    BY DEF TypeOK, Flip, OutcomeInvariant, Outcome, RowInvariant, Shape, WellShaped,
           Handler, CleanHandler, Clean
  <2>2. /\ req[r].status = "PENDING" /\ reqLock[r] = Nobody
        /\ reqLock' = [reqLock EXCEPT ![r] = w] /\ tx' = [tx EXCEPT ![w] = t]
        /\ UNCHANGED <<req, reqNew, slot, slotNew, slotLock, venueLock, outside>>
    BY <1>2 DEF Flip, Goto
  <2>3. /\ t.pc = "refresh" /\ t.op = tx[w].op /\ t.r = tx[w].r /\ t.seen = tx[w].seen
        /\ t.picked = tx[w].picked /\ t.ids = tx[w].ids /\ tx'[w] = t
    BY <2>1, <2>2 DEF TxState, TypeOK
  <2> HIDE DEF t, r
  <2>4. \A q \in Requests : reqLock'[q] = IF q = r THEN w ELSE reqLock[q]
    BY <2>2 DEF TypeOK
  <2>5. reqNew[r] = req[r]
    BY <2>1, <2>2 DEF Rows, Versions
  <2>6. t.pc \in Statements[t.op]
    BY <2>1, <2>3 DEF Statements
  <2>7. Route(t)
    BY <2>1, <2>3, <2>6, RouteGoesOn DEF InTx
  <2>8. WroteRequests(w)'
    <3> SUFFICES ASSUME NEW q \in Requests, reqLock'[q] = w
                 PROVE  WroteRequest(w, q)'
      BY DEF WroteRequests
    <3>1. q = r
      BY <2>1, <2>4 DEF HoldsNothing, HoldsNoRequest
    <3> QED
      BY <2>1, <2>2, <2>3, <2>5, <3>1 DEF WroteRequest, r
  <2>9. WroteSlots(w)'
    BY <2>1, <2>2 DEF WroteSlots, HoldsNothing
  <2>10. Done(w)'
    BY <2>1, <2>3, <2>4 DEF Done, r, Creates, SlotCancels, Withdraws
  <2>11. Losers(w)'
    BY <2>1, <2>3 DEF Losers, Rivals, SlotsOf, Collide, RoomOf, Overlaps
  <2>12. Unrivalled(w)'
    BY <2>1, <2>2, <2>3 DEF Unrivalled, Collide, RoomOf, Overlaps
  <2>13. \A x \in Workers \ {w}, q \in Requests : reqLock'[q] = x <=> reqLock[q] = x
    BY <2>2, <2>4
  <2> QED
    BY <2>1, <2>2, <2>3, <2>7, <2>8, <2>9, <2>10, <2>11, <2>12, <2>13, WritesOn DEF InTx
<1> QED
  BY <1>1, <1>2

(* INSERT of a request and its slots.                                      *)
LEMMA InsertOutcome ==
  ASSUME TypeOK, TypeOK', RowInvariant, OutcomeInvariant, NEW w \in Workers,
         Insert(w)
  PROVE  OutcomeInvariant'
<1> USE WorkersAssumption, SlotsAssumption
<1>1. CASE Rollback(w)
  BY <1>1, RollbackOutcome
<1>2. CASE ~Rollback(w)
  <2> DEFINE r == tx[w].r
             direct == tx[w].op = "createDirect"
             row == [status |-> IF direct THEN "APPROVED" ELSE "PENDING",
                     span |-> SlotsOf(r), line |-> tx[w].line]
             new == [cancelled |-> FALSE, holds |-> direct, reminded |-> FALSE]
             t == [tx[w] EXCEPT !.pc = IF direct THEN "rejectLosers" ELSE "commit"]
  <2>1. /\ tx[w] \in TxState /\ tx[w].pc = "insert" /\ Route(tx[w])
        /\ HoldsNothing(w) /\ Losers(w) /\ tx[w].op \in Creates /\ r \in Requests
        /\ CreatingHandler(w) /\ Unmarked
    BY DEF TypeOK, Insert, OutcomeInvariant, Outcome, RowInvariant, Shape, WellShaped,
           Handler, CleanHandler, Clean
  <2>2. /\ ReqFree(w, r) /\ \A s \in SlotsOf(r) : SlotFree(w, s)
        /\ reqNew' = [reqNew EXCEPT ![r] = row]
        /\ reqLock' = [reqLock EXCEPT ![r] = w]
        /\ slotNew' = [s \in Slots |-> IF RequestOf[s] = r THEN new ELSE slotNew[s]]
        /\ slotLock' = [s \in Slots |-> IF RequestOf[s] = r THEN w ELSE slotLock[s]]
        /\ tx' = [tx EXCEPT ![w] = t]
        /\ UNCHANGED <<req, slot, venueLock, outside>>
    BY <1>2 DEF Insert, Goto
  <2>3. /\ t.pc = (IF direct THEN "rejectLosers" ELSE "commit")
        /\ t.op = tx[w].op /\ t.r = r /\ t.seen = tx[w].seen
        /\ t.picked = tx[w].picked /\ t.ids = tx[w].ids /\ tx'[w] = t
    BY <2>1, <2>2 DEF TxState, TypeOK
  <2>4. /\ row.status = (IF direct THEN "APPROVED" ELSE "PENDING")
        /\ new.cancelled = FALSE /\ new.reminded = FALSE /\ new.holds = direct
    OBVIOUS
  <2> HIDE DEF t, row, new
  <2>5. \A q \in Requests : /\ reqLock'[q] = IF q = r THEN w ELSE reqLock[q]
                            /\ reqNew'[q] = IF q = r THEN row ELSE reqNew[q]
    BY <2>1, <2>2 DEF TypeOK
  <2>6. \A s \in Slots : /\ slotLock'[s] = IF RequestOf[s] = r THEN w ELSE slotLock[s]
                         /\ slotNew'[s] = IF RequestOf[s] = r THEN new ELSE slotNew[s]
    BY <2>2
  <2>7. req[r].status = "NONE"
    BY <2>1 DEF CreatingHandler, Creating
  <2>8. t.pc \in Statements[t.op] \cup {"commit"}
    BY <2>1, <2>3 DEF Statements, Creates
  <2>9. Route(t)
    BY <2>1, <2>3, <2>8, RouteGoesOn DEF InTx
  <2>10. WroteRequests(w)'
    <3> SUFFICES ASSUME NEW q \in Requests, reqLock'[q] = w
                 PROVE  WroteRequest(w, q)'
      BY DEF WroteRequests
    <3>1. q = r
      BY <2>1, <2>5 DEF HoldsNothing, HoldsNoRequest
    <3> QED
      BY <2>1, <2>2, <2>3, <2>4, <2>5, <2>7, <3>1 DEF WroteRequest, Creates
  <2>11. WroteSlots(w)'
    <3> SUFFICES ASSUME NEW s \in Slots, slotLock'[s] = w
                 PROVE  WroteSlot(w, s)'
      BY DEF WroteSlots
    <3>1. RequestOf[s] = r
      BY <2>1, <2>6 DEF HoldsNothing
    <3>2. slotNew'[s] = new /\ ~slot[s].reminded
      BY <2>1, <2>6, <2>7, <3>1 DEF Unmarked
    <3>3. tx[w].op \notin GivesUpSlots \cup SlotCancels \cup {"remindUpcoming"}
      BY <2>1 DEF Creates, GivesUpSlots, SlotCancels, Withdraws
    <3> QED
      BY <2>2, <2>3, <2>4, <3>1, <3>2, <3>3 DEF WroteSlot, Decides
  <2>12. Done(w)'
    BY <2>1, <2>3, <2>5 DEF Done, Creates, SlotCancels, Withdraws
  <2>13. Losers(w)'
    BY <2>1, <2>3 DEF Losers, Rivals, SlotsOf, Collide, RoomOf, Overlaps
  <2>14. Unrivalled(w)'
    BY <2>3 DEF Unrivalled
  <2>15. \A x \in Workers \ {w} :
           /\ \A q \in Requests : /\ reqLock'[q] = x <=> reqLock[q] = x
                                  /\ reqLock[q] = x => reqNew'[q] = reqNew[q]
           /\ \A s \in Slots : /\ slotLock'[s] = x <=> slotLock[s] = x
                               /\ slotLock[s] = x => slotNew'[s] = slotNew[s]
    BY <2>2, <2>5, <2>6 DEF ReqFree, SlotFree, SlotsOf
  <2> QED
    BY <2>1, <2>2, <2>3, <2>9, <2>10, <2>11, <2>12, <2>13, <2>14, <2>15, WritesOn DEF InTx
<1> QED
  BY <1>1, <1>2

(* The approval, and the trigger that enters the live slots.               *)
LEMMA ApprovalWrites ==
  ASSUME TypeOK, RowInvariant, NEW w \in Workers, NEW r \in Requests,
         NEW row \in RequestRow, WriteRequest(w, r, row), row.status = "APPROVED",
         req[r].status = "PENDING", \A s \in Slots : slotLock[s] # w,
         reqLock[r] = w, reqNew[r] = req[r]
  PROVE  /\ \A s \in Slots : slotLock'[s] = w =>
              /\ RequestOf[s] = r /\ ~slotNew'[s].cancelled
              /\ slotNew'[s].reminded = slot[s].reminded
         /\ \A x \in Workers \ {w}, s \in Slots :
              /\ slotLock'[s] = x <=> slotLock[s] = x
              /\ slotLock[s] = x => slotNew'[s] = slotNew[s]
<1> USE SlotsAssumption, WorkersAssumption
<1> DEFINE kids == Refreshed(w, r, row.status)
<1>1. ReqOf(w, r) = req[r] /\ \A s \in Slots : SlotOf(w, s) = slot[s] /\ slot[s] \in SlotRow
  BY DEF ReqOf, SlotOf, TypeOK
<1>2. ASSUME NEW s \in kids
      PROVE  s \in Slots /\ RequestOf[s] = r /\ ~slot[s].cancelled /\ SlotFree(w, s)
  <2>1. s \in Slots /\ RequestOf[s] = r /\ SlotFree(w, s)
    BY <1>2 DEF Refreshed, SlotsOf, WriteRequest
  <2>2. slot[s].holds = FALSE
    BY <1>1, <2>1 DEF RowInvariant, Rows, HoldsMirror, Occupies, SlotRow
  <2>3. slot[s].holds # Holds(w, s, row.status)
    BY <1>1, <1>2, <2>1 DEF Refreshed
  <2> QED
    BY <1>1, <2>1, <2>2, <2>3 DEF Holds
<1>3. \A s \in Slots :
        /\ slotLock'[s] = IF s \in kids THEN w ELSE slotLock[s]
        /\ slotNew'[s] = IF s \in kids
                         THEN [slot[s] EXCEPT !.holds = Holds(w, s, row.status)]
                         ELSE slotNew[s]
  BY <1>1 DEF WriteRequest
<1> HIDE DEF kids
<1>4. \A s \in kids : /\ slotNew'[s].cancelled = slot[s].cancelled
                      /\ slotNew'[s].reminded = slot[s].reminded
  BY <1>1, <1>2, <1>3 DEF SlotRow
<1> QED
  BY <1>2, <1>3, <1>4 DEF SlotFree

(* A ruling that approves nothing writes its row alone.                    *)
LEMMA RulingWrites ==
  ASSUME TypeOK, RowInvariant, NEW w \in Workers, NEW r \in Requests,
         NEW row \in RequestRow, WriteRequest(w, r, row),
         reqLock[r] = w => reqNew[r] = req[r],
         row.status = req[r].status \/ <<req[r].status, row.status>> \in Moves,
         \/ req[r].status = "PENDING" /\ row.status # "APPROVED"
         \/ /\ req[r].status = "APPROVED"
            /\ row.status # "APPROVED"
                 => \A s \in SlotsOf(r) : SlotOf(w, s).cancelled,
         \A x \in Workers \ {w} : tx'[x] = tx[x],
         tx'[w].r = tx[w].r
  PROVE  /\ UNCHANGED <<req, slot, slotNew, slotLock>>
         /\ \A q \in Requests : /\ reqLock'[q] = IF q = r THEN w ELSE reqLock[q]
                                /\ reqNew'[q] = IF q = r THEN row ELSE reqNew[q]
         /\ \A x \in Workers \ {w}, q \in Requests :
              /\ reqLock'[q] = x <=> reqLock[q] = x
              /\ reqLock[q] = x => reqNew'[q] = reqNew[q]
<1> USE WorkersAssumption
<1>1. Rows /\ Shape /\ \A x \in Workers : CreatingHandler(x)
  BY DEF RowInvariant, Handler
<1>2. UNCHANGED <<req, slot, slotNew, slotLock>> /\ reqLock' = [reqLock EXCEPT ![r] = w]
  BY <1>1, ParentWritten
<1>3. reqNew' = [reqNew EXCEPT ![r] = row] /\ reqLock[r] \in {Nobody, w}
  BY DEF WriteRequest, ReqFree
<1> QED
  BY <1>2, <1>3 DEF TypeOK

(* The new status of a request that is ruled on, and the trigger.          *)
LEMMA RefreshOutcome ==
  ASSUME TypeOK, TypeOK', RowInvariant, OutcomeInvariant, NEW w \in Workers,
         Refresh(w)
  PROVE  OutcomeInvariant'
<1> USE SlotsAssumption, WorkersAssumption
<1>1. CASE Rollback(w)
  BY <1>1, RollbackOutcome
<1>2. CASE ~Rollback(w)
  <2> DEFINE r == tx[w].r
             st == FlippedTo[tx[w].op]
             row == [ReqOf(w, r) EXCEPT !.status = st]
             t == [tx[w] EXCEPT !.pc =
                     CASE tx[w].op = "approve" -> "rejectLosers"
                       [] tx[w].op = "reject" -> "commit"
                       [] OTHER -> "slots",
                     !.picked = IF tx[w].op = "cancelPendingBooking"
                                THEN LiveSlots(w, r) ELSE @]
  <2>1. /\ tx[w] \in TxState /\ tx[w].pc = "refresh" /\ Route(tx[w]) /\ Losers(w)
        /\ tx[w].op \in {"approve", "reject", "cancelPendingBooking"} /\ r \in Requests
        /\ \A q \in Requests : reqLock[q] = w <=> q = r
        /\ \A s \in Slots : slotLock[s] # w
        /\ req[r].status = "PENDING" /\ reqNew[r] = req[r]
    BY DEF TypeOK, Refresh, OutcomeInvariant, Outcome, RowInvariant, Shape, WellShaped,
           Handler, FlippingHandler
  <2>2. ReqOf(w, r) = req[r] /\ req[r] \in RequestRow
    BY <2>1 DEF ReqOf, TypeOK
  <2>3. /\ WriteRequest(w, r, row) /\ tx' = [tx EXCEPT ![w] = t]
        /\ UNCHANGED <<req, slot, venueLock, outside>>
    BY <1>2 DEF Refresh, WriteRequest
  <2>4. /\ t.pc = (CASE tx[w].op = "approve" -> "rejectLosers"
                     [] tx[w].op = "reject" -> "commit"
                     [] OTHER -> "slots")
        /\ t.op = tx[w].op /\ t.r = tx[w].r /\ t.seen = tx[w].seen /\ t.ids = tx[w].ids
        /\ t.picked = (IF tx[w].op = "cancelPendingBooking"
                       THEN LiveSlots(w, r) ELSE tx[w].picked)
        /\ tx'[w] = t /\ \A x \in Workers \ {w} : tx'[x] = tx[x]
    BY <2>1, <2>3 DEF TypeOK, TxState
  <2>5. row \in RequestRow /\ row.status = st
    BY <2>1, <2>2 DEF FlippedTo, RequestRow, Statuses
  <2>6. \A q \in Requests : /\ reqLock'[q] = IF q = r THEN w ELSE reqLock[q]
                            /\ reqNew'[q] = IF q = r THEN row ELSE reqNew[q]
    BY <2>1, <2>3 DEF WriteRequest, TypeOK
  <2>7. st = "APPROVED" <=> tx[w].op = "approve"
    BY <2>1 DEF FlippedTo
  <2>8. <<"PENDING", st>> \in Moves
    BY <2>1 DEF FlippedTo, Moves
  <2> HIDE DEF t, row
  <2>9. /\ \A s \in Slots : slotLock'[s] = w =>
             /\ tx[w].op = "approve" /\ RequestOf[s] = r /\ ~slotNew'[s].cancelled
             /\ slotNew'[s].reminded = slot[s].reminded
        /\ \A x \in Workers \ {w}, s \in Slots :
             /\ slotLock'[s] = x <=> slotLock[s] = x
             /\ slotLock[s] = x => slotNew'[s] = slotNew[s]
    <3>1. CASE tx[w].op = "approve"
      <4> HIDE DEF r, st
      <4> QED
        BY <2>1, <2>3, <2>5, <2>7, <3>1, ApprovalWrites
    <3>2. CASE tx[w].op # "approve"
      <4>1. tx'[w].r = tx[w].r
        BY <2>4
      <4> HIDE DEF r, st
      <4>2. UNCHANGED <<slotNew, slotLock>>
        BY <2>1, <2>3, <2>4, <2>5, <2>7, <2>8, <3>2, <4>1, RulingWrites
      <4> QED
        BY <2>1, <4>2
    <3> QED
      BY <3>1, <3>2
  <2>10. Route(t)
    <3>1. t.pc \in Statements[t.op] \cup {"commit"}
      BY <2>1, <2>4 DEF Statements
    <3>2. t.picked \subseteq SlotsOf(t.r)
      BY <2>1, <2>4 DEF Route, LiveSlots
    <3>3. t.pc \notin {"check", "flip", "refresh"}
      BY <2>1, <2>4
    <3> QED
      BY <2>1, <2>4, <3>1, <3>2, <3>3 DEF Route
  <2>11. WroteRequests(w)'
    <3> SUFFICES ASSUME NEW q \in Requests, reqLock'[q] = w
                 PROVE  WroteRequest(w, q)'
      BY DEF WroteRequests
    <3>1. q = r /\ reqNew'[r].status = FlippedTo[tx[w].op]
      BY <2>1, <2>5, <2>6
    <3>2. t.pc # "refresh"
      BY <2>1, <2>4
    <3> QED
      BY <2>1, <2>3, <2>4, <3>1, <3>2 DEF WroteRequest
  <2>12. WroteSlots(w)'
    <3> SUFFICES ASSUME NEW s \in Slots, slotLock'[s] = w
                 PROVE  WroteSlot(w, s)'
      BY DEF WroteSlots
    <3>1. /\ tx[w].op = "approve" /\ RequestOf[s] = r /\ slotNew'[s].cancelled = FALSE
          /\ slotNew'[s].reminded = slot[s].reminded
      BY <2>9 DEF TypeOK, SlotRow
    <3> QED
      BY <2>3, <2>4, <3>1 DEF WroteSlot, Decides, GivesUpSlots, SlotCancels, Withdraws
  <2>13. Done(w)'
    <3>1. reqLock'[r] = w
      BY <2>1, <2>6
    <3>2. tx[w].op = "cancelPendingBooking" =>
            /\ t.pc = "slots"
            /\ \A s \in SlotsOf(r) : s \in t.picked \/ slot'[s].cancelled
      BY <2>1, <2>3, <2>4 DEF LiveSlots, SlotsOf, SlotOf
    <3> QED
      BY <2>1, <2>4, <3>1, <3>2 DEF Done, Creates, SlotCancels, Withdraws, SlotsOf
  <2>14. Losers(w)'
    BY <2>1, <2>4 DEF Losers, Rivals, SlotsOf, Collide, RoomOf, Overlaps, Decides
  <2>15. Unrivalled(w)'
    BY <2>1, <2>4 DEF Unrivalled, Decides
  <2>16. \A x \in Workers \ {w}, q \in Requests :
           /\ reqLock'[q] = x <=> reqLock[q] = x
           /\ reqLock[q] = x => reqNew'[q] = reqNew[q]
    BY <2>1, <2>6
  <2>17. t.pc \in InTx \ {"lock"} /\ tx[w].pc \in InTx \ {"lock"}
    BY <2>1, <2>4 DEF InTx
  <2> QED
    BY <2>3, <2>4, <2>9, <2>10, <2>11, <2>12, <2>13, <2>14, <2>15, <2>16, <2>17, WritesOn
<1> QED
  BY <1>1, <1>2

(* A row at a time, losers and overdue requests are ruled on.              *)
LEMMA ClosesRow ==
  ASSUME TypeOK, TypeOK', RowInvariant, OutcomeInvariant, NEW w \in Workers,
         NEW r \in Requests, NEW st \in {"REJECTED", "EXPIRED"},
         tx[w].pc = IF st = "EXPIRED" THEN "expire" ELSE "rejectLosers",
         r \in tx[w].ids, reqLock[r] # w, req[r].status = "PENDING",
         WriteRequest(w, r, [req[r] EXCEPT !.status = st]),
         tx' = tx, UNCHANGED <<venueLock, outside>>
  PROVE  OutcomeInvariant'
<1> USE WorkersAssumption
<1> DEFINE row == [req[r] EXCEPT !.status = st]
<1>1. /\ tx[w] \in TxState /\ Route(tx[w]) /\ WroteRequests(w) /\ WroteSlots(w)
      /\ Done(w) /\ Losers(w) /\ Unrivalled(w) /\ Subject(w) /\ VenueHeld(w) /\ Heard(w)
  BY DEF TypeOK, OutcomeInvariant, Outcome
<1>2. row \in RequestRow /\ row.status = st /\ st # "APPROVED"
  BY DEF TypeOK, RequestRow, Statuses
<1>3. <<req[r].status, row.status>> \in Moves
  BY <1>2 DEF Moves
<1>4. WriteRequest(w, r, row)
  OBVIOUS
<1> HIDE DEF row
<1>5. /\ UNCHANGED <<req, slot, slotNew, slotLock>>
      /\ \A q \in Requests : /\ reqLock'[q] = IF q = r THEN w ELSE reqLock[q]
                             /\ reqNew'[q] = IF q = r THEN row ELSE reqNew[q]
      /\ \A x \in Workers \ {w}, q \in Requests :
           /\ reqLock'[q] = x <=> reqLock[q] = x
           /\ reqLock[q] = x => reqNew'[q] = reqNew[q]
  BY <1>2, <1>3, <1>4, RulingWrites
<1>6. Works(w)
  BY <1>5 DEF Works
<1>7. WroteRequest(w, r)'
  <2>1. CASE st = "EXPIRED"
    <3>1. tx[w].op = "expireOverdue"
      BY <1>1, <2>1 DEF Route, Statements, AllOps, StaffOps, LineOps, CronOps, AfterTx
    <3> QED
      BY <1>2, <1>5, <2>1, <3>1 DEF WroteRequest
  <2>2. CASE st = "REJECTED"
    <3>1. tx[w].op \in Decides
      BY <1>1, <2>2 DEF Route, Statements, AllOps, StaffOps, LineOps, CronOps, AfterTx, Decides
    <3>2. r # tx[w].r
      BY <1>1, <2>2, <3>1 DEF Losers, Rivals
    <3> QED
      BY <1>2, <1>5, <2>2, <3>1, <3>2 DEF WroteRequest
  <2> QED
    BY <2>1, <2>2
<1>8. WroteRequests(w)'
  <2> SUFFICES ASSUME NEW q \in Requests, reqLock'[q] = w, q # r
               PROVE  WroteRequest(w, q)'
    BY <1>7 DEF WroteRequests
  <2>1. WroteRequest(w, q) /\ reqNew'[q] = reqNew[q]
    BY <1>1, <1>5 DEF WroteRequests
  <2> QED
    BY <1>5, <2>1 DEF WroteRequest
<1>9. WroteSlots(w)'
  BY <1>1, <1>5 DEF WroteSlots, WroteSlot
<1>10. Done(w)'
  <2>1. /\ tx[w].op \in Creates /\ tx[w].pc = "rejectLosers" => reqLock[tx[w].r] = w
        /\ tx[w].op = "approve" /\ tx[w].pc = "rejectLosers" => reqLock[tx[w].r] = w
        /\ tx[w].op \in Decides => tx[w].r \in Requests
    BY <1>1, SubjectKnown DEF Done, Decides, Sweeps
  <2>2. tx[w].pc = "rejectLosers" => tx[w].op \in Decides
    BY <1>1 DEF Route, Statements, AllOps, StaffOps, LineOps, CronOps, AfterTx, Decides
  <2> QED
    BY <1>5, <2>1, <2>2 DEF Done, Creates, Decides
<1>11. Losers(w)' /\ Unrivalled(w)' /\ Subject(w)' /\ VenueHeld(w)' /\ Heard(w)'
  BY <1>1, <1>5 DEF Losers, Unrivalled, Subject, VenueHeld, Heard, Rivals, SlotsOf,
                    Collide, RoomOf, Overlaps, WellParsed
<1>12. Route(tx[w])' /\ Tells(w)' /\ ~Reminding(w)'
  BY <1>1 DEF Route, SlotsOf, Tells, Reminding, AfterTx
<1> QED
  BY <1>6, <1>8, <1>9, <1>10, <1>11, <1>12, WorkKept DEF Outcome

(* A handler that has written all its rows, or some of them need no        *)
(* writing, moves on with what it holds.                                   *)
LEMMA PassesOn ==
  ASSUME TypeOK, TypeOK', RowInvariant, OutcomeInvariant, NEW w \in Workers,
         NEW t, Pass(w, t), tx[w].pc \in InTx \ {"lock"},
         t.op = tx[w].op, t.r = tx[w].r, t.seen = tx[w].seen,
         t.picked \subseteq tx[w].picked, t.ids \subseteq tx[w].ids,
         t.pc \in Statements[t.op] \cup {"commit"},
         t.pc \notin {"lock", "check", "losers", "insert", "flip", "refresh"},
         tx[w].pc \notin {"refresh", "commit"},
         tx[w].op \in Decides => tx[w].pc = "rejectLosers" /\ t.pc = "commit",
         tx[w].op \in SlotCancels => t.pc # "commit",
         \A s \in tx[w].picked : slotLock[s] = w => s \in t.picked,
         \A r \in tx[w].ids : reqLock[r] = w => r \in t.ids,
         Done(w)'
  PROVE  OutcomeInvariant'
<1>1. /\ tx[w] \in TxState /\ Route(tx[w]) /\ WroteRequests(w) /\ WroteSlots(w)
      /\ Losers(w)
      /\ UNCHANGED <<rows, venueLock, outside>> /\ tx' = [tx EXCEPT ![w] = t] /\ tx'[w] = t
  BY DEF TypeOK, OutcomeInvariant, Outcome, Pass
<1>2. Route(t)
  BY <1>1, RouteGoesOn
<1>3. WroteRequests(w)'
  <2> SUFFICES ASSUME NEW r \in Requests, reqLock[r] = w
               PROVE  WroteRequest(w, r)'
    BY <1>1 DEF WroteRequests, rows
  <2>1. WroteRequest(w, r)
    BY <1>1 DEF WroteRequests
  <2>2. /\ r \in tx[w].ids => r \in t.ids
        /\ req' = req /\ reqNew' = reqNew
    BY <1>1 DEF rows
  <2>3. CASE tx[w].op = "expireOverdue"
    BY <1>1, <2>1, <2>2, <2>3 DEF WroteRequest, Decides, SlotCancels
  <2>4. CASE tx[w].op \in Decides
    BY <1>1, <2>1, <2>2, <2>4 DEF WroteRequest, Decides, SlotCancels
  <2>5. CASE tx[w].op \in {"createFromLine", "reject", "cancelPendingBooking"}
    BY <1>1, <2>1, <2>2, <2>5 DEF WroteRequest, Decides, SlotCancels
  <2>6. CASE tx[w].op \in SlotCancels
    BY <1>1, <2>1, <2>2, <2>6 DEF WroteRequest, Decides, SlotCancels
  <2> QED
    BY <2>1, <2>3, <2>4, <2>5, <2>6 DEF WroteRequest, Decides
<1>4. WroteSlots(w)'
  <2> SUFFICES ASSUME NEW s \in Slots, slotLock[s] = w
               PROVE  WroteSlot(w, s)'
    BY <1>1 DEF WroteSlots, rows
  <2>1. WroteSlot(w, s) /\ (s \in tx[w].picked => s \in t.picked)
        /\ slot' = slot /\ slotNew' = slotNew
    BY <1>1 DEF WroteSlots, rows
  <2> QED
    BY <1>1, <2>1 DEF WroteSlot
<1>5. Losers(w)'
  BY <1>1 DEF Losers, Rivals, SlotsOf, Collide, RoomOf, Overlaps
<1>6. Unrivalled(w)'
  BY <1>1 DEF Unrivalled
<1>7. t.pc \in InTx /\ tx[w].pc # "lock" /\ t.pc # "lock"
  <2>1. tx[w].op \in AllOps
    BY <1>1 DEF Route, InTx
  <2> QED
    BY <2>1 DEF Statements, AllOps, StaffOps, LineOps, CronOps, InTx
<1> QED
  BY <1>1, <1>2, <1>3, <1>4, <1>5, <1>6, <1>7, MovesOn

(* rejectLosers, a row at a time.                                          *)
LEMMA RejectLosersOutcome ==
  ASSUME TypeOK, TypeOK', RowInvariant, OutcomeInvariant, NEW w \in Workers,
         RejectLosers(w)
  PROVE  OutcomeInvariant'
<1>1. /\ tx[w] \in TxState /\ tx[w].pc = "rejectLosers" /\ Route(tx[w]) /\ Done(w)
  BY DEF TypeOK, RejectLosers, OutcomeInvariant, Outcome
<1>2. tx[w].op \in Decides
  BY <1>1 DEF Route, Statements, AllOps, StaffOps, LineOps, CronOps, AfterTx, Decides
<1>3. ASSUME NEW l \in ToReject(w),
             WriteRequest(w, l, [req[l] EXCEPT !.status = "REJECTED"]),
             tx' = tx, UNCHANGED <<venueLock, outside>>
      PROVE  OutcomeInvariant'
  <2>1. l \in Requests /\ l \in tx[w].ids /\ reqLock[l] # w /\ req[l].status = "PENDING"
    BY <1>1 DEF ToReject, TxState
  <2> QED
    BY <1>1, <1>3, <2>1, ClosesRow
<1>4. CASE Pass(w, [tx[w] EXCEPT !.pc = "commit"])
  <2> DEFINE t == [tx[w] EXCEPT !.pc = "commit"]
  <2>1. /\ t.pc = "commit" /\ t.op = tx[w].op /\ t.r = tx[w].r /\ t.seen = tx[w].seen
        /\ t.picked = tx[w].picked /\ t.ids = tx[w].ids /\ Pass(w, t)
    BY <1>1, <1>4 DEF TxState
  <2> HIDE DEF t
  <2>2. Done(w)'
    BY <1>1, <1>2, <2>1
       DEF Done, Pass, TypeOK, rows, Decides, Creates, SlotCancels, Withdraws
  <2> QED
    BY <1>1, <1>2, <2>1, <2>2, PassesOn DEF InTx, Decides, SlotCancels
<1> QED
  BY <1>3, <1>4 DEF RejectLosers, ToReject

(* The expiry UPDATE, a row at a time.                                     *)
LEMMA ExpireRowsOutcome ==
  ASSUME TypeOK, TypeOK', RowInvariant, OutcomeInvariant, NEW w \in Workers,
         ExpireRows(w)
  PROVE  OutcomeInvariant'
<1> DEFINE todo == {r \in tx[w].ids : reqLock[r] # w}
           gone == {r \in todo : req[r].status # "PENDING"}
           t == [tx[w] EXCEPT !.ids = @ \ gone]
           u == [tx[w] EXCEPT !.pc = "commit"]
<1>1. tx[w] \in TxState /\ tx[w].pc = "expire" /\ Route(tx[w])
  BY DEF TypeOK, ExpireRows, OutcomeInvariant, Outcome
<1>2. tx[w].op = "expireOverdue"
  BY <1>1 DEF Route, Statements, AllOps, StaffOps, LineOps, CronOps, AfterTx
<1>3. /\ t.pc = "expire" /\ t.op = tx[w].op /\ t.r = tx[w].r /\ t.seen = tx[w].seen
      /\ t.picked = tx[w].picked /\ t.ids = tx[w].ids \ gone
      /\ u.pc = "commit" /\ u.op = tx[w].op /\ u.r = tx[w].r /\ u.seen = tx[w].seen
      /\ u.picked = tx[w].picked /\ u.ids = tx[w].ids
  BY <1>1 DEF TxState
<1>4. \/ Pass(w, t)
      \/ todo = {} /\ Pass(w, u)
      \/ /\ \E r \in todo \ gone :
              WriteRequest(w, r, [req[r] EXCEPT !.status = "EXPIRED"])
         /\ UNCHANGED <<tx, venueLock, outside>>
  BY DEF ExpireRows
<1> HIDE DEF t, u
<1>5. CASE Pass(w, t)
  <2>1. Done(w)'
    BY <1>2, <1>3, <1>5 DEF Done, Pass, TypeOK, Creates, SlotCancels, Withdraws
  <2>2. t.pc \in Statements[t.op]
    BY <1>2, <1>3 DEF Statements
  <2> QED
    BY <1>1, <1>2, <1>3, <1>5, <2>1, <2>2, PassesOn DEF InTx, Decides, SlotCancels
<1>6. CASE todo = {} /\ Pass(w, u)
  <2>1. \A r \in u.ids : reqLock[r] = w
    BY <1>3, <1>6
  <2>2. Done(w)'
    BY <1>2, <1>3, <1>6, <2>1 DEF Done, Pass, TypeOK, rows, Creates, SlotCancels, Withdraws
  <2> QED
    BY <1>1, <1>2, <1>3, <1>6, <2>2, PassesOn DEF InTx, Decides, SlotCancels
<1>7. ASSUME NEW r \in todo \ gone,
             WriteRequest(w, r, [req[r] EXCEPT !.status = "EXPIRED"]),
             UNCHANGED <<tx, venueLock, outside>>
      PROVE  OutcomeInvariant'
  <2>1. r \in Requests /\ r \in tx[w].ids /\ reqLock[r] # w /\ req[r].status = "PENDING"
    BY <1>1 DEF TxState
  <2> QED
    BY <1>1, <1>7, <2>1, ClosesRow
<1> QED
  BY <1>4, <1>5, <1>6, <1>7

(* A slot at a time, a cancellation or the reminder claim writes.          *)
LEMMA SlotWrittenOutcome ==
  ASSUME TypeOK, TypeOK', RowInvariant, OutcomeInvariant, NEW w \in Workers,
         NEW s \in Slots, NEW row \in SlotRow, WriteSlot(w, s, row),
         slotLock[s] # w, s \in tx[w].picked,
         \/ /\ tx[w].pc = "slots" /\ row.cancelled
            /\ row.reminded = slot[s].reminded
         \/ /\ tx[w].pc = "remind" /\ row.cancelled = FALSE
            /\ row.reminded /\ slot[s].reminded = FALSE /\ row.holds = slot[s].holds
            /\ ~slot[s].cancelled,
         tx' = tx, UNCHANGED <<venueLock, outside>>
  PROVE  OutcomeInvariant'
<1> USE SlotsAssumption, WorkersAssumption
<1> DEFINE h == ~row.cancelled /\ ReqOf(w, RequestOf[s]).status = "APPROVED"
           new == [row EXCEPT !.holds = h]
<1>1. /\ tx[w] \in TxState /\ Route(tx[w]) /\ WroteRequests(w) /\ WroteSlots(w)
      /\ Done(w) /\ Losers(w) /\ Unrivalled(w) /\ Subject(w) /\ VenueHeld(w) /\ Heard(w)
      /\ WellShaped(tx[w]) /\ Rows
  BY DEF TypeOK, OutcomeInvariant, Outcome, RowInvariant, Shape
<1>2. /\ req' = req /\ reqNew' = reqNew /\ reqLock' = reqLock /\ slot' = slot
      /\ slotLock' = [slotLock EXCEPT ![s] = w]
      /\ slotNew' = [slotNew EXCEPT ![s] = new]
      /\ slotLock[s] = Nobody
  BY DEF WriteSlot, SlotFree
<1>3. new.cancelled = row.cancelled /\ new.reminded = row.reminded
      /\ new.holds = h
  BY DEF SlotRow
<1>4. new.holds => slot[s].holds
  <2>1. SlotOf(w, s) = slot[s]
    BY DEF SlotOf
  <2>2. slot[s].holds <=> ~slot[s].cancelled /\ ReqOf(w, RequestOf[s]).status = "APPROVED"
    BY <1>1, <2>1 DEF Rows, ViewMirror
  <2> QED
    BY <1>3, <2>2
<1> HIDE DEF new, h
<1>5. \A u \in Slots : /\ slotLock'[u] = IF u = s THEN w ELSE slotLock[u]
                       /\ slotNew'[u] = IF u = s THEN new ELSE slotNew[u]
  BY <1>2 DEF TypeOK
<1>6. Works(w)
  BY <1>2, <1>5 DEF Works
<1>7. WroteRequests(w)'
  BY <1>1, <1>2 DEF WroteRequests, WroteRequest
<1>8. WroteSlot(w, s)'
  <2>1. CASE tx[w].pc = "slots"
    <3>1. tx[w].op \in GivesUpSlots /\ tx[w].op # "remindUpcoming"
      BY <1>1, <2>1 DEF WellShaped, GivesUpSlots, SlotCancels, Withdraws
    <3>2. RequestOf[s] = tx[w].r
      BY <1>1, <2>1, <3>1 DEF Route, SlotsOf
    <3> QED
      BY <1>2, <1>3, <1>4, <1>5, <2>1, <3>1, <3>2 DEF WroteSlot
  <2>2. CASE tx[w].pc = "remind"
    <3>1. tx[w].op = "remindUpcoming" /\ tx[w].op \notin GivesUpSlots
      BY <1>1, <2>2 DEF WellShaped, GivesUpSlots, SlotCancels, Withdraws
    <3> QED
      BY <1>2, <1>3, <1>4, <1>5, <2>2, <3>1 DEF WroteSlot
  <2> QED
    BY <2>1, <2>2
<1>9. WroteSlots(w)'
  BY <1>1, <1>2, <1>5, <1>8 DEF WroteSlots, WroteSlot
<1>10. Done(w)'
  BY <1>1, <1>2, <1>5 DEF Done
<1>11. Losers(w)' /\ Unrivalled(w)' /\ Subject(w)' /\ VenueHeld(w)' /\ Heard(w)'
  BY <1>1, <1>2 DEF Losers, Unrivalled, Subject, VenueHeld, Heard, Rivals, SlotsOf,
                    Collide, RoomOf, Overlaps, WellParsed
<1>12. Route(tx[w])' /\ Tells(w)' /\ ~Reminding(w)'
  BY <1>1 DEF Route, SlotsOf, Tells, Reminding, AfterTx
<1> QED
  BY <1>6, <1>7, <1>9, <1>10, <1>11, <1>12, WorkKept DEF Outcome

(* The cancellation of slots, a row at a time.                             *)
LEMMA CancelSlotsOutcome ==
  ASSUME TypeOK, TypeOK', RowInvariant, OutcomeInvariant, NEW w \in Workers,
         CancelSlots(w)
  PROVE  OutcomeInvariant'
<1> USE SlotsAssumption, WorkersAssumption
<1> DEFINE todo == {s \in tx[w].picked : slotLock[s] # w}
           gone == {s \in todo : slot[s].cancelled}
           next == CASE tx[w].op = "cancelPendingBooking" -> "commit"
                     [] tx[w].op = "cancelApprovedSlot" -> "remaining"
                     [] OTHER -> "request"
           t == [tx[w] EXCEPT !.picked = @ \ gone]
           u == [tx[w] EXCEPT !.pc = next]
<1>1. /\ tx[w] \in TxState /\ tx[w].pc = "slots" /\ Route(tx[w]) /\ Done(w)
      /\ WroteSlots(w) /\ tx[w].op \in SlotCancels \cup Withdraws
  BY DEF TypeOK, CancelSlots, OutcomeInvariant, Outcome, RowInvariant, Shape,
         WellShaped, Withdraws
<1>2. tx[w].r \in Requests /\ tx[w].picked \subseteq SlotsOf(tx[w].r)
  BY <1>1, SubjectKnown DEF Route, SlotCancels, Withdraws, Sweeps
<1>3. /\ t.pc = "slots" /\ t.op = tx[w].op /\ t.r = tx[w].r /\ t.seen = tx[w].seen
      /\ t.picked = tx[w].picked \ gone /\ t.ids = tx[w].ids
      /\ u.pc = next /\ u.op = tx[w].op /\ u.r = tx[w].r /\ u.seen = tx[w].seen
      /\ u.picked = tx[w].picked /\ u.ids = tx[w].ids
  BY <1>1 DEF TxState
<1>4. \/ Rollback(w)
      \/ tx[w].op = "cancelPendingBooking" /\ Pass(w, t)
      \/ todo = {} /\ Pass(w, u)
      \/ /\ \E s \in todo \ gone :
              WriteSlot(w, s, [slot[s] EXCEPT !.cancelled = TRUE])
         /\ UNCHANGED <<tx, venueLock, outside>>
  BY DEF CancelSlots
<1> HIDE DEF t, u
<1>5. CASE tx[w].op = "cancelPendingBooking" /\ Pass(w, t)
  <2>1. UNCHANGED <<slot, reqLock, slotLock>> /\ tx'[w] = t
    BY <1>5 DEF Pass, TypeOK, rows
  <2>2. reqLock[tx[w].r] = w
    BY <1>1, <1>5 DEF Done
  <2>3. \A s \in SlotsOf(tx[w].r) : s \in t.picked \/ slot[s].cancelled
    BY <1>1, <1>3, <1>5 DEF Done, Withdraws
  <2>4. Done(w)'
    BY <1>3, <1>5, <2>1, <2>2, <2>3 DEF Done, Creates, SlotCancels, Withdraws, SlotsOf
  <2>5. t.pc \in Statements[t.op]
    BY <1>3, <1>5 DEF Statements
  <2> QED
    BY <1>1, <1>3, <1>5, <2>4, <2>5, PassesOn DEF InTx, Decides, SlotCancels
<1>6. CASE todo = {} /\ Pass(w, u)
  <2>1. UNCHANGED rows /\ tx'[w] = u
    BY <1>6 DEF Pass, TypeOK
  <2>2. u.pc \in Statements[u.op] \cup {"commit"} /\ u.pc \in {"remaining", "request", "commit"}
    BY <1>1, <1>3 DEF Statements, SlotCancels, Withdraws
  <2>3. tx[w].op \in SlotCancels => u.pc # "commit"
    BY <1>3 DEF SlotCancels
  <2>4. CASE tx[w].op \in SlotCancels
    <3>1. Done(w)'
      BY <1>3, <2>1, <2>2, <2>3, <2>4 DEF Done, Creates, SlotCancels, Withdraws
    <3> QED
      BY <1>1, <1>3, <1>6, <2>2, <2>3, <2>4, <3>1, PassesOn DEF InTx, Decides, SlotCancels
  <2>5. CASE tx[w].op \in Withdraws
    <3>1. reqLock[tx[w].r] = w
      BY <1>1, <2>5 DEF Done, Withdraws
    <3>2. ASSUME NEW s \in SlotsOf(tx[w].r) PROVE SlotOf(w, s).cancelled
      <4>1. s \in Slots /\ (s \in tx[w].picked \/ slot[s].cancelled)
        BY <1>1, <2>5 DEF Done, SlotsOf
      <4>2. CASE slotLock[s] = w
        BY <1>1, <2>5, <4>1, <4>2 DEF WroteSlots, WroteSlot, SlotOf, GivesUpSlots
      <4>3. CASE slotLock[s] # w
        BY <1>6, <4>1, <4>3 DEF SlotOf
      <4> QED
        BY <4>2, <4>3
    <3>3. Done(w)'
      BY <1>3, <2>1, <2>5, <3>1, <3>2
         DEF Done, Creates, SlotCancels, Withdraws, SlotsOf, SlotOf, rows
    <3> QED
      BY <1>1, <1>3, <1>6, <2>2, <2>5, <3>3, PassesOn
         DEF InTx, Decides, SlotCancels, Withdraws
  <2> QED
    BY <1>1, <2>4, <2>5
<1>7. ASSUME NEW s \in todo \ gone,
             WriteSlot(w, s, [slot[s] EXCEPT !.cancelled = TRUE]),
             UNCHANGED <<tx, venueLock, outside>>
      PROVE  OutcomeInvariant'
  <2> DEFINE row == [slot[s] EXCEPT !.cancelled = TRUE]
  <2>1. s \in Slots /\ s \in tx[w].picked /\ slotLock[s] # w /\ slot[s] \in SlotRow
    BY <1>1 DEF TxState, TypeOK
  <2>2. row \in SlotRow /\ row.cancelled /\ row.reminded = slot[s].reminded
    BY <2>1 DEF SlotRow
  <2>3. WriteSlot(w, s, row)
    BY <1>7
  <2> HIDE DEF row
  <2> QED
    BY <1>1, <1>7, <2>1, <2>2, <2>3, SlotWrittenOutcome
<1> QED
  BY <1>4, <1>5, <1>6, <1>7, RollbackOutcome

(* The reminder claim, a row at a time.                                    *)
LEMMA ClaimRemindersOutcome ==
  ASSUME TypeOK, TypeOK', RowInvariant, OutcomeInvariant, NEW w \in Workers,
         ClaimReminders(w)
  PROVE  OutcomeInvariant'
<1> DEFINE todo == {s \in tx[w].picked : slotLock[s] # w}
           gone == {s \in todo : slot[s].reminded \/ slot[s].cancelled}
           t == [tx[w] EXCEPT !.picked = @ \ gone]
           u == [tx[w] EXCEPT !.pc = "commit"]
<1>1. /\ tx[w] \in TxState /\ tx[w].pc = "remind" /\ Route(tx[w])
      /\ tx[w].op = "remindUpcoming"
  BY DEF TypeOK, ClaimReminders, OutcomeInvariant, Outcome, RowInvariant, Shape, WellShaped
<1>2. /\ t.pc = "remind" /\ t.op = tx[w].op /\ t.r = tx[w].r /\ t.seen = tx[w].seen
      /\ t.picked = tx[w].picked \ gone /\ t.ids = tx[w].ids
      /\ u.pc = "commit" /\ u.op = tx[w].op /\ u.r = tx[w].r /\ u.seen = tx[w].seen
      /\ u.picked = tx[w].picked /\ u.ids = tx[w].ids
  BY <1>1 DEF TxState
<1>3. \/ Pass(w, t)
      \/ todo = {} /\ Pass(w, u)
      \/ /\ \E s \in todo \ gone :
              WriteSlot(w, s, [slot[s] EXCEPT !.reminded = TRUE])
         /\ UNCHANGED <<tx, venueLock, outside>>
  BY DEF ClaimReminders
<1> HIDE DEF t, u
<1>4. CASE Pass(w, t)
  <2>1. tx'[w] = t
    BY <1>4 DEF Pass, TypeOK
  <2>2. Done(w)'
    BY <1>1, <1>2, <2>1 DEF Done, Creates, SlotCancels, Withdraws
  <2>3. t.pc \in Statements[t.op]
    BY <1>1, <1>2 DEF Statements
  <2> QED
    BY <1>1, <1>2, <1>4, <2>2, <2>3, PassesOn DEF InTx, Decides, SlotCancels
<1>5. CASE todo = {} /\ Pass(w, u)
  <2>1. tx'[w] = u /\ slotLock' = slotLock
    BY <1>5 DEF Pass, TypeOK, rows
  <2>2. \A s \in u.picked : slotLock[s] = w
    BY <1>2, <1>5
  <2>3. Done(w)'
    BY <1>1, <1>2, <2>1, <2>2 DEF Done, Creates, SlotCancels, Withdraws
  <2> QED
    BY <1>1, <1>2, <1>5, <2>3, PassesOn DEF InTx, Decides, SlotCancels
<1>6. ASSUME NEW s \in todo \ gone,
             WriteSlot(w, s, [slot[s] EXCEPT !.reminded = TRUE]),
             UNCHANGED <<tx, venueLock, outside>>
      PROVE  OutcomeInvariant'
  <2> DEFINE row == [slot[s] EXCEPT !.reminded = TRUE]
  <2>1. /\ s \in Slots /\ s \in tx[w].picked /\ slotLock[s] # w /\ slot[s] \in SlotRow
        /\ ~slot[s].cancelled /\ ~slot[s].reminded
    BY <1>1 DEF TxState, TypeOK
  <2>2. /\ row \in SlotRow /\ row.cancelled = FALSE /\ row.reminded
        /\ slot[s].reminded = FALSE /\ row.holds = slot[s].holds
    BY <2>1 DEF SlotRow
  <2>3. WriteSlot(w, s, row)
    BY <1>6
  <2> HIDE DEF row
  <2> QED
    BY <1>1, <1>6, <2>1, <2>2, <2>3, SlotWrittenOutcome
<1> QED
  BY <1>3, <1>4, <1>5, <1>6

(* The last statement of a slot cancellation writes the parent.            *)
LEMMA UpdateRequestOutcome ==
  ASSUME TypeOK, TypeOK', RowInvariant, OutcomeInvariant, NEW w \in Workers,
         UpdateRequest(w)
  PROVE  OutcomeInvariant'
<1> USE SlotsAssumption, WorkersAssumption
<1> DEFINE r == tx[w].r
           row == IF tx[w].remaining = {}
                  THEN [ReqOf(w, r) EXCEPT !.status = "CANCELLED"]
                  ELSE [ReqOf(w, r) EXCEPT !.span = tx[w].remaining]
           t == [tx[w] EXCEPT !.pc = "commit"]
<1>1. /\ Rows /\ tx[w] \in TxState /\ tx[w].pc = "request" /\ Route(tx[w])
      /\ CancellingHandler(w) /\ WroteSlots(w) /\ Losers(w) /\ Unrivalled(w)
      /\ tx[w].op \in SlotCancels /\ r \in Requests
  BY DEF RowInvariant, TypeOK, UpdateRequest, Handler, OutcomeInvariant, Outcome,
         Shape, WellShaped
<1>2. /\ reqLock[r] # w /\ ReqOf(w, r) = req[r] /\ req[r] \in RequestRow
      /\ tx[w].picked # {} /\ \A s \in tx[w].picked : slotLock[s] = w
  BY <1>1 DEF CancellingHandler, HoldsNoRequest, ReqOf, TypeOK
<1>3. req[r].status = "APPROVED"
  <2>1. PICK s \in tx[w].picked : s \in Slots /\ RequestOf[s] = r /\ slotLock[s] = w
    BY <1>1 DEF CancellingHandler, SlotsOf
  <2> QED
    BY <1>1, <1>2, <2>1 DEF Rows, WrittenSlots
<1>4. /\ row \in RequestRow
      /\ \/ row.status = "APPROVED"
         \/ row.status = "CANCELLED" /\ tx[w].remaining = {}
  <2>1. CASE tx[w].remaining = {}
    BY <1>2, <2>1 DEF RequestRow, Statuses
  <2>2. CASE tx[w].remaining # {}
    <3>1. row = [req[r] EXCEPT !.span = tx[w].remaining]
      BY <1>2, <2>2
    <3>2. tx[w].remaining \in SUBSET Slots
      BY <1>1 DEF TxState
    <3>3. \A q \in RequestRow, S \in SUBSET Slots :
            /\ [q EXCEPT !.span = S] \in RequestRow
            /\ [q EXCEPT !.span = S].status = q.status
      BY DEF RequestRow
    <3> HIDE DEF row, r
    <3> QED
      BY <1>2, <1>3, <3>1, <3>2, <3>3
  <2> QED
    BY <2>1, <2>2
<1>5. row.status # "APPROVED" => \A s \in SlotsOf(r) : SlotOf(w, s).cancelled
  BY <1>1, <1>4 DEF CancellingHandler
<1>6. row.status = req[r].status \/ <<req[r].status, row.status>> \in Moves
  BY <1>3, <1>4 DEF Moves
<1>7. WriteRequest(w, r, row) /\ tx' = [tx EXCEPT ![w] = t] /\ UNCHANGED <<venueLock, outside>>
  BY DEF UpdateRequest, Goto
<1>8. /\ \A x \in Workers \ {w} : tx'[x] = tx[x]
      /\ t.pc = "commit" /\ t.op = tx[w].op /\ t.r = tx[w].r /\ t.seen = tx[w].seen
      /\ t.picked = tx[w].picked /\ t.ids = tx[w].ids /\ tx'[w] = t
  BY <1>1, <1>7 DEF TypeOK, TxState
<1> HIDE DEF row, t
<1>9. tx'[w].r = tx[w].r
  BY <1>8
<1> HIDE DEF r
<1>10. /\ UNCHANGED <<req, slot, slotNew, slotLock>>
       /\ \A q \in Requests : /\ reqLock'[q] = IF q = r THEN w ELSE reqLock[q]
                              /\ reqNew'[q] = IF q = r THEN row ELSE reqNew[q]
       /\ \A x \in Workers \ {w}, q \in Requests :
            /\ reqLock'[q] = x <=> reqLock[q] = x
            /\ reqLock[q] = x => reqNew'[q] = reqNew[q]
  BY <1>1, <1>2, <1>3, <1>4, <1>5, <1>6, <1>7, <1>8, <1>9, RulingWrites
<1>11. Route(t)
  BY <1>1, <1>8, RouteGoesOn DEF InTx
<1>12. WroteRequests(w)'
  <2> SUFFICES ASSUME NEW q \in Requests, reqLock'[q] = w
               PROVE  WroteRequest(w, q)'
    BY DEF WroteRequests
  <2>1. q = r
    BY <1>1, <1>10 DEF CancellingHandler, HoldsNoRequest
  <2>2. reqNew'[q].status \in {"APPROVED", "CANCELLED"}
    BY <1>4, <1>10, <2>1
  <2> QED
    BY <1>1, <1>3, <1>8, <1>10, <2>1, <2>2 DEF WroteRequest, r
<1>13. WroteSlots(w)'
  BY <1>1, <1>8, <1>10 DEF WroteSlots, WroteSlot
<1>14. Done(w)'
  BY <1>1, <1>2, <1>8, <1>10 DEF Done, Creates, SlotCancels, Withdraws, r
<1>15. Losers(w)' /\ Unrivalled(w)'
  BY <1>1, <1>8 DEF Losers, Unrivalled, SlotCancels, Decides
<1>16. t.pc \in InTx \ {"lock"} /\ tx[w].pc \in InTx \ {"lock"}
  BY <1>1, <1>8 DEF InTx
<1>17. \A x \in Workers \ {w}, s \in Slots : slotLock'[s] = slotLock[s] /\ slotNew'[s] = slotNew[s]
  BY <1>10
<1> QED
  BY <1>7, <1>8, <1>10, <1>11, <1>12, <1>13, <1>14, <1>15, <1>16, <1>17, WritesOn

-----------------------------------------------------------------------------
(* COMMIT.                                                                 *)

(* What a COMMIT makes of the rows.                                        *)
LEMMA CommittedRows ==
  ASSUME TypeOK, NEW w \in Workers, Commit(w)
  PROVE  /\ \A r \in Requests : /\ req'[r] = IF reqLock[r] = w THEN reqNew[r] ELSE req[r]
                                /\ reqLock'[r] = IF reqLock[r] = w THEN Nobody ELSE reqLock[r]
         /\ \A s \in Slots : /\ slot'[s] = IF slotLock[s] = w THEN slotNew[s] ELSE slot[s]
                             /\ slot'[s] = SlotOf(w, s)
                             /\ slotLock'[s] = IF slotLock[s] = w THEN Nobody ELSE slotLock[s]
         /\ \A v \in Venues :
              venueLock'[v] = IF venueLock[v] = w THEN Nobody ELSE venueLock[v]
         /\ \A x \in Workers \ {w} : tx'[x] = tx[x]
         /\ UNCHANGED <<reqNew, slotNew, outside>> /\ tx[w].pc = "commit"
BY DEF Commit, TypeOK, ReqOf, SlotOf

(* A written row moves along the lifecycle; which way, its writer knows.   *)
LEMMA WrittenRow ==
  ASSUME TypeOK, NEW w \in Workers, NEW r \in Requests, WroteRequest(w, r),
         tx[w].pc = "commit"
  PROVE  /\ reqNew[r].status = req[r].status \/ <<req[r].status, reqNew[r].status>> \in Moves
         /\ reqNew[r].status # "NONE"
         /\ reqNew[r].status = "APPROVED" /\ req[r].status # "APPROVED"
              => tx[w].op \in Decides /\ r = tx[w].r
         /\ req[r].status = "NONE" => tx[w].op \in Creates /\ r = tx[w].r
         /\ reqNew[r].status = "CANCELLED" /\ req[r].status # "CANCELLED"
              => \/ req[r].status = "APPROVED"
                 \/ tx[w].op \in Withdraws /\ r = tx[w].r
         /\ tx[w].op = "expireOverdue" => reqNew[r].status = "EXPIRED"
         /\ r = tx[w].r =>
              /\ tx[w].op = "createFromLine" => reqNew[r].status = "PENDING"
              /\ tx[w].op \in {"createDirect", "approve"} => reqNew[r].status = "APPROVED"
              /\ tx[w].op = "reject" => reqNew[r].status = "REJECTED"
BY DEF WroteRequest, FlippedTo, Moves, Decides, Creates, Withdraws, SlotCancels

(* A COMMIT takes nothing from the other handlers.                         *)
LEMMA CommitLeaves ==
  ASSUME TypeOK, TypeOK', RowInvariant, OutcomeInvariant, NEW w \in Workers,
         Commit(w)
  PROVE  Leaves(w)
<1> USE SlotsAssumption, RequestsAssumption, WorkersAssumption
<1>1. /\ WroteRequests(w) /\ WroteSlots(w) /\ VenueHeld(w) /\ Rows /\ Route(tx[w])
      /\ tx[w].pc = "commit"
  BY DEF OutcomeInvariant, Outcome, RowInvariant, Commit
<1>2. tx[w].op \in Decides => venueLock[VenueOf[tx[w].r]] = w /\ tx[w].r \in Requests
  BY <1>1, SubjectKnown DEF VenueHeld, TakesVenueLock, InTx, Decides, Sweeps
<1>3. ASSUME NEW r \in Requests
      PROVE  /\ req'[r].status = req[r].status \/ <<req[r].status, req'[r].status>> \in Moves
             /\ req'[r].status = "APPROVED"
                  => req[r].status = "APPROVED" \/ venueLock[VenueOf[r]] = w
  <2>1. CASE reqLock[r] = w
    <3>1. WroteRequest(w, r) /\ req'[r] = reqNew[r]
      BY <1>1, <2>1, CommittedRows DEF WroteRequests
    <3>2. /\ reqNew[r].status = req[r].status \/ <<req[r].status, reqNew[r].status>> \in Moves
          /\ reqNew[r].status = "APPROVED" /\ req[r].status # "APPROVED"
              => tx[w].op \in Decides /\ r = tx[w].r
      BY <1>1, <3>1, WrittenRow
    <3> QED
      BY <1>2, <3>1, <3>2
  <2>2. CASE reqLock[r] # w
    BY <2>2, CommittedRows
  <2> QED
    BY <2>1, <2>2
<1>4. ASSUME NEW s \in Slots
      PROVE  /\ slot[s].cancelled => slot'[s].cancelled
             /\ slot[s].reminded => slot'[s].reminded
             /\ slot'[s].holds => slot[s].holds \/ venueLock[RoomOf(s)] = w
  <2>1. CASE slotLock[s] = w
    <3>1. ~slot[s].cancelled
      BY <1>1, <2>1 DEF Rows, WrittenSlots
    <3>2. WroteSlot(w, s) /\ slot'[s] = slotNew[s]
      BY <1>1, <2>1, CommittedRows DEF WroteSlots
    <3>3. slot[s].reminded => slotNew[s].reminded
      BY <3>2 DEF WroteSlot
    <3>4. slotNew[s].holds => slot[s].holds \/ (tx[w].op \in Decides /\ RequestOf[s] = tx[w].r)
      BY <3>2 DEF WroteSlot, Decides
    <3> QED
      BY <1>2, <3>1, <3>2, <3>3, <3>4 DEF RoomOf
  <2>2. CASE slotLock[s] # w
    BY <2>2, CommittedRows
  <2> QED
    BY <2>1, <2>2
<1>5. reminders' = reminders
  BY CommittedRows DEF outside
<1>6. \A x \in Workers \ {w} :
       /\ tx'[x] = tx[x]
       /\ \A r \in Requests :
            /\ reqLock'[r] = x <=> reqLock[r] = x
            /\ reqLock[r] = x => req'[r] = req[r] /\ reqNew'[r] = reqNew[r]
       /\ \A s \in Slots :
            /\ slotLock'[s] = x <=> slotLock[s] = x
            /\ slotLock[s] = x => slot'[s] = slot[s] /\ slotNew'[s] = slotNew[s]
       /\ \A v \in Venues : venueLock'[v] = x <=> venueLock[v] = x
  BY CommittedRows
<1> QED
  BY <1>3, <1>4, <1>5, <1>6 DEF Leaves

(* After COMMIT, the expired rows and the marked slots are what is told.   *)
LEMMA CommitTellsSweeps ==
  ASSUME TypeOK, RowInvariant, OutcomeInvariant, NEW w \in Workers, Commit(w)
  PROVE  /\ tx[w].op = "expireOverdue" =>
              \A r \in tx[w].ids : r \in Requests /\ req'[r].status = "EXPIRED"
         /\ tx[w].op = "remindUpcoming" =>
              \A s \in tx[w].picked :
                s \in Slots /\ ~slot[s].reminded /\ slot'[s].reminded /\ reminders'[s] = 0
<1>1. /\ WroteRequests(w) /\ WroteSlots(w) /\ Done(w)
      /\ RemindedOnce /\ tx[w].pc = "commit" /\ tx[w] \in TxState
  BY DEF OutcomeInvariant, Outcome, Commit, TypeOK
<1>2. ASSUME tx[w].op = "expireOverdue", NEW r \in tx[w].ids
      PROVE  r \in Requests /\ req'[r].status = "EXPIRED"
  <2>1. r \in Requests /\ reqLock[r] = w
    BY <1>1, <1>2 DEF Done, TxState
  <2>2. WroteRequest(w, r) /\ req'[r] = reqNew[r]
    BY <1>1, <2>1, CommittedRows DEF WroteRequests
  <2> QED
    BY <1>1, <1>2, <2>1, <2>2, WrittenRow
<1>3. ASSUME tx[w].op = "remindUpcoming", NEW s \in tx[w].picked
      PROVE  s \in Slots /\ ~slot[s].reminded /\ slot'[s].reminded /\ reminders'[s] = 0
  <2>1. s \in Slots /\ slotLock[s] = w
    BY <1>1, <1>3 DEF Done, TxState
  <2>2. WroteSlot(w, s) /\ slot'[s] = slotNew[s]
    BY <1>1, <2>1, CommittedRows DEF WroteSlots
  <2>3. ~slot[s].reminded /\ slot'[s].reminded
    BY <1>3, <2>2 DEF WroteSlot
  <2> QED
    BY <1>1, <2>1, <2>3, CommittedRows DEF RemindedOnce, outside
<1> QED
  BY <1>2, <1>3

(* After COMMIT, the card of an endpoint is true of its request.           *)
LEMMA CommitTellsCard ==
  ASSUME TypeOK, RowInvariant, OutcomeInvariant, NEW w \in Workers, Commit(w),
         tx[w].op \notin Sweeps, NEW r, r = tx[w].r, NEW k, k = CardFor[tx[w].op]
  PROVE  CardTrue(r, k)'
<1> USE SlotsAssumption
<1>1. /\ WroteRequests(w) /\ WroteSlots(w) /\ Done(w) /\ Subject(w) /\ Route(tx[w])
      /\ tx[w].pc = "commit" /\ tx[w] \in TxState
  BY DEF OutcomeInvariant, Outcome, Commit, TypeOK
<1>2. r \in Requests /\ SlotsOf(r) # {}
  BY <1>1, SubjectKnown DEF Subject, WellParsed
<1>3. tx[w].op \in {"createFromLine", "createDirect", "approve", "reject",
                    "cancelPendingBooking", "cancelApprovedSlot", "cancel"}
  BY <1>1 DEF Route, AllOps, StaffOps, LineOps, CronOps, Sweeps, AfterTx
<1>4. CASE tx[w].op \in {"createFromLine", "createDirect", "approve", "reject"}
  <2>1. reqLock[r] = w
    BY <1>1, <1>4 DEF Done, Creates
  <2>2. WroteRequest(w, r) /\ req'[r] = reqNew[r]
    BY <1>1, <1>2, <2>1, CommittedRows DEF WroteRequests
  <2>3. /\ tx[w].op = "createFromLine" => req'[r].status = "PENDING"
        /\ tx[w].op \in {"createDirect", "approve"} => req'[r].status = "APPROVED"
        /\ tx[w].op = "reject" => req'[r].status = "REJECTED"
    BY <1>1, <1>2, <2>2, WrittenRow
  <2>4. \/ k = "PENDING" /\ req'[r].status = "PENDING"
        \/ k = "APPROVED" /\ req'[r].status = "APPROVED"
        \/ k = "REJECTED" /\ req'[r].status = "REJECTED"
    BY <1>4, <2>3 DEF CardFor
  <2> QED
    BY <2>4 DEF CardTrue
<1>5. CASE tx[w].op \in {"cancelPendingBooking", "cancelApprovedSlot", "cancel"}
  <2>1. \E s \in SlotsOf(r) : slot'[s].cancelled
    <3>1. CASE tx[w].op = "cancelPendingBooking"
      <4>1. PICK s \in SlotsOf(r) : SlotOf(w, s).cancelled
        BY <1>1, <1>2, <3>1 DEF Done, Withdraws
      <4>2. s \in Slots
        BY DEF SlotsOf
      <4> QED
        BY <4>1, <4>2, CommittedRows
    <3>2. CASE tx[w].op \in SlotCancels
      <4>1. PICK s \in tx[w].picked : slotLock[s] = w
        BY <1>1, <3>2 DEF Done
      <4>2. s \in SlotsOf(r) /\ s \in Slots
        BY <1>1, <3>2 DEF Route, SlotCancels, SlotsOf
      <4>3. WroteSlot(w, s) /\ slot'[s] = slotNew[s]
        BY <1>1, <4>1, <4>2, CommittedRows DEF WroteSlots
      <4>4. slotNew[s].cancelled
        BY <3>2, <4>3 DEF WroteSlot, GivesUpSlots
      <4> QED
        BY <4>2, <4>3, <4>4
    <3> QED
      BY <1>5, <3>1, <3>2 DEF SlotCancels
  <2>2. k \in {"CANCELLED_BY_USER", "CANCELLED_BY_STAFF"}
    BY <1>5 DEF CardFor
  <2> QED
    BY <2>1, <2>2 DEF CardTrue, SlotsOf
<1> QED
  BY <1>3, <1>4, <1>5

(* COMMIT: what the handler wrote is there, and may be told.               *)
LEMMA CommitOutcome ==
  ASSUME TypeOK, TypeOK', RowInvariant, OutcomeInvariant, NEW w \in Workers,
         Commit(w)
  PROVE  OutcomeInvariant'
<1> USE SlotsAssumption, WorkersAssumption
<1>1. /\ WroteRequests(w) /\ WroteSlots(w) /\ Done(w) /\ Subject(w) /\ Route(tx[w])
      /\ Heard(w) /\ tx[w].pc = "commit" /\ tx[w] \in TxState /\ Rows
      /\ Parsed /\ Unmarked /\ RemindedOnce /\ CancelledIsEmpty /\ NoDirtyNews
      /\ CardsAreTrue /\ \A x \in Workers : Tells(x) /\ Route(tx[x])
  BY DEF OutcomeInvariant, Outcome, Commit, TypeOK, RowInvariant
<1>2. Leaves(w)
  BY CommitLeaves
<1>3. \A r \in Requests :
        reqLock[r] = w => WroteRequest(w, r) /\ req'[r] = reqNew[r]
  BY <1>1, CommittedRows DEF WroteRequests
<1>4. \A r \in Requests : reqLock[r] # w => req'[r] = req[r]
  BY CommittedRows
<1>5. \A r \in Requests : \/ req'[r].status = req[r].status
                          \/ <<req[r].status, req'[r].status>> \in Moves
  BY <1>2 DEF Leaves
<1>6. HoldsNothing(w)' /\ \A v \in Venues : venueLock'[v] # w
  BY CommittedRows DEF HoldsNothing, HoldsNoRequest
<1>7. /\ \A r \in Requests : req[r].status \in Statuses /\ req'[r].status \in Statuses
      /\ UNCHANGED <<screen, cards, reminders>>
  BY CommittedRows DEF TypeOK, RequestRow, outside
<1>8. Parsed'
  <2> SUFFICES ASSUME NEW r \in Requests, req'[r].status # "NONE"
               PROVE  WellParsed(r)
    BY DEF Parsed, WellParsed, SlotsOf, Overlaps
  <2>1. CASE req[r].status # "NONE"
    BY <1>1, <2>1 DEF Parsed
  <2>2. CASE req[r].status = "NONE"
    <3>1. WroteRequest(w, r)
      BY <1>3, <1>4, <2>2
    <3>2. tx[w].op \in Creates /\ r = tx[w].r
      BY <1>1, <2>2, <3>1, WrittenRow
    <3> QED
      BY <1>1, <3>2 DEF Subject, Creates, Sweeps
  <2> QED
    BY <2>1, <2>2
<1>9. Unmarked'
  <2> SUFFICES ASSUME NEW s \in Slots, req'[RequestOf[s]].status = "NONE"
               PROVE  ~slot'[s].reminded
    BY DEF Unmarked
  <2>1. req[RequestOf[s]].status = "NONE" /\ ~slot[s].reminded
    BY <1>1, <1>5 DEF Moves, Unmarked
  <2>2. reqLock[RequestOf[s]] # w
    BY <1>1, <1>3, WrittenRow
  <2>3. slotLock[s] # w
    BY <1>1, <2>1, <2>2 DEF Rows, WrittenSlots
  <2> QED
    BY <2>1, <2>3, CommittedRows
<1>10. CancelledIsEmpty'
  <2> SUFFICES ASSUME NEW s \in Slots, req'[RequestOf[s]].status = "CANCELLED"
               PROVE  slot'[s].cancelled
    BY DEF CancelledIsEmpty
  <2> DEFINE r == RequestOf[s]
  <2>1. CASE req[r].status = "CANCELLED"
    BY <1>1, <1>2, <2>1 DEF CancelledIsEmpty, Leaves
  <2>2. CASE req[r].status # "CANCELLED"
    <3>1. reqLock[r] = w /\ WroteRequest(w, r) /\ reqNew[r].status = "CANCELLED"
      BY <1>3, <1>4, <2>2
    <3>2. s \in SlotsOf(r) /\ slot'[s] = SlotOf(w, s)
      BY CommittedRows DEF SlotsOf
    <3>3. CASE req[r].status = "APPROVED"
      BY <1>1, <3>1, <3>2, <3>3 DEF Rows, LeavesEmpty
    <3>4. CASE req[r].status # "APPROVED"
      <4>1. tx[w].op \in Withdraws /\ r = tx[w].r
        BY <1>1, <2>2, <3>1, <3>4, WrittenRow
      <4> QED
        BY <1>1, <3>2, <4>1 DEF Done
    <3> QED
      BY <3>3, <3>4
  <2> QED
    BY <2>1, <2>2
<1>11. NoDirtyNews'
  <2> SUFFICES ASSUME NEW r \in Requests PROVE screen[r] \in Since[req'[r].status]
    BY <1>7 DEF NoDirtyNews
  <2>1. screen[r] \in Since[req[r].status]
    BY <1>1 DEF NoDirtyNews
  <2> QED
    BY <1>5, <1>7, <2>1, SinceGrows
<1>12. CardsAreTrue'
  <2> SUFFICES ASSUME NEW c \in cards, c[2] # "AUTO_REJECTED"
               PROVE  CardTrue(c[1], c[2])'
    BY <1>7 DEF CardsAreTrue
  <2>1. c[1] \in Requests /\ CardTrue(c[1], c[2])
    BY <1>1 DEF CardsAreTrue, TypeOK
  <2>2. \A s \in Slots : slot[s].cancelled => slot'[s].cancelled
    BY <1>2 DEF Leaves
  <2>3. \A r \in Requests : \A k : CardTrue(r, k) => CardTrue(r, k)'
    BY <1>5, <2>2, CardStaysTrue
  <2> QED
    BY <2>1, <2>3
<1>13. CASE tx'[w] = Idle
  <2>1. Outcome(w)' /\ ~Reminding(w)'
    BY <1>6, <1>13, EndsKnowing
  <2>2. RemindedOnce'
    BY <1>1, <1>2, <1>7, <2>1 DEF RemindedOnce, Leaves, Reminding
  <2> QED
    BY <1>2, <1>8, <1>9, <1>10, <1>11, <1>12, <2>1, <2>2, OutcomeKept
<1>14. CASE tx'[w] # Idle
  <2> DEFINE t == [tx[w] EXCEPT !.pc = "publish", !.ids = Announced(w)]
             u == [tx[w] EXCEPT !.pc = "notify"]
  <2>1. \/ tx[w].op = "remindUpcoming" /\ tx'[w] = u
        \/ tx[w].op # "remindUpcoming" /\ tx'[w] = t
    BY <1>14 DEF Commit, TypeOK
  <2>2. /\ t.op = tx[w].op /\ t.r = tx[w].r /\ t.seen = tx[w].seen /\ t.pc = "publish"
        /\ t.picked = tx[w].picked /\ t.ids = Announced(w)
        /\ u.op = tx[w].op /\ u.r = tx[w].r /\ u.seen = tx[w].seen /\ u.pc = "notify"
        /\ u.picked = tx[w].picked
    BY <1>1 DEF TxState
  <2> HIDE DEF t, u
  <2>3. /\ tx'[w].op = tx[w].op /\ tx'[w].r = tx[w].r /\ tx'[w].seen = tx[w].seen
        /\ tx'[w].pc = (IF tx[w].op = "remindUpcoming" THEN "notify" ELSE "publish")
        /\ tx'[w].picked = tx[w].picked
        /\ tx[w].op # "remindUpcoming" => tx'[w].ids = Announced(w)
    BY <2>1, <2>2
  <2>4. Route(tx[w])'
    BY <1>1, <2>3 DEF Route, AfterTx, SlotsOf
  <2>5. WroteRequests(w)' /\ WroteSlots(w)'
    BY <1>6 DEF WroteRequests, WroteSlots, HoldsNothing, HoldsNoRequest
  <2>6. Done(w)' /\ Losers(w)' /\ Unrivalled(w)'
    BY <2>3 DEF Done, Losers, Unrivalled
  <2>7. VenueHeld(w)'
    BY <1>6, <2>3 DEF VenueHeld, InTx
  <2>8. Subject(w)'
    <3>1. tx[w].op \notin Sweeps => tx[w].r \in Requests
      BY <1>1, SubjectKnown
    <3> QED
      BY <1>1, <1>5, <2>3, <3>1 DEF Subject, WellParsed, SlotsOf, Overlaps, Moves
  <2>9. Heard(w)'
    <3> SUFFICES ASSUME NEW r \in Requests PROVE tx[w].seen[r] \in Since[req'[r].status]
      BY <2>3 DEF Heard
    <3>1. tx[w].seen[r] \in Since[req[r].status]
      BY <1>1 DEF Heard
    <3> QED
      BY <1>5, <1>7, <3>1, SinceGrows
  <2>10. Tells(w)'
    <3>1. CASE tx[w].op = "expireOverdue"
      <4>1. tx'[w].ids = tx[w].ids
        BY <1>1, <2>3, <3>1 DEF Announced, Route, Sweeps, AfterTx
      <4> QED
        BY <2>3, <3>1, <4>1, CommitTellsSweeps DEF Tells
    <3>2. CASE tx[w].op = "remindUpcoming"
      BY <2>3, <3>2, CommitTellsSweeps DEF Tells
    <3>3. CASE tx[w].op \notin Sweeps
      <4> DEFINE r == tx[w].r  k == CardFor[tx[w].op]
      <4>1. PICK q, j : q = r /\ j = k
        OBVIOUS
      <4>2. CardTrue(q, j)'
        BY <3>3, <4>1, CommitTellsCard
      <4> QED
        BY <2>3, <3>3, <4>1, <4>2 DEF Tells, Sweeps
    <3> QED
      BY <3>1, <3>2, <3>3 DEF Sweeps
  <2>11. RemindedOnce'
    <3>1. \A s \in Slots : reminders'[s] \in {0, 1} /\ (reminders'[s] = 1 => slot'[s].reminded)
      BY <1>1, <1>2, <1>7 DEF RemindedOnce, Leaves
    <3>2. ASSUME NEW x \in Workers \ {w}, Reminding(x), Reminding(w)'
          PROVE  tx'[w].picked \cap tx[x].picked = {}
      <4>1. tx[w].op = "remindUpcoming"
        BY <2>3, <3>2 DEF Reminding
      <4>2. \A s \in tx'[w].picked : ~slot[s].reminded
        BY <2>3, <4>1, CommitTellsSweeps
      <4>3. \A s \in tx[x].picked : slot[s].reminded
        BY <1>1, <3>2 DEF Reminding, Tells, AfterTx
      <4> QED
        BY <4>2, <4>3
    <3>3. \A x \in Workers \ {w} : tx'[x] = tx[x]
      BY <1>2 DEF Leaves
    <3> QED
      BY <1>1, <3>1, <3>2, <3>3 DEF RemindedOnce, Reminding
  <2> QED
    BY <1>2, <1>8, <1>9, <1>10, <1>11, <1>12, <2>4, <2>5, <2>6, <2>7, <2>8, <2>9,
       <2>10, <2>11, OutcomeKept DEF Outcome
<1> QED
  BY <1>13, <1>14

-----------------------------------------------------------------------------
(* What follows the commit.                                                *)

(* A handler that has committed goes on to its next report, or ends.       *)
LEMMA ReportsOn ==
  ASSUME TypeOK, TypeOK', RowInvariant, OutcomeInvariant, NEW w \in Workers,
         tx[w].pc \in AfterTx, UNCHANGED <<rows, venueLock>>,
         NEW t, tx' = [tx EXCEPT ![w] = t],
         \/ t = Idle
         \/ /\ tx[w].op # "remindUpcoming" /\ t.pc \in AfterTx
            /\ t.op = tx[w].op /\ t.r = tx[w].r /\ t.ids = tx[w].ids
            /\ t.picked = tx[w].picked
            /\ \A r \in Requests : t.seen[r] \in Since[req[r].status],
         \A s \in Slots : reminders'[s] = reminders[s]
                          \/ (Reminding(w) /\ s \in tx[w].picked),
         RemindedOnce', NoDirtyNews', CardsAreTrue'
  PROVE  OutcomeInvariant'
<1>1. /\ req' = req /\ reqNew' = reqNew /\ reqLock' = reqLock /\ slot' = slot
      /\ slotNew' = slotNew /\ slotLock' = slotLock /\ venueLock' = venueLock
      /\ tx'[w] = t /\ \A x \in Workers \ {w} : tx'[x] = tx[x]
  BY DEF rows, TypeOK
<1>2. Leaves(w)
  BY <1>1 DEF Leaves
<1>3. HoldsNothing(w) /\ VenueHeld(w) /\ Subject(w) /\ Tells(w) /\ Route(tx[w])
      /\ Parsed /\ Unmarked /\ CancelledIsEmpty
  BY DEF RowInvariant, Handler, CleanHandler, Clean, OutcomeInvariant, Outcome
<1>4. HoldsNothing(w)' /\ \A v \in Venues : venueLock'[v] # w
  BY <1>1, <1>3 DEF HoldsNothing, HoldsNoRequest, VenueHeld, InTx, AfterTx
<1>5. Parsed' /\ Unmarked' /\ CancelledIsEmpty'
  BY <1>1, <1>3 DEF Parsed, WellParsed, SlotsOf, Overlaps, Unmarked, CancelledIsEmpty
<1>6. Outcome(w)'
  <2>1. CASE t = Idle
    BY <1>1, <1>4, <2>1, EndsKnowing
  <2>2. CASE t # Idle
    <3>1. Route(tx[w])'
      BY <1>1, <1>3, <2>2 DEF Route, SlotsOf, AfterTx
    <3>2. WroteRequests(w)' /\ WroteSlots(w)'
      BY <1>4 DEF WroteRequests, WroteSlots, HoldsNothing, HoldsNoRequest
    <3>3. Done(w)' /\ Losers(w)' /\ Unrivalled(w)'
      BY <1>1, <2>2 DEF Done, Losers, Unrivalled, AfterTx
    <3>4. VenueHeld(w)'
      BY <1>1, <1>4, <2>2 DEF VenueHeld, InTx, AfterTx
    <3>5. Subject(w)'
      BY <1>1, <1>3, <2>2 DEF Subject, WellParsed, SlotsOf, Overlaps, AfterTx
    <3>6. Heard(w)'
      BY <1>1, <2>2 DEF Heard
    <3>7. Tells(w)'
      BY <1>1, <1>3, <2>2 DEF Tells, CardTrue, SlotsOf
    <3> QED
      BY <3>1, <3>2, <3>3, <3>4, <3>5, <3>6, <3>7 DEF Outcome
  <2> QED
    BY <2>1, <2>2
<1> QED
  BY <1>2, <1>5, <1>6, OutcomeKept

(* The fan-out reads the committed rows.                                   *)
LEMMA PublishReadOutcome ==
  ASSUME TypeOK, TypeOK', RowInvariant, OutcomeInvariant, NEW w \in Workers,
         PublishRead(w)
  PROVE  OutcomeInvariant'
<1> DEFINE heard == [x \in Requests |-> IF x \in tx[w].ids \cap Watched
                                        THEN req[x].status ELSE "NONE"]
           t == [tx[w] EXCEPT !.pc = "emit", !.seen = heard]
<1>1. /\ tx[w] \in TxState /\ tx[w].pc = "publish" /\ Route(tx[w])
      /\ RemindedOnce /\ NoDirtyNews /\ CardsAreTrue
      /\ tx' = [tx EXCEPT ![w] = t] /\ UNCHANGED <<rows, venueLock, outside>>
  BY DEF TypeOK, PublishRead, Pass, OutcomeInvariant, Outcome
<1>2. /\ t.pc = "emit" /\ t.op = tx[w].op /\ t.r = tx[w].r /\ t.ids = tx[w].ids
      /\ t.picked = tx[w].picked /\ t.seen = heard /\ tx'[w] = t
      /\ \A x \in Workers \ {w} : tx'[x] = tx[x]
  BY <1>1 DEF TxState, TypeOK
<1>3. ASSUME NEW r \in Requests PROVE heard[r] \in Since[req[r].status]
  <2>1. req[r].status \in Statuses
    BY DEF TypeOK, RequestRow
  <2> QED
    BY <2>1, SinceItself
<1> HIDE DEF t, heard
<1>4. tx[w].op # "remindUpcoming"
  BY <1>1 DEF Route
<1>5. /\ reminders' = reminders /\ screen' = screen /\ cards' = cards
      /\ req' = req /\ slot' = slot
  BY <1>1 DEF outside, rows
<1>6. NoDirtyNews' /\ CardsAreTrue'
  BY <1>1, <1>5 DEF NoDirtyNews, CardsAreTrue, CardTrue, SlotsOf
<1>7. RemindedOnce'
  BY <1>1, <1>2, <1>5 DEF RemindedOnce, Reminding
<1> QED
  BY <1>1, <1>2, <1>3, <1>4, <1>5, <1>6, <1>7, ReportsOn DEF AfterTx

(* The screens hear what was read.                                         *)
LEMMA EmitOutcome ==
  ASSUME TypeOK, TypeOK', RowInvariant, OutcomeInvariant, NEW w \in Workers,
         Emit(w)
  PROVE  OutcomeInvariant'
<1> DEFINE t == [tx[w] EXCEPT !.pc = "notify", !.seen = Idle.seen]
<1>1. /\ tx[w] \in TxState /\ tx[w].pc = "emit" /\ Route(tx[w]) /\ Heard(w)
      /\ RemindedOnce /\ NoDirtyNews /\ CardsAreTrue
      /\ UNCHANGED <<rows, venueLock, cards, reminders>>
  BY DEF TypeOK, Emit, OutcomeInvariant, Outcome
<1>2. tx' = [tx EXCEPT ![w] = t]
  BY DEF Emit, TypeOK
<1>3. /\ t.pc = "notify" /\ t.op = tx[w].op /\ t.r = tx[w].r /\ t.ids = tx[w].ids
      /\ t.picked = tx[w].picked /\ t.seen = Idle.seen /\ tx'[w] = t
      /\ \A x \in Workers \ {w} : tx'[x] = tx[x]
  BY <1>1, <1>2 DEF TxState, TypeOK
<1> HIDE DEF t
<1>4. ASSUME NEW r \in Requests PROVE t.seen[r] \in Since[req[r].status]
  <2>1. req[r].status \in Statuses /\ t.seen[r] = "NONE"
    BY <1>3 DEF TypeOK, RequestRow, Idle
  <2> QED
    BY <2>1, SinceItself
<1>5. tx[w].op # "remindUpcoming"
  BY <1>1 DEF Route
<1>6. reminders' = reminders /\ cards' = cards /\ req' = req /\ slot' = slot
  BY <1>1 DEF rows
<1>7. NoDirtyNews'
  <2>1. PICK heard \in BOOLEAN :
          screen' = [x \in Requests |-> IF heard /\ tx[w].seen[x] # "NONE"
                                        THEN tx[w].seen[x] ELSE screen[x]]
    BY DEF Emit
  <2> QED
    BY <1>1, <1>6, <2>1 DEF NoDirtyNews, Heard
<1>8. CardsAreTrue'
  BY <1>1, <1>6 DEF CardsAreTrue, CardTrue, SlotsOf
<1>9. RemindedOnce'
  BY <1>1, <1>3, <1>5, <1>6 DEF RemindedOnce, Reminding
<1> QED
  BY <1>1, <1>2, <1>3, <1>4, <1>5, <1>6, <1>7, <1>8, <1>9, ReportsOn DEF AfterTx

(* The cards are pushed.                                                   *)
LEMMA NotifyDecisionsOutcome ==
  ASSUME TypeOK, TypeOK', RowInvariant, OutcomeInvariant, NEW w \in Workers,
         NotifyDecisions(w)
  PROVE  OutcomeInvariant'
<1>1. /\ tx[w] \in TxState /\ tx[w].pc = "notify" /\ tx[w].op # "remindUpcoming"
      /\ RemindedOnce /\ NoDirtyNews /\ CardsAreTrue /\ Tells(w)
      /\ UNCHANGED <<rows, venueLock, screen, reminders>> /\ tx' = [tx EXCEPT ![w] = Idle]
  BY DEF TypeOK, NotifyDecisions, OutcomeInvariant, Outcome
<1>2. /\ reminders' = reminders /\ screen' = screen /\ req' = req /\ slot' = slot
      /\ tx'[w] = Idle /\ \A x \in Workers \ {w} : tx'[x] = tx[x]
  BY <1>1 DEF rows, TypeOK
<1>3. NoDirtyNews'
  BY <1>1, <1>2 DEF NoDirtyNews
<1>4. RemindedOnce'
  <2>1. Idle.pc # "notify"
    BY DEF Idle
  <2> QED
    BY <1>1, <1>2, <2>1 DEF RemindedOnce, Reminding
<1>5. CardsAreTrue'
  <2> SUFFICES ASSUME NEW c \in cards', c[2] # "AUTO_REJECTED"
               PROVE  CardTrue(c[1], c[2])'
    BY DEF CardsAreTrue
  <2>1. c \in cards \/ c \in Notices(w)
    BY DEF NotifyDecisions
  <2>2. CardTrue(c[1], c[2])
    <3>1. CASE c \in cards
      BY <1>1, <3>1 DEF CardsAreTrue
    <3>2. CASE c \in Notices(w) /\ tx[w].op = "expireOverdue"
      <4>1. c[1] \in tx[w].ids /\ c[2] = "EXPIRED"
        BY <3>2 DEF Notices
      <4>2. req[c[1]].status = "EXPIRED"
        BY <1>1, <3>2, <4>1 DEF Tells, AfterTx
      <4> QED
        BY <4>1, <4>2 DEF CardTrue
    <3>3. CASE c \in Notices(w) /\ tx[w].op # "expireOverdue"
      <4>1. c[1] = tx[w].r /\ c[2] = CardFor[tx[w].op]
        BY <3>3 DEF Notices
      <4> QED
        BY <1>1, <3>3, <4>1 DEF Tells, AfterTx
    <3> QED
      BY <2>1, <3>1, <3>2, <3>3
  <2>3. \A r, k : CardTrue(r, k) => CardTrue(r, k)'
    BY <1>2 DEF CardTrue, SlotsOf
  <2> QED
    BY <2>2, <2>3
<1> QED
  BY <1>1, <1>2, <1>3, <1>4, <1>5, ReportsOn DEF AfterTx

(* The reminders are pushed.                                               *)
LEMMA NotifyRemindersOutcome ==
  ASSUME TypeOK, TypeOK', RowInvariant, OutcomeInvariant, NEW w \in Workers,
         NotifyReminders(w)
  PROVE  OutcomeInvariant'
<1>1. /\ tx[w] \in TxState /\ Reminding(w) /\ RemindedOnce /\ NoDirtyNews /\ CardsAreTrue
      /\ Tells(w) /\ UNCHANGED <<rows, venueLock, screen, cards>>
      /\ tx' = [tx EXCEPT ![w] = Idle]
  BY DEF TypeOK, NotifyReminders, At, Reminding, OutcomeInvariant, Outcome
<1>2. /\ cards' = cards /\ screen' = screen /\ req' = req /\ slot' = slot
      /\ tx'[w] = Idle /\ \A x \in Workers \ {w} : tx'[x] = tx[x]
  BY <1>1 DEF rows, TypeOK
<1>3. PICK sent \in SUBSET tx[w].picked :
        reminders' = [s \in Slots |-> IF s \in sent THEN reminders[s] + 1 ELSE reminders[s]]
  BY DEF NotifyReminders
<1>4. NoDirtyNews' /\ CardsAreTrue'
  BY <1>1, <1>2 DEF NoDirtyNews, CardsAreTrue, CardTrue, SlotsOf
<1>5. \A s \in tx[w].picked : slot[s].reminded /\ reminders[s] = 0
  BY <1>1 DEF Tells, Reminding, AfterTx
<1>6. RemindedOnce'
  <2>1. ASSUME NEW s \in Slots
        PROVE  reminders'[s] \in {0, 1} /\ (reminders'[s] = 1 => slot'[s].reminded)
    <3>1. CASE s \in sent
      BY <1>2, <1>3, <1>5, <3>1
    <3>2. CASE s \notin sent
      BY <1>1, <1>2, <1>3, <3>2 DEF RemindedOnce
    <3> QED
      BY <3>1, <3>2
  <2>2. Idle.pc # "notify"
    BY DEF Idle
  <2> QED
    BY <1>1, <1>2, <2>1, <2>2 DEF RemindedOnce, Reminding
<1>7. \A s \in Slots : reminders'[s] = reminders[s] \/ (Reminding(w) /\ s \in tx[w].picked)
  BY <1>1, <1>3
<1>8. tx[w].pc \in AfterTx
  BY <1>1 DEF Reminding, AfterTx
<1> QED
  BY <1>1, <1>2, <1>4, <1>6, <1>7, <1>8, ReportsOn

-----------------------------------------------------------------------------
(* The invariant.                                                          *)

(* Nothing has been written or told at first.                              *)
LEMMA InitOutcome == Init => OutcomeInvariant
<1> SUFFICES ASSUME Init PROVE OutcomeInvariant
  OBVIOUS
<1> USE SlotsAssumption, WorkersAssumption
<1>1. /\ \A r \in Requests : req[r].status = "NONE" /\ reqLock[r] = Nobody
                             /\ screen[r] = "NONE"
      /\ \A s \in Slots : /\ ~slot[s].cancelled /\ ~slot[s].reminded
                          /\ slotLock[s] = Nobody /\ reminders[s] = 0
      /\ \A v \in Venues : venueLock[v] = Nobody
      /\ \A w \in Workers : /\ tx[w].pc = "idle" /\ tx[w].op = "none"
                            /\ \A r \in Requests : tx[w].seen[r] = "NONE"
      /\ cards = {}
  BY DEF Init, NoRow, NoSlot, Idle
<1>2. Parsed /\ Unmarked /\ RemindedOnce /\ CancelledIsEmpty /\ CardsAreTrue
  BY <1>1 DEF Parsed, Unmarked, RemindedOnce, CancelledIsEmpty, CardsAreTrue, Reminding
<1>3. NoDirtyNews
  BY <1>1 DEF NoDirtyNews, Since
<1>4. ASSUME NEW w \in Workers PROVE Outcome(w)
  <2>1. Heard(w)
    BY <1>1 DEF Heard, Since
  <2>2. Route(tx[w]) /\ Subject(w) /\ Tells(w)
    BY <1>1 DEF Route, Subject, Tells, AfterTx
  <2>3. WroteRequests(w) /\ WroteSlots(w)
    BY <1>1 DEF WroteRequests, WroteSlots
  <2>4. Done(w) /\ Losers(w) /\ VenueHeld(w) /\ Unrivalled(w)
    BY <1>1 DEF Done, Losers, VenueHeld, Unrivalled, Creates, Withdraws,
                SlotCancels, Decides, TakesVenueLock
  <2> QED
    BY <2>1, <2>2, <2>3, <2>4 DEF Outcome
<1> QED
  BY <1>2, <1>3, <1>4 DEF OutcomeInvariant

(* Every step keeps the outcome in order.                                  *)
LEMMA NextOutcome ==
  TypeOK /\ TypeOK' /\ RowInvariant /\ OutcomeInvariant /\ [Next]_vars => OutcomeInvariant'
<1> SUFFICES ASSUME TypeOK, TypeOK', RowInvariant, OutcomeInvariant, [Next]_vars
             PROVE  OutcomeInvariant'
  OBVIOUS
<1>1. ASSUME UNCHANGED <<rows, venueLock, tx, outside>> PROVE OutcomeInvariant'
  <2>1. /\ req' = req /\ reqNew' = reqNew /\ reqLock' = reqLock /\ slot' = slot
        /\ slotNew' = slotNew /\ slotLock' = slotLock /\ venueLock' = venueLock
        /\ tx' = tx /\ screen' = screen /\ cards' = cards /\ reminders' = reminders
    BY <1>1 DEF rows, outside
  <2>2. Parsed' /\ Unmarked' /\ RemindedOnce' /\ CancelledIsEmpty' /\ NoDirtyNews'
        /\ CardsAreTrue'
    BY <2>1 DEF OutcomeInvariant, Parsed, WellParsed, SlotsOf, Overlaps, Unmarked,
         RemindedOnce, Reminding, CancelledIsEmpty, NoDirtyNews, CardsAreTrue, CardTrue
  <2>3. ASSUME NEW w \in Workers PROVE Outcome(w)'
    <3>1. Outcome(w)
      BY DEF OutcomeInvariant
    <3>2. Route(tx[w])' /\ WroteRequests(w)' /\ WroteSlots(w)' /\ Subject(w)'
          /\ VenueHeld(w)'
      BY <2>1, <3>1 DEF Outcome, Route, WroteRequests, WroteRequest, WroteSlots,
           WroteSlot, SlotsOf, Subject, VenueHeld, WellParsed, Overlaps
    <3>3. Losers(w)' /\ Unrivalled(w)' /\ Heard(w)' /\ Tells(w)'
      BY <2>1, <3>1 DEF Outcome, Losers, Rivals, SlotsOf, Collide, RoomOf, Overlaps,
           Unrivalled, Heard, Tells, CardTrue
    <3>4. Done(w)'
      BY <2>1, <3>1 DEF Outcome, Done, SlotsOf, SlotOf
    <3> QED
      BY <3>2, <3>3, <3>4 DEF Outcome
  <2> QED
    BY <2>2, <2>3 DEF OutcomeInvariant
<1>2. ASSUME NEW w \in Workers, Begin(w) PROVE OutcomeInvariant'
  BY <1>2, BeginOutcome
<1>3. ASSUME NEW w \in Workers, Proceed(w) PROVE OutcomeInvariant'
  BY <1>3, LockVenueOutcome, CheckDecision, CheckRuling, FindLosersOutcome,
     InsertOutcome, FlipOutcome, RefreshOutcome, RejectLosersOutcome,
     CancelSlotsOutcome, ReadRemainingOutcome, UpdateRequestOutcome,
     ExpireRowsOutcome, ClaimRemindersOutcome, CommitOutcome, PublishReadOutcome,
     EmitOutcome, NotifyDecisionsOutcome, NotifyRemindersOutcome
     DEF Proceed
<1>4. ASSUME NEW w \in Workers, CodeCollision(w) \/ Abort(w) \/ Crash(w)
      PROVE  OutcomeInvariant'
  BY <1>4, CollisionOutcome, RollbackOutcome, CrashOutcome DEF Abort
<1>5. CASE Tick
  BY <1>1, <1>5 DEF Tick
<1>6. CASE UNCHANGED vars
  BY <1>1, <1>6 DEF vars
<1> QED
  BY <1>2, <1>3, <1>4, <1>5, <1>6 DEF Next

-----------------------------------------------------------------------------
(* The theorems.                                                           *)

(* Whatever endpoints and crons run concurrently, abort or die, what each  *)
(* has written and goes on to tell is in order in every reachable state.   *)
THEOREM OutcomeSafe == Spec => [](TypeOK /\ RowInvariant /\ OutcomeInvariant)
<1>1. TypeOK /\ RowInvariant /\ OutcomeInvariant /\ [Next]_vars
        => (TypeOK /\ RowInvariant /\ OutcomeInvariant)'
  BY NextInvariant, NextType, NextOutcome DEF RowInvariant
<1> QED
  BY InitInvariant, InitOutcome, <1>1, PTL DEF Spec

(* A CANCELLED request has no live slot, whoever cancelled it: the owner   *)
(* before the decision, or the owner and staff slot by slot after it.      *)
THEOREM CancellationsComplete == Spec => []CancelledIsEmpty
<1>1. OutcomeInvariant => CancelledIsEmpty
  BY DEF OutcomeInvariant
<1> QED
  BY <1>1, OutcomeSafe, PTL

(* No screen hears of a status before it is durable: the fan-out re-reads  *)
(* the rows after the commit, however late it is.                          *)
THEOREM NewsIsClean == Spec => []NoDirtyNews
<1>1. OutcomeInvariant => NoDirtyNews
  BY DEF OutcomeInvariant
<1> QED
  BY <1>1, OutcomeSafe, PTL

(* Every card pushed to a requester, but for the auto-rejection, stays     *)
(* true, although its kind is the caller's word.                           *)
THEOREM CardsTellTheTruth == Spec => []CardsAreTrue
<1>1. OutcomeInvariant => CardsAreTrue
  BY DEF OutcomeInvariant
<1> QED
  BY <1>1, OutcomeSafe, PTL

(* However many instances tick at once, and wherever they die, the claim   *)
(* by UPDATE reminds of a slot at most once.                               *)
THEOREM RemindersNotRepeated == Spec => []RemindedAtMostOnce
<1>1. OutcomeInvariant => RemindedAtMostOnce
  <2> SUFFICES ASSUME OutcomeInvariant, NEW s \in Slots PROVE reminders[s] <= 1
    BY DEF RemindedAtMostOnce
  <2>1. reminders[s] \in {0, 1}
    BY DEF OutcomeInvariant, RemindedOnce
  <2> QED
    BY <2>1
<1> QED
  BY <1>1, OutcomeSafe, PTL

(* At its commit a handler announces every request row it has written: the *)
(* subject, the losers, every row the sweep closed.                        *)
THEOREM NothingUnannounced == Spec => []EveryWrittenRowIsAnnounced
<1>1. TypeOK /\ OutcomeInvariant => EveryWrittenRowIsAnnounced
  <2> SUFFICES ASSUME TypeOK, OutcomeInvariant, NEW w \in Workers, tx[w].pc = "commit",
                      NEW r \in Requests, reqLock[r] = w
               PROVE  r \in Announced(w)
    BY DEF EveryWrittenRowIsAnnounced
  <2>1. WroteRequest(w, r)
    BY DEF OutcomeInvariant, Outcome, WroteRequests
  <2>2. r \in tx[w].ids \/ r = tx[w].r
    BY <2>1 DEF WroteRequest
  <2> QED
    BY <2>2, RequestsAssumption DEF Announced
<1> QED
  BY <1>1, OutcomeSafe, PTL

(* A cancelled slot stays cancelled and a reminded one stays reminded:     *)
(* no concurrent writer of the row brings back an older version.           *)
THEOREM SlotsStayGivenUp == Spec => SlotsNeverRevive
<1>1. TypeOK /\ TypeOK' /\ RowInvariant /\ OutcomeInvariant /\ [Next]_vars =>
        [\A s \in Slots : /\ slot[s].cancelled => slot'[s].cancelled
                          /\ slot[s].reminded => slot'[s].reminded]_vars
  <2> SUFFICES ASSUME TypeOK, TypeOK', RowInvariant, OutcomeInvariant, [Next]_vars
               PROVE  \A s \in Slots : /\ slot[s].cancelled => slot'[s].cancelled
                                       /\ slot[s].reminded => slot'[s].reminded
    OBVIOUS
  <2>1. CASE slot' = slot
    BY <2>1
  <2>2. CASE slot' # slot
    <3>1. PICK w \in Workers : Commit(w)
      BY <2>2, OnlyCommitMoves
    <3> QED
      BY <3>1, CommitLeaves DEF Leaves
  <2> QED
    BY <2>1, <2>2
<1> QED
  BY <1>1, OutcomeSafe, PTL DEF Spec, SlotsNeverRevive

-----------------------------------------------------------------------------
(* Waiting.                                                                *)

(* A handler that holds a row has written it and is past its checks, and a *)
(* decision among them has the room to itself.                             *)
LEMMA Holder ==
  ASSUME TypeOK, RowInvariant, OutcomeInvariant, NEW x \in Workers,
         (\E r \in Requests : reqLock[r] = x) \/ (\E s \in Slots : slotLock[s] = x)
  PROVE  /\ tx[x].pc \in {"refresh", "rejectLosers", "slots", "remaining", "request",
                          "expire", "remind", "commit"}
         /\ tx[x].op \in TakesVenueLock => venueLock[VenueOf[tx[x].r]] = x
         /\ tx[x].op \in {"approve", "reject", "cancelPendingBooking", "createDirect",
                          "createFromLine"} => reqLock[tx[x].r] = x
<1>1. tx[x].pc \notin Clean /\ tx[x].pc \in InTx \cup AfterTx \cup {"idle"}
  BY DEF RowInvariant, Handler, CleanHandler, HoldsNothing, HoldsNoRequest, TypeOK, TxState
<1>2. tx[x].pc \in {"refresh", "rejectLosers", "slots", "remaining", "request",
                    "expire", "remind", "commit"}
  BY <1>1 DEF Clean, InTx, AfterTx
<1>3. VenueHeld(x) /\ Done(x) /\ WellShaped(tx[x]) /\ Route(tx[x])
  BY DEF OutcomeInvariant, Outcome, RowInvariant, Shape
<1>4. tx[x].op \in TakesVenueLock => venueLock[VenueOf[tx[x].r]] = x
  BY <1>2, <1>3 DEF VenueHeld, InTx
<1>5. CASE tx[x].op \in {"approve", "reject", "cancelPendingBooking"}
  BY <1>2, <1>3, <1>4, <1>5 DEF Done, Route, Statements, AfterTx
<1>6. CASE tx[x].op \in Creates
  BY <1>2, <1>3, <1>4, <1>6 DEF Done, Route, Statements, AfterTx, Creates
<1> QED
  BY <1>2, <1>4, <1>5, <1>6 DEF Creates

(* The lock makes the constraint a last resort.                            *)
LEMMA LastResort ==
  TypeOK /\ RowInvariant /\ OutcomeInvariant => ConstraintIsLastResort
<1> USE SlotsAssumption, RequestsAssumption, WorkersAssumption
<1> SUFFICES ASSUME TypeOK, RowInvariant, OutcomeInvariant, NEW w \in Workers,
                    tx[w].op \in {"approve", "createDirect"},
                    tx[w].pc \in {"flip", "refresh", "insert"}
             PROVE  ~MustWait(w, tx[w].picked) /\ ~Excluded(w, tx[w].picked)
  BY DEF ConstraintIsLastResort
<1>1. /\ Unrivalled(w) /\ Subject(w) /\ VenueHeld(w) /\ Route(tx[w])
      /\ CleanHandler(w) /\ FlippingHandler(w)
  BY DEF RowInvariant, Handler, OutcomeInvariant, Outcome
<1>2. tx[w].r \in Requests /\ tx[w].picked \subseteq SlotsOf(tx[w].r)
  BY <1>1, SubjectKnown DEF Route, Sweeps
<1>3. venueLock[VenueOf[tx[w].r]] = w
  BY <1>1 DEF VenueHeld, TakesVenueLock, Decides, InTx
<1>4. \A s \in tx[w].picked, u \in Slots : slot[u].holds => ~Collide(s, u)
  BY <1>1 DEF Unrivalled, Decides
<1>5. \A s \in Slots : SlotOf(w, s) = slot[s]
  BY <1>1 DEF CleanHandler, Clean, HoldsNothing, FlippingHandler, SlotOf
<1>6. ~MustWait(w, tx[w].picked)
  <2> SUFFICES ASSUME NEW t \in Slots, ~SlotFree(w, t), slotNew[t].holds, ~slot[t].holds,
                      NEW s \in tx[w].picked, Collide(s, t)
               PROVE  FALSE
    BY <1>4 DEF MustWait
  <2>1. PICK x \in Workers : x # w /\ slotLock[t] = x
    BY DEF SlotFree, TypeOK
  <2>2. WroteSlot(x, t)
    BY <2>1 DEF OutcomeInvariant, Outcome, WroteSlots
  <2>3. tx[x].op \in Decides /\ RequestOf[t] = tx[x].r
    BY <2>2 DEF WroteSlot, Decides
  <2>4. venueLock[VenueOf[tx[x].r]] = x
    BY <2>1, <2>3, Holder DEF TakesVenueLock
  <2>5. RoomOf(s) = VenueOf[tx[w].r] /\ RoomOf(t) = VenueOf[tx[x].r] /\ RoomOf(s) = RoomOf(t)
    BY <1>2, <2>3 DEF SlotsOf, RoomOf, Collide
  <2> QED
    BY <1>3, <2>1, <2>4, <2>5
<1>7. ~Excluded(w, tx[w].picked)
  <2> SUFFICES ASSUME NEW t \in Slots, t \in tx[w].picked \/ slot[t].holds,
                      NEW s \in tx[w].picked, Collide(s, t)
               PROVE  FALSE
    BY <1>5 DEF Excluded
  <2>1. t \in tx[w].picked
    BY <1>4
  <2>2. s # t /\ Overlaps(s, t)
    BY DEF Collide
  <2>3. WellParsed(tx[w].r)
    BY <1>1 DEF Subject, Sweeps
  <2> QED
    BY <1>2, <2>1, <2>2, <2>3 DEF WellParsed
<1> QED
  BY <1>6, <1>7

(* A decision that passed its clash check under the venue lock neither     *)
(* fails on the exclusion constraint nor waits for another at its index.   *)
THEOREM ClashCheckSuffices == Spec => []ConstraintIsLastResort
BY LastResort, OutcomeSafe, PTL

(* The order in which the handlers wait for one another.                   *)
Level(w) ==
  CASE tx[w].pc = "lock" -> 0
    [] tx[w].op = "createFromLine" /\ tx[w].pc = "insert" -> 0
    [] tx[w].op = "cancelApprovedSlot" /\ tx[w].pc = "slots"
         /\ (\A s \in Slots : slotLock[s] # w) -> 0
    [] tx[w].pc = "flip" -> 1
    [] tx[w].pc = "rejectLosers" -> 2
    [] tx[w].op = "cancel" /\ tx[w].pc = "slots" -> 3
    [] tx[w].pc = "request" -> 4
    [] OTHER -> 5

(* Who holds a PENDING request: one that rejects it, or rules on it.       *)
LEMMA PendingHolder ==
  ASSUME TypeOK, RowInvariant, OutcomeInvariant, NEW x \in Workers,
         NEW r \in Requests, reqLock[r] = x, req[r].status = "PENDING",
         tx[x].op \notin Sweeps
  PROVE  \/ tx[x].pc = "rejectLosers" /\ Level(x) = 2
         \/ Level(x) = 5
<1>1. /\ WroteRequest(x, r) /\ Route(tx[x])
      /\ tx[x].pc \in {"refresh", "rejectLosers", "slots", "remaining", "request",
                       "expire", "remind", "commit"}
  BY Holder DEF OutcomeInvariant, Outcome, WroteRequests
<1>2. tx[x].op \in {"approve", "createDirect", "reject", "cancelPendingBooking"}
  BY <1>1 DEF WroteRequest, Decides, Sweeps, SlotCancels
<1>3. tx[x].pc \in {"refresh", "rejectLosers", "slots", "commit"}
  BY <1>1, <1>2 DEF Route, Statements, AfterTx
<1> QED
  BY <1>2, <1>3 DEF Level

(* Nobody waits at the exclusion index but who does not care.              *)
LEMMA IndexWait ==
  ASSUME TypeOK, RowInvariant, OutcomeInvariant, NEW w \in Workers,
         tx[w].pc \in {"refresh", "insert"}, NEW s \in WantsSlots(w),
         slotLock[s] \in Workers \ {w}
  PROVE  tx[w].op = "createFromLine" /\ tx[w].pc = "insert"
<1>1. /\ s \in Slots
      /\ slot[s].holds \/ slotNew[s].holds
      /\ \E t \in tx[w].picked : Collide(t, s)
  BY DEF WantsSlots
<1>2. MustWait(w, tx[w].picked)
  BY <1>1, WorkersAssumption DEF MustWait, SlotFree
<1>3. Route(tx[w]) /\ WellShaped(tx[w]) /\ CreatingHandler(w) /\ FlippingHandler(w)
  BY DEF OutcomeInvariant, Outcome, RowInvariant, Shape, Handler
<1>4. tx[w].op \notin {"reject", "cancelPendingBooking"}
  BY <1>1, <1>3 DEF Route, AfterTx, WellShaped, Creates
<1>5. tx[w].op # "approve" /\ tx[w].op # "createDirect"
  <2> SUFFICES ASSUME tx[w].op \in {"approve", "createDirect"} PROVE FALSE
    OBVIOUS
  <2>1. ReqOf(w, tx[w].r).status \in {"NONE", "PENDING"}
    BY <1>3, WorkersAssumption
       DEF CreatingHandler, Creating, Creates, FlippingHandler, ReqOf, WellShaped
  <2> QED
    BY <1>2, <2>1, LastResort DEF ConstraintIsLastResort
<1> QED
  BY <1>3, <1>4, <1>5 DEF WellShaped, Creates

(* A slot that a cancellation waits for is being given up too, by another  *)
(* that is nearer its end.                                                 *)
LEMMA SlotWait ==
  ASSUME TypeOK, RowInvariant, OutcomeInvariant, NEW w \in Workers,
         tx[w].pc = "slots", NEW s \in WantsSlots(w), NEW x \in Workers \ {w},
         slotLock[s] = x, tx[x].op \notin Sweeps
  PROVE  Level(x) > Level(w)
<1> USE SlotsAssumption, WorkersAssumption
<1>1. s \in tx[w].picked /\ ~slot[s].cancelled /\ tx[w] \in TxState /\ s \in Slots
  BY DEF WantsSlots, TypeOK, TxState
<1>2. /\ PickingHandler(w) /\ WellShaped(tx[w]) /\ Route(tx[w]) /\ Done(w)
      /\ WroteRequests(w) /\ Rows /\ VenueHeld(w)
      /\ WroteSlot(x, s) /\ WroteRequests(x) /\ Route(tx[x]) /\ tx[x] \in TxState
      /\ CancellingHandler(x)
  BY <1>1 DEF RowInvariant, Handler, Shape, OutcomeInvariant, Outcome, WroteSlots, TypeOK
<1>3. RequestOf[s] = tx[x].r /\ RequestOf[s] = tx[w].r /\ tx[w].r \in Requests
  BY <1>1, <1>2 DEF WroteSlot, Sweeps, Route, SlotsOf, WellShaped, SlotCancels, AfterTx
<1>4. req[tx[w].r].status = "APPROVED"
  <2>1. CASE tx[w].op = "cancelPendingBooking"
    <3>1. reqLock[tx[w].r] = w
      BY <1>2, <2>1 DEF Done
    <3> QED
      BY <1>1, <1>2, <1>3, <3>1 DEF Rows, WrittenSlots
  <2>2. CASE tx[w].op # "cancelPendingBooking"
    BY <1>1, <1>2, <1>3, <2>2 DEF PickingHandler
  <2> QED
    BY <2>1, <2>2
<1>5. tx[w].op \in SlotCancels
  <2> SUFFICES ASSUME tx[w].op = "cancelPendingBooking" PROVE FALSE
    BY <1>2 DEF WellShaped
  <2>1. WroteRequest(w, tx[w].r)
    BY <1>2, <1>3 DEF Done, WroteRequests
  <2> QED
    BY <1>4, <2>1 DEF WroteRequest, Decides, SlotCancels
<1>6. tx[x].op \in SlotCancels
  <2> SUFFICES ASSUME tx[x].op \notin SlotCancels PROVE FALSE
    OBVIOUS
  <2>1. tx[x].op \in {"approve", "reject", "cancelPendingBooking", "createDirect",
                      "createFromLine"}
    BY <1>1, <1>2, Holder
       DEF Route, AllOps, StaffOps, LineOps, CronOps, Sweeps, SlotCancels
  <2>2. WroteRequest(x, tx[w].r)
    <3>1. reqLock[tx[x].r] = x
      BY <1>1, <2>1, Holder
    <3> QED
      BY <1>2, <1>3, <3>1 DEF WroteRequests
  <2> QED
    BY <1>4, <2>1, <2>2 DEF WroteRequest, Decides, SlotCancels
<1>7. tx[x].pc \in {"slots", "remaining", "request", "commit"}
  BY <1>1, <1>2, <1>6, Holder DEF Route, Statements, SlotCancels, AfterTx
<1>8. CASE tx[x].op = "cancelApprovedSlot"
  <2>1. Level(x) \in {4, 5}
    BY <1>1, <1>7, <1>8 DEF Level
  <2>2. Level(w) \in {0, 3}
    <3>1. CASE tx[w].op = "cancel"
      BY <3>1 DEF Level
    <3>2. CASE tx[w].op = "cancelApprovedSlot"
      <4>1. \A t \in Slots : slotLock[t] # w
        <5> SUFFICES ASSUME NEW t \in Slots, slotLock[t] = w PROVE FALSE
          OBVIOUS
        <5>1. t \in tx[w].picked
          BY <3>2 DEF OutcomeInvariant, Outcome, WroteSlots, WroteSlot, SlotCancels
        <5> QED
          BY <1>1, <1>2, <3>2, <5>1 DEF Route, AfterTx
      <4> QED
        BY <3>2, <4>1 DEF Level
    <3> QED
      BY <1>5, <3>1, <3>2 DEF SlotCancels
  <2> QED
    BY <2>1, <2>2
<1>9. CASE tx[x].op = "cancel"
  <2>1. venueLock[VenueOf[tx[w].r]] = x
    BY <1>1, <1>3, <1>9, Holder DEF TakesVenueLock
  <2>2. tx[w].op # "cancel"
    BY <1>2, <2>1 DEF VenueHeld, TakesVenueLock, InTx
  <2>3. \A t \in Slots : slotLock[t] # w
    <3> SUFFICES ASSUME NEW t \in Slots, slotLock[t] = w PROVE FALSE
      OBVIOUS
    <3>1. t \in tx[w].picked
      BY <1>5 DEF OutcomeInvariant, Outcome, WroteSlots, WroteSlot
    <3> QED
      BY <1>1, <1>2, <1>5, <2>2, <3>1 DEF Route, AfterTx, SlotCancels
  <2>4. Level(w) = 0
    BY <1>5, <2>2, <2>3 DEF Level, SlotCancels
  <2>5. Level(x) \in {3, 4, 5}
    BY <1>7, <1>9 DEF Level
  <2> QED
    BY <2>4, <2>5
<1> QED
  BY <1>6, <1>8, <1>9 DEF SlotCancels

(* A handler waits only for one nearer its end, the sweeps left aside.     *)
LEMMA WaitsUphill ==
  ASSUME TypeOK, RowInvariant, OutcomeInvariant, NEW w \in Workers,
         NEW x \in MayWaitFor(w), tx[w].op \notin Sweeps, tx[x].op \notin Sweeps
  PROVE  Level(x) > Level(w)
<1> USE SlotsAssumption, RequestsAssumption, WorkersAssumption
<1>1. /\ x \in Workers /\ x # w /\ tx[w] \in TxState /\ WellShaped(tx[w]) /\ Route(tx[w])
      /\ Losers(w) /\ VenueHeld(w)
  BY DEF MayWaitFor, TypeOK, RowInvariant, Shape, OutcomeInvariant, Outcome
<1>2. ASSUME tx[w].pc = "lock", x = venueLock[VenueOf[tx[w].r]]
      PROVE  Level(x) > Level(w)
  <2>1. VenueOf[tx[w].r] \in Venues
    BY <1>1, <1>2 DEF WellShaped
  <2>2. tx[x].op \in TakesVenueLock /\ tx[x].pc \in InTx \ {"lock"}
    BY <1>1, <1>2, <2>1 DEF OutcomeInvariant, Outcome, VenueHeld
  <2>3. Level(x) \in {1, 2, 3, 4, 5}
    BY <2>2 DEF Level, TakesVenueLock, Decides
  <2>4. Level(w) = 0
    BY <1>2 DEF Level
  <2> QED
    BY <2>3, <2>4
<1>3. ASSUME NEW s \in WantsSlots(w), x = slotLock[s]
      PROVE  Level(x) > Level(w)
  <2>1. CASE tx[w].pc = "slots"
    BY <1>1, <1>3, <2>1, SlotWait
  <2>2. CASE tx[w].pc \in {"refresh", "insert"}
    <3>1. Level(w) = 0
      BY <1>1, <1>3, <2>2, IndexWait DEF Level
    <3>2. s \in Slots
      BY <2>2 DEF WantsSlots
    <3>3. tx[x].pc \in {"refresh", "rejectLosers", "slots", "remaining", "request",
                        "expire", "remind", "commit"}
      BY <1>1, <1>3, <3>2, Holder
    <3>4. Level(x) \in {1, 2, 3, 4, 5}
      BY <1>3, <3>2, <3>3 DEF Level
    <3> QED
      BY <3>1, <3>4
  <2>3. tx[w].pc # "remind"
    BY <1>1 DEF WellShaped, Sweeps
  <2> QED
    BY <2>1, <2>2, <2>3 DEF WantsSlots
<1>4. ASSUME NEW r \in WantsRequests(w), x = reqLock[r]
      PROVE  Level(x) > Level(w)
  <2>1. tx[w].pc # "expire"
    BY <1>1 DEF Route, Statements, AllOps, StaffOps, LineOps, CronOps, AfterTx, Sweeps
  <2>2. CASE tx[w].pc = "flip" /\ req[tx[w].r].status = "PENDING"
    <3>1. r \in Requests /\ req[r].status = "PENDING"
      BY <1>1, <2>2 DEF WantsRequests, WellShaped
    <3>2. Level(x) \in {2, 5}
      BY <1>1, <1>4, <3>1, PendingHolder
    <3>3. Level(w) = 1
      BY <2>2 DEF Level
    <3> QED
      BY <3>2, <3>3
  <2>3. CASE tx[w].pc = "request"
    <3>1. r = tx[w].r /\ r \in Requests /\ tx[w].op \in SlotCancels
      BY <1>1, <2>3 DEF WantsRequests, WellShaped
    <3>2. PICK s \in tx[w].picked : s \in Slots /\ RequestOf[s] = r /\ slotLock[s] = w
      BY <1>1, <2>3, <3>1 DEF RowInvariant, Handler, CancellingHandler, SlotsOf
    <3>3. req[r].status = "APPROVED"
      BY <1>1, <1>4, <3>2 DEF RowInvariant, Rows, WrittenSlots
    <3>4. WroteRequest(x, r)
      BY <1>1, <1>4, <3>1 DEF OutcomeInvariant, Outcome, WroteRequests
    <3>5. tx[x].pc = "commit"
      BY <3>3, <3>4 DEF WroteRequest, Decides
    <3>6. Level(x) = 5 /\ Level(w) = 4
      BY <2>3, <3>1, <3>5 DEF Level
    <3> QED
      BY <3>6
  <2>4. CASE tx[w].pc = "rejectLosers"
    <3>1. r \in tx[w].ids /\ r \in Requests /\ req[r].status = "PENDING"
      BY <1>1, <2>4 DEF WantsRequests, ToReject, TxState
    <3>2. tx[w].op \in Decides
      BY <1>1, <2>4 DEF Route, Statements, AllOps, StaffOps, LineOps, CronOps, AfterTx,
                        Decides
    <3>3. VenueOf[r] = VenueOf[tx[w].r] /\ venueLock[VenueOf[r]] = w
      BY <1>1, <2>4, <3>1, <3>2
         DEF Losers, Rivals, SlotsOf, Collide, RoomOf, VenueHeld, TakesVenueLock, InTx
    <3>4. tx[x].op \notin Decides
      <4> SUFFICES ASSUME tx[x].op \in Decides PROVE FALSE
        OBVIOUS
      <4>1. WroteRequest(x, r) /\ Losers(x) /\ venueLock[VenueOf[tx[x].r]] = x
        BY <1>1, <1>4, <3>1, Holder DEF OutcomeInvariant, Outcome, WroteRequests,
             TakesVenueLock
      <4>2. \/ r = tx[x].r
            \/ r \in tx[x].ids /\ tx[x].pc \in {"rejectLosers", "commit"}
        BY <3>1, <4>1 DEF WroteRequest, Decides, SlotCancels
      <4>3. VenueOf[tx[x].r] = VenueOf[r]
        BY <4>1, <4>2 DEF Losers, Rivals, SlotsOf, Collide, RoomOf
      <4> QED
        BY <1>1, <3>3, <4>1, <4>3
    <3>5. tx[x].pc # "rejectLosers"
      <4>1. Route(tx[x])
        BY <1>1 DEF OutcomeInvariant, Outcome
      <4> QED
        BY <3>4, <4>1 DEF Route, Statements, AllOps, StaffOps, LineOps, CronOps, AfterTx,
                          Decides
    <3>6. Level(x) = 5
      BY <1>1, <1>4, <3>1, <3>5, PendingHolder
    <3>7. Level(w) = 2
      BY <2>4 DEF Level
    <3> QED
      BY <3>6, <3>7
  <2> QED
    BY <2>1, <2>2, <2>3, <2>4 DEF WantsRequests
<1>5. \/ tx[w].pc = "lock" /\ x = venueLock[VenueOf[tx[w].r]]
      \/ \E r \in WantsRequests(w) : x = reqLock[r]
      \/ \E s \in WantsSlots(w) : x = slotLock[s]
  BY DEF MayWaitFor
<1> QED
  BY <1>2, <1>3, <1>4, <1>5

(* Two decisions on one venue never deadlock, in whatever order each takes *)
(* its rows: every cycle of waiting handlers goes through a cron sweep.    *)
THEOREM NoDeadlockOfDecisions == Spec => []OnlySweepsDeadlock
<1>1. TypeOK /\ RowInvariant /\ OutcomeInvariant => OnlySweepsDeadlock
  <2> SUFFICES ASSUME TypeOK, RowInvariant, OutcomeInvariant,
                      NEW S \in SUBSET {w \in Workers : tx[w].op \notin Sweeps},
                      \A w \in S : MayWaitFor(w) \cap S # {}
               PROVE  S = {}
    BY DEF OnlySweepsDeadlock
  <2>1. ASSUME NEW w \in S, NEW n \in {0, 1, 2, 3, 4, 5}, Level(w) = n
        PROVE  \E x \in S, m \in {0, 1, 2, 3, 4, 5} : Level(x) = m /\ m > n
    <3>1. PICK x \in S : x \in MayWaitFor(w)
      OBVIOUS
    <3>2. w \in Workers /\ tx[w].op \notin Sweeps /\ tx[x].op \notin Sweeps
      OBVIOUS
    <3>3. Level(x) > n
      BY <2>1, <3>1, <3>2, WaitsUphill
    <3>4. Level(x) \in {0, 1, 2, 3, 4, 5}
      BY DEF Level
    <3> QED
      BY <3>3, <3>4
  <2>2. \A w \in S : Level(w) \in {0, 1, 2, 3, 4, 5}
    BY DEF Level
  <2>3. \A w \in S : Level(w) # 5
    BY <2>1
  <2>4. \A w \in S : Level(w) # 4
    BY <2>1, <2>3
  <2>5. \A w \in S : Level(w) # 3
    BY <2>1, <2>3, <2>4
  <2>6. \A w \in S : Level(w) # 2
    BY <2>1, <2>3, <2>4, <2>5
  <2>7. \A w \in S : Level(w) # 1
    BY <2>1, <2>3, <2>4, <2>5, <2>6
  <2>8. \A w \in S : Level(w) # 0
    BY <2>1, <2>3, <2>4, <2>5, <2>6, <2>7
  <2> QED
    BY <2>2, <2>3, <2>4, <2>5, <2>6, <2>7, <2>8
<1> QED
  BY <1>1, OutcomeSafe, PTL

-----------------------------------------------------------------------------
(* The refinement: the commits are the steps of RoomCalendar.              *)

(* What a commit changes of what the calendar shows.                       *)
LEMMA CommitShows ==
  ASSUME TypeOK, RowInvariant, OutcomeInvariant, NEW w \in Workers, Commit(w)
  PROVE  /\ \A r \in Requests :
              /\ reqLock[r] = w => WroteRequest(w, r) /\ req'[r].status = reqNew[r].status
              /\ reqLock[r] # w => req'[r].status = req[r].status
         /\ \A s \in Slots :
              /\ slot'[s].cancelled <=>
                   slot[s].cancelled \/ (slotLock[s] = w /\ tx[w].op \in GivesUpSlots)
              /\ slotLock[s] = w => WroteSlot(w, s) /\ ~slot[s].cancelled
         /\ tx[w].op \in AllOps /\ tx[w].pc = "commit" /\ Done(w) /\ Losers(w)
         /\ tx[w].op \notin Sweeps => tx[w].r \in Requests
<1>1. /\ WroteRequests(w) /\ WroteSlots(w) /\ Done(w) /\ Losers(w) /\ Rows
      /\ Route(tx[w]) /\ tx[w].pc = "commit"
  BY DEF OutcomeInvariant, Outcome, RowInvariant, Commit
<1>2. ASSUME NEW r \in Requests
      PROVE  /\ reqLock[r] = w => WroteRequest(w, r) /\ req'[r].status = reqNew[r].status
             /\ reqLock[r] # w => req'[r].status = req[r].status
  BY <1>1, CommittedRows DEF WroteRequests
<1>3. ASSUME NEW s \in Slots
      PROVE  /\ slot'[s].cancelled <=>
                  slot[s].cancelled \/ (slotLock[s] = w /\ tx[w].op \in GivesUpSlots)
             /\ slotLock[s] = w => WroteSlot(w, s) /\ ~slot[s].cancelled
  <2>1. CASE slotLock[s] = w
    <3>1. WroteSlot(w, s) /\ ~slot[s].cancelled /\ slot'[s] = slotNew[s]
      BY <1>1, <2>1, CommittedRows, WorkersAssumption DEF WroteSlots, Rows, WrittenSlots
    <3>2. slotNew[s].cancelled <=> tx[w].op \in GivesUpSlots
      BY <3>1 DEF WroteSlot
    <3> QED
      BY <2>1, <3>1, <3>2
  <2>2. CASE slotLock[s] # w
    BY <2>2, CommittedRows
  <2> QED
    BY <2>1, <2>2
<1>4. tx[w].op \in AllOps /\ (tx[w].op \notin Sweeps => tx[w].r \in Requests)
  BY <1>1, SubjectKnown DEF Route, AfterTx
<1> QED
  BY <1>1, <1>2, <1>3, <1>4

(* The creation by a LINE user, a rejection and a withdrawal.              *)
LEMMA RulingRefines ==
  ASSUME TypeOK, RowInvariant, OutcomeInvariant, NEW w \in Workers, Commit(w),
         tx[w].op \in {"createFromLine", "reject", "cancelPendingBooking"}
  PROVE  Calendar!Next
<1> DEFINE r == tx[w].r
<1>1. /\ r \in Requests /\ reqLock[r] = w /\ tx[w].pc = "commit"
      /\ tx[w].op = "cancelPendingBooking"
           => \A s \in SlotsOf(r) : SlotOf(w, s).cancelled
  BY CommitShows DEF Sweeps, Done, Creates, Withdraws
<1>2. \A q \in Requests : reqLock[q] = w => q = r
  BY CommitShows DEF WroteRequest, Decides, SlotCancels
<1>3. \A q \in Requests : q # r => req'[q].status = req[q].status
  BY <1>2, CommitShows
<1>4. WroteRequest(w, r) /\ req'[r].status = reqNew[r].status
  BY <1>1, CommitShows
<1>5. CASE tx[w].op = "createFromLine"
  <2>1. req[r].status = "NONE" /\ req'[r].status = "PENDING"
    BY <1>4, <1>5 DEF WroteRequest, Decides, SlotCancels
  <2>2. \A s \in Slots : slot'[s].cancelled <=> slot[s].cancelled
    BY <1>5, CommitShows DEF GivesUpSlots, SlotCancels, Withdraws
  <2>3. Calendar!Submit(r)
    BY <1>1, <1>3, <2>1, <2>2 DEF Calendar!Submit, Calendar!Set
  <2> QED
    BY <1>1, <2>3 DEF Calendar!Next, Calendar!Submit
<1>6. CASE tx[w].op = "reject"
  <2>1. req[r].status = "PENDING" /\ req'[r].status = "REJECTED"
    BY <1>1, <1>4, <1>6 DEF WroteRequest, Decides, SlotCancels, FlippedTo
  <2>2. \A s \in Slots : slot'[s].cancelled <=> slot[s].cancelled
    BY <1>6, CommitShows DEF GivesUpSlots, SlotCancels, Withdraws
  <2>3. Calendar!Refuse(r)
    BY <1>1, <1>3, <2>1, <2>2 DEF Calendar!Refuse, Calendar!Set
  <2> QED
    BY <1>1, <2>3 DEF Calendar!Next, Calendar!Refuse
<1>7. CASE tx[w].op = "cancelPendingBooking"
  <2>1. req[r].status = "PENDING" /\ req'[r].status = "CANCELLED"
    BY <1>1, <1>4, <1>7 DEF WroteRequest, Decides, SlotCancels, FlippedTo
  <2>2. \A s \in Slots : slot'[s].cancelled <=> slot[s].cancelled \/ RequestOf[s] = r
    <3> SUFFICES ASSUME NEW s \in Slots
                 PROVE  slot'[s].cancelled <=> slot[s].cancelled \/ RequestOf[s] = r
      OBVIOUS
    <3>1. CASE RequestOf[s] = r
      <4>1. SlotOf(w, s).cancelled /\ slot'[s] = SlotOf(w, s)
        BY <1>1, <1>7, <3>1, CommittedRows DEF SlotsOf
      <4> QED
        BY <3>1, <4>1
    <3>2. CASE RequestOf[s] # r
      <4>1. slotLock[s] # w
        BY <1>7, <3>2, CommitShows DEF WroteSlot
      <4> QED
        BY <3>2, <4>1, CommitShows
    <3> QED
      BY <3>1, <3>2
  <2>3. Calendar!Withdraw(r)
    BY <1>1, <1>3, <2>1, <2>2 DEF Calendar!Withdraw, Calendar!Set, Calendar!Of
  <2> QED
    BY <1>1, <2>3 DEF Calendar!Next, Calendar!Withdraw
<1> QED
  BY <1>5, <1>6, <1>7

(* An approval and a direct booking grant the room, and the rivals that    *)
(* they reject lose in the same step.                                      *)
LEMMA DecisionRefines ==
  ASSUME TypeOK, RowInvariant, OutcomeInvariant, NEW w \in Workers, Commit(w),
         tx[w].op \in Decides
  PROVE  Calendar!Next
<1> USE SlotsAssumption
<1> DEFINE r == tx[w].r
           losers == {l \in Requests : reqLock[l] = w /\ l # r}
<1>1. r \in Requests /\ reqLock[r] = w /\ tx[w].pc = "commit"
  BY CommitShows DEF Sweeps, Done, Creates, Decides
<1>2. WroteRequest(w, r) /\ req'[r].status = reqNew[r].status
  BY <1>1, CommitShows
<1>3. req[r].status \in {"NONE", "PENDING"} /\ req'[r].status = "APPROVED"
  BY <1>1, <1>2 DEF WroteRequest, Decides, SlotCancels, FlippedTo
<1>4. ASSUME NEW l \in losers
      PROVE  /\ req[l].status = "PENDING" /\ req'[l].status = "REJECTED"
             /\ \E s \in SlotsOf(r), t \in SlotsOf(l) : Collide(s, t)
  <2>1. WroteRequest(w, l) /\ req'[l].status = reqNew[l].status /\ Losers(w)
    BY <1>4, CommitShows
  <2>2. l \in tx[w].ids /\ req[l].status = "PENDING" /\ reqNew[l].status = "REJECTED"
    BY <1>4, <2>1 DEF WroteRequest, Decides, SlotCancels
  <2>3. Rivals(r, l)
    BY <1>1, <2>1, <2>2 DEF Losers
  <2> QED
    BY <2>1, <2>2, <2>3 DEF Rivals
<1>5. \A q \in Requests : (q # r /\ q \notin losers) => req'[q].status = req[q].status
  BY CommitShows
<1>6. \A s \in Slots : slot'[s].cancelled <=> slot[s].cancelled
  BY CommitShows DEF GivesUpSlots, SlotCancels, Withdraws, Decides
<1>7. ASSUME NEW s \in SlotsOf(r), ~slot[s].cancelled, NEW t \in Slots, Occupies(t)
      PROVE  ~Collide(s, t)
  <2>1. /\ s \in Slots /\ RequestOf[s] = r /\ ReqOf(w, r).status = "APPROVED"
        /\ slot'[s] = SlotOf(w, s)
    BY <1>1, <1>2, <1>3, CommittedRows DEF SlotsOf, ReqOf
  <2>2. ~SlotOf(w, s).cancelled
    BY <1>6, <1>7, <2>1
  <2>3. SlotOf(w, s).holds
    BY <2>1, <2>2 DEF RowInvariant, Rows, ViewMirror
  <2>4. InIndex(s)
    BY <2>3 DEF InIndex, SlotOf
  <2>5. InIndex(t)
    BY <1>7 DEF RowInvariant, Rows, HoldsMirror, InIndex
  <2> QED
    BY <2>1, <2>4, <2>5 DEF RowInvariant, Rows, IndexExcludes
<1> HIDE DEF r, losers
<1>8. r \notin losers /\ losers \subseteq Requests
  BY DEF losers
<1>9. Calendar!AllPending(losers)
  BY <1>4, <1>8 DEF Calendar!AllPending
<1>10. \A s \in Calendar!Of(r) \ {x \in Slots : slot[x].cancelled}, t \in Calendar!Taken :
         ~Collide(s, t)
  BY <1>7 DEF Calendar!Of, Calendar!Taken, SlotsOf, Occupies
<1>11. \A l \in losers : \E s \in Calendar!Of(r), t \in Calendar!Of(l) : Collide(s, t)
  BY <1>4 DEF Calendar!Of, SlotsOf
<1>12. [q \in Requests |-> req'[q].status]
         = [Calendar!Set(losers, "REJECTED") EXCEPT ![r] = "APPROVED"]
  BY <1>1, <1>3, <1>4, <1>5, <1>8 DEF Calendar!Set
<1>13. Calendar!Grant(r, losers)
  BY <1>1, <1>3, <1>6, <1>8, <1>9, <1>10, <1>11, <1>12 DEF Calendar!Grant
<1> QED
  BY <1>1, <1>8, <1>13 DEF Calendar!Next, Calendar!Grant

(* The cancellation of slots gives them back, and closes the request only  *)
(* when nothing is left of it.                                             *)
LEMMA CancellationRefines ==
  ASSUME TypeOK, TypeOK', RowInvariant, OutcomeInvariant, NEW w \in Workers, Commit(w),
         tx[w].op \in SlotCancels
  PROVE  Calendar!Next
<1> DEFINE r == tx[w].r
           S == {s \in Slots : slotLock[s] = w}
<1>1. /\ r \in Requests /\ reqLock[r] = w /\ tx[w].pc = "commit"
      /\ tx[w].picked # {} /\ \A s \in tx[w].picked : slotLock[s] = w
      /\ tx[w].picked \subseteq Slots
  BY CommitShows DEF Sweeps, Done, SlotCancels, TypeOK, TxState
<1>2. WroteRequest(w, r) /\ req'[r].status = reqNew[r].status
  BY <1>1, CommitShows
<1>3. req[r].status = "APPROVED" /\ req'[r].status \in {"APPROVED", "CANCELLED"}
  BY <1>1, <1>2 DEF WroteRequest, Decides, SlotCancels
<1>4. \A q \in Requests : reqLock[q] = w => q = r
  BY CommitShows DEF WroteRequest, Decides, SlotCancels
<1>5. \A q \in Requests : q # r => req'[q].status = req[q].status
  BY <1>4, CommitShows
<1>6. S # {}
  BY <1>1
<1>7. \A s \in S : s \in Slots /\ RequestOf[s] = r /\ ~slot[s].cancelled
  BY CommitShows DEF WroteSlot, SlotCancels
<1>8. \A s \in Slots : slot'[s].cancelled <=> slot[s].cancelled \/ s \in S
  BY CommitShows DEF GivesUpSlots
<1>9. req'[r].status = "CANCELLED" => \A s \in Slots : RequestOf[s] = r => slot'[s].cancelled
  BY CommitOutcome DEF OutcomeInvariant, CancelledIsEmpty
<1> HIDE DEF r, S
<1>10. S \subseteq Calendar!Of(r) \cap Calendar!Taken /\ S \in SUBSET Slots
  BY <1>1, <1>3, <1>7 DEF Calendar!Of, Calendar!Taken
<1>11. {s \in Slots : slot'[s].cancelled} = {s \in Slots : slot[s].cancelled} \cup S
  BY <1>7, <1>8
<1>12. \/ [q \in Requests |-> req'[q].status] = [q \in Requests |-> req[q].status]
       \/ /\ Calendar!Of(r) \subseteq {s \in Slots : slot'[s].cancelled}
          /\ [q \in Requests |-> req'[q].status] = Calendar!Set({r}, "CANCELLED")
  <2>1. CASE req'[r].status = "APPROVED"
    BY <1>1, <1>3, <1>5, <2>1
  <2>2. CASE req'[r].status = "CANCELLED"
    BY <1>1, <1>3, <1>5, <1>9, <2>2 DEF Calendar!Of, Calendar!Set
  <2> QED
    BY <1>3, <2>1, <2>2
<1>13. Calendar!Release(r, S)
  BY <1>1, <1>3, <1>6, <1>10, <1>11, <1>12 DEF Calendar!Release
<1> QED
  BY <1>1, <1>10, <1>13 DEF Calendar!Next, Calendar!Release

(* The crons: the expiry sweep lets requests lapse, the reminder claim     *)
(* changes nothing of the calendar.                                        *)
LEMMA SweepRefines ==
  ASSUME TypeOK, RowInvariant, OutcomeInvariant, NEW w \in Workers, Commit(w),
         tx[w].op \in Sweeps
  PROVE  [Calendar!Next]_(Calendar!calendar)
<1> DEFINE R == {r \in Requests : reqLock[r] = w}
<1>1. \A s \in Slots : slot'[s].cancelled <=> slot[s].cancelled
  BY CommitShows DEF GivesUpSlots, SlotCancels, Withdraws, Sweeps
<1>2. \A r \in R : req[r].status = "PENDING" /\ req'[r].status = "EXPIRED"
  BY CommitShows DEF WroteRequest, Decides, SlotCancels, Sweeps
<1>3. \A r \in Requests : r \notin R => req'[r].status = req[r].status
  BY CommitShows
<1>4. R \in SUBSET Requests
  OBVIOUS
<1> HIDE DEF R
<1>5. CASE R = {}
  BY <1>1, <1>3, <1>5 DEF Calendar!calendar
<1>6. CASE R # {}
  <2>1. Calendar!Lapse(R)
    BY <1>1, <1>2, <1>3, <1>4, <1>6 DEF Calendar!Lapse, Calendar!AllPending, Calendar!Set
  <2> QED
    BY <1>4, <2>1 DEF Calendar!Next, Calendar!Lapse
<1> QED
  BY <1>5, <1>6

(* The concurrent handlers implement the atomic calendar: every commit is  *)
(* one of its steps, and no other step changes what it shows.              *)
THEOREM CalendarImplemented == Spec => ImplementsCalendar
<1>1. Init => Calendar!Init
  BY DEF Init, Calendar!Init, NoRow, NoSlot
<1>2. TypeOK /\ TypeOK' /\ RowInvariant /\ OutcomeInvariant /\ [Next]_vars
        => [Calendar!Next]_(Calendar!calendar)
  <2> SUFFICES ASSUME TypeOK, TypeOK', RowInvariant, OutcomeInvariant, [Next]_vars
               PROVE  [Calendar!Next]_(Calendar!calendar)
    OBVIOUS
  <2>1. CASE UNCHANGED <<req, slot>>
    BY <2>1 DEF Calendar!calendar
  <2>2. ASSUME NEW w \in Workers, Commit(w) PROVE [Calendar!Next]_(Calendar!calendar)
    <3>1. tx[w].op \in {"createFromLine", "reject", "cancelPendingBooking"}
                       \cup Decides \cup SlotCancels \cup Sweeps
      BY <2>2, CommitShows
         DEF AllOps, StaffOps, LineOps, CronOps, Decides, SlotCancels, Sweeps
    <3> QED
      BY <2>2, <3>1, RulingRefines, DecisionRefines, CancellationRefines, SweepRefines
  <2> QED
    BY <2>1, <2>2, OnlyCommitMoves
<1> QED
  BY <1>1, <1>2, OutcomeSafe, PTL DEF Spec, ImplementsCalendar, Calendar!Spec
=============================================================================
