------------------------- MODULE BookingProperties -------------------------
(***************************************************************************)
(* What the booking domain promises, stated over the states and steps of   *)
(* Bookings.                                                               *)
(***************************************************************************)
EXTENDS Bookings

(* The type of every variable: the columns of the two tables, the locks    *)
(* and the handler-local values of bookings.service.ts and                 *)
(* admin-bookings.service.ts.                                              *)
TypeOK ==
  /\ req \in [Requests -> RequestRow]
  /\ reqNew \in [Requests -> RequestRow]
  /\ reqLock \in [Requests -> Workers \cup {Nobody}]
  /\ slot \in [Slots -> SlotRow]
  /\ slotNew \in [Slots -> SlotRow]
  /\ slotLock \in [Slots -> Workers \cup {Nobody}]
  /\ venueLock \in [Venues -> Workers \cup {Nobody}]
  /\ tx \in [Workers -> TxState]
  /\ now \in Nat
  /\ screen \in [Requests -> Statuses]
  /\ cards \subseteq Requests \X CardKinds
  /\ reminders \in [Slots -> Nat]

-----------------------------------------------------------------------------
(* The room.                                                               *)

Occupies(s) == ~slot[s].cancelled /\ req[RequestOf[s]].status = "APPROVED"

(* ADR-001: at no instant is one room held by two committed, approved,     *)
(* live slots, whatever decisions run concurrently.  Stated over instants, *)
(* not with the overlap predicate the code uses.                           *)
NoDoubleBooking ==
  \A s, t \in Slots :
    (s # t /\ RoomOf(s) = RoomOf(t) /\ Occupies(s) /\ Occupies(t))
      => \A i \in StartAt[s] .. EndAt[s] :
           i < EndAt[s] => ~(StartAt[t] <= i /\ i < EndAt[t])

(* holdsSlot, the key of the exclusion index, equals the fact it mirrors   *)
(* in every committed state: the two triggers of the migration between     *)
(* them miss no way in which a slot or its parent changes.                 *)
HoldsMirror == \A s \in Slots : slot[s].holds <=> Occupies(s)

(* The venue lock makes the exclusion constraint a last resort: a decision *)
(* that passed its clash check under the lock never meets 23P01, and never *)
(* waits for another decision at the index (bookings.constants.ts, note on *)
(* BOOKING_VENUE_LOCK_NS).                                                 *)
ConstraintIsLastResort ==
  \A w \in Workers :
    (tx[w].op \in {"approve", "createDirect"} /\ tx[w].pc \in {"flip", "refresh", "insert"}
       /\ ReqOf(w, tx[w].r).status \in {"NONE", "PENDING"})
      => ~MustWait(w, tx[w].picked) /\ ~Excluded(w, tx[w].picked)

-----------------------------------------------------------------------------
(* The request.                                                            *)

Moves == {<<"NONE", "PENDING">>, <<"NONE", "APPROVED">>,
          <<"PENDING", "APPROVED">>, <<"PENDING", "REJECTED">>,
          <<"PENDING", "CANCELLED">>, <<"PENDING", "EXPIRED">>,
          <<"APPROVED", "CANCELLED">>}

(* A committed request moves only along the lifecycle: a decision, a       *)
(* withdrawal and the expiry sweep never overwrite one another, although   *)
(* each reads the status before it writes and the slot cancellations write *)
(* the parent without a guard.                                             *)
StatusMoves ==
  [][\A r \in Requests : req'[r].status # req[r].status
                           => <<req[r].status, req'[r].status>> \in Moves]_vars

(* A slot once cancelled stays cancelled, and keeps its reminder mark: no  *)
(* concurrent writer of the row (a cancellation, the reminder claim, the   *)
(* status trigger) brings back an older version.                           *)
SlotsNeverRevive ==
  [][\A s \in Slots : /\ slot[s].cancelled => slot'[s].cancelled
                      /\ slot[s].reminded => slot'[s].reminded]_vars

(* A CANCELLED request has no live slot left.                              *)
CancelledIsEmpty ==
  \A s \in Slots : req[RequestOf[s]].status = "CANCELLED" => slot[s].cancelled

(* bookings.service.ts: the last slot takes the request with it, so an     *)
(* APPROVED request always has a live slot.                                *)
LastSlotTakesRequest ==
  \A r \in Requests : req[r].status = "APPROVED"
                        => \E s \in SlotsOf(r) : ~slot[s].cancelled

-----------------------------------------------------------------------------
(* What the outside is told.                                               *)

(* The statuses a committed status may have come from.                     *)
Since == [NONE |-> {"NONE"}, PENDING |-> {"NONE", "PENDING"},
          APPROVED |-> {"NONE", "PENDING", "APPROVED"},
          REJECTED |-> {"NONE", "PENDING", "REJECTED"},
          EXPIRED |-> {"NONE", "PENDING", "EXPIRED"},
          CANCELLED |-> {"NONE", "PENDING", "APPROVED", "CANCELLED"}]

(* The write is durable before any screen is told of it: a status a        *)
(* watcher heard is one the request has, or has left on its way here.      *)
NoDirtyNews == \A r \in Requests : screen[r] \in Since[req[r].status]

(* One event per row that changed: at its commit, every request row a      *)
(* handler has written is in the list it goes on to announce.              *)
EveryWrittenRowIsAnnounced ==
  \A w \in Workers : tx[w].pc = "commit"
    => \A r \in Requests : reqLock[r] = w => r \in Announced(w)

CardTrue(r, kind) ==
  CASE kind = "PENDING"   -> req[r].status # "NONE"
    [] kind = "APPROVED"  -> req[r].status \in {"APPROVED", "CANCELLED"}
    [] kind \in {"REJECTED", "AUTO_REJECTED"} -> req[r].status = "REJECTED"
    [] kind = "EXPIRED"   -> req[r].status = "EXPIRED"
    [] OTHER              -> \E s \in SlotsOf(r) : slot[s].cancelled

(* Every card pushed to a requester states what became of the booking; all *)
(* kinds but the auto-rejection, which approve also pushes to a request    *)
(* that was withdrawn or expired before rejectLosers wrote.                *)
CardsAreTrue ==
  \A c \in cards : c[2] # "AUTO_REJECTED" => CardTrue(c[1], c[2])

(* The reminder of a slot is pushed at most once, over any number of       *)
(* ticks, app instances, rolled back claims and lost processes.            *)
RemindedAtMostOnce == \A s \in Slots : reminders[s] <= 1

-----------------------------------------------------------------------------
(* Waiting.                                                                *)

Sweeps == {"expireOverdue", "remindUpcoming"}

(* The rows the next statement of w has yet to write.                      *)
WantsRequests(w) ==
  CASE tx[w].pc = "flip" /\ req[tx[w].r].status = "PENDING" -> {tx[w].r}
    [] tx[w].pc = "request" -> {tx[w].r}
    [] tx[w].pc = "rejectLosers" -> ToReject(w)
    [] tx[w].pc = "expire" -> {r \in tx[w].ids : req[r].status = "PENDING"}
    [] OTHER -> {}
WantsSlots(w) ==
  CASE tx[w].pc \in {"slots", "remind"} ->
         {s \in tx[w].picked : ~slot[s].cancelled}
    [] tx[w].pc \in {"refresh", "insert"} ->
         {t \in Slots : slot[t].holds \/ slotNew[t].holds}
           \cap {t \in Slots : \E s \in tx[w].picked : Collide(s, t)}
    [] OTHER -> {}

MayWaitFor(w) ==
  (({reqLock[r] : r \in WantsRequests(w)}
     \cup {slotLock[s] : s \in WantsSlots(w)}
     \cup (IF tx[w].pc = "lock" THEN {venueLock[VenueOf[tx[w].r]]} ELSE {}))
   \cap Workers) \ {w}

(* Two decisions on one venue never deadlock: in whatever order a          *)
(* statement takes its rows, every cycle of handlers waiting for one       *)
(* another's locks goes through a cron sweep.                              *)
OnlySweepsDeadlock ==
  \A S \in SUBSET {w \in Workers : tx[w].op \notin Sweeps} :
    S # {} => \E w \in S : MayWaitFor(w) \cap S = {}

-----------------------------------------------------------------------------
(* Refinement.                                                             *)

(* The committed rows, read as the abstract calendar.                      *)
Calendar == INSTANCE RoomCalendar
  WITH status <- [r \in Requests |-> req[r].status],
       dropped <- {s \in Slots : slot[s].cancelled},
       Clash <- Collide

(* The concurrent handlers implement the atomic calendar: every commit of  *)
(* bookings.service.ts, admin-bookings.service.ts and the expiry cron is   *)
(* one of its steps, and no other step touches committed rows.             *)
ImplementsCalendar == Calendar!Spec

-----------------------------------------------------------------------------
(* Progress.                                                               *)

(* Handlers run on: PostgreSQL grants row locks and advisory locks in the  *)
(* order they were asked for, so a statement that can proceed again and    *)
(* again does (strong fairness), and ends a deadlock by aborting one of    *)
(* the transactions in it.  The expiry cron ticks every minute.  An insert *)
(* does not collide for ever: a colliding code is recounted, and given up  *)
(* after five attempts (BookingCode).  The sweep itself does not fail for  *)
(* ever: a failed tick is retried by the next one, and the database is not *)
(* down for good.  Nothing is assumed of users, of the failures of other   *)
(* handlers, of the clock or of the reminder cron.                         *)
Deadlocked(w) ==
  \E S \in SUBSET Workers : w \in S /\ \A x \in S : MayWaitFor(x) \cap S # {}
DeadlockVictim(w) == Deadlocked(w) /\ Abort(w)
SweepFails(w) == tx[w].op = "expireOverdue" /\ Abort(w)
Fairness ==
  /\ \A w \in Workers : /\ SF_vars(Proceed(w)) /\ SF_vars(Insert(w))
                         /\ WF_vars(DeadlockVictim(w))
  /\ SF_vars(\E w \in Workers : ExpireOverdue(w))
  /\ <>[][\A w \in Workers : ~SweepFails(w)]_vars
FairSpec == Spec /\ Fairness

(* A request nobody ruled on does not stay PENDING past its first slot:    *)
(* the sweep gets there although decisions hold row locks and transactions *)
(* deadlock and roll back.                                                 *)
OverdueIsClosed ==
  \A r \in Requests : Overdue(r) ~> req[r].status # "PENDING"

(* Every handler ends: nobody waits for a lock for ever.                   *)
HandlersEnd == \A w \in Workers : tx[w].pc # "idle" ~> tx[w].pc = "idle"
=============================================================================
