-------------------------- MODULE BookingInvariant --------------------------
(***************************************************************************)
(* The inductive invariants of the booking core.  RowInvariant is behind   *)
(* NoDoubleBooking, HoldsMirror and StatusMoves: BookingsProofs proves     *)
(* that every step of Bookings preserves it, for any constants.  On it     *)
(* rests OutcomeInvariant, behind what a decision leaves and what is told  *)
(* of it: BookingOutcomeProofs.  TLC checks RowInvariant on an instance.   *)
(***************************************************************************)
EXTENDS BookingProperties

Creates == {"createFromLine", "createDirect"}
SlotCancels == {"cancel", "cancelApprovedSlot"}

-----------------------------------------------------------------------------
(* The rows.                                                               *)

(* A row nobody has locked has one version.                                *)
Versions ==
  /\ \A r \in Requests : reqLock[r] = Nobody => reqNew[r] = req[r]
  /\ \A s \in Slots : slotLock[s] = Nobody => slotNew[s] = slot[s]

(* A written request row has moved along the lifecycle, and a new one is   *)
(* the row its writer is creating.                                         *)
WrittenMoves ==
  \A r \in Requests : reqLock[r] # Nobody
    => /\ \/ reqNew[r].status = req[r].status
          \/ <<req[r].status, reqNew[r].status>> \in Moves
       /\ reqNew[r].status # "NONE"
       /\ req[r].status = "NONE" => tx[reqLock[r]].r = r

(* A request that leaves APPROVED does so with every slot cancelled, as    *)
(* its writer sees them.                                                   *)
LeavesEmpty ==
  \A r \in Requests :
    (reqLock[r] # Nobody /\ req[r].status = "APPROVED"
       /\ reqNew[r].status # "APPROVED")
      => \A s \in SlotsOf(r) : SlotOf(reqLock[r], s).cancelled

(* Only live slots are written, and only by the writer of their request or *)
(* while that request is APPROVED.                                         *)
WrittenSlots ==
  \A s \in Slots : slotLock[s] # Nobody
    => /\ ~slot[s].cancelled
       /\ \/ reqLock[RequestOf[s]] = slotLock[s]
          \/ req[RequestOf[s]].status = "APPROVED"

(* holdsSlot mirrors its sources in what every worker sees.                *)
ViewMirror ==
  \A w \in Workers, s \in Slots :
    SlotOf(w, s).holds <=> /\ ~SlotOf(w, s).cancelled
                           /\ ReqOf(w, RequestOf[s]).status = "APPROVED"

(* No two rival slots are in the exclusion index, committed or not.        *)
InIndex(s) == slot[s].holds \/ slotNew[s].holds
IndexExcludes ==
  \A s, t \in Slots : Collide(s, t) => ~(InIndex(s) /\ InIndex(t))

(* The slots of a request that was not inserted are as they were.          *)
UnbornSlots ==
  \A s \in Slots : req[RequestOf[s]].status = "NONE" => ~slot[s].cancelled

Rows == /\ Versions /\ WrittenMoves /\ LeavesEmpty /\ WrittenSlots
        /\ ViewMirror /\ HoldsMirror /\ IndexExcludes /\ UnbornSlots

-----------------------------------------------------------------------------
(* The handlers: what each knows from its earlier statements, and may      *)
(* still rely on.                                                          *)

(* The statements that belong to each operation.                           *)
WellShaped(t) ==
  /\ t.pc # "idle" => t.op # "none"
  /\ t.pc \in {"lock", "check", "losers", "insert", "flip", "refresh", "slots",
              "remaining", "request"}
       => t.r \in Requests
  /\ t.pc = "insert" => t.op \in Creates
  /\ t.pc = "losers" => t.op \in {"createDirect", "approve"}
  /\ t.pc \in {"flip", "refresh"} => t.op \in {"approve", "reject", "cancelPendingBooking"}
  /\ t.pc = "slots" => t.op \in SlotCancels \cup {"cancelPendingBooking"}
  /\ t.pc \in {"remaining", "request"} => t.op \in SlotCancels
  /\ t.pc = "remind" => t.op = "remindUpcoming"
Shape == \A w \in Workers : WellShaped(tx[w])

(* A handler at one of these points has written nothing yet, or nothing    *)
(* that is not committed.                                                  *)
Clean == {"idle", "lock", "check", "losers", "insert", "flip"} \cup AfterTx
HoldsNoRequest(w) == \A r \in Requests : reqLock[r] # w
HoldsNothing(w) == HoldsNoRequest(w) /\ \A s \in Slots : slotLock[s] # w
CleanHandler(w) == tx[w].pc \in Clean => HoldsNothing(w)

(* A handler about to give its request a new status holds that row alone,  *)
(* and the row is still PENDING.                                           *)
FlippingHandler(w) ==
  tx[w].pc = "refresh"
    => /\ \A r \in Requests : reqLock[r] = w <=> r = tx[w].r
       /\ \A s \in Slots : slotLock[s] # w
       /\ req[tx[w].r].status = "PENDING"
       /\ reqNew[tx[w].r] = req[tx[w].r]

(* A request being created is known to its creator alone.                  *)
Creating(t) == t.op \in Creates /\ t.pc \in {"lock", "check", "losers", "insert"}
CreatingHandler(w) ==
  Creating(tx[w]) => req[tx[w].r].status = "NONE" /\ reqLock[tx[w].r] = Nobody
CreatesApart ==
  \A w, x \in Workers : (w # x /\ Creating(tx[w]) /\ Creating(tx[x]))
                          => tx[w].r # tx[x].r

(* The slots a handler is about to write belong to an APPROVED request, or *)
(* have been cancelled meanwhile; a withdrawal owns its request.           *)
PickingHandler(w) ==
  tx[w].pc \in {"slots", "remind"} =>
    \A s \in tx[w].picked :
      IF tx[w].op = "cancelPendingBooking"
      THEN reqLock[RequestOf[s]] = w
      ELSE req[RequestOf[s]].status = "APPROVED" \/ slot[s].cancelled

(* A slot cancellation, up to its last statement: the slots it has written *)
(* are cancelled, and what it does not count as remaining is cancelled or  *)
(* about to be.                                                            *)
CancellingHandler(w) ==
  (tx[w].op \in SlotCancels
     /\ tx[w].pc \in {"lock", "check", "slots", "remaining", "request"})
    => /\ tx[w].picked \subseteq SlotsOf(tx[w].r)
       /\ tx[w].picked # {} \/ (tx[w].op = "cancel" /\ tx[w].pc \in {"lock", "check"})
       /\ HoldsNoRequest(w)
       /\ \A s \in Slots : slotLock[s] = w => slotNew[s].cancelled
       /\ tx[w].pc \in {"remaining", "request"}
            => \A s \in tx[w].picked : slotLock[s] = w
       /\ tx[w].op = "cancel" /\ tx[w].pc = "slots"
            => \A s \in SlotsOf(tx[w].r) :
                 s \in tx[w].picked \cup tx[w].remaining \/ slot[s].cancelled
       /\ tx[w].pc = "request"
            => \A s \in SlotsOf(tx[w].r) :
                 s \in tx[w].remaining \/ SlotOf(w, s).cancelled

Handler(w) == /\ CleanHandler(w) /\ FlippingHandler(w) /\ CreatingHandler(w)
              /\ PickingHandler(w) /\ CancellingHandler(w)

(* The inductive invariant (with TypeOK): what the rows satisfy whoever is *)
(* writing them, and what each handler may rely on.                        *)
RowInvariant == /\ Rows /\ Shape /\ CreatesApart
                /\ \A w \in Workers : Handler(w)

-----------------------------------------------------------------------------
(* What a handler has written, and what it may tell: the strengthening     *)
(* behind the properties of the news, the cards, the reminders, the waits  *)
(* and the refinement.                                                     *)

Decides == {"approve", "createDirect"}
TakesVenueLock == Decides \cup {"cancel"}
Withdraws == {"cancelPendingBooking"}
GivesUpSlots == SlotCancels \cup Withdraws

(* The statements of each operation.                                       *)
Statements ==
  [createFromLine |-> {"check", "insert"},
   createDirect |-> {"lock", "check", "losers", "insert", "rejectLosers"},
   approve |-> {"lock", "check", "losers", "flip", "refresh", "rejectLosers"},
   reject |-> {"check", "flip", "refresh"},
   cancelPendingBooking |-> {"check", "flip", "refresh", "slots"},
   cancelApprovedSlot |-> {"check", "slots", "remaining", "request"},
   cancel |-> {"lock", "check", "slots", "request"},
   expireOverdue |-> {"expire"},
   remindUpcoming |-> {"remind"}]
Route(t) ==
  t.pc = "idle"
    \/ /\ t.op \in AllOps
       /\ t.pc \in Statements[t.op] \cup {"commit"} \cup AfterTx
       /\ t.op = "remindUpcoming" => t.pc \notin {"publish", "emit"}
       /\ t.op \in Sweeps <=> t.r = NoRequest
       /\ t.op # "remindUpcoming" => t.picked \subseteq SlotsOf(t.r)
       /\ t.op \in {"reject", "cancelPendingBooking"} /\ t.pc \in {"check", "flip", "refresh"}
            => t.picked = {}
       /\ t.op = "cancelApprovedSlot" => \A s, u \in t.picked : s = u

(* Requests whose slots clash.                                             *)
Rivals(r, l) == l # r /\ \E s \in SlotsOf(r), u \in SlotsOf(l) : Collide(s, u)

(* What parseSlots let through.                                            *)
WellParsed(r) == /\ SlotsOf(r) # {}
                 /\ \A s, u \in SlotsOf(r) : s # u => ~Overlaps(s, u)

(* A request row that w holds is one it announces, and carries w's ruling. *)
WroteRequest(w, r) ==
  LET t == tx[w]
      from == req[r].status
      to == reqNew[r].status
  IN  \/ t.op = "expireOverdue" /\ r \in t.ids /\ from = "PENDING" /\ to = "EXPIRED"
      \/ /\ t.op \in Decides /\ r # t.r /\ r \in t.ids
         /\ t.pc \in {"rejectLosers", "commit"}
         /\ from = "PENDING" /\ to = "REJECTED"
      \/ /\ t.op = "createFromLine" /\ r = t.r
         /\ from = "NONE" /\ to = "PENDING"
      \/ /\ t.op = "createDirect" /\ r = t.r
         /\ from = "NONE" /\ to = "APPROVED"
      \/ /\ t.op \in {"approve", "reject", "cancelPendingBooking"} /\ r = t.r
         /\ from = "PENDING"
         /\ to = IF t.pc = "refresh" THEN "PENDING" ELSE FlippedTo[t.op]
      \/ /\ t.op \in SlotCancels /\ r = t.r /\ t.pc = "commit"
         /\ from = "APPROVED" /\ to \in {"APPROVED", "CANCELLED"}
WroteRequests(w) == \A r \in Requests : reqLock[r] = w => WroteRequest(w, r)

(* A slot row that w holds was given up by a cancellation, marked by the   *)
(* reminder claim, or entered into the index by a decision.                *)
WroteSlot(w, s) ==
  LET t == tx[w]
  IN  /\ t.op # "remindUpcoming" => RequestOf[s] = t.r
      /\ t.op \in GivesUpSlots <=> slotNew[s].cancelled
      /\ t.op \in SlotCancels \cup {"remindUpcoming"} => s \in t.picked
      /\ IF t.op = "remindUpcoming"
         THEN slotNew[s].reminded /\ ~slot[s].reminded
         ELSE slotNew[s].reminded <=> slot[s].reminded
      /\ slotNew[s].holds => slot[s].holds \/ t.op \in Decides
WroteSlots(w) == \A s \in Slots : slotLock[s] = w => WroteSlot(w, s)

(* What w has done by the time it gets to a statement.                     *)
Done(w) ==
  LET t == tx[w]
  IN  /\ t.op \in Creates /\ t.pc \in {"rejectLosers", "commit"} => reqLock[t.r] = w
      /\ t.op \in {"approve", "reject", "cancelPendingBooking"}
           /\ t.pc \in {"refresh", "rejectLosers", "slots", "commit"}
           => reqLock[t.r] = w
      /\ t.op \in Withdraws /\ t.pc = "slots"
           => \A s \in SlotsOf(t.r) : s \in t.picked \/ slot[s].cancelled
      /\ t.op \in Withdraws /\ t.pc = "commit"
           => \A s \in SlotsOf(t.r) : SlotOf(w, s).cancelled
      /\ t.op \in SlotCancels /\ t.pc = "commit"
           => /\ reqLock[t.r] = w /\ t.picked # {}
              /\ \A s \in t.picked : slotLock[s] = w
      /\ t.op = "expireOverdue" /\ t.pc = "commit"
           => \A r \in t.ids : reqLock[r] = w
      /\ t.op = "remindUpcoming" /\ t.pc = "commit"
           => \A s \in t.picked : slotLock[s] = w

(* The losers of a decision clash with it.                                 *)
Losers(w) ==
  tx[w].op \in Decides /\ tx[w].pc \in {"flip", "refresh", "insert", "rejectLosers", "commit"}
    => \A l \in tx[w].ids : Rivals(tx[w].r, l)

(* The request of a handler has been parsed, and is there unless the       *)
(* handler creates it.                                                     *)
Subject(w) ==
  tx[w].pc # "idle" /\ tx[w].op \notin Sweeps
    => /\ WellParsed(tx[w].r)
       /\ tx[w].op \in Creates \/ req[tx[w].r].status # "NONE"

(* The venue lock belongs to a decision from "check" to its end.           *)
VenueHeld(w) ==
  /\ tx[w].op \in TakesVenueLock /\ tx[w].pc \in InTx \ {"lock"}
       => venueLock[VenueOf[tx[w].r]] = w
  /\ \A v \in Venues : venueLock[v] = w
       => /\ tx[w].op \in TakesVenueLock /\ tx[w].pc \in InTx \ {"lock"}
          /\ VenueOf[tx[w].r] = v

(* After its clash check, a decision stays free of clashes with what is    *)
(* committed.                                                              *)
Unrivalled(w) ==
  tx[w].op \in Decides /\ tx[w].pc \in {"losers", "flip", "refresh", "insert"}
    => /\ req[tx[w].r].status # "APPROVED"
       /\ \A s \in tx[w].picked, u \in Slots : slot[u].holds => ~Collide(s, u)

(* What a fan-out has read is the status of the row, or one it left.       *)
Heard(w) == \A r \in Requests : tx[w].seen[r] \in Since[req[r].status]

(* After its commit, what w goes on to tell is true.                       *)
Tells(w) ==
  tx[w].pc \in AfterTx =>
    CASE tx[w].op = "expireOverdue" -> \A r \in tx[w].ids : req[r].status = "EXPIRED"
      [] tx[w].op = "remindUpcoming" ->
           \A s \in tx[w].picked : slot[s].reminded /\ reminders[s] = 0
      [] OTHER -> CardTrue(tx[w].r, CardFor[tx[w].op])

Outcome(w) == /\ Route(tx[w]) /\ WroteRequests(w) /\ WroteSlots(w) /\ Done(w)
              /\ Losers(w) /\ Subject(w) /\ VenueHeld(w) /\ Unrivalled(w)
              /\ Heard(w) /\ Tells(w)

(* Every request that was inserted had been parsed; a slot of one that was *)
(* not carries no mark; no two claims remind of one slot.                  *)
Parsed == \A r \in Requests : req[r].status # "NONE" => WellParsed(r)
Unmarked == \A s \in Slots : req[RequestOf[s]].status = "NONE" => ~slot[s].reminded
Reminding(w) == tx[w].op = "remindUpcoming" /\ tx[w].pc = "notify"
RemindedOnce ==
  /\ \A s \in Slots : reminders[s] \in {0, 1} /\ (reminders[s] = 1 => slot[s].reminded)
  /\ \A w, x \in Workers : w # x /\ Reminding(w) /\ Reminding(x)
       => tx[w].picked \cap tx[x].picked = {}

(* The second inductive invariant, on top of TypeOK and RowInvariant.      *)
OutcomeInvariant ==
  /\ Parsed /\ Unmarked /\ RemindedOnce
  /\ CancelledIsEmpty /\ NoDirtyNews /\ CardsAreTrue
  /\ \A w \in Workers : Outcome(w)
=============================================================================
