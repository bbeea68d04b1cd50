--------------------------- MODULE BookingsProofs ---------------------------
(***************************************************************************)
(* The safety of Bookings, for any requests, slots, rooms and workers.     *)
(*                                                                         *)
(* The argument: RowInvariant (with TypeOK) is inductive.  A step of one   *)
(* handler is first shown to keep the facts about the rows and to be       *)
(* discreet, that is, to disturb nothing another handler relies on; then   *)
(* what the handler itself has come to know is established action by       *)
(* action.                                                                 *)
(***************************************************************************)
EXTENDS BookingTyping

(* What a step of w leaves to the other handlers: their locks, what they   *)
(* have written, the requests they are creating, the cancelled slots, and  *)
(* the approval of every request that keeps a live slot.                   *)
Discreet(w) ==
  /\ \A x \in Workers \ {w} :
       /\ tx'[x] = tx[x]
       /\ \A r \in Requests :
            /\ reqLock'[r] = x <=> reqLock[r] = x
            /\ reqLock[r] = x => req'[r] = req[r] /\ reqNew'[r] = reqNew[r]
       /\ \A s \in Slots : /\ slotLock'[s] = x <=> slotLock[s] = x
                           /\ slotLock[s] = x => slotNew'[s] = slotNew[s]
       /\ Creating(tx[x]) => /\ req'[tx[x].r].status = "NONE"
                             /\ reqLock'[tx[x].r] = Nobody
  /\ \A s \in Slots :
       /\ slot[s].cancelled => slot'[s].cancelled
       /\ req[RequestOf[s]].status = "APPROVED"
            => req'[RequestOf[s]].status = "APPROVED" \/ slot'[s].cancelled

(* A discreet step of w takes nothing that another handler relies on.      *)
LEMMA OthersKeep ==
  ASSUME TypeOK, NEW w \in Workers, Discreet(w),
         NEW x \in Workers \ {w}, Handler(x), Shape
  PROVE  Handler(x)'
<1> USE SlotsAssumption
<1>1. tx'[x] = tx[x]
  BY DEF Discreet
<1>2. CleanHandler(x)'
  BY <1>1 DEF Discreet, Handler, CleanHandler, HoldsNothing, HoldsNoRequest
<1>3. CreatingHandler(x)' /\ FlippingHandler(x)'
  BY <1>1 DEF Discreet, Handler, CreatingHandler, FlippingHandler, Shape, WellShaped
<1>4. PickingHandler(x)'
  <2>1. tx[x].picked \subseteq Slots
    BY DEF TypeOK, TxState
  <2> QED
    BY <1>1, <2>1 DEF Discreet, Handler, PickingHandler
<1>5. CancellingHandler(x)'
  <2> SUFFICES ASSUME tx[x].op \in SlotCancels
                        /\ tx[x].pc \in {"lock", "check", "slots", "remaining", "request"}
               PROVE  CancellingHandler(x)'
    BY <1>1 DEF CancellingHandler
  <2>1. tx[x].picked \subseteq Slots
    BY DEF TypeOK, TxState
  <2>2. tx[x].pc = "request"
          => \A s \in SlotsOf(tx[x].r) :
               s \in tx[x].remaining \/ SlotOf(x, s)'.cancelled
    BY DEF Handler, CancellingHandler, Discreet, SlotOf, SlotsOf
  <2>3. \A s \in Slots : slotLock'[s] = x => slotNew'[s].cancelled
    BY DEF Handler, CancellingHandler, Discreet
  <2>4. tx[x].op = "cancel" /\ tx[x].pc = "slots"
          => \A s \in SlotsOf(tx[x].r) :
               s \in tx[x].picked \cup tx[x].remaining \/ slot'[s].cancelled
    BY DEF Handler, CancellingHandler, Discreet, SlotsOf
  <2>5. tx[x].pc \in {"remaining", "request"}
            => \A s \in tx[x].picked : slotLock'[s] = x
    BY <2>1 DEF Handler, CancellingHandler, Discreet
  <2>6. /\ tx[x].picked \subseteq SlotsOf(tx[x].r)
        /\ tx[x].picked # {} \/ (tx[x].op = "cancel" /\ tx[x].pc \in {"lock", "check"})
        /\ HoldsNoRequest(x)'
    BY DEF Handler, CancellingHandler, Discreet, HoldsNoRequest
  <2> QED
    BY <1>1, <2>2, <2>3, <2>4, <2>5, <2>6 DEF CancellingHandler, SlotsOf
<1> QED
  BY <1>2, <1>3, <1>4, <1>5 DEF Handler

(* A step that writes no row and lets go of none.                          *)
LEMMA NoRowsWritten ==
  ASSUME TypeOK, Rows, NEW w \in Workers, UNCHANGED rows,
         \A x \in Workers \ {w} : tx'[x] = tx[x],
         HoldsNothing(w) \/ tx'[w].r = tx[w].r,
         \A x \in Workers : CreatingHandler(x)
  PROVE  Rows' /\ Discreet(w)
<1> USE DEF rows, Rows
<1>1. WrittenMoves'
  BY DEF TypeOK, WrittenMoves, HoldsNothing, HoldsNoRequest
<1>2. /\ Versions' /\ LeavesEmpty' /\ WrittenSlots'
      /\ HoldsMirror' /\ IndexExcludes' /\ UnbornSlots'
  BY DEF Versions, LeavesEmpty, WrittenSlots, HoldsMirror, Occupies,
         IndexExcludes, InIndex, UnbornSlots, SlotOf
<1>3. ViewMirror'
  BY DEF ViewMirror, SlotOf, ReqOf
<1>4. Discreet(w)
  BY DEF Discreet, CreatingHandler
<1> QED
  BY <1>1, <1>2, <1>3, <1>4

(* A handler that is creating a request has its id.                        *)
LEMMA CreatingIsKnown ==
  ASSUME Shape
  PROVE  \A x \in Workers : Creating(tx[x]) => tx[x].r \in Requests
BY DEF Shape, WellShaped, Creating

(* A rollback leaves the rows in order.                                    *)
LEMMA RollbackRows ==
  ASSUME TypeOK, Rows, Shape, NEW w \in Workers, Rollback(w),
         \A x \in Workers : CreatingHandler(x)
  PROVE  Rows' /\ Discreet(w) /\ HoldsNothing(w)'
<1> USE SlotsAssumption, WorkersAssumption
<1>1. /\ req' = req /\ slot' = slot
      /\ \A r \in Requests :
           /\ reqNew'[r] = IF reqLock[r] = w THEN req[r] ELSE reqNew[r]
           /\ reqLock'[r] = IF reqLock[r] = w THEN Nobody ELSE reqLock[r]
      /\ \A s \in Slots :
           /\ slotNew'[s] = IF slotLock[s] = w THEN slot[s] ELSE slotNew[s]
           /\ slotLock'[s] = IF slotLock[s] = w THEN Nobody ELSE slotLock[s]
      /\ \A x \in Workers \ {w} : tx'[x] = tx[x]
  BY DEF Rollback, TypeOK
<1>2. /\ \A s \in Slots : SlotOf(w, s)' = slot[s]
      /\ \A x \in Workers \ {w}, s \in Slots : SlotOf(x, s)' = SlotOf(x, s)
  BY <1>1 DEF SlotOf
<1>3. /\ \A r \in Requests : ReqOf(w, r)' = req[r]
      /\ \A x \in Workers \ {w}, r \in Requests : ReqOf(x, r)' = ReqOf(x, r)
  BY <1>1 DEF ReqOf
<1>4. \A r \in Requests : reqLock[r] \in Workers \cup {Nobody}
  BY DEF TypeOK
<1>5. Versions'
  BY <1>1 DEF Rows, Versions
<1>6. WrittenMoves'
  <2>1. \A r \in Requests : reqLock'[r] # Nobody =>
          /\ reqLock'[r] = reqLock[r] /\ reqNew'[r] = reqNew[r]
          /\ tx'[reqLock[r]] = tx[reqLock[r]]
    BY <1>1, <1>4
  <2> QED
    BY <1>1, <2>1 DEF Rows, WrittenMoves
<1>7. LeavesEmpty'
  BY <1>1, <1>2, <1>4 DEF Rows, LeavesEmpty, SlotsOf
<1>8. WrittenSlots'
  BY <1>1 DEF Rows, WrittenSlots
<1>9. HoldsMirror'
  BY <1>1 DEF Rows, HoldsMirror, Occupies
<1>10. ViewMirror'
  BY <1>2, <1>3, <1>9, <1>1 DEF Rows, ViewMirror, HoldsMirror, Occupies
<1>11. IndexExcludes'
  BY <1>1 DEF Rows, IndexExcludes, InIndex
<1>12. UnbornSlots'
  BY <1>1 DEF Rows, UnbornSlots
<1>13. Discreet(w)
  <2>1. \A x \in Workers \ {w} : Creating(tx[x]) =>
          req'[tx[x].r].status = "NONE" /\ reqLock'[tx[x].r] = Nobody
    BY <1>1, CreatingIsKnown DEF CreatingHandler
  <2> QED
    BY <1>1, <2>1 DEF Discreet
<1>14. HoldsNothing(w)'
  BY <1>1 DEF HoldsNothing, HoldsNoRequest
<1> QED
  BY <1>5, <1>6, <1>7, <1>8, <1>9, <1>10, <1>11, <1>12, <1>13, <1>14 DEF Rows

(* COMMIT publishes w's view of the rows.  The view of another handler x   *)
(* can mix rows of w with its own: LeavesEmpty and WrittenSlots show that  *)
(* it never mixes a slot with a parent that has left it behind.            *)
LEMMA CommitRows ==
  ASSUME TypeOK, Rows, Shape, NEW w \in Workers, Commit(w),
         \A x \in Workers : CreatingHandler(x)
  PROVE  Rows' /\ Discreet(w) /\ HoldsNothing(w)'
<1> USE SlotsAssumption, WorkersAssumption
<1>1. /\ reqNew' = reqNew /\ slotNew' = slotNew
      /\ \A r \in Requests :
           /\ req'[r] = IF reqLock[r] = w THEN reqNew[r] ELSE req[r]
           /\ reqLock'[r] = IF reqLock[r] = w THEN Nobody ELSE reqLock[r]
      /\ \A s \in Slots :
           /\ slot'[s] = IF slotLock[s] = w THEN slotNew[s] ELSE slot[s]
           /\ slotLock'[s] = IF slotLock[s] = w THEN Nobody ELSE slotLock[s]
      /\ \A x \in Workers \ {w} : tx'[x] = tx[x]
  BY DEF Commit, TypeOK, ReqOf, SlotOf
<1>2. /\ \A r \in Requests : reqLock[r] \in Workers \cup {Nobody}
      /\ \A s \in Slots : slotLock[s] \in Workers \cup {Nobody}
      /\ \A s \in Slots : RequestOf[s] \in Requests
  BY DEF TypeOK
<1>3. \A r \in Requests, x \in Workers \ {w} :
        reqLock[r] = x => req'[r] = req[r] /\ reqLock'[r] = x
  BY <1>1
<1>4. \A s \in Slots : slot[s].cancelled => slot'[s] = slot[s]
  BY <1>1, <1>2 DEF Rows, WrittenSlots
<1>5. \A s \in Slots :
        (req[RequestOf[s]].status = "APPROVED"
           /\ req'[RequestOf[s]].status # "APPROVED")
          => reqLock[RequestOf[s]] = w /\ slot'[s].cancelled
             /\ (slotLock[s] # w => slot[s].cancelled)
  BY <1>1, <1>2 DEF Rows, LeavesEmpty, SlotOf, SlotsOf
<1>6. Versions'
  BY <1>1 DEF Rows, Versions
<1>7. WrittenMoves'
  <2>1. \A r \in Requests : reqLock'[r] # Nobody =>
          /\ reqLock'[r] = reqLock[r] /\ req'[r] = req[r]
          /\ tx'[reqLock'[r]] = tx[reqLock[r]]
    BY <1>1, <1>2
  <2>2. \A r \in Requests : reqNew'[r] = reqNew[r]
    BY <1>1
  <2> QED
    BY <2>1, <2>2 DEF Rows, WrittenMoves
<1>8. LeavesEmpty'
  <2> SUFFICES ASSUME NEW r \in Requests, reqLock'[r] # Nobody,
                      req'[r].status = "APPROVED",
                      reqNew'[r].status # "APPROVED",
                      NEW s \in Slots, RequestOf[s] = r
               PROVE  SlotOf(reqLock[r], s)'.cancelled
    BY <1>1 DEF LeavesEmpty, SlotsOf
  <2>1. reqLock[r] # w /\ reqLock[r] # Nobody /\ req'[r] = req[r]
    BY <1>1
  <2>2. SlotOf(reqLock[r], s).cancelled
    BY <1>1, <2>1 DEF Rows, LeavesEmpty, SlotsOf
  <2>3. slotLock[s] # w
    BY <2>1, <2>2, <1>2 DEF Rows, WrittenSlots, SlotOf
  <2> QED
    BY <1>1, <2>1, <2>2, <2>3 DEF SlotOf
<1>9. WrittenSlots'
  <2> SUFFICES ASSUME NEW s \in Slots, slotLock'[s] # Nobody
               PROVE  /\ ~slot'[s].cancelled
                      /\ \/ reqLock'[RequestOf[s]] = slotLock'[s]
                         \/ req'[RequestOf[s]].status = "APPROVED"
    BY DEF WrittenSlots
  <2>1. /\ slotLock[s] # w /\ slotLock[s] # Nobody
        /\ slotLock'[s] = slotLock[s] /\ slot'[s] = slot[s]
    BY <1>1
  <2>2. /\ ~slot[s].cancelled
        /\ \/ reqLock[RequestOf[s]] = slotLock[s]
           \/ req[RequestOf[s]].status = "APPROVED"
    BY <2>1 DEF Rows, WrittenSlots
  <2> QED
    BY <1>1, <1>2, <1>5, <2>1, <2>2
<1>10. HoldsMirror'
  BY <1>1, <1>2 DEF Rows, ViewMirror, HoldsMirror, Occupies, SlotOf, ReqOf
<1>11. ViewMirror'
  <2> SUFFICES ASSUME NEW x \in Workers, NEW s \in Slots
               PROVE  SlotOf(x, s)'.holds <=>
                        /\ ~SlotOf(x, s)'.cancelled
                        /\ ReqOf(x, RequestOf[s])'.status = "APPROVED"
    BY DEF ViewMirror
  <2> DEFINE r == RequestOf[s]
  <2>1. CASE slotLock'[s] # x /\ reqLock'[r] # x
    BY <1>10, <2>1 DEF HoldsMirror, Occupies, SlotOf, ReqOf
  <2>2. CASE slotLock'[s] = x /\ reqLock'[r] = x
    <3>1. x # w /\ slotLock[s] = x /\ reqLock[r] = x
      BY <1>1, <1>2, <2>2
    <3> QED
      BY <1>1, <2>2, <3>1 DEF Rows, ViewMirror, SlotOf, ReqOf
  <2>3. CASE slotLock'[s] = x /\ reqLock'[r] # x
    <3>1. x # w /\ slotLock[s] = x /\ reqLock[r] # x
      BY <1>1, <1>2, <2>3
    <3>2. ~slot[s].cancelled /\ req[r].status = "APPROVED"
      BY <1>2, <3>1 DEF Rows, WrittenSlots
    <3>3. req'[r].status = "APPROVED"
      BY <1>5, <3>1, <3>2
    <3>4. slotNew[s].holds <=> ~slotNew[s].cancelled /\ req[r].status = "APPROVED"
      BY <3>1 DEF Rows, ViewMirror, SlotOf, ReqOf
    <3> QED
      BY <1>1, <2>3, <3>2, <3>3, <3>4 DEF SlotOf, ReqOf
  <2>4. CASE slotLock'[s] # x /\ reqLock'[r] = x
    <3>1. x # w /\ slotLock[s] # x /\ reqLock[r] = x
      BY <1>1, <1>2, <2>4
    <3>2. CASE slotLock[s] # w
      BY <1>1, <2>4, <3>1, <3>2 DEF Rows, ViewMirror, SlotOf, ReqOf
    <3>3. CASE slotLock[s] = w
      <4>1. ~slot[s].cancelled /\ req[r].status = "APPROVED"
        BY <1>2, <3>1, <3>3 DEF Rows, WrittenSlots
      <4>2. reqNew[r].status = "APPROVED"
        BY <1>2, <3>1, <3>3, <4>1 DEF Rows, LeavesEmpty, SlotOf, SlotsOf
      <4>3. slotNew[s].holds <=> ~slotNew[s].cancelled /\ req[r].status = "APPROVED"
        BY <3>1, <3>3 DEF Rows, ViewMirror, SlotOf, ReqOf
      <4> QED
        BY <1>1, <2>4, <3>3, <4>1, <4>2, <4>3 DEF SlotOf, ReqOf
    <3> QED
      BY <3>2, <3>3
  <2> QED
    BY <2>1, <2>2, <2>3, <2>4
<1>12. IndexExcludes'
  BY <1>1 DEF Rows, IndexExcludes, InIndex
<1>13. UnbornSlots'
  <2> SUFFICES ASSUME NEW s \in Slots, req'[RequestOf[s]].status = "NONE"
               PROVE  ~slot'[s].cancelled
    BY DEF UnbornSlots
  <2>1. reqLock[RequestOf[s]] # w /\ req[RequestOf[s]].status = "NONE"
    BY <1>1, <1>2 DEF Rows, WrittenMoves
  <2>2. slotLock[s] # w
    BY <1>2, <2>1 DEF Rows, WrittenSlots
  <2> QED
    BY <1>1, <2>1, <2>2 DEF Rows, UnbornSlots
<1>14. Discreet(w)
  <2>1. \A x \in Workers \ {w} : Creating(tx[x]) =>
          req'[tx[x].r].status = "NONE" /\ reqLock'[tx[x].r] = Nobody
    BY <1>1, CreatingIsKnown DEF CreatingHandler
  <2>2. \A s \in Slots : req[RequestOf[s]].status = "APPROVED"
          => req'[RequestOf[s]].status = "APPROVED" \/ slot'[s].cancelled
    BY <1>5
  <2> QED
    BY <1>1, <1>4, <2>1, <2>2 DEF Discreet
<1>15. HoldsNothing(w)'
  BY <1>1 DEF HoldsNothing, HoldsNoRequest
<1> QED
  BY <1>6, <1>7, <1>8, <1>9, <1>10, <1>11, <1>12, <1>13, <1>14, <1>15 DEF Rows

(* UPDATE of a parent that approves nothing: the loser of a decision, an   *)
(* expired row, a rejection, a withdrawal, the end of a slot cancellation. *)
(* The trigger finds nothing to change below it.                           *)
LEMMA ParentWritten ==
  ASSUME TypeOK, Rows, Shape, NEW w \in Workers,
         NEW r \in Requests, NEW row \in RequestRow, WriteRequest(w, r, row),
         reqLock[r] = w => reqNew[r] = req[r],
         row.status = req[r].status \/ <<req[r].status, row.status>> \in Moves,
         \/ req[r].status = "PENDING" /\ row.status # "APPROVED"
         \/ /\ req[r].status = "APPROVED"
            /\ row.status # "APPROVED"
                 => \A s \in SlotsOf(r) : SlotOf(w, s).cancelled,
         \A x \in Workers \ {w} : tx'[x] = tx[x],
         tx'[w].r = tx[w].r,
         \A x \in Workers : CreatingHandler(x)
  PROVE  /\ Rows' /\ Discreet(w)
         /\ UNCHANGED <<req, slot, slotNew, slotLock>>
         /\ reqLock' = [reqLock EXCEPT ![r] = w]
<1> USE SlotsAssumption, WorkersAssumption
<1>1. reqLock[r] \in {Nobody, w} /\ reqNew[r] = req[r] /\ ReqOf(w, r) = req[r]
  BY DEF WriteRequest, ReqFree, Rows, Versions, ReqOf
<1>2. Refreshed(w, r, row.status) = {}
  <2> SUFFICES ASSUME NEW s \in SlotsOf(r), row.status # req[r].status
               PROVE  SlotOf(w, s).holds = Holds(w, s, row.status)
    BY <1>1 DEF Refreshed
  <2>1. s \in Slots /\ RequestOf[s] = r
    BY DEF SlotsOf
  <2>2. SlotOf(w, s).holds \in BOOLEAN
    BY <2>1 DEF SlotOf, TypeOK, SlotRow
  <2>3. row.status # "APPROVED"
    BY DEF Moves
  <2>4. ~SlotOf(w, s).holds
    BY <1>1, <2>1, <2>3 DEF Rows, ViewMirror
  <2>5. ~Holds(w, s, row.status)
    BY <2>3 DEF Holds
  <2> QED
    BY <2>2, <2>4, <2>5 DEF Holds
<1>3. /\ req' = req /\ slot' = slot /\ slotNew' = slotNew /\ slotLock' = slotLock
      /\ reqLock' = [reqLock EXCEPT ![r] = w]
      /\ reqNew' = [reqNew EXCEPT ![r] = row]
  BY <1>2 DEF WriteRequest, TypeOK
<1>4. \A y \in Requests : /\ reqLock'[y] = IF y = r THEN w ELSE reqLock[y]
                          /\ reqNew'[y] = IF y = r THEN row ELSE reqNew[y]
  BY <1>3 DEF TypeOK
<1>5. \A x \in Workers, s \in Slots : SlotOf(x, s)' = SlotOf(x, s)
  BY <1>3 DEF SlotOf
<1>6. \A x \in Workers, y \in Requests :
        ReqOf(x, y)' = IF x = w /\ y = r THEN row ELSE ReqOf(x, y)
  BY <1>1, <1>3, <1>4 DEF ReqOf
<1>7. Versions'
  BY <1>3, <1>4 DEF Rows, Versions
<1>8. WrittenMoves'
  <2>1. \A x \in Workers : tx'[x].r = tx[x].r
    OBVIOUS
  <2>2. \A y \in Requests : reqLock[y] \in Workers \cup {Nobody}
    BY DEF TypeOK
  <2>3. row.status # "NONE" /\ req[r].status # "NONE"
    BY DEF Moves
  <2> QED
    <3> SUFFICES ASSUME NEW y \in Requests, reqLock'[y] # Nobody
                 PROVE  /\ \/ reqNew'[y].status = req[y].status
                           \/ <<req[y].status, reqNew'[y].status>> \in Moves
                        /\ reqNew'[y].status # "NONE"
                        /\ req[y].status = "NONE" => tx'[reqLock'[y]].r = y
      BY <1>3 DEF WrittenMoves
    <3>1. CASE y = r
      BY <1>4, <2>3, <3>1
    <3>2. CASE y # r
      <4>1. /\ reqNew'[y] = reqNew[y] /\ reqLock'[y] = reqLock[y]
            /\ reqLock[y] \in Workers
        BY <1>4, <2>2, <3>2
      <4> QED
        BY <2>1, <4>1 DEF Rows, WrittenMoves
    <3> QED
      BY <3>1, <3>2
<1>9. LeavesEmpty'
  <2>1. \A y \in Requests : reqLock[y] \in Workers \cup {Nobody}
    BY DEF TypeOK
  <2> QED
    BY <1>3, <1>4, <1>5, <2>1 DEF Rows, LeavesEmpty, SlotsOf
<1>10. WrittenSlots'
  BY <1>1, <1>3, <1>4 DEF Rows, WrittenSlots
<1>11. ViewMirror'
  <2> SUFFICES ASSUME NEW x \in Workers, NEW s \in Slots
               PROVE  SlotOf(x, s)'.holds <=>
                        /\ ~SlotOf(x, s)'.cancelled
                        /\ ReqOf(x, RequestOf[s])'.status = "APPROVED"
    BY DEF ViewMirror
  <2>1. SlotOf(x, s).holds <=> /\ ~SlotOf(x, s).cancelled
                               /\ ReqOf(x, RequestOf[s]).status = "APPROVED"
    BY DEF Rows, ViewMirror
  <2>2. CASE x = w /\ RequestOf[s] = r
    BY <1>1, <1>5, <1>6, <2>1, <2>2 DEF SlotsOf
  <2>3. CASE ~(x = w /\ RequestOf[s] = r)
    BY <1>5, <1>6, <2>1, <2>3
  <2> QED
    BY <2>2, <2>3
<1>12. HoldsMirror' /\ IndexExcludes' /\ UnbornSlots'
  BY <1>3 DEF Rows, HoldsMirror, Occupies, IndexExcludes, InIndex, UnbornSlots
<1>13. Discreet(w)
  <2>1. \A x \in Workers \ {w} : Creating(tx[x]) =>
          req'[tx[x].r].status = "NONE" /\ reqLock'[tx[x].r] = Nobody
    BY <1>3, <1>4, CreatingIsKnown DEF CreatingHandler
  <2> QED
    BY <1>1, <1>3, <1>4, <2>1 DEF Discreet
<1> QED
  BY <1>3, <1>7, <1>8, <1>9, <1>10, <1>11, <1>12, <1>13 DEF Rows

(* UPDATE of a slot that is live in the last committed version: it leaves  *)
(* the exclusion index, or keeps its place in it.                          *)
LEMMA SlotWritten ==
  ASSUME TypeOK, Rows, Shape, NEW w \in Workers,
         NEW s \in Slots, NEW row \in SlotRow, WriteSlot(w, s, row),
         slotLock[s] # w, ~slot[s].cancelled,
         \/ reqLock[RequestOf[s]] = w
         \/ req[RequestOf[s]].status = "APPROVED",
         tx' = tx,
         \A x \in Workers : CreatingHandler(x)
  PROVE  /\ Rows' /\ Discreet(w)
         /\ UNCHANGED <<req, reqNew, reqLock, slot>>
         /\ slotLock' = [slotLock EXCEPT ![s] = w]
         /\ slotNew'[s].cancelled = row.cancelled
         /\ \A t \in Slots \ {s} : slotNew'[t] = slotNew[t]
<1> USE SlotsAssumption, WorkersAssumption
<1> DEFINE r == RequestOf[s]
           h == ~row.cancelled /\ ReqOf(w, r).status = "APPROVED"
           new == [row EXCEPT !.holds = h]
<1>1. slotLock[s] = Nobody /\ slotNew[s] = slot[s] /\ r \in Requests
  BY DEF WriteSlot, SlotFree, Rows, Versions
<1>2. h \in BOOLEAN
  OBVIOUS
<1>3. /\ req' = req /\ reqNew' = reqNew /\ reqLock' = reqLock /\ slot' = slot
      /\ slotLock' = [slotLock EXCEPT ![s] = w]
      /\ slotNew' = [slotNew EXCEPT ![s] = new]
  BY DEF WriteSlot
<1>4. /\ new.cancelled = row.cancelled
      /\ new.holds <=> ~row.cancelled /\ ReqOf(w, r).status = "APPROVED"
  BY <1>2 DEF SlotRow
<1> HIDE DEF new, h
<1>5. \A t \in Slots : /\ slotLock'[t] = IF t = s THEN w ELSE slotLock[t]
                       /\ slotNew'[t] = IF t = s THEN new ELSE slotNew[t]
  BY <1>3 DEF TypeOK
<1>6. \A x \in Workers, t \in Slots :
        SlotOf(x, t)' = IF x = w /\ t = s THEN new ELSE SlotOf(x, t)
  BY <1>1, <1>3, <1>5 DEF SlotOf
<1>7. \A x \in Workers, y \in Requests : ReqOf(x, y)' = ReqOf(x, y)
  BY <1>3 DEF ReqOf
<1>8. Versions'
  BY <1>3, <1>5 DEF Rows, Versions
<1>9. WrittenMoves'
  BY <1>3 DEF Rows, WrittenMoves
<1>10. LeavesEmpty'
  <2>1. \A y \in Requests : reqLock[y] \in Workers \cup {Nobody}
    BY DEF TypeOK
  <2>2. ~SlotOf(w, s).cancelled
    BY DEF SlotOf
  <2> QED
    BY <1>3, <1>6, <2>1, <2>2 DEF Rows, LeavesEmpty, SlotsOf
<1>11. WrittenSlots'
  BY <1>3, <1>5 DEF Rows, WrittenSlots
<1>12. ViewMirror'
  BY <1>4, <1>6, <1>7 DEF Rows, ViewMirror
<1>13. HoldsMirror' /\ UnbornSlots'
  BY <1>3 DEF Rows, HoldsMirror, Occupies, UnbornSlots
<1>14. new.holds => slot[s].holds
  <2>1. SlotOf(w, s) = slot[s]
    BY DEF SlotOf
  <2>2. slot[s].holds <=> ~slot[s].cancelled /\ ReqOf(w, r).status = "APPROVED"
    BY <2>1 DEF Rows, ViewMirror
  <2> QED
    BY <1>4, <2>2
<1>15. \A t \in Slots : InIndex(t)' => InIndex(t)
  BY <1>3, <1>5, <1>14 DEF InIndex
<1>16. IndexExcludes'
  BY <1>15 DEF Rows, IndexExcludes
<1>17. Discreet(w)
  BY <1>1, <1>3, <1>5 DEF Discreet, CreatingHandler
<1> QED
  BY <1>3, <1>4, <1>5, <1>8, <1>9, <1>10, <1>11, <1>12, <1>13, <1>16, <1>17 DEF Rows

(* Rivalry of two slots is symmetric.                                      *)
LEMMA CollideSymmetric ==
  ASSUME NEW s \in Slots, NEW t \in Slots, Collide(s, t)
  PROVE  Collide(t, s)
BY SlotsAssumption DEF Collide, Overlaps, RoomOf

(* Slots enter the exclusion index only where the constraint lets them.    *)
LEMMA IndexEntered ==
  ASSUME TypeOK, Rows, NEW w \in Workers, \A s \in Slots : slotLock[s] # w,
         NEW H \in SUBSET Slots, ~MustWait(w, H), ~Excluded(w, H),
         slot' = slot,
         \A t \in Slots : slotNew'[t].holds => t \in H \/ slotNew[t].holds
  PROVE  IndexExcludes'
<1>1. ASSUME NEW s \in H, NEW t \in Slots, Collide(s, t)
      PROVE  ~InIndex(t)'
  <2>1. t \notin H /\ ~SlotOf(w, t).holds
    BY <1>1 DEF Excluded
  <2>2. ~slot[t].holds
    BY <2>1 DEF SlotOf
  <2>3. ~slotNew[t].holds
    BY <1>1, <2>2 DEF MustWait, SlotFree, Rows, Versions
  <2> QED
    BY <2>1, <2>2, <2>3 DEF InIndex
<1>2. \A t \in Slots : InIndex(t)' => t \in H \/ InIndex(t)
  BY DEF InIndex
<1> QED
  BY <1>1, <1>2, CollideSymmetric DEF Rows, IndexExcludes

(* The approval: the request flips from PENDING and its live slots enter   *)
(* the index, by the trigger on the parent.                                *)
LEMMA ParentApproved ==
  ASSUME TypeOK, Rows, Shape, NEW w \in Workers, 
         \A s \in Slots : slotLock[s] # w,
         NEW r \in Requests, NEW row \in RequestRow, WriteRequest(w, r, row),
         reqLock[r] = w => reqNew[r] = req[r], req[r].status = "PENDING", row.status = "APPROVED",
         ~MustWait(w, {s \in SlotsOf(r) : Holds(w, s, "APPROVED")}),
         ~Excluded(w, {s \in SlotsOf(r) : Holds(w, s, "APPROVED")}),
         \A x \in Workers \ {w} : tx'[x] = tx[x],
         tx'[w].r = tx[w].r,
         \A x \in Workers : CreatingHandler(x)
  PROVE  Rows' /\ Discreet(w)
<1> USE SlotsAssumption, WorkersAssumption
<1> DEFINE H == {s \in SlotsOf(r) : Holds(w, s, "APPROVED")}
<1>1. reqLock[r] \in {Nobody, w} /\ reqNew[r] = req[r] /\ ReqOf(w, r) = req[r]
  BY DEF WriteRequest, ReqFree, Rows, Versions, ReqOf
<1>2. \A s \in Slots : SlotOf(w, s) = slot[s] /\ slot[s] \in SlotRow
  BY DEF SlotOf, TypeOK
<1>3. \A s \in SlotsOf(r) : ~slot[s].holds /\ slotLock[s] = Nobody
  BY <1>1 DEF Rows, HoldsMirror, Occupies, WrittenSlots, SlotsOf
<1>4. H \subseteq Slots /\ \A s \in H : RequestOf[s] = r /\ ~slot[s].cancelled
  BY <1>2 DEF SlotsOf, Holds
<1>5. \A s \in Slots : RequestOf[s] = r /\ ~slot[s].cancelled => s \in H
  BY <1>2 DEF SlotsOf, Holds
<1>6. Refreshed(w, r, row.status) = H
  <2>1. \A s \in SlotsOf(r) : SlotOf(w, s).holds # Holds(w, s, "APPROVED")
                                <=> Holds(w, s, "APPROVED")
    <3> TAKE s \in SlotsOf(r)
    <3>1. s \in Slots /\ SlotOf(w, s).holds \in BOOLEAN /\ ~SlotOf(w, s).holds
      BY <1>2, <1>3 DEF SlotsOf, SlotRow
    <3>2. SlotOf(w, s).holds = FALSE
      BY <3>1
    <3>3. Holds(w, s, "APPROVED") \in BOOLEAN
      BY DEF Holds
    <3> QED
      BY <3>2, <3>3
  <2> QED
    BY <1>1, <2>1 DEF Refreshed
<1>7. \A s \in H : [SlotOf(w, s) EXCEPT !.holds = Holds(w, s, row.status)].holds
                   /\ ~[SlotOf(w, s) EXCEPT !.holds = Holds(w, s, row.status)].cancelled
  BY <1>2, <1>4 DEF SlotRow
<1> HIDE DEF H
<1>8. /\ req' = req /\ slot' = slot
      /\ reqLock' = [reqLock EXCEPT ![r] = w]
      /\ reqNew' = [reqNew EXCEPT ![r] = row]
      /\ slotLock' = [s \in Slots |-> IF s \in H THEN w ELSE slotLock[s]]
      /\ \A s \in Slots \ H : slotNew'[s] = slotNew[s]
      /\ \A s \in H : slotNew'[s].holds /\ ~slotNew'[s].cancelled
  BY <1>4, <1>6, <1>7 DEF WriteRequest
<1>9. /\ \A y \in Requests : /\ reqLock'[y] = IF y = r THEN w ELSE reqLock[y]
                             /\ reqNew'[y] = IF y = r THEN row ELSE reqNew[y]
      /\ \A s \in Slots : slotLock'[s] = IF s \in H THEN w ELSE slotLock[s]
  BY <1>8 DEF TypeOK
<1>10. \A x \in Workers, s \in Slots :
         ~(x = w /\ s \in H) => SlotOf(x, s)' = SlotOf(x, s)
  BY <1>3, <1>4, <1>8, <1>9 DEF SlotOf, SlotsOf
<1>11. \A s \in H : SlotOf(w, s)'.holds /\ ~SlotOf(w, s)'.cancelled
  BY <1>4, <1>8, <1>9 DEF SlotOf
<1>12. \A x \in Workers, y \in Requests :
         ReqOf(x, y)' = IF x = w /\ y = r THEN row ELSE ReqOf(x, y)
  BY <1>1, <1>8, <1>9 DEF ReqOf
<1>13. Versions'
  BY <1>8, <1>9 DEF Rows, Versions
<1>14. WrittenMoves'
  <2> SUFFICES ASSUME NEW y \in Requests, reqLock'[y] # Nobody
               PROVE  /\ \/ reqNew'[y].status = req[y].status
                         \/ <<req[y].status, reqNew'[y].status>> \in Moves
                      /\ reqNew'[y].status # "NONE"
                      /\ req[y].status = "NONE" => tx'[reqLock'[y]].r = y
    BY <1>8 DEF WrittenMoves
  <2>1. CASE y = r
    BY <1>9, <2>1 DEF Moves
  <2>2. CASE y # r
    <3>1. /\ reqNew'[y] = reqNew[y] /\ reqLock'[y] = reqLock[y]
          /\ reqLock[y] \in Workers
      BY <1>9, <2>2 DEF TypeOK
    <3> QED
      BY <3>1 DEF Rows, WrittenMoves
  <2> QED
    BY <2>1, <2>2
<1>15. LeavesEmpty'
  <2>1. \A y \in Requests : reqLock[y] \in Workers \cup {Nobody}
    BY DEF TypeOK
  <2> QED
    BY <1>4, <1>8, <1>9, <1>10, <2>1 DEF Rows, LeavesEmpty, SlotsOf
<1>16. WrittenSlots'
  BY <1>1, <1>4, <1>8, <1>9 DEF Rows, WrittenSlots
<1>17. HoldsMirror' /\ UnbornSlots'
  BY <1>8 DEF Rows, HoldsMirror, Occupies, UnbornSlots
<1>18. ViewMirror'
  <2> SUFFICES ASSUME NEW x \in Workers, NEW s \in Slots
               PROVE  SlotOf(x, s)'.holds <=>
                        /\ ~SlotOf(x, s)'.cancelled
                        /\ ReqOf(x, RequestOf[s])'.status = "APPROVED"
    BY DEF ViewMirror
  <2>1. SlotOf(x, s).holds <=> /\ ~SlotOf(x, s).cancelled
                               /\ ReqOf(x, RequestOf[s]).status = "APPROVED"
    BY DEF Rows, ViewMirror
  <2>2. CASE x = w /\ s \in H
    BY <1>4, <1>11, <1>12, <2>2
  <2>3. CASE x = w /\ RequestOf[s] = r /\ s \notin H
    BY <1>2, <1>3, <1>5, <1>10, <2>3 DEF SlotsOf
  <2>4. CASE ~(x = w /\ RequestOf[s] = r)
    BY <1>4, <1>10, <1>12, <2>1, <2>4
  <2> QED
    BY <2>2, <2>3, <2>4
<1>19. IndexExcludes'
  <2>1. ~MustWait(w, H) /\ ~Excluded(w, H)
    BY DEF H
  <2> QED
    BY <1>4, <1>8, <2>1, IndexEntered
<1>20. Discreet(w)
  <2>1. \A x \in Workers \ {w} : Creating(tx[x]) =>
          req'[tx[x].r].status = "NONE" /\ reqLock'[tx[x].r] = Nobody
    BY <1>8, <1>9, CreatingIsKnown DEF CreatingHandler
  <2>2. \A s \in H : slotLock[s] = Nobody
    BY <1>3, <1>4 DEF SlotsOf
  <2> QED
    BY <1>1, <1>8, <1>9, <2>1, <2>2 DEF Discreet
<1> QED
  BY <1>13, <1>14, <1>15, <1>16, <1>17, <1>18, <1>19, <1>20 DEF Rows

(* INSERT: the row was known to its creator alone.                         *)
LEMMA RequestInserted ==
  ASSUME TypeOK, Rows, Shape, CreatesApart, NEW w \in Workers,
         \A x \in Workers : Handler(x),
         Insert(w), ~Rollback(w)
  PROVE  Rows' /\ Discreet(w)
<1> USE SlotsAssumption, WorkersAssumption
<1> DEFINE r == tx[w].r
           direct == tx[w].op = "createDirect"
           born == IF direct THEN "APPROVED" ELSE "PENDING"
           H == IF direct THEN SlotsOf(r) ELSE {}
           row == [status |-> born, span |-> SlotsOf(r), line |-> tx[w].line]
           new == [cancelled |-> FALSE, holds |-> direct, reminded |-> FALSE]
<1>1. /\ r \in Requests /\ Creating(tx[w]) /\ HoldsNothing(w)
      /\ req[r].status = "NONE" /\ reqLock[r] = Nobody
  <2>1. tx[w].pc = "insert"
    BY DEF Insert
  <2> QED
    BY <2>1 DEF Shape, WellShaped, Creating, Handler, CleanHandler, Clean,
                CreatingHandler
<1>2. /\ req' = req /\ slot' = slot
      /\ reqNew' = [reqNew EXCEPT ![r] = row]
      /\ reqLock' = [reqLock EXCEPT ![r] = w]
      /\ slotNew' = [s \in Slots |-> IF RequestOf[s] = r THEN new ELSE slotNew[s]]
      /\ slotLock' = [s \in Slots |-> IF RequestOf[s] = r THEN w ELSE slotLock[s]]
      /\ \A x \in Workers \ {w} : tx'[x] = tx[x]
      /\ tx'[w].r = r
  BY DEF Insert, Goto, TypeOK, TxState
<1>3. ~MustWait(w, H) /\ ~Excluded(w, H) /\ \A s \in SlotsOf(r) : SlotFree(w, s)
  BY DEF Insert
<1>4. /\ row.status = born /\ born \in {"PENDING", "APPROVED"}
      /\ ~new.cancelled /\ (new.holds <=> born = "APPROVED")
  OBVIOUS
<1>5. H \subseteq Slots /\ \A s \in Slots : RequestOf[s] = r /\ new.holds => s \in H
  BY DEF SlotsOf
<1>6. \A s \in Slots : RequestOf[s] = r => slotLock[s] = Nobody /\ ~slot[s].cancelled
  BY <1>1, <1>3 DEF SlotFree, SlotsOf, HoldsNothing, Rows, UnbornSlots
<1> HIDE DEF r, born, H, row, new
<1>7. /\ \A y \in Requests : /\ reqLock'[y] = IF y = r THEN w ELSE reqLock[y]
                             /\ reqNew'[y] = IF y = r THEN row ELSE reqNew[y]
      /\ \A s \in Slots :
           /\ slotLock'[s] = IF RequestOf[s] = r THEN w ELSE slotLock[s]
           /\ slotNew'[s] = IF RequestOf[s] = r THEN new ELSE slotNew[s]
  BY <1>2 DEF TypeOK
<1>8. \A x \in Workers, s \in Slots :
        SlotOf(x, s)' = IF x = w /\ RequestOf[s] = r THEN new ELSE SlotOf(x, s)
  BY <1>2, <1>6, <1>7 DEF SlotOf
<1>9. \A x \in Workers, y \in Requests :
        ReqOf(x, y)' = IF x = w /\ y = r THEN row ELSE ReqOf(x, y)
  BY <1>1, <1>2, <1>7 DEF ReqOf
<1>10. Versions'
  BY <1>2, <1>7 DEF Rows, Versions
<1>11. WrittenMoves'
  <2> SUFFICES ASSUME NEW y \in Requests, reqLock'[y] # Nobody
               PROVE  /\ \/ reqNew'[y].status = req[y].status
                         \/ <<req[y].status, reqNew'[y].status>> \in Moves
                      /\ reqNew'[y].status # "NONE"
                      /\ req[y].status = "NONE" => tx'[reqLock'[y]].r = y
    BY <1>2 DEF WrittenMoves
  <2>1. CASE y = r
    BY <1>1, <1>2, <1>4, <1>7, <2>1 DEF Moves
  <2>2. CASE y # r
    <3>1. /\ reqNew'[y] = reqNew[y] /\ reqLock'[y] = reqLock[y]
          /\ reqLock[y] \in Workers \ {w}
      BY <1>1, <1>7, <2>2 DEF TypeOK, HoldsNothing, HoldsNoRequest
    <3> QED
      BY <1>2, <3>1 DEF Rows, WrittenMoves
  <2> QED
    BY <2>1, <2>2
<1>12. LeavesEmpty'
  <2>1. \A y \in Requests : reqLock[y] \in Workers \cup {Nobody}
    BY DEF TypeOK
  <2> QED
    BY <1>1, <1>2, <1>7, <1>8, <2>1 DEF Rows, LeavesEmpty, SlotsOf
<1>13. WrittenSlots'
  BY <1>1, <1>2, <1>6, <1>7 DEF Rows, WrittenSlots
<1>14. HoldsMirror' /\ UnbornSlots'
  BY <1>2 DEF Rows, HoldsMirror, Occupies, UnbornSlots
<1>15. ViewMirror'
  BY <1>4, <1>8, <1>9 DEF Rows, ViewMirror
<1>16. IndexExcludes'
  <2>1. \A t \in Slots : slotNew'[t].holds => t \in H \/ slotNew[t].holds
    BY <1>5, <1>7
  <2> QED
    BY <1>1, <1>2, <1>3, <1>5, <2>1, IndexEntered DEF HoldsNothing
<1>17. Discreet(w)
  <2>1. \A x \in Workers \ {w} : Creating(tx[x]) =>
          req'[tx[x].r].status = "NONE" /\ reqLock'[tx[x].r] = Nobody
    BY <1>1, <1>2, <1>7, CreatingIsKnown
       DEF Handler, CreatingHandler, CreatesApart, r
  <2> QED
    BY <1>1, <1>2, <1>6, <1>7, <2>1 DEF Discreet
<1> QED
  BY <1>10, <1>11, <1>12, <1>13, <1>14, <1>15, <1>16, <1>17 DEF Rows

-----------------------------------------------------------------------------
(* The steps, one by one.                                                  *)

(* A step of w keeps the invariant if it keeps the rows, is discreet, and  *)
(* leaves w knowing what it should.                                        *)
LEMMA StepKeeps ==
  ASSUME TypeOK, RowInvariant, NEW w \in Workers,
         Rows', Discreet(w), Shape', Handler(w)',
         Creating(tx'[w]) => \/ Creating(tx[w]) /\ tx'[w].r = tx[w].r
                             \/ \A x \in Workers : tx[x].r # tx'[w].r
  PROVE  RowInvariant'
<1>1. \A x \in Workers : Handler(x)'
  <2> TAKE x \in Workers
  <2>1. CASE x = w
    BY <2>1
  <2>2. CASE x # w
    <3>1. x \in Workers \ {w} /\ Handler(x) /\ Shape
      BY <2>2 DEF RowInvariant
    <3> QED
      BY <3>1, OthersKeep
  <2> QED
    BY <2>1, <2>2
<1>2. \A x \in Workers \ {w} : tx'[x] = tx[x]
  BY DEF Discreet
<1>3. CreatesApart'
  <2> SUFFICES ASSUME NEW x \in Workers, NEW y \in Workers, x # y,
                      Creating(tx'[x]), Creating(tx'[y])
               PROVE  tx'[x].r # tx'[y].r
    BY DEF CreatesApart
  <2>1. CASE x # w /\ y # w
    BY <1>2, <2>1 DEF RowInvariant, CreatesApart
  <2>2. CASE x = w
    BY <1>2, <2>2 DEF RowInvariant, CreatesApart
  <2>3. CASE y = w
    BY <1>2, <2>3 DEF RowInvariant, CreatesApart
  <2> QED
    BY <2>1, <2>2, <2>3
<1> QED
  BY <1>1, <1>3 DEF RowInvariant

(* A handler that holds no lock and has nothing more to write.             *)
LEMMA EndedHandler ==
  ASSUME NEW w \in Workers, HoldsNothing(w)',
         tx'[w].pc \in AfterTx \cup {"idle"}
  PROVE  Handler(w)' /\ ~Creating(tx'[w])
<1>1. tx'[w].pc \notin {"lock", "check", "losers", "insert", "refresh", "slots", "remind",
                        "remaining", "request"}
  BY DEF AfterTx
<1> QED
  BY <1>1 DEF Handler, CleanHandler, FlippingHandler, CreatingHandler, PickingHandler,
              CancellingHandler, Creating

(* A rollback, by a throw or by the database, keeps the invariant.         *)
LEMMA RollbackKeeps ==
  ASSUME TypeOK, RowInvariant, NEW w \in Workers, Rollback(w)
  PROVE  RowInvariant'
<1>1. Rows /\ Shape /\ \A x \in Workers : CreatingHandler(x)
  BY DEF RowInvariant, Handler
<1>2. Rows' /\ Discreet(w) /\ HoldsNothing(w)'
  BY <1>1, RollbackRows
<1>3. tx'[w].pc = "idle"
  BY DEF Rollback, TypeOK, Idle
<1>4. Handler(w)' /\ ~Creating(tx'[w])
  BY <1>2, <1>3, EndedHandler
<1> QED
  BY <1>1, <1>2, <1>4, RollbackType, StepKeeps

(* COMMIT keeps the invariant: views become committed rows.                *)
LEMMA CommitKeeps ==
  ASSUME TypeOK, RowInvariant, NEW w \in Workers, Commit(w)
  PROVE  RowInvariant'
<1>1. Rows /\ Shape /\ \A x \in Workers : CreatingHandler(x)
  BY DEF RowInvariant, Handler
<1>2. Rows' /\ Discreet(w) /\ HoldsNothing(w)'
  BY <1>1, CommitRows
<1>3. tx'[w].pc \in AfterTx \cup {"idle"}
  BY DEF Commit, TypeOK, Idle, TxState, AfterTx
<1>4. Handler(w)' /\ ~Creating(tx'[w])
  BY <1>2, <1>3, EndedHandler
<1> QED
  BY <1>1, <1>2, <1>4, OthersType, StepKeeps

(* Any step that writes no row.                                            *)
LEMMA QuietKeeps ==
  ASSUME TypeOK, RowInvariant, Shape', NEW w \in Workers, UNCHANGED rows,
         NEW t, tx' = [tx EXCEPT ![w] = t],
         HoldsNothing(w) \/ t.r = tx[w].r,
         Handler(w)',
         Creating(t) => \/ Creating(tx[w]) /\ t.r = tx[w].r
                        \/ \A x \in Workers : tx[x].r # t.r
  PROVE  RowInvariant'
<1>1. tx'[w] = t /\ \A x \in Workers \ {w} : tx'[x] = tx[x]
  BY DEF TypeOK
<1>2. Rows /\ \A x \in Workers : CreatingHandler(x)
  BY DEF RowInvariant, Handler
<1>3. Rows' /\ Discreet(w)
  BY <1>1, <1>2, NoRowsWritten
<1> QED
  BY <1>1, <1>3, StepKeeps

(* After the commit: nothing is written any more.                          *)
LEMMA AfterCommitKeeps ==
  ASSUME TypeOK, RowInvariant, NEW w \in Workers,
         \/ PublishRead(w) \/ Emit(w) \/ NotifyDecisions(w)
         \/ NotifyReminders(w) \/ Crash(w)
  PROVE  RowInvariant'
<1>1. Shape
  BY DEF RowInvariant
<1>2. Shape'
  BY <1>1, ReadsType, OthersType
<1>3. tx[w].pc \in AfterTx
  BY DEF PublishRead, Emit, NotifyDecisions, NotifyReminders, Crash, At, AfterTx
<1>4. HoldsNothing(w)
  BY <1>3 DEF RowInvariant, Handler, CleanHandler, Clean
<1>5. UNCHANGED rows
  BY DEF PublishRead, Emit, NotifyDecisions, NotifyReminders, Crash, Pass
<1>6. HoldsNothing(w)'
  BY <1>4, <1>5 DEF HoldsNothing, HoldsNoRequest, rows
<1>7. PICK t : tx' = [tx EXCEPT ![w] = t] /\ t.pc \in AfterTx \cup {"idle"}
  <2>1. CASE PublishRead(w)
    <3> DEFINE u == [tx[w] EXCEPT !.pc = "emit",
                 !.seen = [x \in Requests |-> IF x \in tx[w].ids \cap Watched
                                              THEN req[x].status ELSE "NONE"]]
    <3>1. u.pc = "emit"
      BY DEF TypeOK, TxState
    <3>2. tx' = [tx EXCEPT ![w] = u]
      BY <2>1 DEF PublishRead, Pass
    <3> QED
      BY <3>1, <3>2 DEF AfterTx
  <2>2. CASE Emit(w)
    <3> DEFINE u == [tx[w] EXCEPT !.pc = "notify", !.seen = Idle.seen]
    <3>1. u.pc = "notify"
      BY DEF TypeOK, TxState
    <3>2. tx' = [tx EXCEPT ![w] = u]
      BY <2>2 DEF Emit
    <3> QED
      BY <3>1, <3>2 DEF AfterTx
  <2>3. CASE NotifyDecisions(w) \/ NotifyReminders(w) \/ Crash(w)
    BY <2>3 DEF NotifyDecisions, NotifyReminders, Crash, Idle
  <2> QED
    BY <2>1, <2>2, <2>3
<1>8. tx'[w] = t
  BY <1>7 DEF TypeOK
<1>9. Handler(w)' /\ ~Creating(t)
  BY <1>6, <1>7, <1>8, EndedHandler
<1> QED
  BY <1>2, <1>4, <1>5, <1>7, <1>9, QuietKeeps

(* A handler begins.                                                       *)
LEMMA BeginKeeps ==
  ASSUME TypeOK, RowInvariant, NEW w \in Workers, Begin(w)
  PROVE  RowInvariant'
<1> USE SlotsAssumption
<1>1. Shape
  BY DEF RowInvariant
<1>2. Shape'
  BY <1>1, BeginType
<1>3. ASSUME NEW op, NEW pc, NEW r, NEW line, NEW picked,
             Start(w, op, pc, r, line, picked),
             op \in Creates => /\ r \in Requests /\ req[r].status = "NONE"
                               /\ \A x \in Workers : tx[x].r # r,
             pc \in {"refresh", "slots", "remaining", "request"} => FALSE,
             pc = "remind" => /\ op = "remindUpcoming"
                              /\ \A s \in picked : req[RequestOf[s]].status = "APPROVED",
             op \in SlotCancels => /\ picked \subseteq SlotsOf(r)
                                   /\ picked = {} => op = "cancel" /\ pc = "lock"
      PROVE  RowInvariant'
  <2> DEFINE t == [Idle EXCEPT !.op = op, !.pc = pc, !.r = r, !.line = line,
                               !.picked = picked]
  <2>1. t.op = op /\ t.pc = pc /\ t.r = r /\ t.picked = picked
    BY DEF Idle
  <2>2. UNCHANGED rows /\ tx' = [tx EXCEPT ![w] = t] /\ tx[w].pc = "idle"
    BY <1>3 DEF Start
  <2> HIDE DEF t
  <2>3. HoldsNothing(w)
    BY <2>2 DEF RowInvariant, Handler, CleanHandler, Clean
  <2>4. HoldsNothing(w)'
    BY <2>2, <2>3 DEF HoldsNothing, HoldsNoRequest, rows
  <2>5. tx'[w] = t
    BY <2>2 DEF TypeOK
  <2>6. CreatingHandler(w)'
    <3> SUFFICES ASSUME op \in Creates
                 PROVE  req[r].status = "NONE" /\ reqLock[r] = Nobody
      BY <2>1, <2>2, <2>5 DEF CreatingHandler, Creating, rows
    <3>1. r \in Requests /\ reqLock[r] \in Workers \cup {Nobody}
      BY <1>3 DEF TypeOK
    <3> QED
      BY <1>3, <3>1 DEF RowInvariant, Rows, WrittenMoves
  <2>7. PickingHandler(w)'
    BY <1>3, <2>1, <2>2, <2>5 DEF PickingHandler, rows
  <2>8. CancellingHandler(w)'
    BY <1>3, <2>1, <2>4, <2>5 DEF CancellingHandler, HoldsNothing, SlotsOf
  <2>9. Handler(w)'
    BY <1>3, <2>1, <2>4, <2>5, <2>6, <2>7, <2>8
       DEF Handler, CleanHandler, FlippingHandler
  <2>10. Creating(t) => \A x \in Workers : tx[x].r # t.r
    BY <1>3, <2>1 DEF Creating
  <2> QED
    BY <1>2, <2>2, <2>3, <2>9, <2>10, QuietKeeps
<1>4. ASSUME NEW r \in Requests, CreateFromLine(w, r) \/ CreateDirect(w, r)
      PROVE  RowInvariant'
  <2>1. PICK op \in Creates, pc \in {"lock", "check"}, line \in BOOLEAN :
          Start(w, op, pc, r, line, SlotsOf(r))
    BY <1>4 DEF CreateFromLine, CreateDirect, Creates
  <2>2. req[r].status = "NONE" /\ \A x \in Workers : tx[x].r # r
    BY <1>4 DEF CreateFromLine, CreateDirect
  <2>3. op \notin SlotCancels /\ pc \notin {"refresh", "slots", "remaining", "request", "remind"}
    BY <2>1 DEF Creates, SlotCancels
  <2> QED
    BY <1>3, <2>1, <2>2, <2>3
<1>5. ASSUME NEW r \in Requests,
             Approve(w, r) \/ Reject(w, r) \/ CancelPendingBooking(w, r)
      PROVE  RowInvariant'
  <2>1. PICK op \in {"approve", "reject", "cancelPendingBooking"},
             pc \in {"lock", "check"} : Start(w, op, pc, r, FALSE, {})
    BY <1>5 DEF Approve, Reject, CancelPendingBooking
  <2>2. op \notin Creates \cup SlotCancels
        /\ pc \notin {"refresh", "slots", "remaining", "request", "remind"}
    BY <2>1 DEF Creates, SlotCancels
  <2> QED
    BY <1>3, <2>1, <2>2
<1>6. ASSUME NEW r \in Requests, Cancel(w, r)
      PROVE  RowInvariant'
  <2>1. PICK slotIds \in SUBSET SlotsOf(r) :
          Start(w, "cancel", "lock", r, FALSE, slotIds)
    BY <1>6 DEF Cancel
  <2>2. "cancel" \notin Creates
    BY DEF Creates
  <2> QED
    BY <1>3, <2>1, <2>2
<1>7. ASSUME NEW s \in Slots, CancelApprovedSlot(w, s)
      PROVE  RowInvariant'
  <2>1. PICK op \in {"cancelApprovedSlot"}, pc \in {"check"}, r \in Requests,
             picked \in SUBSET Slots :
          /\ picked # {} /\ picked \subseteq SlotsOf(r)
          /\ Start(w, op, pc, r, FALSE, picked)
    <3>1. {s} \subseteq SlotsOf(RequestOf[s]) /\ RequestOf[s] \in Requests
      BY DEF SlotsOf
    <3>2. Start(w, "cancelApprovedSlot", "check", RequestOf[s], FALSE, {s})
      BY <1>7 DEF CancelApprovedSlot
    <3> QED
      BY <3>1, <3>2
  <2>2. op \notin Creates /\ pc \notin {"refresh", "slots", "remaining", "request", "remind"}
    BY <2>1 DEF Creates
  <2> QED
    BY <1>3, <2>1, <2>2
<1>8. CASE RemindUpcoming(w)
  <2> DEFINE due == {s \in Slots : Due(s)}
  <2>1. Start(w, "remindUpcoming", "remind", NoRequest, FALSE, due)
    BY <1>8 DEF RemindUpcoming
  <2>2. \A s \in due : req[RequestOf[s]].status = "APPROVED"
    BY DEF Due
  <2>3. "remindUpcoming" \notin Creates \cup SlotCancels
    BY DEF Creates, SlotCancels
  <2> HIDE DEF due
  <2> QED
    BY <1>3, <2>1, <2>2, <2>3
<1>9. CASE ExpireOverdue(w)
  <2> DEFINE t == [Idle EXCEPT !.op = "expireOverdue", !.pc = "expire",
                               !.ids = {r \in Requests : Overdue(r)}]
  <2>1. t.op = "expireOverdue" /\ t.pc = "expire"
    BY DEF Idle
  <2>2. UNCHANGED rows /\ tx' = [tx EXCEPT ![w] = t] /\ tx[w].pc = "idle"
    BY <1>9 DEF ExpireOverdue
  <2> HIDE DEF t
  <2>3. HoldsNothing(w)
    BY <2>2 DEF RowInvariant, Handler, CleanHandler, Clean
  <2>4. tx'[w] = t
    BY <2>2 DEF TypeOK
  <2>5. Handler(w)' /\ ~Creating(t)
    BY <2>1, <2>4 DEF Handler, CleanHandler, FlippingHandler, Clean, AfterTx, CreatingHandler,
                      PickingHandler, CancellingHandler, Creating
  <2> QED
    BY <1>2, <2>2, <2>3, <2>5, QuietKeeps
<1> QED
  BY <1>4, <1>5, <1>6, <1>7, <1>8, <1>9 DEF Begin

(* A handler that has written nothing moves on and still has not.          *)
LEMMA StaysClean ==
  ASSUME TypeOK, RowInvariant, Shape', NEW w \in Workers, UNCHANGED rows,
         NEW t, tx' = [tx EXCEPT ![w] = t],
         tx[w].pc \in Clean, t.pc \in Clean \ {"idle"},
         t.op = tx[w].op, t.r = tx[w].r,
         Creating(t) => Creating(tx[w]),
         \/ t.op \notin SlotCancels
         \/ tx[w].pc = "lock" /\ t.pc = "check" /\ t.picked = tx[w].picked
  PROVE  RowInvariant'
<1>1. HoldsNothing(w)
  BY DEF RowInvariant, Handler, CleanHandler
<1>2. HoldsNothing(w)'
  BY <1>1 DEF HoldsNothing, HoldsNoRequest, rows
<1>3. tx'[w] = t
  BY DEF TypeOK
<1>4. CreatingHandler(w)'
  BY <1>3 DEF RowInvariant, Handler, CreatingHandler, rows
<1>5. PickingHandler(w)'
  BY <1>3 DEF PickingHandler, Clean, AfterTx
<1>6. CancellingHandler(w)'
  BY <1>2, <1>3 DEF CancellingHandler, RowInvariant, Handler, SlotsOf, HoldsNothing
<1>7. Handler(w)'
  BY <1>2, <1>3, <1>4, <1>5, <1>6
     DEF Handler, CleanHandler, FlippingHandler, Clean, AfterTx
<1> QED
  BY <1>1, <1>7, QuietKeeps

(* The statements before a handler's first write.                          *)
LEMMA CleanStepsKeep ==
  ASSUME TypeOK, RowInvariant, NEW w \in Workers,
         \/ LockVenue(w) \/ CodeCollision(w) \/ CheckCreate(w)
         \/ CheckApprove(w) \/ CheckPending(w) \/ FindPendingLosers(w)
  PROVE  RowInvariant'
<1> USE DEF At
<1>1. Shape /\ tx[w] \in TxState
  BY DEF RowInvariant, TypeOK
<1>2. Shape'
  BY <1>1, ReadsType, OthersType
<1>3. CASE LockVenue(w)
  <2> DEFINE t == [tx[w] EXCEPT !.pc = "check"]
  <2>1. t.pc = "check" /\ t.op = tx[w].op /\ t.r = tx[w].r /\ t.picked = tx[w].picked
    BY <1>1 DEF TxState
  <2>2. UNCHANGED rows /\ tx' = [tx EXCEPT ![w] = t] /\ tx[w].pc = "lock"
    BY <1>3 DEF LockVenue, Goto
  <2> HIDE DEF t
  <2>3. /\ tx[w].pc \in Clean /\ t.pc \in Clean \ {"idle"}
        /\ Creating(t) => Creating(tx[w])
    BY <2>1, <2>2 DEF Clean, Creating
  <2> QED
    BY <1>2, <2>1, <2>2, <2>3, StaysClean
<1>4. CASE CodeCollision(w)
  <2> DEFINE t == [tx[w] EXCEPT !.ids = {},
                     !.pc = IF tx[w].op = "createDirect" THEN "lock" ELSE "check"]
  <2>1. t.pc \in {"lock", "check"} /\ t.op = tx[w].op /\ t.r = tx[w].r
    BY <1>1 DEF TxState
  <2>2. UNCHANGED rows /\ tx' = [tx EXCEPT ![w] = t] /\ tx[w].pc = "insert"
    BY <1>4 DEF CodeCollision
  <2> HIDE DEF t
  <2>3. tx[w].op \in Creates
    BY <1>1, <2>2 DEF Shape, WellShaped
  <2>4. /\ tx[w].pc \in Clean /\ t.pc \in Clean \ {"idle"}
        /\ Creating(tx[w]) /\ t.op \notin SlotCancels
    BY <2>1, <2>2, <2>3 DEF Clean, Creating, Creates, SlotCancels
  <2> QED
    BY <1>2, <2>1, <2>2, <2>4, StaysClean
<1>5. CASE CheckCreate(w)
  <2> DEFINE t == [tx[w] EXCEPT !.pc = IF tx[w].op = "createDirect"
                                       THEN "losers" ELSE "insert"]
  <2>1. t.pc \in {"losers", "insert"} /\ t.op = tx[w].op /\ t.r = tx[w].r
    BY <1>1 DEF TxState
  <2>2. CASE UNCHANGED rows /\ tx' = [tx EXCEPT ![w] = t]
    <3> HIDE DEF t
    <3>1. /\ tx[w].pc \in Clean /\ t.pc \in Clean \ {"idle"}
          /\ Creating(tx[w]) /\ t.op \notin SlotCancels
      BY <1>5, <2>1 DEF CheckCreate, Clean, Creating, Creates, SlotCancels
    <3> QED
      BY <1>2, <2>1, <2>2, <3>1, StaysClean
  <2> QED
    BY <1>5, <2>2, RollbackKeeps DEF CheckCreate, Pass
<1>6. CASE CheckApprove(w)
  <2> DEFINE live == LiveSlots(w, tx[w].r)
             t == [tx[w] EXCEPT !.pc = "losers", !.picked = live]
  <2>1. t.pc = "losers" /\ t.op = tx[w].op /\ t.r = tx[w].r
    BY <1>1 DEF TxState
  <2>2. CASE UNCHANGED rows /\ tx' = [tx EXCEPT ![w] = t]
    <3> HIDE DEF t
    <3>1. /\ tx[w].pc \in Clean /\ t.pc \in Clean \ {"idle"}
          /\ ~Creating(t) /\ t.op \notin SlotCancels
      BY <1>6, <2>1 DEF CheckApprove, Clean, Creating, Creates, SlotCancels
    <3> QED
      BY <1>2, <2>1, <2>2, <3>1, StaysClean
  <2> QED
    BY <1>6, <2>2, RollbackKeeps DEF CheckApprove, Pass
<1>7. CASE CheckPending(w)
  <2> DEFINE t == [tx[w] EXCEPT !.pc = "flip"]
  <2>1. t.pc = "flip" /\ t.op = tx[w].op /\ t.r = tx[w].r
    BY <1>1 DEF TxState
  <2>2. CASE UNCHANGED rows /\ tx' = [tx EXCEPT ![w] = t]
    <3> HIDE DEF t
    <3>1. /\ tx[w].pc \in Clean /\ t.pc \in Clean \ {"idle"}
          /\ ~Creating(t) /\ t.op \notin SlotCancels
      BY <1>7, <2>1 DEF CheckPending, Clean, Creating, SlotCancels
    <3> QED
      BY <1>2, <2>1, <2>2, <3>1, StaysClean
  <2> QED
    BY <1>7, <2>2, RollbackKeeps DEF CheckPending, Pass
<1>8. CASE FindPendingLosers(w)
  <2> DEFINE t == [tx[w] EXCEPT
                     !.pc = IF tx[w].op = "approve" THEN "flip" ELSE "insert",
                     !.ids = PendingLosers(w, tx[w].r, tx[w].picked)]
  <2>1. /\ t.pc = IF tx[w].op = "approve" THEN "flip" ELSE "insert"
        /\ t.op = tx[w].op /\ t.r = tx[w].r
    BY <1>1 DEF TxState
  <2>2. UNCHANGED rows /\ tx' = [tx EXCEPT ![w] = t] /\ tx[w].pc = "losers"
    BY <1>8 DEF FindPendingLosers, Pass
  <2> HIDE DEF t
  <2>3. tx[w].op \in {"createDirect", "approve"}
    BY <1>1, <2>2 DEF Shape, WellShaped
  <2>4. /\ tx[w].pc \in Clean /\ t.pc \in Clean \ {"idle"}
        /\ Creating(t) => Creating(tx[w])
        /\ t.op \notin SlotCancels
    BY <2>1, <2>2, <2>3 DEF Clean, Creating, SlotCancels
  <2> QED
    BY <1>2, <2>1, <2>2, <2>4, StaysClean
<1> QED
  BY <1>3, <1>4, <1>5, <1>6, <1>7, <1>8

(* The checks of a slot cancellation: what it will write is live and its   *)
(* request APPROVED, in the committed version it reads.                    *)
LEMMA CheckCancellationKeeps ==
  ASSUME TypeOK, RowInvariant, NEW w \in Workers,
         CheckSlot(w) \/ CheckCancel(w)
  PROVE  RowInvariant'
<1> USE DEF At
<1>1. Shape /\ tx[w] \in TxState
  BY DEF RowInvariant, TypeOK
<1>2. Shape'
  BY <1>1, ReadsType
<1>3. tx[w].pc = "check" /\ tx[w].op \in SlotCancels
  BY DEF CheckSlot, CheckCancel, SlotCancels
<1>4. tx[w].r \in Requests
  BY <1>1, <1>3 DEF Shape, WellShaped
<1>5. HoldsNothing(w) /\ CancellingHandler(w)
  BY <1>3 DEF RowInvariant, Handler, CleanHandler, Clean
<1>6. ReqOf(w, tx[w].r) = req[tx[w].r]
  BY <1>4, <1>5 DEF ReqOf, HoldsNothing, HoldsNoRequest
<1>7. \A s \in Slots : SlotOf(w, s) = slot[s]
  BY <1>5 DEF SlotOf, HoldsNothing
<1>8. ASSUME NEW t, UNCHANGED rows, tx' = [tx EXCEPT ![w] = t],
             t.pc = "slots", t.op = tx[w].op, t.r = tx[w].r,
             req[t.r].status = "APPROVED",
             t.picked # {}, t.picked \subseteq SlotsOf(t.r),
             t.op = "cancel" => \A s \in SlotsOf(t.r) :
                                  s \in t.picked \cup t.remaining \/ slot[s].cancelled
      PROVE  RowInvariant'
  <2>1. tx'[w] = t
    BY <1>8 DEF TypeOK
  <2>2. HoldsNothing(w)'
    BY <1>5, <1>8 DEF HoldsNothing, HoldsNoRequest, rows
  <2>3. ~Creating(t) /\ t.op # "cancelPendingBooking"
    BY <1>3, <1>8 DEF Creating, SlotCancels, Creates
  <2>4. PickingHandler(w)'
    BY <1>8, <2>1, <2>3 DEF PickingHandler, rows, SlotsOf
  <2>5. CancellingHandler(w)'
    BY <1>8, <2>1, <2>2 DEF CancellingHandler, HoldsNothing, SlotsOf, rows
  <2>6. Handler(w)'
    BY <1>8, <2>1, <2>2, <2>3, <2>4, <2>5
       DEF Handler, CleanHandler, FlippingHandler, CreatingHandler
  <2> QED
    BY <1>2, <1>5, <1>8, <2>3, <2>6, QuietKeeps
<1>9. CASE CheckSlot(w)
  <2> DEFINE t == [tx[w] EXCEPT !.pc = "slots"]
  <2>1. t.pc = "slots" /\ t.op = tx[w].op /\ t.r = tx[w].r /\ t.picked = tx[w].picked
    BY <1>1 DEF TxState
  <2>2. CASE UNCHANGED rows /\ tx' = [tx EXCEPT ![w] = t]
             /\ ReqOf(w, tx[w].r).status = "APPROVED"
    <3> HIDE DEF t
    <3>1. /\ t.op # "cancel" /\ req[t.r].status = "APPROVED"
          /\ t.picked # {} /\ t.picked \subseteq SlotsOf(t.r)
      BY <1>3, <1>5, <1>6, <1>9, <2>1, <2>2 DEF CheckSlot, CancellingHandler
    <3> QED
      BY <1>8, <2>1, <2>2, <3>1
  <2> QED
    BY <1>9, <2>2, RollbackKeeps DEF CheckSlot, Pass
<1>10. CASE CheckCancel(w)
  <2> DEFINE r == tx[w].r
             live == LiveSlots(w, r)
             targets == IF tx[w].picked = {} THEN live ELSE tx[w].picked
             t == [tx[w] EXCEPT !.pc = "slots", !.picked = targets,
                                !.remaining = live \ targets]
  <2>1. /\ t.pc = "slots" /\ t.op = tx[w].op /\ t.r = r
        /\ t.picked = targets /\ t.remaining = live \ targets
    BY <1>1 DEF TxState
  <2>2. CASE /\ UNCHANGED rows /\ tx' = [tx EXCEPT ![w] = t]
             /\ ReqOf(w, r).status = "APPROVED" /\ live # {}
             /\ targets \subseteq live
    <3>1. targets # {} /\ live = {s \in SlotsOf(r) : ~slot[s].cancelled}
      BY <1>7, <2>2 DEF LiveSlots, SlotsOf
    <3> HIDE DEF t, targets, live
    <3>2. /\ req[t.r].status = "APPROVED"
          /\ t.picked # {} /\ t.picked \subseteq SlotsOf(t.r)
          /\ \A s \in SlotsOf(t.r) :
               s \in t.picked \cup t.remaining \/ slot[s].cancelled
      BY <1>6, <2>1, <2>2, <3>1
    <3> QED
      BY <1>8, <2>1, <2>2, <3>2
  <2> QED
    BY <1>10, <2>2, RollbackKeeps DEF CheckCancel, Pass
<1> QED
  BY <1>9, <1>10

(* At these statements a handler relies on nothing but the rows.           *)
LEMMA Unassuming ==
  ASSUME NEW w \in Workers, tx'[w].pc \in {"commit", "expire", "rejectLosers"}
  PROVE  Handler(w)' /\ ~Creating(tx'[w])
BY DEF Handler, CleanHandler, Clean, AfterTx, FlippingHandler, CreatingHandler,
       PickingHandler, CancellingHandler, Creating

(* The INSERT of createFromLine and of createDirect.                       *)
LEMMA InsertKeeps ==
  ASSUME TypeOK, RowInvariant, NEW w \in Workers, Insert(w)
  PROVE  RowInvariant'
<1>1. CASE Rollback(w)
  BY <1>1, RollbackKeeps
<1>2. CASE ~Rollback(w)
  <2>1. Shape /\ Shape'
    BY WritesType DEF RowInvariant
  <2>2. Rows' /\ Discreet(w)
    BY <1>2, RequestInserted DEF RowInvariant
  <2>3. tx'[w].pc \in {"commit", "rejectLosers"}
    BY <1>2 DEF Insert, Goto, TypeOK, TxState
  <2> QED
    BY <2>1, <2>2, <2>3, Unassuming, StepKeeps
<1> QED
  BY <1>1, <1>2

(* The row lock of the guarded flips of approve, reject and                *)
(* cancelPendingBooking.                                                   *)
LEMMA FlipKeeps ==
  ASSUME TypeOK, RowInvariant, NEW w \in Workers, Flip(w)
  PROVE  RowInvariant'
<1> USE SlotsAssumption, WorkersAssumption
<1>1. CASE Rollback(w)
  BY <1>1, RollbackKeeps
<1>2. CASE ~Rollback(w)
  <2> DEFINE r == tx[w].r
             t == [tx[w] EXCEPT !.pc = "refresh"]
  <2>1. /\ Rows /\ Shape /\ Shape' /\ tx[w] \in TxState
        /\ \A x \in Workers : CreatingHandler(x)
    BY WritesType DEF RowInvariant, TypeOK, Handler
  <2>2. tx[w].pc = "flip"
    BY DEF Flip
  <2>3. r \in Requests
    BY <2>1, <2>2 DEF Shape, WellShaped
  <2>4. HoldsNothing(w)
    BY <2>2 DEF RowInvariant, Handler, CleanHandler, Clean
  <2>5. /\ req[r].status = "PENDING" /\ reqLock[r] = Nobody
        /\ reqLock' = [reqLock EXCEPT ![r] = w]
        /\ tx' = [tx EXCEPT ![w] = t]
        /\ UNCHANGED <<req, reqNew, slot, slotNew, slotLock>>
    BY <1>2 DEF Flip, Goto
  <2>6. /\ tx'[w] = t /\ t.pc = "refresh" /\ t.r = r
        /\ \A x \in Workers \ {w} : tx'[x] = tx[x]
    BY <2>1, <2>5 DEF TypeOK, TxState
  <2>7. reqNew[r] = req[r]
    BY <2>1, <2>3, <2>5 DEF Rows, Versions
  <2> HIDE DEF t, r
  <2>8. \A x \in Workers, q \in Requests : ReqOf(x, q)' = ReqOf(x, q)
    BY <2>3, <2>5, <2>7 DEF ReqOf, TypeOK
  <2>9. \A x \in Workers, s \in Slots : SlotOf(x, s)' = SlotOf(x, s)
    BY <2>5 DEF SlotOf
  <2>10. Versions' /\ LeavesEmpty' /\ WrittenSlots'
    <3>1. Versions'
      BY <2>1, <2>3, <2>5 DEF Rows, Versions, TypeOK
    <3>2. LeavesEmpty'
      BY <2>1, <2>3, <2>5, <2>9 DEF Rows, LeavesEmpty, TypeOK, SlotsOf
    <3>3. WrittenSlots'
      BY <2>1, <2>3, <2>5 DEF Rows, WrittenSlots, TypeOK
    <3> QED
      BY <3>1, <3>2, <3>3
  <2>11. WrittenMoves'
    BY <2>1, <2>3, <2>4, <2>5, <2>6, <2>7
       DEF Rows, WrittenMoves, TypeOK, HoldsNothing, HoldsNoRequest
  <2>12. ViewMirror' /\ HoldsMirror' /\ IndexExcludes' /\ UnbornSlots'
    <3>1. ViewMirror'
      BY <2>1, <2>8, <2>9 DEF Rows, ViewMirror
    <3>2. HoldsMirror' /\ IndexExcludes' /\ UnbornSlots'
      BY <2>1, <2>5 DEF Rows, HoldsMirror, Occupies, IndexExcludes, InIndex,
                        UnbornSlots
    <3> QED
      BY <3>1, <3>2
  <2>13. Rows'
    BY <2>10, <2>11, <2>12 DEF Rows
  <2>14. Discreet(w)
    BY <2>1, <2>3, <2>5, <2>6 DEF Discreet, CreatingHandler, TypeOK
  <2>15. Handler(w)' /\ ~Creating(tx'[w])
    <3>1. FlippingHandler(w)'
      BY <2>3, <2>4, <2>5, <2>6, <2>7
         DEF FlippingHandler, HoldsNothing, HoldsNoRequest, TypeOK
    <3> QED
      BY <2>6, <3>1 DEF Handler, CleanHandler, Clean, AfterTx, CreatingHandler,
                        PickingHandler, CancellingHandler, Creating
  <2> QED
    BY <2>1, <2>13, <2>14, <2>15, StepKeeps
<1> QED
  BY <1>1, <1>2

(* The new status, and the trigger's write of the slots.                   *)
LEMMA RefreshKeeps ==
  ASSUME TypeOK, RowInvariant, NEW w \in Workers, Refresh(w)
  PROVE  RowInvariant'
<1> USE SlotsAssumption
<1>1. CASE Rollback(w)
  BY <1>1, RollbackKeeps
<1>2. CASE ~Rollback(w)
  <2> DEFINE r == tx[w].r
             st == FlippedTo[tx[w].op]
             row == [ReqOf(w, r) EXCEPT !.status = st]
             H == {s \in SlotsOf(r) : Holds(w, s, st)}
             t == [tx[w] EXCEPT !.pc =
                     CASE tx[w].op = "approve" -> "rejectLosers"
                       [] tx[w].op = "reject" -> "commit"
                       [] OTHER -> "slots",
                     !.picked = IF tx[w].op = "cancelPendingBooking"
                                THEN LiveSlots(w, r) ELSE @]
  <2>1. /\ Rows /\ Shape /\ Shape' /\ tx[w] \in TxState
        /\ \A x \in Workers : CreatingHandler(x)
    BY WritesType DEF RowInvariant, TypeOK, Handler
  <2>2. tx[w].pc = "refresh"
    BY DEF Refresh
  <2>3. r \in Requests /\ tx[w].op \in {"approve", "reject", "cancelPendingBooking"}
    BY <2>1, <2>2 DEF Shape, WellShaped
  <2>4. /\ \A s \in Slots : slotLock[s] # w
        /\ reqNew[r] = req[r] /\ req[r].status = "PENDING"
    BY <2>2 DEF RowInvariant, Handler, FlippingHandler
  <2>5. ReqOf(w, r) = req[r] /\ req[r] \in RequestRow
    BY <2>3, <2>4 DEF ReqOf, TypeOK
  <2>6. /\ WriteRequest(w, r, row)
        /\ ~MustWait(w, H) /\ ~Excluded(w, H)
        /\ tx' = [tx EXCEPT ![w] = t]
    BY <1>2, <2>5 DEF Refresh
  <2>7. /\ tx'[w].r = tx[w].r /\ tx'[w].op = tx[w].op
        /\ \A x \in Workers \ {w} : tx'[x] = tx[x]
        /\ tx'[w].pc = CASE tx[w].op = "approve" -> "rejectLosers"
                         [] tx[w].op = "reject" -> "commit"
                         [] OTHER -> "slots"
        /\ tx[w].op = "cancelPendingBooking" => tx'[w].picked = LiveSlots(w, r)
    BY <2>1, <2>6 DEF TypeOK, TxState
  <2>8. row \in RequestRow /\ row.status = st
    BY <2>3, <2>5 DEF FlippedTo, RequestRow, Statuses
  <2> HIDE DEF t
  <2>9. CASE tx[w].op = "approve"
    <3>1. st = "APPROVED"
      BY <2>9 DEF FlippedTo
    <3>2. /\ ~MustWait(w, {s \in SlotsOf(r) : Holds(w, s, "APPROVED")})
          /\ ~Excluded(w, {s \in SlotsOf(r) : Holds(w, s, "APPROVED")})
      BY <2>6, <3>1
    <3> HIDE DEF row, st, r, H
    <3>3. Rows' /\ Discreet(w)
      BY <2>1, <2>3, <2>4, <2>6, <2>7, <2>8, <3>1, <3>2, ParentApproved DEF r
    <3>4. tx'[w].pc = "rejectLosers"
      BY <2>7, <2>9
    <3> QED
      BY <2>1, <3>3, <3>4, Unassuming, StepKeeps
  <2>10. CASE tx[w].op # "approve"
    <3>1. st \in {"REJECTED", "CANCELLED"} /\ <<"PENDING", st>> \in Moves
      BY <2>3, <2>10 DEF FlippedTo, Moves
    <3> HIDE DEF row, st, r, H
    <3>2. /\ Rows' /\ Discreet(w)
          /\ reqLock' = [reqLock EXCEPT ![r] = w]
      BY <2>1, <2>3, <2>4, <2>6, <2>7, <2>8, <3>1, ParentWritten DEF r
    <3>3. CASE tx[w].op = "reject"
      BY <2>1, <2>7, <3>2, <3>3, Unassuming, StepKeeps
    <3>4. CASE tx[w].op = "cancelPendingBooking"
      <4>1. tx'[w].pc = "slots" /\ tx'[w].op = "cancelPendingBooking"
        BY <2>7, <3>4
      <4>2. \A s \in tx'[w].picked : reqLock'[RequestOf[s]] = w
        BY <2>3, <2>7, <3>2, <3>4 DEF LiveSlots, SlotsOf, TypeOK
      <4>3. Handler(w)' /\ ~Creating(tx'[w])
        BY <4>1, <4>2 DEF Handler, CleanHandler, Clean, AfterTx, FlippingHandler,
                          CreatingHandler, PickingHandler, CancellingHandler, SlotCancels, Creating
      <4> QED
        BY <2>1, <3>2, <4>3, StepKeeps
    <3> QED
      BY <2>3, <2>10, <3>3, <3>4
  <2> QED
    BY <2>9, <2>10
<1> QED
  BY <1>1, <1>2

(* A step of w to a statement at which it relies on nothing.               *)
LEMMA PassKeeps ==
  ASSUME TypeOK, RowInvariant, Shape', NEW w \in Workers, NEW t, Pass(w, t),
         t.r = tx[w].r, t.pc \in {"commit", "expire", "rejectLosers"}
  PROVE  RowInvariant'
<1>1. UNCHANGED rows /\ tx' = [tx EXCEPT ![w] = t] /\ tx'[w] = t
  BY DEF Pass, TypeOK
<1>2. Handler(w)' /\ ~Creating(t)
  BY <1>1, Unassuming
<1> QED
  BY <1>1, <1>2, QuietKeeps

(* A PENDING request is closed by a sweep, or by the approval of a rival.  *)
LEMMA CloseKeeps ==
  ASSUME TypeOK, RowInvariant, NEW w \in Workers, NEW r \in Requests,
         NEW st \in {"REJECTED", "EXPIRED"},
         tx[w].pc \in {"expire", "rejectLosers"},
         reqLock[r] # w, req[r].status = "PENDING",
         WriteRequest(w, r, [req[r] EXCEPT !.status = st]), tx' = tx
  PROVE  RowInvariant'
<1> DEFINE row == [req[r] EXCEPT !.status = st]
<1>1. /\ Rows /\ Shape /\ Shape' /\ \A x \in Workers : CreatingHandler(x)
  BY DEF RowInvariant, Handler, Shape
<1>2. row \in RequestRow /\ row.status = st /\ st # "APPROVED"
  BY DEF TypeOK, RequestRow, Statuses
<1>3. <<req[r].status, row.status>> \in Moves
  BY <1>2 DEF Moves
<1>4. WriteRequest(w, r, row)
  OBVIOUS
<1> HIDE DEF row
<1>5. Rows' /\ Discreet(w)
  BY <1>1, <1>2, <1>3, <1>4, ParentWritten
<1> QED
  BY <1>1, <1>5, Unassuming, StepKeeps

(* rejectLosers rules only on rows that are PENDING.                       *)
LEMMA RejectLosersKeeps ==
  ASSUME TypeOK, RowInvariant, NEW w \in Workers, RejectLosers(w)
  PROVE  RowInvariant'
<1>1. Shape' /\ tx[w] \in TxState /\ tx[w].pc = "rejectLosers"
  BY WritesType DEF RowInvariant, TypeOK, RejectLosers
<1>2. ASSUME NEW l \in ToReject(w),
             WriteRequest(w, l, [req[l] EXCEPT !.status = "REJECTED"]), tx' = tx
      PROVE  RowInvariant'
  BY <1>1, <1>2, CloseKeeps DEF ToReject, TxState
<1>3. CASE Pass(w, [tx[w] EXCEPT !.pc = "commit"])
  <2> DEFINE t == [tx[w] EXCEPT !.pc = "commit"]
  <2>1. t.pc = "commit" /\ t.r = tx[w].r
    BY <1>1 DEF TxState
  <2> QED
    BY <1>1, <1>3, <2>1, PassKeeps
<1> QED
  BY <1>2, <1>3 DEF RejectLosers

(* The expiry UPDATE rules only on rows that are PENDING.                  *)
LEMMA ExpireRowsKeeps ==
  ASSUME TypeOK, RowInvariant, NEW w \in Workers, ExpireRows(w)
  PROVE  RowInvariant'
<1> DEFINE todo == {r \in tx[w].ids : reqLock[r] # w}
           gone == {r \in todo : req[r].status # "PENDING"}
           t == [tx[w] EXCEPT !.ids = @ \ gone]
           u == [tx[w] EXCEPT !.pc = "commit"]
<1>1. Shape' /\ tx[w] \in TxState /\ tx[w].pc = "expire"
  BY WritesType DEF RowInvariant, TypeOK, ExpireRows
<1>2. /\ t.pc = "expire" /\ t.r = tx[w].r /\ u.pc = "commit" /\ u.r = tx[w].r
  BY <1>1 DEF TxState
<1>3. ASSUME NEW r \in todo \ gone,
             WriteRequest(w, r, [req[r] EXCEPT !.status = "EXPIRED"]), tx' = tx
      PROVE  RowInvariant'
  BY <1>1, <1>3, CloseKeeps DEF TxState
<1>4. \/ Pass(w, t) \/ Pass(w, u)
      \/ \E r \in todo \ gone :
           WriteRequest(w, r, [req[r] EXCEPT !.status = "EXPIRED"]) /\ tx' = tx
  BY DEF ExpireRows
<1> HIDE DEF t, u, todo, gone
<1> QED
  BY <1>1, <1>2, <1>3, <1>4, PassKeeps

(* The UPDATE of the slots in all three cancellations.                     *)
LEMMA CancelSlotsKeeps ==
  ASSUME TypeOK, RowInvariant, NEW w \in Workers, CancelSlots(w)
  PROVE  RowInvariant'
<1> USE SlotsAssumption
<1> DEFINE todo == {s \in tx[w].picked : slotLock[s] # w}
           gone == {s \in todo : slot[s].cancelled}
           next == CASE tx[w].op = "cancelPendingBooking" -> "commit"
                     [] tx[w].op = "cancelApprovedSlot" -> "remaining"
                     [] OTHER -> "request"
           t == [tx[w] EXCEPT !.picked = @ \ gone]
           u == [tx[w] EXCEPT !.pc = next]
<1>1. /\ Rows /\ Shape /\ Shape' /\ tx[w] \in TxState
      /\ tx[w].pc = "slots" /\ Handler(w)
      /\ \A x \in Workers : CreatingHandler(x)
  BY WritesType DEF RowInvariant, TypeOK, CancelSlots, Handler
<1>2. /\ tx[w].op \in SlotCancels \cup {"cancelPendingBooking"}
      /\ tx[w].r \in Requests /\ tx[w].picked \subseteq Slots
  BY <1>1 DEF Shape, WellShaped, TxState
<1>3. /\ t.pc = "slots" /\ t.op = tx[w].op /\ t.r = tx[w].r
      /\ t.picked = tx[w].picked \ gone
      /\ u.pc = next /\ u.op = tx[w].op /\ u.r = tx[w].r
      /\ u.picked = tx[w].picked /\ u.remaining = tx[w].remaining
  BY <1>1 DEF TxState
<1>4. \/ Rollback(w)
      \/ tx[w].op = "cancelPendingBooking" /\ Pass(w, t)
      \/ todo = {} /\ Pass(w, u)
      \/ \E s \in todo \ gone :
           /\ WriteSlot(w, s, [slot[s] EXCEPT !.cancelled = TRUE])
           /\ tx' = tx
  BY DEF CancelSlots
<1> HIDE DEF t, u
<1>5. CASE tx[w].op = "cancelPendingBooking" /\ Pass(w, t)
  <2>1. UNCHANGED rows /\ tx' = [tx EXCEPT ![w] = t] /\ tx'[w] = t
    BY <1>5 DEF Pass, TypeOK
  <2>2. PickingHandler(w)'
    BY <1>1, <1>3, <1>5, <2>1 DEF Handler, PickingHandler, rows
  <2>3. Handler(w)' /\ ~Creating(t)
    BY <1>3, <1>5, <2>1, <2>2 DEF Handler, CleanHandler, FlippingHandler, Clean, AfterTx,
         CreatingHandler, CancellingHandler, SlotCancels, Creating
  <2> QED
    BY <1>1, <1>3, <2>1, <2>3, QuietKeeps
<1>6. CASE todo = {} /\ Pass(w, u)
  <2>1. UNCHANGED rows /\ tx' = [tx EXCEPT ![w] = u] /\ tx'[w] = u
    BY <1>6 DEF Pass, TypeOK
  <2>2. CASE tx[w].op = "cancelPendingBooking"
    BY <1>1, <1>3, <1>6, <2>2, PassKeeps
  <2>3. CASE tx[w].op \in SlotCancels
    <3>1. /\ u.pc \in {"remaining", "request"}
          /\ u.pc = "request" => u.op = "cancel"
      BY <1>3, <2>3 DEF SlotCancels
    <3>2. CancellingHandler(w)
      BY <1>1 DEF Handler
    <3>3. \A s \in u.picked : slotLock[s] = w
      BY <1>3, <1>6
    <3>4. u.op = "cancel" => \A s \in SlotsOf(u.r) :
                               s \in u.remaining \/ SlotOf(w, s).cancelled
      <4> SUFFICES ASSUME u.op = "cancel", NEW s \in SlotsOf(u.r), s \notin u.remaining
                   PROVE  SlotOf(w, s).cancelled
        OBVIOUS
      <4>1. s \in Slots
        BY DEF SlotsOf
      <4>2. s \in tx[w].picked \/ slot[s].cancelled
        BY <1>1, <1>3, <2>3, <3>2 DEF CancellingHandler
      <4>3. CASE slotLock[s] = w
        BY <1>1, <2>3, <3>2, <4>1, <4>3 DEF CancellingHandler, SlotOf
      <4>4. CASE slotLock[s] # w
        BY <1>3, <3>3, <4>2, <4>4 DEF SlotOf
      <4> QED
        BY <4>3, <4>4
    <3>5. CancellingHandler(w)'
      <4>1. \A s \in Slots : SlotOf(w, s)' = SlotOf(w, s)
        BY <2>1 DEF SlotOf, rows
      <4>2. /\ u.picked \subseteq SlotsOf(u.r) /\ u.picked # {}
            /\ HoldsNoRequest(w)
            /\ \A s \in Slots : slotLock[s] = w => slotNew[s].cancelled
        BY <1>1, <1>3, <2>3, <3>2 DEF CancellingHandler
      <4> QED
        BY <2>1, <3>1, <3>3, <3>4, <4>1, <4>2
           DEF CancellingHandler, HoldsNoRequest, SlotsOf, rows
    <3>6. Handler(w)' /\ ~Creating(u)
      BY <2>1, <3>1, <3>5 DEF Handler, CleanHandler, FlippingHandler, Clean, AfterTx,
           CreatingHandler, PickingHandler, Creating
    <3> QED
      BY <1>1, <1>3, <2>1, <3>6, QuietKeeps
  <2> QED
    BY <1>2, <2>2, <2>3
<1>7. ASSUME NEW s \in todo \ gone,
             WriteSlot(w, s, [slot[s] EXCEPT !.cancelled = TRUE]), tx' = tx
      PROVE  RowInvariant'
  <2> DEFINE row == [slot[s] EXCEPT !.cancelled = TRUE]
  <2>1. s \in Slots /\ s \in tx[w].picked /\ slotLock[s] # w /\ ~slot[s].cancelled
    BY <1>2
  <2>2. row \in SlotRow /\ row.cancelled
    BY <2>1 DEF TypeOK, SlotRow
  <2>3. \/ reqLock[RequestOf[s]] = w
        \/ req[RequestOf[s]].status = "APPROVED"
    BY <1>1, <2>1 DEF Handler, PickingHandler
  <2>4. WriteSlot(w, s, row)
    BY <1>7
  <2> HIDE DEF row
  <2>5. /\ Rows' /\ Discreet(w)
        /\ UNCHANGED <<req, reqNew, reqLock, slot>>
        /\ slotLock' = [slotLock EXCEPT ![s] = w]
        /\ slotNew'[s].cancelled = row.cancelled
        /\ \A x \in Slots \ {s} : slotNew'[x] = slotNew[x]
    BY <1>1, <1>7, <2>1, <2>2, <2>3, <2>4, SlotWritten
  <2>6. \A x \in Slots : slotLock'[x] = IF x = s THEN w ELSE slotLock[x]
    BY <2>5 DEF TypeOK
  <2>7. PickingHandler(w)'
    BY <1>1, <1>7, <2>5 DEF Handler, PickingHandler
  <2>8. CancellingHandler(w)'
    BY <1>1, <1>7, <2>2, <2>5, <2>6
       DEF Handler, CancellingHandler, HoldsNoRequest, SlotsOf
  <2>9. Handler(w)' /\ ~Creating(tx'[w])
    BY <1>1, <1>7, <2>7, <2>8 DEF Handler, CleanHandler, FlippingHandler, Clean, AfterTx,
         CreatingHandler, Creating
  <2> QED
    BY <1>1, <2>5, <2>9, StepKeeps
<1> QED
  BY <1>4, <1>5, <1>6, <1>7, RollbackKeeps

(* What cancelApprovedSlot does not read as live is cancelled.             *)
LEMMA ReadRemainingKeeps ==
  ASSUME TypeOK, RowInvariant, NEW w \in Workers, ReadRemaining(w)
  PROVE  RowInvariant'
<1> DEFINE left == LiveSlots(w, tx[w].r)
           t == [tx[w] EXCEPT !.pc = "request", !.remaining = left]
<1>1. /\ Shape /\ Shape' /\ tx[w] \in TxState /\ tx[w].pc = "remaining"
      /\ CancellingHandler(w)
  BY ReadsType DEF RowInvariant, TypeOK, ReadRemaining, Handler
<1>2. tx[w].op \in SlotCancels
  BY <1>1 DEF Shape, WellShaped
<1>3. /\ t.pc = "request" /\ t.op = tx[w].op /\ t.r = tx[w].r
      /\ t.picked = tx[w].picked /\ t.remaining = left
  BY <1>1 DEF TxState
<1>4. UNCHANGED rows /\ tx' = [tx EXCEPT ![w] = t] /\ tx'[w] = t
  BY DEF ReadRemaining, Pass, TypeOK
<1>5. \A s \in SlotsOf(t.r) : s \in t.remaining \/ SlotOf(w, s).cancelled
  BY <1>3 DEF LiveSlots
<1> HIDE DEF t
<1>6. \A s \in Slots : SlotOf(w, s)' = SlotOf(w, s)
  BY <1>4 DEF SlotOf, rows
<1>7. /\ t.picked \subseteq SlotsOf(t.r) /\ t.picked # {}
      /\ HoldsNoRequest(w) /\ \A s \in t.picked : slotLock[s] = w
      /\ \A s \in Slots : slotLock[s] = w => slotNew[s].cancelled
  BY <1>1, <1>2, <1>3 DEF CancellingHandler
<1>8. CancellingHandler(w)'
  BY <1>3, <1>4, <1>5, <1>6, <1>7
     DEF CancellingHandler, HoldsNoRequest, SlotsOf, rows
<1>9. Handler(w)' /\ ~Creating(t)
  BY <1>3, <1>4, <1>8 DEF Handler, CleanHandler, FlippingHandler, Clean, AfterTx,
       CreatingHandler, PickingHandler, Creating
<1> QED
  BY <1>1, <1>3, <1>4, <1>9, QuietKeeps

(* The unguarded UPDATE of the parent: the slots its handler has cancelled *)
(* and still holds show that the request is APPROVED.                      *)
LEMMA UpdateRequestKeeps ==
  ASSUME TypeOK, RowInvariant, NEW w \in Workers, UpdateRequest(w)
  PROVE  RowInvariant'
<1> USE SlotsAssumption, WorkersAssumption
<1> DEFINE r == tx[w].r
           row == IF tx[w].remaining = {}
                  THEN [ReqOf(w, r) EXCEPT !.status = "CANCELLED"]
                  ELSE [ReqOf(w, r) EXCEPT !.span = tx[w].remaining]
<1>1. /\ Rows /\ Shape /\ Shape' /\ tx[w] \in TxState /\ tx[w].pc = "request"
      /\ CancellingHandler(w) /\ \A x \in Workers : CreatingHandler(x)
  BY WritesType DEF RowInvariant, TypeOK, UpdateRequest, Handler
<1>2. tx[w].op \in SlotCancels /\ r \in Requests
  BY <1>1 DEF Shape, WellShaped
<1>3. reqLock[r] # w /\ ReqOf(w, r) = req[r] /\ req[r] \in RequestRow
  BY <1>1, <1>2 DEF CancellingHandler, HoldsNoRequest, ReqOf, TypeOK
<1>4. req[r].status = "APPROVED"
  <2>1. PICK s \in tx[w].picked : s \in Slots /\ RequestOf[s] = r /\ slotLock[s] = w
    BY <1>1, <1>2 DEF CancellingHandler, SlotsOf
  <2> QED
    BY <1>1, <1>3, <2>1 DEF Rows, WrittenSlots
<1>5. /\ row \in RequestRow
      /\ \/ row.status = "APPROVED"
         \/ row.status = "CANCELLED" /\ tx[w].remaining = {}
  <2>1. CASE tx[w].remaining = {}
    BY <1>3, <2>1 DEF RequestRow, Statuses
  <2>2. CASE tx[w].remaining # {}
    <3>1. row = [req[r] EXCEPT !.span = tx[w].remaining]
      BY <1>3, <2>2
    <3>2. tx[w].remaining \in SUBSET Slots
      BY <1>1 DEF TxState
    <3>3. \A q \in RequestRow, S \in SUBSET Slots :
            /\ [q EXCEPT !.span = S] \in RequestRow
            /\ [q EXCEPT !.span = S].status = q.status
      BY DEF RequestRow
    <3> HIDE DEF row, r
    <3> QED
      BY <1>3, <1>4, <3>1, <3>2, <3>3
  <2> QED
    BY <2>1, <2>2
<1>6. row.status # "APPROVED" => \A s \in SlotsOf(r) : SlotOf(w, s).cancelled
  BY <1>1, <1>2, <1>5 DEF CancellingHandler
<1>7. row.status = req[r].status \/ <<req[r].status, row.status>> \in Moves
  BY <1>4, <1>5 DEF Moves
<1>8. WriteRequest(w, r, row)
  BY DEF UpdateRequest
<1>9. /\ \A x \in Workers \ {w} : tx'[x] = tx[x]
      /\ tx'[w].r = tx[w].r /\ tx'[w].pc = "commit"
  BY <1>1 DEF UpdateRequest, Goto, TypeOK, TxState
<1> HIDE DEF r, row
<1>10. Rows' /\ Discreet(w)
  BY <1>1, <1>2, <1>3, <1>4, <1>5, <1>6, <1>7, <1>8, <1>9, ParentWritten
<1> QED
  BY <1>1, <1>9, <1>10, Unassuming, StepKeeps

(* The reminder claim rewrites only live slots.                            *)
LEMMA ClaimRemindersKeeps ==
  ASSUME TypeOK, RowInvariant, NEW w \in Workers, ClaimReminders(w)
  PROVE  RowInvariant'
<1> USE SlotsAssumption
<1> DEFINE todo == {s \in tx[w].picked : slotLock[s] # w}
           gone == {s \in todo : slot[s].reminded \/ slot[s].cancelled}
           t == [tx[w] EXCEPT !.picked = @ \ gone]
           u == [tx[w] EXCEPT !.pc = "commit"]
<1>1. /\ Rows /\ Shape /\ Shape' /\ tx[w] \in TxState
      /\ tx[w].pc = "remind" /\ Handler(w)
      /\ \A x \in Workers : CreatingHandler(x)
  BY WritesType DEF RowInvariant, TypeOK, ClaimReminders, Handler
<1>2. tx[w].op = "remindUpcoming" /\ tx[w].picked \subseteq Slots
  BY <1>1 DEF Shape, WellShaped, TxState
<1>3. /\ t.pc = "remind" /\ t.op = tx[w].op /\ t.r = tx[w].r
      /\ t.picked = tx[w].picked \ gone
      /\ u.pc = "commit" /\ u.r = tx[w].r
  BY <1>1 DEF TxState
<1>4. \/ Pass(w, t) \/ Pass(w, u)
      \/ \E s \in todo \ gone :
           WriteSlot(w, s, [slot[s] EXCEPT !.reminded = TRUE]) /\ tx' = tx
  BY DEF ClaimReminders
<1> HIDE DEF t, u
<1>5. CASE Pass(w, t)
  <2>1. UNCHANGED rows /\ tx' = [tx EXCEPT ![w] = t] /\ tx'[w] = t
    BY <1>5 DEF Pass, TypeOK
  <2>2. PickingHandler(w)'
    BY <1>1, <1>3, <2>1 DEF Handler, PickingHandler, rows
  <2>3. Handler(w)' /\ ~Creating(t)
    BY <1>2, <1>3, <2>1, <2>2 DEF Handler, CleanHandler, FlippingHandler, Clean, AfterTx,
         CreatingHandler, CancellingHandler, SlotCancels, Creating
  <2> QED
    BY <1>1, <1>3, <2>1, <2>3, QuietKeeps
<1>6. CASE Pass(w, u)
  BY <1>1, <1>3, <1>6, PassKeeps
<1>7. ASSUME NEW s \in todo \ gone,
             WriteSlot(w, s, [slot[s] EXCEPT !.reminded = TRUE]), tx' = tx
      PROVE  RowInvariant'
  <2> DEFINE row == [slot[s] EXCEPT !.reminded = TRUE]
  <2>1. s \in Slots /\ s \in tx[w].picked /\ slotLock[s] # w /\ ~slot[s].cancelled
    BY <1>2
  <2>2. row \in SlotRow
    <3>1. slot[s] \in SlotRow
      BY <2>1 DEF TypeOK
    <3> QED
      BY <3>1 DEF SlotRow
  <2>3. req[RequestOf[s]].status = "APPROVED"
    BY <1>1, <1>2, <2>1 DEF Handler, PickingHandler
  <2>4. WriteSlot(w, s, row)
    BY <1>7
  <2> HIDE DEF row
  <2>5. Rows' /\ Discreet(w) /\ UNCHANGED <<req, reqNew, reqLock, slot>>
    BY <1>1, <1>7, <2>1, <2>2, <2>3, <2>4, SlotWritten
  <2>6. PickingHandler(w)'
    BY <1>1, <1>7, <2>5 DEF Handler, PickingHandler
  <2>7. Handler(w)' /\ ~Creating(tx'[w])
    BY <1>1, <1>2, <1>7, <2>6 DEF Handler, CleanHandler, FlippingHandler, Clean, AfterTx,
         CreatingHandler, CancellingHandler, SlotCancels, Creating
  <2> QED
    BY <1>1, <2>5, <2>7, StepKeeps
<1> QED
  BY <1>4, <1>5, <1>6, <1>7

(* The empty tables satisfy the invariant.                                 *)
LEMMA InitInvariant == Init => TypeOK /\ RowInvariant
<1> SUFFICES ASSUME Init PROVE TypeOK /\ RowInvariant
  OBVIOUS
<1> USE SlotsAssumption, WorkersAssumption
<1>1. TypeOK /\ Shape
  BY InitTypeOK
<1>2. /\ \A r \in Requests : /\ req[r].status = "NONE" /\ reqNew[r] = req[r]
                            /\ reqLock[r] = Nobody
      /\ \A s \in Slots : /\ ~slot[s].cancelled /\ ~slot[s].holds
                         /\ slotNew[s] = slot[s] /\ slotLock[s] = Nobody
      /\ \A w \in Workers : tx[w].pc = "idle" /\ tx[w].op = "none"
  BY DEF Init, NoRow, NoSlot, Idle
<1>3. Rows
  <2>1. \A w \in Workers : /\ \A r \in Requests : ReqOf(w, r).status = "NONE"
                           /\ \A s \in Slots : ~SlotOf(w, s).holds
    BY <1>2 DEF ReqOf, SlotOf
  <2>2. ViewMirror /\ HoldsMirror
    BY <1>2, <2>1 DEF ViewMirror, HoldsMirror, Occupies
  <2> QED
    BY <1>2, <2>2 DEF Rows, Versions, WrittenMoves, LeavesEmpty, WrittenSlots,
                      IndexExcludes, InIndex, UnbornSlots
<1>4. \A w \in Workers : Handler(w) /\ ~Creating(tx[w])
  BY <1>2 DEF Handler, CleanHandler, FlippingHandler, HoldsNothing, HoldsNoRequest, CreatingHandler,
              PickingHandler, CancellingHandler, SlotCancels, Creating
<1> QED
  BY <1>1, <1>3, <1>4 DEF RowInvariant, CreatesApart

(* Every step preserves the invariant.                                     *)
LEMMA NextInvariant == TypeOK /\ RowInvariant /\ [Next]_vars => RowInvariant'
<1> SUFFICES ASSUME TypeOK, RowInvariant, [Next]_vars PROVE RowInvariant'
  OBVIOUS
<1>1. ASSUME UNCHANGED <<rows, tx>> PROVE RowInvariant'
  BY <1>1 DEF RowInvariant, Rows, Versions, WrittenMoves, LeavesEmpty, SlotOf,
       WrittenSlots, ViewMirror, ReqOf, HoldsMirror, Occupies, IndexExcludes,
       InIndex, UnbornSlots, Shape, CreatesApart, Handler, CleanHandler,
       HoldsNothing, HoldsNoRequest, CreatingHandler, PickingHandler,
       CancellingHandler, FlippingHandler, rows
<1>2. ASSUME NEW w \in Workers, Begin(w) PROVE RowInvariant'
  BY <1>2, BeginKeeps
<1>3. ASSUME NEW w \in Workers, Proceed(w) PROVE RowInvariant'
  BY <1>3, CleanStepsKeep, CheckCancellationKeeps, InsertKeeps, FlipKeeps,
     RefreshKeeps, RejectLosersKeeps, CancelSlotsKeeps, ReadRemainingKeeps, UpdateRequestKeeps,
     ExpireRowsKeeps, ClaimRemindersKeeps, CommitKeeps, AfterCommitKeeps
     DEF Proceed
<1>4. ASSUME NEW w \in Workers, CodeCollision(w) PROVE RowInvariant'
  BY <1>4, CleanStepsKeep
<1>5. ASSUME NEW w \in Workers, Abort(w) PROVE RowInvariant'
  BY <1>5, RollbackKeeps DEF Abort
<1>6. ASSUME NEW w \in Workers, Crash(w) PROVE RowInvariant'
  BY <1>6, AfterCommitKeeps
<1>7. CASE Tick
  BY <1>1, <1>7 DEF Tick
<1>8. CASE UNCHANGED vars
  BY <1>1, <1>8 DEF vars
<1> QED
  BY <1>2, <1>3, <1>4, <1>5, <1>6, <1>7, <1>8 DEF Next

(* Only COMMIT changes a committed row.                                    *)
LEMMA OnlyCommitMoves ==
  ASSUME [Next]_vars, ~UNCHANGED <<req, slot>>
  PROVE  \E w \in Workers : Commit(w)
<1>1. ASSUME NEW w \in Workers, Begin(w) PROVE FALSE
  BY <1>1 DEF Begin, CreateFromLine, CreateDirect, Approve, Reject, Cancel,
         CancelPendingBooking, CancelApprovedSlot, ExpireOverdue, RemindUpcoming,
         Start, rows
<1>2. ASSUME NEW w \in Workers, CodeCollision(w) \/ Abort(w) \/ Crash(w)
      PROVE  FALSE
  BY <1>2 DEF CodeCollision, Abort, Crash, Rollback, rows
<1>3. ASSUME NEW w \in Workers,
             \/ LockVenue(w) \/ CheckCreate(w) \/ CheckApprove(w)
             \/ CheckPending(w) \/ CheckSlot(w) \/ CheckCancel(w)
             \/ FindPendingLosers(w) \/ ReadRemaining(w) \/ PublishRead(w)
             \/ Emit(w) \/ NotifyDecisions(w) \/ NotifyReminders(w)
      PROVE  FALSE
  BY <1>3 DEF LockVenue, CheckCreate, CheckApprove, CheckPending, CheckSlot,
         CheckCancel, FindPendingLosers, ReadRemaining, PublishRead, Emit,
         NotifyDecisions, NotifyReminders, Pass, Rollback, rows
<1>4. ASSUME NEW w \in Workers,
             \/ Insert(w) \/ Flip(w) \/ Refresh(w) \/ RejectLosers(w)
             \/ UpdateRequest(w) \/ ExpireRows(w)
      PROVE  FALSE
  <2>1. \A r, row : WriteRequest(w, r, row) => UNCHANGED <<req, slot>>
    BY DEF WriteRequest
  <2>2. Rollback(w) => UNCHANGED <<req, slot>>
    BY DEF Rollback
  <2>3. \A t : Pass(w, t) => UNCHANGED <<req, slot>>
    BY DEF Pass, rows
  <2>4. CASE Insert(w)
    BY <2>2, <2>4 DEF Insert
  <2>5. CASE Flip(w)
    BY <2>2, <2>5 DEF Flip
  <2>9. CASE Refresh(w)
    BY <2>1, <2>2, <2>9 DEF Refresh
  <2>6. CASE RejectLosers(w)
    BY <2>1, <2>3, <2>6 DEF RejectLosers
  <2>7. CASE UpdateRequest(w)
    BY <2>1, <2>7 DEF UpdateRequest
  <2>8. CASE ExpireRows(w)
    BY <2>1, <2>3, <2>8 DEF ExpireRows
  <2> QED
    BY <1>4, <2>4, <2>5, <2>6, <2>7, <2>8, <2>9
<1>5. ASSUME NEW w \in Workers, CancelSlots(w) \/ ClaimReminders(w)
      PROVE  FALSE
  <2>1. \A s, row : WriteSlot(w, s, row) => UNCHANGED <<req, slot>>
    BY DEF WriteSlot
  <2>2. Rollback(w) => UNCHANGED <<req, slot>>
    BY DEF Rollback
  <2>3. \A t : Pass(w, t) => UNCHANGED <<req, slot>>
    BY DEF Pass, rows
  <2> QED
    BY <1>5, <2>1, <2>2, <2>3 DEF CancelSlots, ClaimReminders
<1>6. ~Tick /\ ~UNCHANGED vars
  BY DEF Tick, vars, rows
<1> QED
  BY <1>1, <1>2, <1>3, <1>4, <1>5, <1>6 DEF Next, Proceed

-----------------------------------------------------------------------------
(* The theorems.                                                           *)

(* Whatever endpoints and crons run concurrently, and wherever they abort  *)
(* or die, the row invariant holds in every reachable state.               *)
THEOREM RowsSafe == Spec => []RowInvariant
<1>1. TypeOK /\ RowInvariant /\ [Next]_vars => (TypeOK /\ RowInvariant)'
  BY NextInvariant, NextType DEF RowInvariant
<1>2. Spec => [](TypeOK /\ RowInvariant)
  BY InitInvariant, <1>1, PTL DEF Spec
<1> QED
  BY <1>2, PTL

(* holdsSlot mirrors its sources in every committed state: the triggers of *)
(* the migration keep it, under any interleaving.                          *)
THEOREM MirrorSafe == Spec => []HoldsMirror
<1>1. RowInvariant => HoldsMirror
  BY DEF RowInvariant, Rows
<1> QED
  BY <1>1, RowsSafe, PTL

(* No room is ever held twice at one instant by committed, approved, live  *)
(* slots.                                                                  *)
THEOREM RoomSafe == Spec => []NoDoubleBooking
<1>1. RowInvariant => NoDoubleBooking
  <2> SUFFICES ASSUME RowInvariant, NEW s \in Slots, NEW t \in Slots,
                      s # t, RoomOf(s) = RoomOf(t), Occupies(s), Occupies(t),
                      NEW i \in StartAt[s] .. EndAt[s], i < EndAt[s],
                      StartAt[t] <= i, i < EndAt[t]
               PROVE  FALSE
    BY DEF NoDoubleBooking
  <2>1. InIndex(s) /\ InIndex(t)
    BY DEF RowInvariant, Rows, HoldsMirror, InIndex
  <2>2. Overlaps(s, t)
    <3>1. StartAt[s] \in Nat /\ EndAt[s] \in Nat /\ StartAt[t] \in Nat /\ EndAt[t] \in Nat
      BY SlotsAssumption
    <3>2. i \in Nat /\ StartAt[s] <= i
      BY <3>1
    <3> QED
      BY <3>1, <3>2 DEF Overlaps
  <2> QED
    BY <2>1, <2>2 DEF RowInvariant, Rows, IndexExcludes, Collide
<1> QED
  BY <1>1, RowsSafe, PTL

(* A committed request moves only along its lifecycle.                     *)
THEOREM LifecycleSafe == Spec => StatusMoves
<1>1. TypeOK /\ RowInvariant /\ [Next]_vars =>
        [\A r \in Requests : req'[r].status # req[r].status
            => <<req[r].status, req'[r].status>> \in Moves]_vars
  <2> SUFFICES ASSUME TypeOK, RowInvariant, [Next]_vars, NEW r \in Requests,
                      req'[r].status # req[r].status
               PROVE  <<req[r].status, req'[r].status>> \in Moves
    OBVIOUS
  <2>1. PICK w \in Workers : Commit(w)
    BY OnlyCommitMoves
  <2>2. req'[r] = reqNew[r] /\ reqLock[r] = w
    BY <2>1 DEF Commit, ReqOf
  <2> QED
    BY <2>2, WorkersAssumption DEF RowInvariant, Rows, WrittenMoves
<1>2. Spec => [](TypeOK /\ RowInvariant)
  BY TypeCorrect, RowsSafe, PTL
<1> QED
  BY <1>1, <1>2, PTL DEF Spec, StatusMoves
=============================================================================
