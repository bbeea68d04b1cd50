------------------------- MODULE AnnouncementProofs -------------------------
(* The safety properties of AnnouncementProperties, for every number of    *)
(* workers, users, departments, edits and sends.                           *)
EXTENDS AnnouncementProperties, FiniteSetTheorems, TLAPS

(* An idle handler is one of the handlers.                                 *)
LEMMA IdleType == Idle \in Txs
BY AnnouncementConstants DEF Idle, Txs, NoPatch, Patches, Pcs, LockedPcs,
   SendPcs, ReadPcs, Audiences, DeptIds

(* A step that gives one handler a new record keeps the rest of them.      *)
LEMMA BecomeType ==
  ASSUME tx \in [Workers -> Txs], NEW w \in Workers, NEW t \in Txs, Become(w, t)
  PROVE  /\ tx' \in [Workers -> Txs] /\ tx'[w] = t
         /\ \A x \in Workers : x # w => tx'[x] = tx[x]
BY DEF Become

(* Ending a handler is becoming idle.                                      *)
LEMMA EndType ==
  ASSUME tx \in [Workers -> Txs], NEW w \in Workers, End(w)
  PROVE  /\ tx' \in [Workers -> Txs] /\ tx'[w] = Idle /\ tx'[w].pc = "idle"
         /\ \A x \in Workers : x # w => tx'[x] = tx[x]
BY IdleType DEF End, Idle

(* The users who have received a text are finitely many.                   *)
LEMMA ReceivedFinite == IsFiniteSet(Received)
BY AnnouncementConstants, FS_Subset DEF Received

(* A handler that holds the lock is the only one inside a transaction.     *)
LEMMA OneInside ==
  ASSUME LockHeld, NEW w \in Workers, NEW x \in Workers,
         tx[w].pc \in LockedPcs, tx[x].pc \in LockedPcs
  PROVE  w = x
BY DEF LockHeld

(* What a step that writes neither the row, nor LINE's side, nor the       *)
(* inboxes preserves.                                                      *)
LEMMA RowKept ==
  ASSUME SendInvariant, UNCHANGED <<row, inbox>>, wire' \subseteq wire,
         keys' \subseteq keys
  PROVE  /\ Received' = Received /\ EditionsTrue' /\ CountedReceived'
         /\ DepartmentIffAudience'
<1>1. Received' = Received
  BY DEF Received
<1>2. EditionsTrue'
  BY <1>1 DEF SendInvariant, EditionsTrue
<1>3. CountedReceived' /\ DepartmentIffAudience'
  BY <1>1 DEF SendInvariant, CountedReceived, DepartmentIffAudience
<1> QED
  BY <1>1, <1>2, <1>3

(* A handler without the lock goes on to a state without it.               *)
LEMMA OutsideStep ==
  ASSUME SendInvariant, NEW w \in Workers, NEW t \in Txs, Become(w, t),
         tx[w].pc \notin LockedPcs, t.pc \notin LockedPcs,
         t.pc \in {"insert", "write"} => (t.dept # None <=> t.aud = "DEPARTMENT"),
         UNCHANGED <<row, lock, world>>
  PROVE  SendInvariant'
<1>1. /\ tx' \in [Workers -> Txs] /\ tx'[w] = t
      /\ \A x \in Workers : x # w => tx'[x] = tx[x]
  BY BecomeType DEF SendInvariant, TypeOK
<1>2. TypeOK'
  BY <1>1 DEF SendInvariant, TypeOK, world
<1>3. /\ Received' = Received /\ EditionsTrue' /\ CountedReceived'
      /\ DepartmentIffAudience'
  BY RowKept DEF world
<1>4. LockHeld'
  BY <1>1 DEF SendInvariant, LockHeld, LockedPcs
<1>5. ContentFrozen'
  BY <1>1 DEF SendInvariant, ContentFrozen, LockedPcs, SendPcs
<1>6. PendingPair'
  BY <1>1 DEF SendInvariant, PendingPair
<1>7. GotReceived'
  BY <1>1, <1>3 DEF SendInvariant, GotReceived, LockedPcs, SendPcs
<1> QED
  BY <1>2, <1>3, <1>4, <1>5, <1>6, <1>7 DEF SendInvariant

(* A rollback, whatever else the step does on the wire.                    *)
LEMMA RollbackStep ==
  ASSUME SendInvariant, NEW w \in Workers, Rollback(w), wire' \subseteq wire,
         UNCHANGED <<row, live, member, keys, inbox, sends, changes>>
  PROVE  SendInvariant'
<1>1. /\ tx' \in [Workers -> Txs] /\ tx'[w].pc = "idle"
      /\ \A x \in Workers : x # w => tx'[x] = tx[x]
  BY EndType DEF SendInvariant, TypeOK, Rollback
<1>2. TypeOK'
  BY <1>1 DEF SendInvariant, TypeOK, Rollback
<1>3. /\ Received' = Received /\ EditionsTrue' /\ CountedReceived'
      /\ DepartmentIffAudience'
  BY RowKept
<1>4. LockHeld'
  BY <1>1, AnnouncementConstants
  DEF SendInvariant, LockHeld, LockedPcs, SendPcs, ReadPcs, Rollback
<1>5. ContentFrozen'
  BY <1>1 DEF SendInvariant, ContentFrozen, ReadPcs
<1>6. PendingPair'
  BY <1>1 DEF SendInvariant, PendingPair
<1>7. GotReceived'
  BY <1>1, <1>3 DEF SendInvariant, GotReceived, ReadPcs
<1> QED
  BY <1>2, <1>3, <1>4, <1>5, <1>6, <1>7 DEF SendInvariant

(* A sender that goes on sending, with the same edition in hand.           *)
LEMMA InsideStep ==
  ASSUME SendInvariant, NEW w \in Workers, NEW t \in Txs, Become(w, t),
         tx[w].pc \in ReadPcs, t.pc \in ReadPcs,
         t.text = tx[w].text, t.stamp = tx[w].stamp, t.got = tx[w].got,
         wire' \subseteq wire,
         UNCHANGED <<row, lock, live, member, keys, inbox, sends, changes>>
  PROVE  SendInvariant'
<1>1. /\ tx' \in [Workers -> Txs] /\ tx'[w] = t
      /\ \A x \in Workers : x # w => tx'[x] = tx[x]
  BY BecomeType DEF SendInvariant, TypeOK
<1>2. TypeOK'
  BY <1>1 DEF SendInvariant, TypeOK
<1>3. /\ Received' = Received /\ EditionsTrue' /\ CountedReceived'
      /\ DepartmentIffAudience'
  BY RowKept
<1>4. LockHeld'
  BY <1>1 DEF SendInvariant, LockHeld, LockedPcs, SendPcs
<1>5. ContentFrozen'
  BY <1>1 DEF SendInvariant, ContentFrozen
<1>6. PendingPair'
  BY <1>1 DEF SendInvariant, PendingPair, ReadPcs
<1>7. GotReceived'
  BY <1>1, <1>3 DEF SendInvariant, GotReceived, ReadPcs
<1> QED
  BY <1>2, <1>3, <1>4, <1>5, <1>6, <1>7 DEF SendInvariant

-----------------------------------------------------------------------------
(* The pair resolveDepartmentId accepts is consistent.                     *)
LEMMA ResolvedPair ==
  ASSUME TypeOK, NEW aud \in Audiences, NEW sent \in DeptIds \cup {Absent},
         NEW stored \in DeptIds, Resolves(aud, sent, stored)
  PROVE  /\ DepartmentId(aud, sent, stored) \in DeptIds
         /\ DepartmentId(aud, sent, stored) # None <=> aud = "DEPARTMENT"
BY AnnouncementConstants DEF TypeOK, Audiences, DeptIds, Resolves, DepartmentId

(* The drafting handlers: their reads.                                     *)
LEMMA CreateStep ==
  ASSUME SendInvariant, NEW w \in Workers, NEW dto \in Patches, Create(w, dto)
  PROVE  SendInvariant'
<1> DEFINE aud == IF dto.aud = Absent THEN "ALL" ELSE dto.aud
           t == [Idle EXCEPT !.pc = "insert", !.dto = dto, !.aud = aud,
                   !.dept = DepartmentId(aud, dto.dept, None)]
<1>1. aud \in Audiences /\ dto.dept \in DeptIds \cup {Absent}
  BY DEF Patches, Audiences
<1>2. /\ DepartmentId(aud, dto.dept, None) \in DeptIds
      /\ DepartmentId(aud, dto.dept, None) # None <=> aud = "DEPARTMENT"
  <2>1. None \in DeptIds /\ Resolves(aud, dto.dept, None)
    BY DEF Create, DeptIds
  <2> QED
    BY <1>1, <2>1, ResolvedPair DEF SendInvariant
<1>3. /\ t \in Txs /\ t.pc = "insert" /\ t.aud = aud
      /\ t.dept = DepartmentId(aud, dto.dept, None)
  <2> HIDE DEF aud
  <2> QED
    BY <1>1, <1>2, IdleType DEF Idle, Txs, Pcs
<1>4. Become(w, t) /\ tx[w].pc = "idle" /\ UNCHANGED <<row, lock, world>>
  BY DEF Create
<1> HIDE DEF t, aud
<1> QED
  BY <1>2, <1>3, <1>4, OutsideStep DEF LockedPcs, SendPcs, ReadPcs

(* PATCH reads a row.                                                      *)
LEMMA UpdateStep ==
  ASSUME SendInvariant, NEW w \in Workers, NEW dto \in Patches, Update(w, dto)
  PROVE  SendInvariant'
<1> DEFINE t == [Idle EXCEPT !.pc = "resolve", !.dto = dto, !.dept = row.dept,
                   !.aud = IF dto.aud = Absent THEN row.aud ELSE dto.aud]
<1>1. t \in Txs /\ t.pc = "resolve"
  BY IdleType DEF Idle, Txs, Pcs, SendInvariant, TypeOK, Rows, Patches
<1>2. Become(w, t) /\ tx[w].pc = "idle" /\ UNCHANGED <<row, lock, world>>
  BY DEF Update
<1> HIDE DEF t
<1> QED
  BY <1>1, <1>2, OutsideStep DEF LockedPcs, SendPcs, ReadPcs

(* PATCH checks the department.                                            *)
LEMMA ResolveStep ==
  ASSUME SendInvariant, NEW w \in Workers, ResolveDepartment(w)
  PROVE  SendInvariant'
<1> DEFINE d == DepartmentId(tx[w].aud, tx[w].dto.dept, tx[w].dept)
           t == [tx[w] EXCEPT !.pc = "write", !.dept = d]
<1>1. tx[w] \in Txs /\ tx[w].pc = "resolve" /\ UNCHANGED <<row, lock, world>>
  BY DEF ResolveDepartment, SendInvariant, TypeOK
<1>2. CASE Resolves(tx[w].aud, tx[w].dto.dept, tx[w].dept)
  <2>1. d \in DeptIds /\ (d # None <=> tx[w].aud = "DEPARTMENT")
    <3>1. /\ tx[w].aud \in Audiences /\ tx[w].dto.dept \in DeptIds \cup {Absent}
          /\ tx[w].dept \in DeptIds
      BY <1>1 DEF Txs, Patches
    <3> QED
      BY <1>2, <3>1, ResolvedPair DEF SendInvariant
  <2>2. Become(w, t)
    BY <1>2 DEF ResolveDepartment
  <2> HIDE DEF d
  <2>3. t \in Txs /\ t.pc = "write" /\ t.dept = d /\ t.aud = tx[w].aud
    BY <1>1, <2>1 DEF Txs, Pcs
  <2> HIDE DEF t
  <2> QED
    BY <1>1, <2>1, <2>2, <2>3, OutsideStep DEF LockedPcs, SendPcs, ReadPcs
<1>3. CASE ~Resolves(tx[w].aud, tx[w].dto.dept, tx[w].dept)
  <2>1. Become(w, Idle)
    BY <1>3 DEF ResolveDepartment, End, Become
  <2> QED
    BY <1>1, <2>1, IdleType, OutsideStep DEF Idle, LockedPcs, SendPcs, ReadPcs
<1> QED
  BY <1>2, <1>3

-----------------------------------------------------------------------------
(* A handler writes the row and ends, and nobody else is inside a          *)
(* transaction; every write of the row takes it to a later edition.        *)
LEMMA RowWritten ==
  ASSUME SendInvariant, NEW w \in Workers, End(w), UNCHANGED world,
         \A x \in Workers : x # w => tx[x].pc \notin LockedPcs,
         lock' = Nobody, row' \in Rows, row'.stamp > row.stamp,
         row.status # "NONE", row'.status # "NONE",
         CountedReceived', DepartmentIffAudience'
  PROVE  SendInvariant'
<1>1. /\ tx' \in [Workers -> Txs] /\ tx'[w].pc = "idle"
      /\ \A x \in Workers : x # w => tx'[x] = tx[x]
  BY EndType DEF SendInvariant, TypeOK
<1>2. TypeOK'
  BY <1>1 DEF SendInvariant, TypeOK, world
<1>3. \A x \in Workers : tx'[x].pc \notin LockedPcs
  BY <1>1 DEF LockedPcs, SendPcs, ReadPcs
<1>4. LockHeld'
  BY <1>3, AnnouncementConstants DEF LockHeld, LockedPcs, SendPcs
<1>5. ContentFrozen' /\ GotReceived'
  BY <1>3 DEF ContentFrozen, GotReceived, LockedPcs, SendPcs
<1>6. PendingPair'
  BY <1>1 DEF SendInvariant, PendingPair
<1>7. EditionsTrue'
  BY DEF SendInvariant, TypeOK, Rows, EditionsTrue, world
<1> QED
  BY <1>2, <1>4, <1>5, <1>6, <1>7 DEF SendInvariant

(* POST inserts the row: LINE knows nothing of it yet.                     *)
LEMMA InsertStep ==
  ASSUME SendInvariant, NEW w \in Workers, Insert(w)
  PROVE  SendInvariant'
<1>1. /\ tx' \in [Workers -> Txs] /\ tx'[w].pc = "idle"
      /\ \A x \in Workers : x # w => tx'[x] = tx[x]
  BY EndType DEF SendInvariant, TypeOK, Insert
<1>2. /\ row' \in Rows /\ row'.status = "DRAFT" /\ row'.dept = tx[w].dept
      /\ row'.aud = tx[w].aud
  BY AnnouncementConstants
  DEF Insert, NoRow, Rows, Statuses, SendInvariant, TypeOK, Txs, Patches
<1>3. TypeOK'
  BY <1>1, <1>2 DEF SendInvariant, TypeOK, Insert, world
<1>4. \A x \in Workers : tx[x].pc \notin LockedPcs
  BY DEF SendInvariant, LockHeld, Insert
<1>5. LockHeld' /\ ContentFrozen' /\ GotReceived'
  BY <1>1, <1>4 DEF SendInvariant, LockHeld, ContentFrozen, GotReceived, Insert,
     LockedPcs, SendPcs, ReadPcs
<1>6. PendingPair'
  BY <1>1 DEF SendInvariant, PendingPair
<1>7. EditionsTrue'
  BY <1>2 DEF SendInvariant, EditionsTrue, Insert, world
<1>8. CountedReceived'
  BY <1>2 DEF CountedReceived
<1>9. DepartmentIffAudience'
  BY <1>2 DEF SendInvariant, PendingPair, DepartmentIffAudience, Insert
<1> QED
  BY <1>3, <1>5, <1>6, <1>7, <1>8, <1>9 DEF SendInvariant

(* PATCH writes, or finds the row sent or deleted.                         *)
LEMMA WriteUpdateStep ==
  ASSUME SendInvariant, NEW w \in Workers, WriteUpdate(w)
  PROVE  SendInvariant'
<1>1. /\ tx[w].pc = "write" /\ tx[w] \in Txs /\ End(w) /\ UNCHANGED <<lock, world>>
      /\ lock = Nobody
  BY DEF WriteUpdate, SendInvariant, TypeOK
<1>2. CASE Editable
  <2>1. \A x \in Workers : tx[x].pc \notin LockedPcs
    BY <1>1, AnnouncementConstants DEF SendInvariant, LockHeld
  <2>2. row' = Edited(w)
    BY <1>2 DEF WriteUpdate
  <2>3. /\ row' \in Rows /\ row'.stamp > row.stamp /\ row'.status = "DRAFT"
        /\ row.status = "DRAFT" /\ row'.dept = tx[w].dept /\ row'.aud = tx[w].aud
    <3>1. row \in Rows
      BY DEF SendInvariant, TypeOK
    <3>2. row.stamp \in Nat /\ row.stamp + 1 > row.stamp /\ row.stamp + 1 \in Nat
      BY <3>1 DEF Rows
    <3>3. /\ row' \in Rows /\ row'.stamp = row.stamp + 1 /\ row'.status = row.status
          /\ row'.dept = tx[w].dept /\ row'.aud = tx[w].aud
      BY <1>1, <2>2, <3>1, <3>2 DEF Edited, Rows, Txs, Patches
    <3> QED
      BY <1>2, <3>2, <3>3 DEF Editable
  <2>4. CountedReceived' /\ DepartmentIffAudience'
    BY <1>1, <2>3
    DEF SendInvariant, PendingPair, CountedReceived, DepartmentIffAudience
  <2> QED
    BY <1>1, <2>1, <2>3, <2>4, RowWritten
<1>3. CASE ~Editable
  <2>1. Become(w, Idle) /\ UNCHANGED <<row, lock, world>>
    BY <1>1, <1>3 DEF WriteUpdate, End, Become
  <2> QED
    BY <1>1, <2>1, IdleType, OutsideStep DEF Idle, LockedPcs, SendPcs, ReadPcs
<1> QED
  BY <1>2, <1>3

(* DELETE writes deletedAt.                                                *)
LEMMA TombstoneStep ==
  ASSUME SendInvariant, NEW w \in Workers, WriteTombstone(w)
  PROVE  SendInvariant'
<1>1. \A x \in Workers : x # w => tx[x].pc \notin LockedPcs
  BY OneInside DEF SendInvariant, WriteTombstone, LockedPcs
<1>2. /\ row' \in Rows /\ row'.stamp > row.stamp /\ row'.status = row.status
      /\ row'.text = row.text /\ row'.sentCount = row.sentCount
      /\ row'.dept = row.dept /\ row'.aud = row.aud
  <2>1. row \in Rows
    BY DEF SendInvariant, TypeOK
  <2>2. row.stamp \in Nat /\ row.stamp + 1 > row.stamp /\ row.stamp + 1 \in Nat
    BY <2>1 DEF Rows
  <2>3. row' \in Rows /\ row'.stamp = row.stamp + 1
    BY <2>1, <2>2 DEF WriteTombstone, Rows
  <2>4. /\ row'.status = row.status /\ row'.text = row.text
        /\ row'.sentCount = row.sentCount /\ row'.dept = row.dept
        /\ row'.aud = row.aud
    BY <2>1 DEF WriteTombstone, Rows
  <2> QED
    BY <2>2, <2>3, <2>4
<1>3. row.status # "NONE"
  BY DEF SendInvariant, LockHeld, WriteTombstone, LockedPcs
<1>4. CountedReceived' /\ DepartmentIffAudience'
  BY <1>2 DEF SendInvariant, CountedReceived, DepartmentIffAudience, Received,
     WriteTombstone, world
<1> QED
  BY <1>1, <1>2, <1>3, <1>4, RowWritten DEF WriteTombstone

(* send writes SENT and the count.                                         *)
LEMMA SettleStep ==
  ASSUME SendInvariant, NEW w \in Workers, Settle(w)
  PROVE  SendInvariant'
<1>1. \A x \in Workers : x # w => tx[x].pc \notin LockedPcs
  BY OneInside DEF SendInvariant, Settle, LockedPcs, SendPcs, ReadPcs
<1>2. IsFiniteSet(tx[w].got) /\ Cardinality(tx[w].got) \in Nat
  BY AnnouncementConstants, FS_Subset, FS_CardinalityType
  DEF SendInvariant, TypeOK, Txs
<1>3. /\ row' \in Rows /\ row'.stamp > row.stamp /\ row'.status = "SENT"
      /\ row'.text = row.text /\ row'.sentCount = Cardinality(tx[w].got)
      /\ row'.dept = row.dept /\ row'.aud = row.aud
  <2>1. row \in Rows
    BY DEF SendInvariant, TypeOK
  <2>2. row.stamp \in Nat /\ row.stamp + 1 > row.stamp /\ row.stamp + 1 \in Nat
    BY <2>1 DEF Rows
  <2>3. row' \in Rows /\ row'.stamp = row.stamp + 1
    BY <1>2, <2>1, <2>2 DEF Settle, Rows, Statuses
  <2>4. /\ row'.status = "SENT" /\ row'.text = row.text
        /\ row'.sentCount = Cardinality(tx[w].got) /\ row'.dept = row.dept
        /\ row'.aud = row.aud
    BY <2>1 DEF Settle, Rows
  <2> QED
    BY <2>2, <2>3, <2>4
<1>4. row.status # "NONE"
  BY DEF SendInvariant, LockHeld, Settle, LockedPcs, SendPcs, ReadPcs
<1>5. CountedReceived'
  <2>1. tx[w].got \subseteq Received
    BY DEF SendInvariant, GotReceived, Settle, ReadPcs
  <2>2. Received' = Received
    BY <1>3 DEF Received, Settle, world
  <2>3. Cardinality(tx[w].got) <= Cardinality(Received)
    BY <2>1, ReceivedFinite, FS_Subset
  <2> QED
    BY <1>3, <2>2, <2>3 DEF CountedReceived
<1>6. DepartmentIffAudience'
  BY <1>3 DEF SendInvariant, DepartmentIffAudience
<1> QED
  BY <1>1, <1>3, <1>4, <1>5, <1>6, RowWritten DEF Settle

-----------------------------------------------------------------------------
(* A handler takes the free lock of a live row.                            *)
LEMMA LockStep ==
  ASSUME SendInvariant, NEW w \in Workers, NEW t \in Txs, Become(w, t),
         lock = Nobody, lock' = w, Live,
         t.pc \in {"tombstone", "content"},
         t.pc = "content" => row.status = "DRAFT",
         t.got = {}, sends' \in Nat,
         UNCHANGED <<row, live, member, wire, keys, inbox, changes>>
  PROVE  SendInvariant'
<1>1. /\ tx' \in [Workers -> Txs] /\ tx'[w] = t
      /\ \A x \in Workers : x # w => tx'[x] = tx[x]
  BY BecomeType DEF SendInvariant, TypeOK
<1>2. TypeOK'
  BY <1>1 DEF SendInvariant, TypeOK
<1>3. /\ Received' = Received /\ EditionsTrue' /\ CountedReceived'
      /\ DepartmentIffAudience'
  BY RowKept
<1>4. \A x \in Workers : tx[x].pc \notin LockedPcs
  BY AnnouncementConstants DEF SendInvariant, LockHeld
<1>5. LockHeld'
  BY <1>1, <1>4 DEF LockHeld, LockedPcs, SendPcs, ReadPcs, Live
<1>6. ContentFrozen'
  BY <1>1, <1>4 DEF ContentFrozen, LockedPcs, SendPcs, ReadPcs
<1>7. PendingPair'
  BY <1>1 DEF SendInvariant, PendingPair
<1>8. GotReceived'
  BY <1>1, <1>4 DEF GotReceived, LockedPcs, SendPcs, ReadPcs
<1> QED
  BY <1>2, <1>3, <1>5, <1>6, <1>7, <1>8 DEF SendInvariant

(* DELETE takes the lock.                                                  *)
LEMMA RemoveStep ==
  ASSUME SendInvariant, NEW w \in Workers, Remove(w)
  PROVE  SendInvariant'
<1> DEFINE t == [Idle EXCEPT !.pc = "tombstone"]
<1>1. t \in Txs /\ t.pc = "tombstone" /\ t.got = {}
  BY IdleType DEF Idle, Txs, Pcs, LockedPcs
<1>2. /\ Become(w, t) /\ lock = Nobody /\ lock' = w /\ Live
      /\ UNCHANGED <<row, live, member, wire, keys, inbox, sends, changes>>
  BY DEF Remove, world
<1>3. sends' \in Nat
  BY <1>2 DEF SendInvariant, TypeOK
<1> HIDE DEF t
<1> QED
  BY <1>1, <1>2, <1>3, LockStep

(* send takes the lock.                                                    *)
LEMMA SendLockStep ==
  ASSUME SendInvariant, NEW w \in Workers, SendLock(w)
  PROVE  SendInvariant'
<1> DEFINE t == [Idle EXCEPT !.pc = "content"]
<1>1. t \in Txs /\ t.pc = "content" /\ t.got = {}
  BY IdleType DEF Idle, Txs, Pcs, LockedPcs, SendPcs
<1>2. /\ Become(w, t) /\ lock = Nobody /\ lock' = w /\ Live
      /\ row.status = "DRAFT" /\ sends' = sends + 1
      /\ UNCHANGED <<row, live, member, wire, keys, inbox, changes>>
  BY DEF SendLock
<1>3. sends' \in Nat
  BY <1>2 DEF SendInvariant, TypeOK
<1> HIDE DEF t
<1> QED
  BY <1>1, <1>2, <1>3, LockStep

(* send reads the content, or refuses it.                                  *)
LEMMA ContentStep ==
  ASSUME SendInvariant, NEW w \in Workers, ReadContent(w)
  PROVE  SendInvariant'
<1> DEFINE t == [tx[w] EXCEPT !.pc = "recipients", !.text = row.text,
                   !.stamp = row.stamp, !.aud = row.aud, !.dept = row.dept]
<1>1. (Become(w, t) /\ UNCHANGED lock) \/ Rollback(w)
  BY DEF ReadContent
<1>2. tx[w] \in Txs /\ tx[w].pc = "content" /\ UNCHANGED <<row, world>>
  BY DEF ReadContent, SendInvariant, TypeOK
<1>3. CASE Rollback(w)
  BY <1>2, <1>3, RollbackStep DEF world
<1>4. CASE Become(w, t) /\ UNCHANGED lock
  <2>1. row \in Rows
    BY DEF SendInvariant, TypeOK
  <2>2. /\ t \in Txs /\ t.pc = "recipients" /\ t.text = row.text
        /\ t.stamp = row.stamp /\ t.got = tx[w].got
    BY <1>2, <2>1 DEF Txs, Rows, Pcs, LockedPcs, SendPcs, ReadPcs
  <2> HIDE DEF t
  <2>3. /\ tx' \in [Workers -> Txs] /\ tx'[w] = t
        /\ \A x \in Workers : x # w => tx'[x] = tx[x]
    BY <1>4, <2>2, BecomeType DEF SendInvariant, TypeOK
  <2>4. TypeOK'
    BY <1>2, <1>4, <2>3 DEF SendInvariant, TypeOK, world
  <2>5. /\ Received' = Received /\ EditionsTrue' /\ CountedReceived'
        /\ DepartmentIffAudience'
    BY <1>2, RowKept DEF world
  <2>6. LockHeld'
    BY <1>2, <1>4, <2>2, <2>3
    DEF SendInvariant, LockHeld, LockedPcs, SendPcs, ReadPcs
  <2>7. ContentFrozen'
    <3>1. row.status = "DRAFT" /\ ~row.deleted
      BY <1>2 DEF SendInvariant, LockHeld, LockedPcs, SendPcs
    <3> QED
      BY <1>2, <2>2, <2>3, <3>1 DEF SendInvariant, ContentFrozen
  <2>8. PendingPair'
    BY <2>2, <2>3 DEF SendInvariant, PendingPair
  <2>9. GotReceived'
    <3>1. t.got = {}
      BY <1>2, <2>2 DEF SendInvariant, GotReceived
    <3> QED
      BY <2>2, <2>3, <2>5, <3>1 DEF SendInvariant, GotReceived
  <2> QED
    BY <2>4, <2>5, <2>6, <2>7, <2>8, <2>9 DEF SendInvariant
<1> QED
  BY <1>1, <1>3, <1>4

(* send resolves its recipients.                                           *)
LEMMA RecipientsStep ==
  ASSUME SendInvariant, NEW w \in Workers, ResolveRecipients(w)
  PROVE  SendInvariant'
<1> DEFINE t == [tx[w] EXCEPT !.to = Recipients(w),
                   !.pc = IF Recipients(w) = {} THEN "settle" ELSE "attempt"]
<1>1. /\ tx[w] \in Txs /\ tx[w].pc = "recipients" /\ Become(w, t)
      /\ UNCHANGED <<row, lock, live, member, wire, keys, inbox, sends, changes>>
  BY DEF ResolveRecipients, SendInvariant, TypeOK, world
<1>2. Recipients(w) \subseteq Users
  BY DEF Recipients, SendInvariant, TypeOK
<1>3. /\ t \in Txs /\ t.pc \in ReadPcs /\ t.text = tx[w].text
      /\ t.stamp = tx[w].stamp /\ t.got = tx[w].got
  BY <1>1, <1>2 DEF Txs, Pcs, LockedPcs, SendPcs, ReadPcs
<1>4. tx[w].pc \in ReadPcs
  BY <1>1 DEF ReadPcs
<1> HIDE DEF t
<1> QED
  BY <1>1, <1>3, <1>4, InsideStep

(* A chunk fails.                                                          *)
LEMMA FailStep ==
  ASSUME SendInvariant, NEW w \in Workers, tx[w].pc \in ReadPcs, Fail(w),
         wire' \subseteq wire,
         UNCHANGED <<row, live, member, keys, inbox, sends, changes>>
  PROVE  SendInvariant'
<1> DEFINE t == [tx[w] EXCEPT !.pc = "settle"]
<1>1. tx[w] \in Txs
  BY DEF SendInvariant, TypeOK
<1>2. CASE Rollback(w)
  BY <1>2, RollbackStep
<1>3. CASE Become(w, t) /\ UNCHANGED lock
  <2>1. /\ t \in Txs /\ t.pc \in ReadPcs /\ t.text = tx[w].text
        /\ t.stamp = tx[w].stamp /\ t.got = tx[w].got
    BY <1>1 DEF Txs, Pcs, LockedPcs, SendPcs, ReadPcs
  <2> HIDE DEF t
  <2> QED
    BY <1>3, <2>1, InsideStep
<1> QED
  BY <1>2, <1>3 DEF Fail

(* A transient failure: the retry or the end.                              *)
LEMMA TransientStep ==
  ASSUME SendInvariant, NEW w \in Workers, Transient(w)
  PROVE  SendInvariant'
<1> DEFINE t == [tx[w] EXCEPT !.pc = "attempt", !.attempt = @ + 1]
<1>1. /\ tx[w] \in Txs /\ tx[w].pc = "await" /\ tx[w].pc \in ReadPcs
      /\ UNCHANGED <<row, live, member, wire, keys, inbox, sends, changes>>
  BY DEF Transient, SendInvariant, TypeOK, world, ReadPcs
<1>2. CASE tx[w].attempt < 2
  <2>1. Become(w, t) /\ UNCHANGED lock
    BY <1>2 DEF Transient
  <2>2. tx[w].attempt + 1 \in 1..2
    BY <1>1, <1>2 DEF Txs
  <2>3. /\ t \in Txs /\ t.pc \in ReadPcs /\ t.text = tx[w].text
        /\ t.stamp = tx[w].stamp /\ t.got = tx[w].got
    BY <1>1, <2>2 DEF Txs, Pcs, LockedPcs, SendPcs, ReadPcs
  <2> HIDE DEF t
  <2> QED
    BY <1>1, <2>1, <2>3, InsideStep
<1>3. CASE ~(tx[w].attempt < 2)
  BY <1>1, <1>3, FailStep DEF Transient
<1> QED
  BY <1>2, <1>3

(* LINE refuses a chunk.                                                   *)
LEMMA RefuseStep ==
  ASSUME SendInvariant, NEW w \in Workers, LineRefuses(w)
  PROVE  SendInvariant'
BY FailStep DEF LineRefuses, ReadPcs

(* An attempt: a request goes on the wire, or the deadline has passed.     *)
LEMMA AttemptStep ==
  ASSUME SendInvariant, NEW w \in Workers, Attempt(w)
  PROVE  SendInvariant'
<1> DEFINE t == [tx[w] EXCEPT !.pc = "await"]
<1>1. /\ tx[w] \in Txs /\ tx[w].pc = "attempt" /\ tx[w].pc \in ReadPcs
      /\ UNCHANGED <<row, live, member, keys, inbox, sends, changes>>
  BY DEF Attempt, SendInvariant, TypeOK, ReadPcs
<1>2. CASE Fail(w) /\ UNCHANGED wire
  BY <1>1, <1>2, FailStep
<1>3. CASE wire' = wire \cup {Request(w)} /\ Become(w, t) /\ UNCHANGED lock
  <2>1. /\ t \in Txs /\ t.pc = "await" /\ t.text = tx[w].text
        /\ t.stamp = tx[w].stamp /\ t.got = tx[w].got
    BY <1>1 DEF Txs, Pcs, LockedPcs, SendPcs, ReadPcs
  <2> HIDE DEF t
  <2>2. /\ tx' \in [Workers -> Txs] /\ tx'[w] = t
        /\ \A x \in Workers : x # w => tx'[x] = tx[x]
    BY <1>3, <2>1, BecomeType DEF SendInvariant, TypeOK
  <2>3. Current(w) \subseteq Users
    BY <1>1 DEF Current, Chunk, Txs
  <2>4. Request(w) \in [key : Nat \X SUBSET Users, stamp : Nat, text : Texts]
    BY <1>1, <2>3 DEF Request, RetryKey, Txs
  <2>5. TypeOK'
    BY <1>1, <1>3, <2>2, <2>4 DEF SendInvariant, TypeOK
  <2>6. Received' = Received
    BY <1>1 DEF Received
  <2>7. /\ row.status = "DRAFT" /\ row.text = tx[w].text /\ row.stamp = tx[w].stamp
    BY <1>1 DEF SendInvariant, ContentFrozen
  <2>8. /\ Request(w).key[1] = row.stamp /\ Request(w).stamp = row.stamp
        /\ Request(w).text = row.text /\ row.stamp <= row.stamp
    BY <1>1, <2>7 DEF Request, RetryKey, Txs
  <2>9. EditionsTrue'
    <3>1. \A q \in wire' :
            /\ q.key[1] = q.stamp /\ q.stamp <= row.stamp
            /\ q.stamp = row.stamp => q.text = row.text
      BY <1>3, <2>8 DEF SendInvariant, EditionsTrue
    <3> QED
      BY <1>1, <2>6, <2>7, <3>1 DEF SendInvariant, EditionsTrue
  <2>10. LockHeld' /\ ContentFrozen' /\ PendingPair'
    BY <1>1, <1>3, <2>1, <2>2
    DEF SendInvariant, LockHeld, ContentFrozen, PendingPair, LockedPcs,
        SendPcs, ReadPcs
  <2>11. GotReceived'
    BY <1>1, <2>1, <2>2, <2>6 DEF SendInvariant, GotReceived
  <2>12. CountedReceived' /\ DepartmentIffAudience'
    BY <1>1, <2>6 DEF SendInvariant, CountedReceived, DepartmentIffAudience
  <2> QED
    BY <2>5, <2>9, <2>10, <2>11, <2>12 DEF SendInvariant
<1> QED
  BY <1>2, <1>3 DEF Attempt

(* A delivery takes nothing from an inbox, and brings the text.            *)
LEMMA Delivery ==
  ASSUME TypeOK, NEW to \in SUBSET Users, NEW e \in [stamp : Nat, text : Texts],
         UNCHANGED row,
         inbox' = [u \in Users |-> IF u \in to THEN Append(inbox[u], e)
                                   ELSE inbox[u]]
  PROVE  /\ Received \subseteq Received'
         /\ inbox' \in [Users -> Seq([stamp : Nat, text : Texts])]
         /\ e.text = row.text => to \subseteq Received'
<1> DEFINE E == [stamp : Nat, text : Texts]
<1>1. \A u \in Users : inbox[u] \in Seq(E)
  BY DEF TypeOK
<1> HIDE DEF E
<1>2. e \in E
  BY DEF E
<1>3. ASSUME NEW u \in Users, u \in to
      PROVE  /\ Len(inbox'[u]) = Len(inbox[u]) + 1
             /\ Len(inbox[u]) \in Nat
             /\ inbox'[u][Len(inbox[u]) + 1] = e
             /\ \A i \in 1..Len(inbox[u]) : inbox'[u][i] = inbox[u][i]
  <2>1. inbox'[u] = Append(inbox[u], e)
    BY <1>3
  <2> QED
    BY <1>1, <1>2, <2>1
<1>4. ASSUME NEW u \in Received PROVE u \in Received'
  <2>1. u \in Users
    BY DEF Received
  <2>2. PICK i \in 1..Len(inbox[u]) : inbox[u][i].text = row.text
    BY DEF Received
  <2>3. CASE u \in to
    <3>1. i \in 1..Len(inbox'[u]) /\ inbox'[u][i].text = row'.text
      BY <1>3, <2>1, <2>2, <2>3
    <3> QED
      BY <2>1, <3>1 DEF Received
  <2>4. CASE u \notin to
    <3>1. inbox'[u] = inbox[u]
      BY <2>1, <2>4
    <3> QED
      BY <2>1, <2>2, <3>1 DEF Received
  <2> QED
    BY <2>3, <2>4
<1>5. inbox' \in [Users -> Seq(E)]
  BY <1>1, <1>2
<1>6. ASSUME e.text = row.text, NEW u \in to PROVE u \in Received'
  <2>1. u \in Users
    OBVIOUS
  <2>2. Len(inbox[u]) + 1 \in 1..Len(inbox'[u])
    BY <1>3, <2>1
  <2>3. inbox'[u][Len(inbox[u]) + 1].text = row'.text
    BY <1>3, <1>6, <2>1
  <2> QED
    BY <2>1, <2>2, <2>3 DEF Received
<1> QED
  BY <1>4, <1>5, <1>6 DEF E

(* LINE takes a request.                                                   *)
LEMMA ServeStep ==
  ASSUME SendInvariant, NEW q \in wire, LineServes(q)
  PROVE  SendInvariant'
<1>1. /\ q \in [key : Nat \X SUBSET Users, stamp : Nat, text : Texts]
      /\ q.key[1] \in Nat /\ q.key[2] \in SUBSET Users
      /\ q.key \in Nat \X SUBSET Users
      /\ q.text \in Texts /\ q.stamp \in Nat
  BY DEF SendInvariant, TypeOK
<1>2. /\ q.key[1] = q.stamp /\ q.stamp <= row.stamp
      /\ q.stamp = row.stamp => q.text = row.text
  BY DEF SendInvariant, EditionsTrue
<1>3. /\ wire' = wire \ {q} /\ keys' = keys \cup {q.key}
      /\ UNCHANGED <<row, lock, live, member, sends, changes>>
  BY DEF LineServes
<1>4. /\ Received \subseteq Received'
      /\ inbox' \in [Users -> Seq([stamp : Nat, text : Texts])]
      /\ q.stamp = row.stamp => q.key[2] \subseteq Received'
  <2>1. CASE q.key \in keys
    <3>1. inbox' = inbox /\ Received' = Received
      BY <1>3, <2>1 DEF LineServes, Received
    <3>2. q.stamp = row.stamp => q.key[2] \subseteq Received
      BY <1>2, <2>1 DEF SendInvariant, EditionsTrue
    <3> QED
      BY <3>1, <3>2 DEF SendInvariant, TypeOK
  <2>2. CASE q.key \notin keys
    <3> DEFINE e == [stamp |-> q.stamp, text |-> q.text]
    <3>1. /\ inbox' = [u \in Users |-> IF u \in q.key[2] THEN Append(inbox[u], e)
                                       ELSE inbox[u]]
          /\ e \in [stamp : Nat, text : Texts] /\ e.text = q.text
      BY <1>1, <2>2 DEF LineServes
    <3> HIDE DEF e
    <3> QED
      BY <1>1, <1>2, <1>3, <3>1, Delivery DEF SendInvariant
  <2> QED
    BY <2>1, <2>2
<1>5. /\ tx' \in [Workers -> Txs]
      /\ \A w \in Workers :
           \/ tx'[w] = tx[w]
           \/ /\ tx[w].pc = "await" /\ tx'[w].pc \in {"attempt", "settle"}
              /\ tx'[w].text = tx[w].text /\ tx'[w].stamp = tx[w].stamp
              /\ tx'[w].got = tx[w].got \cup q.key[2] /\ tx[w].stamp = q.stamp
  <2>1. CASE UNCHANGED tx
    BY <2>1 DEF SendInvariant, TypeOK
  <2>2. CASE \E w \in Workers : /\ tx[w].pc = "await" /\ Request(w) = q
                                /\ Become(w, Accepted(w))
    <3>1. PICK w \in Workers : /\ tx[w].pc = "await" /\ Request(w) = q
                               /\ Become(w, Accepted(w))
      BY <2>2
    <3>2. tx[w] \in Txs
      BY DEF SendInvariant, TypeOK
    <3>3. q.key[2] = Current(w) /\ q.stamp = tx[w].stamp
      BY <3>1 DEF Request, RetryKey
    <3>4. tx[w].got \cup Current(w) \in SUBSET Users
      BY <1>1, <3>2, <3>3 DEF Txs
    <3>5. /\ Accepted(w) \in Txs /\ Accepted(w).pc \in {"attempt", "settle"}
          /\ Accepted(w).text = tx[w].text /\ Accepted(w).stamp = tx[w].stamp
          /\ Accepted(w).got = tx[w].got \cup Current(w)
      <4> DEFINE g == tx[w].got \cup Current(w)
                 p == IF g = tx[w].to THEN "settle" ELSE "attempt"
      <4>1. Accepted(w) = [tx[w] EXCEPT !.got = g, !.chunk = tx[w].chunk + 1,
                                        !.attempt = 1, !.pc = p]
        BY <3>2 DEF Accepted, Txs
      <4>2. p \in {"attempt", "settle"} /\ p \in Pcs
        BY DEF Pcs, LockedPcs, SendPcs, ReadPcs
      <4>3. g \in SUBSET Users /\ tx[w].chunk + 1 \in Nat /\ 1 \in 1..2
        BY <3>2, <3>4 DEF Txs
      <4> HIDE DEF g, p
      <4>4. Accepted(w) \in Txs
        BY <3>2, <4>1, <4>2, <4>3 DEF Txs
      <4>5. /\ Accepted(w).pc = p /\ Accepted(w).text = tx[w].text
            /\ Accepted(w).stamp = tx[w].stamp /\ Accepted(w).got = g
        BY <3>2, <4>1 DEF Txs
      <4> QED
        BY <4>2, <4>4, <4>5 DEF g
    <3>6. /\ tx' \in [Workers -> Txs] /\ tx'[w] = Accepted(w)
          /\ \A x \in Workers : x # w => tx'[x] = tx[x]
      BY <3>1, <3>5, BecomeType DEF SendInvariant, TypeOK
    <3> QED
      BY <3>1, <3>3, <3>5, <3>6
  <2> QED
    BY <2>1, <2>2 DEF LineServes
<1>6. TypeOK'
  BY <1>1, <1>3, <1>4, <1>5 DEF SendInvariant, TypeOK
<1>7. LockHeld'
  BY <1>3, <1>5 DEF SendInvariant, LockHeld, LockedPcs, SendPcs, ReadPcs
<1>8. ContentFrozen'
  BY <1>3, <1>5 DEF SendInvariant, ContentFrozen, ReadPcs
<1>9. PendingPair'
  BY <1>5 DEF SendInvariant, PendingPair
<1>10. EditionsTrue'
  <2>1. \A x \in wire' : /\ x.key[1] = x.stamp /\ x.stamp <= row'.stamp
                         /\ (x.stamp = row'.stamp => x.text = row'.text)
    BY <1>3 DEF SendInvariant, EditionsTrue
  <2>2. \A k \in keys' : /\ k[1] <= row'.stamp
                         /\ (k[1] = row'.stamp => k[2] \subseteq Received')
    BY <1>2, <1>3, <1>4 DEF SendInvariant, EditionsTrue
  <2>3. row'.status # "NONE"
    BY <1>3 DEF SendInvariant, EditionsTrue
  <2> QED
    BY <2>1, <2>2, <2>3 DEF EditionsTrue
<1>11. GotReceived'
  <2> SUFFICES ASSUME NEW w \in Workers
               PROVE  /\ tx'[w].pc = "content" => tx'[w].got = {}
                      /\ tx'[w].pc \in ReadPcs => tx'[w].got \subseteq Received'
    BY DEF GotReceived
  <2>1. CASE tx'[w] = tx[w]
    BY <1>4, <2>1 DEF SendInvariant, GotReceived
  <2>2. CASE tx'[w] # tx[w]
    <3>1. /\ tx[w].pc = "await" /\ tx'[w].pc \in {"attempt", "settle"}
          /\ tx'[w].got = tx[w].got \cup q.key[2] /\ tx[w].stamp = q.stamp
      BY <1>5, <2>2
    <3>2. tx[w].got \subseteq Received /\ tx[w].stamp = row.stamp
      BY <3>1 DEF SendInvariant, GotReceived, ContentFrozen, ReadPcs
    <3> QED
      BY <1>4, <3>1, <3>2
  <2> QED
    BY <2>1, <2>2
<1>12. CountedReceived'
  <2>1. Cardinality(Received) <= Cardinality(Received')
    <3>1. IsFiniteSet(Received')
      BY AnnouncementConstants, FS_Subset DEF Received
    <3> QED
      BY <1>4, <3>1, FS_Subset
  <2>2. Cardinality(Received) \in Nat /\ Cardinality(Received') \in Nat
    <3>1. IsFiniteSet(Received')
      BY AnnouncementConstants, FS_Subset DEF Received
    <3> QED
      BY <3>1, ReceivedFinite, FS_CardinalityType
  <2>3. /\ row'.status = row.status /\ row'.sentCount = row.sentCount
        /\ row.sentCount \in Nat
    BY <1>3 DEF SendInvariant, TypeOK, Rows
  <2> QED
    BY <2>1, <2>2, <2>3 DEF SendInvariant, CountedReceived
<1>13. DepartmentIffAudience'
  BY <1>3 DEF SendInvariant, DepartmentIffAudience
<1> QED
  BY <1>6, <1>7, <1>8, <1>9, <1>10, <1>11, <1>12, <1>13 DEF SendInvariant

(* What happens around the handlers: a key forgotten, a department         *)
(* deleted, a user gained or lost.                                         *)
LEMMA AroundStep ==
  ASSUME SendInvariant, keys' \subseteq keys, live' \subseteq Departments,
         member' \subseteq Users, changes' \in Nat,
         UNCHANGED <<row, lock, tx, wire, inbox, sends>>
  PROVE  SendInvariant'
<1>1. /\ Received' = Received /\ EditionsTrue' /\ CountedReceived'
      /\ DepartmentIffAudience'
  BY RowKept
<1>2. TypeOK'
  BY DEF SendInvariant, TypeOK
<1>3. LockHeld' /\ ContentFrozen' /\ PendingPair' /\ GotReceived'
  BY <1>1 DEF SendInvariant, LockHeld, ContentFrozen, PendingPair, GotReceived
<1> QED
  BY <1>1, <1>2, <1>3 DEF SendInvariant

-----------------------------------------------------------------------------
(* The initial state: no row, nobody under way, nothing at LINE.           *)
LEMMA InitInvariant == Init => SendInvariant
<1> SUFFICES ASSUME Init PROVE SendInvariant
  OBVIOUS
<1>1. row = NoRow /\ NoRow \in Rows
  BY AnnouncementConstants DEF Init, NoRow, Rows, Statuses, Audiences, DeptIds
<1>2. \A w \in Workers : tx[w] = Idle /\ tx[w].pc = "idle"
  BY DEF Init, Idle
<1>3. TypeOK
  BY <1>1, IdleType DEF Init, TypeOK
<1>4. LockHeld /\ ContentFrozen /\ PendingPair /\ GotReceived
  BY <1>2, AnnouncementConstants DEF Init, LockHeld, ContentFrozen, PendingPair,
     GotReceived, LockedPcs, SendPcs, ReadPcs
<1>5. EditionsTrue /\ CountedReceived /\ DepartmentIffAudience
  BY <1>1 DEF Init, EditionsTrue, CountedReceived, DepartmentIffAudience, NoRow
<1> QED
  BY <1>3, <1>4, <1>5 DEF SendInvariant

(* Every step keeps the invariant.                                         *)
LEMMA NextInvariant == SendInvariant /\ [Next]_vars => SendInvariant'
<1> SUFFICES ASSUME SendInvariant, [Next]_vars PROVE SendInvariant'
  OBVIOUS
<1>1. ASSUME NEW w \in Workers, Handler(w) PROVE SendInvariant'
  <2>1. ASSUME NEW dto \in Patches, Create(w, dto) \/ Update(w, dto)
        PROVE  SendInvariant'
    BY <2>1, CreateStep, UpdateStep
  <2>2. CASE Insert(w) \/ ResolveDepartment(w) \/ WriteUpdate(w)
    BY <2>2, InsertStep, ResolveStep, WriteUpdateStep
  <2>3. CASE Remove(w) \/ WriteTombstone(w)
    BY <2>3, RemoveStep, TombstoneStep
  <2>4. CASE SendLock(w) \/ SendStep(w)
    BY <2>4, SendLockStep, ContentStep, RecipientsStep, AttemptStep,
       TransientStep, SettleStep DEF SendStep
  <2>5. CASE LineRefuses(w)
    BY <2>5, RefuseStep
  <2>6. CASE Crash(w)
    <3>1. /\ Rollback(w)
          /\ UNCHANGED <<row, live, member, wire, keys, inbox, sends, changes>>
      BY <2>6 DEF Crash, world
    <3> QED
      BY <3>1, RollbackStep
  <2> QED
    BY <1>1, <2>1, <2>2, <2>3, <2>4, <2>5, <2>6 DEF Handler
<1>2. ASSUME NEW q \in wire, LineServes(q) PROVE SendInvariant'
  BY <1>2, ServeStep
<1>3. ASSUME NEW k \in keys, LineForgets(k) PROVE SendInvariant'
  <2>1. /\ keys' \subseteq keys /\ live' \subseteq Departments
        /\ member' \subseteq Users /\ changes' \in Nat
        /\ UNCHANGED <<row, lock, tx, wire, inbox, sends>>
    BY <1>3 DEF LineForgets, SendInvariant, TypeOK
  <2> QED
    BY <2>1, AroundStep
<1>4. ASSUME NEW d \in Departments, DeleteDepartment(d) PROVE SendInvariant'
  <2>1. /\ keys' \subseteq keys /\ live' \subseteq Departments
        /\ member' \subseteq Users /\ changes' \in Nat
        /\ UNCHANGED <<row, lock, tx, wire, inbox, sends>>
    BY <1>4 DEF DeleteDepartment, SendInvariant, TypeOK
  <2> QED
    BY <2>1, AroundStep
<1>5. ASSUME NEW u \in Users, ChangeMember(u) PROVE SendInvariant'
  <2>1. /\ keys' \subseteq keys /\ live' \subseteq Departments
        /\ member' \subseteq Users /\ changes' \in Nat
        /\ UNCHANGED <<row, lock, tx, wire, inbox, sends>>
    BY <1>5 DEF ChangeMember, SendInvariant, TypeOK
  <2> QED
    BY <2>1, AroundStep
<1>6. CASE UNCHANGED vars
  <2>1. /\ keys' \subseteq keys /\ live' \subseteq Departments
        /\ member' \subseteq Users /\ changes' \in Nat
        /\ UNCHANGED <<row, lock, tx, wire, inbox, sends>>
    BY <1>6 DEF vars, SendInvariant, TypeOK
  <2> QED
    BY <2>1, AroundStep
<1> QED
  BY <1>1, <1>2, <1>3, <1>4, <1>5, <1>6 DEF Next

(* The inductive invariant holds throughout.                               *)
THEOREM SendInvariantHolds == Spec => []SendInvariant
BY InitInvariant, NextInvariant, PTL DEF Spec

(* The variables of the announcements model keep their types.              *)
THEOREM AnnouncementTypes == Spec => []TypeOK
<1>1. SendInvariant => TypeOK
  BY DEF SendInvariant
<1> QED
  BY <1>1, SendInvariantHolds, PTL

(* While send is inside its LINE calls, no PATCH, DELETE or other send     *)
(* changes what it is sending.                                             *)
THEOREM ContentIsFrozen == Spec => []ContentFrozen
<1>1. SendInvariant => ContentFrozen
  BY DEF SendInvariant
<1> QED
  BY <1>1, SendInvariantHolds, PTL

(* sentCount of a SENT row never overstates how many users have received   *)
(* the recorded text, even when keys are forgotten and recipients change.  *)
THEOREM CountIsHonest == Spec => []CountedReceived
<1>1. SendInvariant => CountedReceived
  BY DEF SendInvariant
<1> QED
  BY <1>1, SendInvariantHolds, PTL

(* The department is set exactly for the audience DEPARTMENT.              *)
THEOREM DepartmentFollowsAudience == Spec => []DepartmentIffAudience
<1>1. SendInvariant => DepartmentIffAudience
  BY DEF SendInvariant
<1> QED
  BY <1>1, SendInvariantHolds, PTL

(* A SENT row changes only by its soft deletion, and that is final.        *)
THEOREM SentStaysSent == Spec => SentIsFinal
<1> DEFINE Final == /\ row.status = "SENT" =>
                         \A f \in {"status", "text", "aud", "dept", "sentCount"} :
                           row'[f] = row[f]
                    /\ row.deleted => row' = row
<1>1. SendInvariant /\ [Next]_vars => [Final]_vars
  <2> SUFFICES ASSUME SendInvariant, Next PROVE Final
    BY DEF vars
  <2>1. row \in Rows
    BY DEF SendInvariant, TypeOK
  <2>2. CASE UNCHANGED row
    BY <2>2
  <2>3. ASSUME NEW w \in Workers, Insert(w) PROVE Final
    <3>1. row.status = "NONE"
      BY <2>3 DEF Insert
    <3>2. ~row.deleted
      BY <3>1 DEF SendInvariant, EditionsTrue
    <3> QED
      BY <3>1, <3>2
  <2>4. ASSUME NEW w \in Workers, WriteUpdate(w) PROVE Final
    BY <2>4 DEF WriteUpdate, Editable
  <2>5. ASSUME NEW w \in Workers, WriteTombstone(w) PROVE Final
    <3>1. ~row.deleted
      BY <2>5 DEF SendInvariant, LockHeld, WriteTombstone, LockedPcs
    <3>2. row' = [row EXCEPT !.deleted = TRUE, !.stamp = @ + 1]
      BY <2>5 DEF WriteTombstone
    <3> QED
      BY <2>1, <3>1, <3>2 DEF Rows
  <2>6. ASSUME NEW w \in Workers, Settle(w) PROVE Final
    BY <2>6 DEF SendInvariant, LockHeld, Settle, LockedPcs, SendPcs, ReadPcs
  <2>7. \/ UNCHANGED row
        \/ \E w \in Workers :
             Insert(w) \/ WriteUpdate(w) \/ WriteTombstone(w) \/ Settle(w)
    BY DEF Next, Handler, SendStep, Create, Update, ResolveDepartment, Remove,
       SendLock, ReadContent, ResolveRecipients, Attempt, Transient, LineRefuses,
       Crash, LineServes, LineForgets, DeleteDepartment, ChangeMember
  <2> QED
    BY <2>2, <2>3, <2>4, <2>5, <2>6, <2>7
<1> QED
  BY <1>1, SendInvariantHolds, PTL DEF Spec, SentIsFinal

-----------------------------------------------------------------------------
(* Two chunks of the same recipients are the same, or have nobody in       *)
(* common: a user's place among them decides his chunk.                    *)
LEMMA ChunksDiffer ==
  ASSUME NEW R, NEW i, NEW j
  PROVE  Chunk(R, i) = Chunk(R, j) \/ Chunk(R, i) \cap Chunk(R, j) = {}
BY DEF Chunk

(* Steps that leave LINE's side, the row and the recipients alone.         *)
LEMMA ResendQuiet ==
  ASSUME ResendInvariant, SendInvariant', NEW w \in Workers,
         UNCHANGED <<row, live, member, keys, inbox>>, wire' \subseteq wire,
         \A x \in Workers : x # w => tx'[x] = tx[x],
         tx'[w].pc = "recipients" => tx'[w].aud = row.aud /\ tx'[w].dept = row.dept,
         tx'[w].pc \in {"attempt", "await"} => tx'[w].to = EditionRecipients
  PROVE  ResendInvariant'
<1>1. EditionRecipients' = EditionRecipients
  BY DEF EditionRecipients
<1>2. UsedKeys' \subseteq UsedKeys
  BY DEF UsedKeys
<1>3. SameRecipients'
  BY <1>1 DEF ResendInvariant, SameRecipients
<1>4. ChunksApart'
  <2>1. \A i : Chunk(EditionRecipients, i)' = Chunk(EditionRecipients, i)
    BY <1>1 DEF Chunk
  <2> QED
    BY <1>2, <2>1 DEF ResendInvariant, ChunksApart
<1>5. DeliveredByKey' /\ ResendIsSafe'
  BY DEF ResendInvariant, DeliveredByKey, ResendIsSafe
<1> QED
  BY <1>3, <1>4, <1>5 DEF ResendInvariant

(* The row is inserted, or becomes another edition: nothing of that one is *)
(* under way.                                                              *)
LEMMA ResendEdition ==
  ASSUME ResendInvariant, SendInvariant', NEW w \in Workers,
         UNCHANGED <<live, member, keys, inbox, wire>>, End(w),
         row.status = "NONE" \/ row'.stamp = row.stamp + 1
  PROVE  ResendInvariant'
<1>1. /\ tx'[w].pc = "idle" /\ \A x \in Workers : x # w => tx'[x] = tx[x]
  BY EndType DEF ResendInvariant, SendInvariant, TypeOK
<1>2. row.stamp \in Nat /\ UsedKeys' = UsedKeys
  BY DEF ResendInvariant, SendInvariant, TypeOK, Rows, UsedKeys
<1>3. SameRecipients'
  <2>1. \A x \in Workers : tx'[x].pc \notin ReadPcs
    <3>1. SUFFICES ASSUME NEW x \in Workers, tx'[x].pc \in ReadPcs
                   PROVE  FALSE
      OBVIOUS
    <3>2. tx'[x] = tx[x] /\ tx[x].pc \in ReadPcs
      BY <1>1, <3>1 DEF ReadPcs
    <3>3. row.status = "DRAFT" /\ row.stamp = tx[x].stamp /\ row'.stamp = tx'[x].stamp
      BY <3>1, <3>2 DEF ResendInvariant, SendInvariant, ContentFrozen
    <3> QED
      BY <1>2, <3>2, <3>3
  <2> QED
    BY <2>1 DEF SameRecipients, ReadPcs
<1>4. \A k \in UsedKeys : k[1] # row'.stamp
  <2>1. CASE row.status = "NONE"
    BY <2>1 DEF ResendInvariant, SendInvariant, EditionsTrue, UsedKeys
  <2>2. CASE row'.stamp = row.stamp + 1
    <3>1. \A k \in UsedKeys : k[1] <= row.stamp /\ k[1] \in Nat
      BY DEF ResendInvariant, SendInvariant, TypeOK, EditionsTrue, UsedKeys
    <3> QED
      BY <1>2, <2>2, <3>1
  <2> QED
    BY <2>1, <2>2
<1>5. ChunksApart'
  BY <1>2, <1>4 DEF ResendInvariant, ChunksApart
<1>6. DeliveredByKey' /\ ResendIsSafe'
  BY DEF ResendInvariant, DeliveredByKey, ResendIsSafe
<1> QED
  BY <1>3, <1>5, <1>6 DEF ResendInvariant

(* An attempt sends a chunk of the edition's recipients under its key.     *)
LEMMA ResendAttempt ==
  ASSUME ResendInvariant, SendInvariant', NEW w \in Workers, tx[w].pc = "attempt",
         wire' = wire \cup {Request(w)}, Become(w, [tx[w] EXCEPT !.pc = "await"]),
         UNCHANGED <<row, live, member, keys, inbox>>
  PROVE  ResendInvariant'
<1>1. tx[w] \in Txs /\ tx[w].chunk \in Nat /\ tx \in [Workers -> Txs]
  BY DEF ResendInvariant, SendInvariant, TypeOK, Txs
<1>2. tx[w].to = EditionRecipients /\ tx[w].stamp = row.stamp
  BY DEF ResendInvariant, SameRecipients, SendInvariant, ContentFrozen, ReadPcs
<1>3. /\ EditionRecipients' = EditionRecipients
      /\ \A x \in Workers : x # w => tx'[x] = tx[x]
      /\ tx'[w].to = tx[w].to /\ tx'[w].pc = "await"
  BY <1>1 DEF EditionRecipients, Become, Txs
<1>4. SameRecipients'
  BY <1>2, <1>3 DEF ResendInvariant, SameRecipients
<1> DEFINE c == Chunk(EditionRecipients, tx[w].chunk)
<1>5. UsedKeys' = UsedKeys \cup {<<row.stamp, c>>}
  <2>1. Request(w).key = <<row.stamp, c>>
    BY <1>2 DEF Request, RetryKey, Current
  <2> HIDE DEF c
  <2> QED
    BY <2>1 DEF UsedKeys
<1>6. ChunksApart'
  <2>1. ASSUME NEW k \in UsedKeys, k[1] = row.stamp
        PROVE  k[2] \cap c = {} \/ k[2] = c
    <3>1. PICK i \in Nat : k[2] = Chunk(EditionRecipients, i)
      BY <2>1 DEF ResendInvariant, ChunksApart
    <3> QED
      BY <3>1, ChunksDiffer
  <2>2. \A k \in UsedKeys : k = <<k[1], k[2]>>
    BY DEF ResendInvariant, SendInvariant, TypeOK, UsedKeys
  <2>3. \A k \in UsedKeys' : k[1] = row'.stamp => \E i \in Nat : k[2] = Chunk(EditionRecipients, i)'
    <3>1. \A i : Chunk(EditionRecipients, i)' = Chunk(EditionRecipients, i)
      BY <1>3 DEF Chunk
    <3>2. \A k \in UsedKeys : k[1] = row.stamp => \E i \in Nat : k[2] = Chunk(EditionRecipients, i)
      BY DEF ResendInvariant, ChunksApart
    <3>3. <<row.stamp, c>>[2] = c
      OBVIOUS
    <3> QED
      BY <1>1, <1>5, <3>1, <3>2, <3>3
  <2>4. ChunksApart!2
    BY DEF ResendInvariant, ChunksApart
  <2>5. \A k \in UsedKeys', l \in UsedKeys' : k[1] = l[1] => k = l \/ k[2] \cap l[2] = {}
    <3> HIDE DEF c
    <3> QED
      BY <1>5, <2>1, <2>2, <2>4
  <2> QED
    BY <2>3, <2>5 DEF ChunksApart
<1>7. DeliveredByKey' /\ ResendIsSafe'
  BY DEF ResendInvariant, DeliveredByKey, ResendIsSafe
<1> QED
  BY <1>4, <1>6, <1>7 DEF ResendInvariant

(* LINE takes a key it does not know: nobody it is for has received the    *)
(* edition.                                                                *)
LEMMA ResendServe ==
  ASSUME ResendInvariant, SendInvariant', NEW q \in wire, LineServes(q)
  PROVE  ResendInvariant'
<1>1. /\ q \in [key : Nat \X SUBSET Users, stamp : Nat, text : Texts]
      /\ q.key[1] = q.stamp /\ q.key \in UsedKeys /\ q.key[2] \subseteq Users
      /\ inbox \in [Users -> Seq([stamp : Nat, text : Texts])]
      /\ tx \in [Workers -> Txs]
  BY DEF ResendInvariant, SendInvariant, TypeOK, EditionsTrue, UsedKeys
<1>2. /\ UNCHANGED <<row, live, member>> /\ EditionRecipients' = EditionRecipients
      /\ keys \subseteq keys' /\ UsedKeys' \subseteq UsedKeys
  BY DEF LineServes, EditionRecipients, UsedKeys
<1>3. SameRecipients'
  <2>1. CASE UNCHANGED tx
    BY <1>2, <2>1 DEF ResendInvariant, SameRecipients
  <2>2. ASSUME NEW w \in Workers, tx[w].pc = "await", Become(w, Accepted(w))
        PROVE  SameRecipients'
    <3>1. /\ \A x \in Workers : x # w => tx'[x] = tx[x]
          /\ tx'[w].to = tx[w].to /\ tx'[w].pc \in {"settle", "attempt"}
      BY <1>1, <2>2 DEF Become, Accepted, Txs
    <3> QED
      BY <1>2, <2>2, <3>1 DEF ResendInvariant, SameRecipients
  <2> QED
    BY <2>1, <2>2 DEF LineServes
<1>4. ChunksApart'
  BY <1>2 DEF ResendInvariant, ChunksApart, Chunk
<1>5. CASE q.key \in keys
  <2>1. UNCHANGED <<keys, inbox>>
    BY <1>5 DEF LineServes
  <2> QED
    BY <1>3, <1>4, <2>1 DEF ResendInvariant, DeliveredByKey, ResendIsSafe
<1>6. CASE q.key \notin keys
  <2> DEFINE e == [stamp |-> q.stamp, text |-> q.text]
  <2>1. /\ keys' = keys \cup {q.key}
        /\ inbox' = [u \in Users |-> IF u \in q.key[2] THEN Append(inbox[u], e) ELSE inbox[u]]
    BY <1>6 DEF LineServes
  <2>2. ASSUME NEW u \in Users, u \in q.key[2]
        PROVE  \A i \in 1..Len(inbox[u]) : inbox[u][i].stamp # q.stamp
    <3>1. SUFFICES ASSUME NEW i \in 1..Len(inbox[u]), inbox[u][i].stamp = q.stamp
                   PROVE  FALSE
      OBVIOUS
    <3>2. PICK k \in keys : k[1] = q.stamp /\ u \in k[2]
      BY <3>1 DEF ResendInvariant, DeliveredByKey
    <3>3. k \in UsedKeys /\ k # q.key
      BY <1>6 DEF UsedKeys
    <3>4. \A l, m \in UsedKeys : l[1] = m[1] => l = m \/ l[2] \cap m[2] = {}
      BY DEF ResendInvariant, ChunksApart
    <3> QED
      BY <1>1, <2>2, <3>2, <3>3, <3>4
  <2>3. ASSUME NEW u \in Users
        PROVE  \/ inbox'[u] = inbox[u]
               \/ /\ u \in q.key[2] /\ Len(inbox[u]) \in Nat
                  /\ Len(inbox'[u]) = Len(inbox[u]) + 1
                  /\ inbox'[u][Len(inbox[u]) + 1].stamp = q.stamp
                  /\ \A i \in 1..Len(inbox[u]) : inbox'[u][i] = inbox[u][i]
    <3>1. CASE u \in q.key[2]
      <4>1. PICK s \in Seq([stamp : Nat, text : Texts]) : s = inbox[u]
        BY <1>1
      <4>2. e \in [stamp : Nat, text : Texts] /\ e.stamp = q.stamp
        BY <1>1
      <4> HIDE DEF e
      <4>3. inbox'[u] = Append(s, e)
        BY <2>1, <3>1, <4>1
      <4> QED
        BY <3>1, <4>1, <4>2, <4>3
    <3> QED
      BY <2>1, <3>1
  <2> HIDE DEF e
  <2>4. DeliveredByKey'
    <3> SUFFICES ASSUME NEW u \in Users, NEW i \in 1..Len(inbox'[u])
                 PROVE  \E k \in keys' : k[1] = inbox'[u][i].stamp /\ u \in k[2]
      BY DEF DeliveredByKey
    <3>1. ASSUME i \in 1..Len(inbox[u]), inbox'[u][i] = inbox[u][i]
          PROVE  \E k \in keys' : k[1] = inbox'[u][i].stamp /\ u \in k[2]
      BY <2>1, <3>1 DEF ResendInvariant, DeliveredByKey
    <3>2. CASE inbox'[u] = inbox[u]
      BY <3>1, <3>2
    <3>3. CASE inbox'[u] # inbox[u]
      <4>1. i \in 1..Len(inbox[u]) \/ i = Len(inbox[u]) + 1
        BY <2>3, <3>3
      <4> QED
        BY <1>1, <2>1, <2>3, <3>1, <3>3, <4>1
    <3> QED
      BY <3>2, <3>3
  <2>5. ResendIsSafe'
    <3> SUFFICES ASSUME NEW u \in Users, NEW i \in 1..Len(inbox'[u]), NEW j \in 1..Len(inbox'[u]),
                        inbox'[u][i].stamp = inbox'[u][j].stamp
                 PROVE  i = j
      BY DEF ResendIsSafe
    <3>1. CASE inbox'[u] = inbox[u]
      BY <3>1 DEF ResendInvariant, ResendIsSafe
    <3>2. CASE inbox'[u] # inbox[u]
      <4>1. /\ i \in 1..Len(inbox[u]) \/ i = Len(inbox[u]) + 1
            /\ j \in 1..Len(inbox[u]) \/ j = Len(inbox[u]) + 1
        BY <2>3, <3>2
      <4>2. CASE i \in 1..Len(inbox[u]) /\ j \in 1..Len(inbox[u])
        BY <2>3, <3>2, <4>2 DEF ResendInvariant, ResendIsSafe
      <4>3. CASE i \in 1..Len(inbox[u]) /\ j = Len(inbox[u]) + 1
        BY <2>2, <2>3, <3>2, <4>3
      <4>4. CASE i = Len(inbox[u]) + 1 /\ j \in 1..Len(inbox[u])
        BY <2>2, <2>3, <3>2, <4>4
      <4> QED
        BY <4>1, <4>2, <4>3, <4>4
    <3> QED
      BY <3>1, <3>2
  <2> QED
    BY <1>3, <1>4, <2>4, <2>5 DEF ResendInvariant
<1> QED
  BY <1>5, <1>6

LEMMA ResendInit == Init => ResendInvariant
<1> SUFFICES ASSUME Init
             PROVE  ResendInvariant
  OBVIOUS
<1>1. SendInvariant
  BY InitInvariant
<1>2. UsedKeys = {} /\ \A w \in Workers : tx[w].pc = "idle"
  BY DEF Init, UsedKeys, Idle
<1>3. SameRecipients /\ ChunksApart
  BY <1>2 DEF SameRecipients, ChunksApart
<1>4. \A u \in Users : Len(inbox[u]) = 0
  BY DEF Init
<1>5. DeliveredByKey /\ ResendIsSafe
  BY <1>4 DEF DeliveredByKey, ResendIsSafe
<1> QED
  BY <1>1, <1>3, <1>5 DEF ResendInvariant

LEMMA ResendNext ==
  ASSUME ResendInvariant, [SteadyNext]_vars
  PROVE  ResendInvariant'
<1>1. SendInvariant /\ [Next]_vars
  BY DEF ResendInvariant, SteadyNext, Next
<1>2. SendInvariant' /\ tx \in [Workers -> Txs] /\ tx' \in [Workers -> Txs]
  <2>1. SendInvariant'
    BY <1>1, NextInvariant
  <2> QED
    BY <1>1, <2>1 DEF SendInvariant, TypeOK
<1>3. CASE UNCHANGED vars
  <2>1. EditionRecipients' = EditionRecipients /\ UsedKeys' = UsedKeys
    BY <1>3 DEF vars, EditionRecipients, UsedKeys
  <2>2. \A i : Chunk(EditionRecipients, i)' = Chunk(EditionRecipients, i)
    BY <2>1 DEF Chunk
  <2>3. ChunksApart'
    BY <1>3, <2>1, <2>2 DEF vars, ResendInvariant, ChunksApart
  <2>4. SameRecipients' /\ DeliveredByKey' /\ ResendIsSafe'
    BY <1>3, <2>1 DEF vars, ResendInvariant, SameRecipients, DeliveredByKey, ResendIsSafe
  <2> QED
    BY <1>2, <2>3, <2>4 DEF ResendInvariant
<1>4. ASSUME NEW q \in wire, LineServes(q)
      PROVE  ResendInvariant'
  BY <1>2, <1>4, ResendServe
<1>5. ASSUME NEW w \in Workers, Handler(w)
      PROVE  ResendInvariant'
  <2>1. tx[w] \in Txs /\ row \in Rows
    BY <1>1 DEF SendInvariant, TypeOK
  <2>2. ASSUME NEW t, Become(w, t), t.pc \notin {"recipients", "attempt", "await"}, wire' \subseteq wire,
               UNCHANGED <<row, live, member, keys, inbox>>
        PROVE  ResendInvariant'
    <3>1. tx'[w] = t /\ \A x \in Workers : x # w => tx'[x] = tx[x]
      BY <1>2, <2>2 DEF Become
    <3> QED
      BY <1>2, <2>2, <3>1, ResendQuiet
  <2>3. ASSUME End(w), UNCHANGED <<row, live, member, keys, inbox>>, wire' \subseteq wire
        PROVE  ResendInvariant'
    BY <1>2, <2>2, <2>3, EndType DEF End, Become, Idle
  <2>4. ASSUME Fail(w), UNCHANGED <<row, live, member, keys, inbox>>, wire' \subseteq wire
        PROVE  ResendInvariant'
    <3>1. [tx[w] EXCEPT !.pc = "settle"].pc = "settle"
      BY <2>1 DEF Txs
    <3> QED
      BY <2>2, <2>3, <2>4, <3>1 DEF Fail, Rollback
  <2>5. CASE \E dto \in Patches : Create(w, dto) \/ Update(w, dto)
    <3>1. PICK dto \in Patches : Create(w, dto) \/ Update(w, dto)
      BY <2>5
    <3>2. \E t : t.pc \in {"insert", "resolve"} /\ Become(w, t)
      <4>1. CASE Create(w, dto)
        <5> DEFINE aud == IF dto.aud = Absent THEN "ALL" ELSE dto.aud
                   t == [Idle EXCEPT !.pc = "insert", !.dto = dto, !.aud = aud,
                           !.dept = DepartmentId(aud, dto.dept, None)]
        <5>1. Become(w, t)
          BY <4>1 DEF Create
        <5>2. t.pc = "insert"
          BY DEF Idle
        <5> HIDE DEF t
        <5> QED
          BY <5>1, <5>2
      <4>2. CASE Update(w, dto)
        <5> DEFINE t == [Idle EXCEPT !.pc = "resolve", !.dto = dto, !.dept = row.dept,
                           !.aud = IF dto.aud = Absent THEN row.aud ELSE dto.aud]
        <5>1. Become(w, t)
          BY <4>2 DEF Update
        <5>2. t.pc = "resolve"
          BY DEF Idle
        <5> HIDE DEF t
        <5> QED
          BY <5>1, <5>2
      <4> QED
        BY <3>1, <4>1, <4>2
    <3> QED
      BY <2>2, <3>1, <3>2 DEF Create, Update, world
  <2>6. CASE ResolveDepartment(w)
    <3>1. End(w) \/ \E t : t.pc = "write" /\ Become(w, t)
      BY <2>1, <2>6 DEF ResolveDepartment, Txs
    <3> QED
      BY <2>2, <2>3, <2>6, <3>1 DEF ResolveDepartment, world
  <2>7. CASE Remove(w) \/ SendLock(w)
    <3>1. \E t : t.pc \in {"tombstone", "content"} /\ Become(w, t)
      BY <2>7 DEF Remove, SendLock, Idle
    <3> QED
      BY <2>2, <2>7, <3>1 DEF Remove, SendLock, world
  <2>8. CASE Insert(w) \/ WriteUpdate(w) \/ WriteTombstone(w) \/ Settle(w)
    <3>1. End(w) /\ UNCHANGED <<live, member, keys, inbox, wire>>
      BY <2>8 DEF Insert, WriteUpdate, WriteTombstone, Settle, world
    <3>2. row.status = "NONE" \/ row' = row \/ row'.stamp = row.stamp + 1
      BY <2>1, <2>8 DEF Insert, WriteUpdate, Edited, WriteTombstone, Settle, Rows
    <3> QED
      BY <1>2, <2>3, <3>1, <3>2, ResendEdition
  <2>9. CASE ReadContent(w)
    <3> DEFINE t == [tx[w] EXCEPT !.pc = "recipients", !.text = row.text,
                       !.stamp = row.stamp, !.aud = row.aud, !.dept = row.dept]
    <3>1. t.pc = "recipients" /\ t.aud = row.aud /\ t.dept = row.dept
      BY <2>1 DEF Txs
    <3>2. Become(w, t) \/ End(w)
      BY <2>9 DEF ReadContent, Rollback
    <3> HIDE DEF t
    <3>3. CASE Become(w, t)
      <4>1. tx'[w] = t /\ \A x \in Workers : x # w => tx'[x] = tx[x]
        BY <1>2, <3>3 DEF Become
      <4> QED
        BY <1>2, <2>9, <3>1, <4>1, ResendQuiet DEF ReadContent, world
    <3> QED
      BY <2>3, <2>9, <3>2, <3>3 DEF ReadContent, world
  <2>10. CASE ResolveRecipients(w)
    <3> DEFINE t == [tx[w] EXCEPT !.to = Recipients(w),
                       !.pc = IF Recipients(w) = {} THEN "settle" ELSE "attempt"]
    <3>1. tx[w].aud = row.aud /\ tx[w].dept = row.dept
      BY <2>10 DEF ResendInvariant, SameRecipients, ResolveRecipients
    <3>2. t.pc # "recipients" /\ t.to = EditionRecipients
      BY <2>1, <3>1 DEF Txs, Recipients, EditionRecipients
    <3>3. Become(w, t)
      BY <2>10 DEF ResolveRecipients
    <3> HIDE DEF t
    <3>4. tx'[w] = t /\ \A x \in Workers : x # w => tx'[x] = tx[x]
      BY <1>2, <3>3 DEF Become
    <3> QED
      BY <1>2, <2>10, <3>2, <3>4, ResendQuiet DEF ResolveRecipients, world
  <2>11. CASE Attempt(w)
    <3>1. CASE Fail(w) /\ UNCHANGED wire
      BY <2>4, <2>11, <3>1 DEF Attempt
    <3> QED
      BY <1>2, <2>11, <3>1, ResendAttempt DEF Attempt
  <2>12. CASE Transient(w)
    <3>1. CASE Fail(w)
      BY <2>4, <2>12, <3>1 DEF Transient, world
    <3>2. CASE Become(w, [tx[w] EXCEPT !.pc = "attempt", !.attempt = @ + 1])
      <4>1. /\ tx'[w].pc = "attempt" /\ tx'[w].to = tx[w].to
            /\ \A x \in Workers : x # w => tx'[x] = tx[x]
        BY <1>2, <2>1, <3>2 DEF Become, Txs
      <4>2. tx[w].to = EditionRecipients
        BY <2>12 DEF Transient, ResendInvariant, SameRecipients
      <4> QED
        BY <1>2, <2>12, <4>1, <4>2, ResendQuiet DEF Transient, world
    <3> QED
      BY <2>12, <3>1, <3>2 DEF Transient
  <2>13. CASE LineRefuses(w)
    BY <2>4, <2>13 DEF LineRefuses
  <2>14. CASE Crash(w)
    BY <2>3, <2>14 DEF Crash, Rollback, world
  <2> QED
    BY <1>5, <2>5, <2>6, <2>7, <2>8, <2>9, <2>10, <2>11, <2>12, <2>13, <2>14 DEF Handler, SendStep
<1> QED
  BY <1>3, <1>4, <1>5 DEF SteadyNext

(* "A resend is safe within 24 h": while the recipients stay the same and  *)
(* LINE remembers its keys, nobody receives one edition of an announcement *)
(* twice, however many sends, retries, crashes and late requests.          *)
THEOREM ResendsStaySafe == SteadySpec => []ResendIsSafe
<1>1. ResendInvariant => ResendIsSafe
  BY DEF ResendInvariant
<1> QED
  BY <1>1, ResendInit, ResendNext, PTL DEF SteadySpec
=============================================================================
