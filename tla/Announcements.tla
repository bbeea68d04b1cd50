--------------------------- MODULE Announcements ---------------------------
(* One announcement: drafting, editing, soft deletion and the LINE send.   *)
(* A send keeps a row lock for as long as the LINE calls take, and LINE    *)
(* may accept a request whose caller has given up on it.                   *)
(*                                                                         *)
(* A row's id never changes and no handler touches two rows, so one row    *)
(* stands for each.  An action is a statement; a transaction is its        *)
(* statements between the lock and the write that commits.                 *)
EXTENDS Naturals, Sequences, FiniteSets

CONSTANTS
  Workers,      \* handlers that can be under way at once
  Nobody,       \* no worker
  Users,        \* LINE users, in the order of LineUser.id
  Departments,
  None,         \* departmentId null
  Absent,       \* a field the request leaves out
  DeptOf,       \* the department of a user's live registration
  Texts,        \* title, body and format together
  Blank,        \* a text whose body is empty
  ChunkSize,    \* LINE_MULTICAST_MAX_RECIPIENTS
  MaxStamp,     \* bound: edits
  MaxSends,     \* bound: sends
  MaxChanges,   \* bound: users who become or cease to be recipients
  Forgets       \* TRUE when the behaviour outlasts LINE's 24 h memory of keys

ASSUME AnnouncementConstants ==
  /\ Nobody \notin Workers
  /\ Users \subseteq Nat /\ IsFiniteSet(Users)
  /\ None \notin Departments /\ Absent \notin Departments /\ None # Absent
  /\ DeptOf \in [Users -> Departments \cup {None}]
  /\ Blank \in Texts /\ Absent \notin Texts
  /\ ChunkSize \in Nat \ {0}
  /\ MaxStamp \in Nat /\ MaxSends \in Nat /\ MaxChanges \in Nat
  /\ Forgets \in BOOLEAN

VARIABLES
  row,      \* the announcements row
  lock,     \* who holds its FOR UPDATE lock
  tx,       \* the handlers under way
  live,     \* departments that are not soft-deleted
  member,   \* users who are ALLOWED, not deleted, opted in, with a valid id
  wire,     \* multicast requests on their way to LINE
  keys,     \* retry keys LINE has accepted and remembers
  inbox,    \* what each user has received
  sends, changes    \* counted for their bounds

vars == <<row, lock, tx, live, member, wire, keys, inbox, sends, changes>>
world == <<live, member, wire, keys, inbox, sends, changes>>

Audiences == {"ALL", "DEPARTMENT"}
Statuses == {"NONE", "DRAFT", "SENT"}
DeptIds == Departments \cup {None}
Patches == [text : Texts \cup {Absent}, aud : Audiences \cup {Absent},
            dept : DeptIds \cup {Absent}]

(* The states of a handler.  SendPcs: inside send's transaction; ReadPcs:  *)
(* once it has read the content.                                           *)
ReadPcs == {"recipients", "attempt", "await", "settle"}
SendPcs == ReadPcs \cup {"content"}
LockedPcs == SendPcs \cup {"tombstone"}
Pcs == LockedPcs \cup {"idle", "insert", "resolve", "write"}

NoPatch == [text |-> Absent, aud |-> Absent, dept |-> Absent]
Idle == [pc |-> "idle", dto |-> NoPatch, aud |-> "ALL", dept |-> None,
         text |-> Blank, stamp |-> 0, to |-> {}, chunk |-> 0, attempt |-> 1,
         got |-> {}]
NoRow == [status |-> "NONE", deleted |-> FALSE, text |-> Blank, aud |-> "ALL",
          dept |-> None, stamp |-> 0, sentCount |-> 0]

Live == row.status # "NONE" /\ ~row.deleted
End(w) == tx' = [tx EXCEPT ![w] = Idle]
Become(w, t) == tx' = [tx EXCEPT ![w] = t]

-----------------------------------------------------------------------------
(* resolveDepartmentId: the department to persist, and whether the request *)
(* is accepted.  An actor without includeReserved has fewer choices.       *)
DepartmentId(aud, sent, stored) ==
  IF aud = "ALL" THEN None ELSE IF sent = Absent THEN stored ELSE sent

Resolves(aud, sent, stored) ==
  IF aud = "ALL" THEN sent \notin Departments
                 ELSE DepartmentId(aud, sent, stored) \in live

(* POST: the department is checked, then the row inserted as a DRAFT.      *)
Create(w, dto) ==
  LET aud == IF dto.aud = Absent THEN "ALL" ELSE dto.aud
  IN  /\ tx[w].pc = "idle" /\ row.status = "NONE"
      /\ Resolves(aud, dto.dept, None)
      /\ Become(w, [Idle EXCEPT !.pc = "insert", !.dto = dto, !.aud = aud,
                      !.dept = DepartmentId(aud, dto.dept, None)])
      /\ UNCHANGED <<row, lock, world>>

Insert(w) ==
  /\ tx[w].pc = "insert" /\ row.status = "NONE"
  /\ row' = [NoRow EXCEPT !.status = "DRAFT", !.aud = tx[w].aud,
                          !.dept = tx[w].dept,
               !.text = IF tx[w].dto.text = Absent THEN Blank ELSE tx[w].dto.text]
  /\ End(w)
  /\ UNCHANGED <<lock, world>>

(* PATCH reads the live row, refuses a SENT one, ...                       *)
Update(w, dto) ==
  /\ tx[w].pc = "idle" /\ dto # NoPatch
  /\ Live /\ row.status = "DRAFT" /\ row.stamp < MaxStamp
  /\ Become(w, [Idle EXCEPT !.pc = "resolve", !.dto = dto, !.dept = row.dept,
                  !.aud = IF dto.aud = Absent THEN row.aud ELSE dto.aud])
  /\ UNCHANGED <<row, lock, world>>

(* ... checks the department of the merged state against what it has read  *)
ResolveDepartment(w) ==
  LET t == tx[w]
  IN  /\ t.pc = "resolve"
      /\ IF Resolves(t.aud, t.dto.dept, t.dept)
         THEN Become(w, [t EXCEPT !.pc = "write",
                           !.dept = DepartmentId(t.aud, t.dto.dept, t.dept)])
         ELSE End(w)
      /\ UNCHANGED <<row, lock, world>>

(* Mutant of Edited: the audience is written only when the request has it. *)
EditedHalf(w) ==
  [row EXCEPT !.stamp = @ + 1, !.dept = tx[w].dept,
    !.aud = IF tx[w].dto.aud = Absent THEN @ ELSE tx[w].dto.aud,
    !.text = IF tx[w].dto.text = Absent THEN @ ELSE tx[w].dto.text]

(* The columns the UPDATE sets: the audience and the department always,    *)
(* the texts when the request has them, updatedAt by Prisma.               *)
Edited(w) ==
  [row EXCEPT !.stamp = @ + 1, !.aud = tx[w].aud, !.dept = tx[w].dept,
    !.text = IF tx[w].dto.text = Absent THEN @ ELSE tx[w].dto.text]

(* Mutant of Editable: the write is by id alone.                           *)
EditableById == TRUE
Editable == row.status = "DRAFT" /\ ~row.deleted

(* ... and writes WHERE status = DRAFT AND deletedAt IS NULL, once nobody  *)
(* holds the row.                                                          *)
WriteUpdate(w) ==
  /\ tx[w].pc = "write" /\ lock = Nobody
  /\ IF Editable THEN row' = Edited(w) ELSE UNCHANGED row
  /\ End(w)
  /\ UNCHANGED <<lock, world>>

(* DELETE: FOR UPDATE NOWAIT on a live row, or an error at once.           *)
Remove(w) ==
  /\ tx[w].pc = "idle" /\ Live /\ lock = Nobody
  /\ lock' = w
  /\ Become(w, [Idle EXCEPT !.pc = "tombstone"])
  /\ UNCHANGED <<row, world>>

WriteTombstone(w) ==
  /\ tx[w].pc = "tombstone"
  /\ row' = [row EXCEPT !.deleted = TRUE, !.stamp = @ + 1]
  /\ lock' = Nobody
  /\ End(w)
  /\ UNCHANGED world

-----------------------------------------------------------------------------
(* POST send.  The transaction begins with the same NOWAIT lock.           *)

(* Mutant of SendLock: the row is read and not locked.                     *)
SendUnlocked(w) ==
  /\ tx[w].pc = "idle" /\ sends < MaxSends
  /\ Live /\ row.status = "DRAFT" /\ lock = Nobody
  /\ sends' = sends + 1
  /\ Become(w, [Idle EXCEPT !.pc = "content"])
  /\ UNCHANGED <<row, lock, live, member, wire, keys, inbox, changes>>

SendLock(w) ==
  /\ tx[w].pc = "idle" /\ sends < MaxSends
  /\ Live /\ row.status = "DRAFT" /\ lock = Nobody
  /\ lock' = w
  /\ sends' = sends + 1
  /\ Become(w, [Idle EXCEPT !.pc = "content"])
  /\ UNCHANGED <<row, live, member, wire, keys, inbox, changes>>

(* A throw inside the callback, and a failed or expired transaction.       *)
Rollback(w) ==
  /\ lock' = IF lock = w THEN Nobody ELSE lock
  /\ End(w)

(* The content under the lock; a blank body and a dead department are 400. *)
ReadContent(w) ==
  /\ tx[w].pc = "content"
  /\ IF row.text # Blank /\ (row.aud = "DEPARTMENT" => row.dept \in live)
     THEN Become(w, [tx[w] EXCEPT !.pc = "recipients", !.text = row.text,
                       !.stamp = row.stamp, !.aud = row.aud, !.dept = row.dept])
          /\ UNCHANGED lock
     ELSE Rollback(w)
  /\ UNCHANGED <<row, world>>

(* resolveRecipients.  A department deleted since the check has nobody     *)
(* left; without recipients the send is complete.                          *)
Recipients(w) ==
  {u \in member : tx[w].aud = "DEPARTMENT" =>
                    tx[w].dept \in live /\ DeptOf[u] = tx[w].dept}

ResolveRecipients(w) ==
  /\ tx[w].pc = "recipients"
  /\ Become(w, [tx[w] EXCEPT !.to = Recipients(w),
                  !.pc = IF Recipients(w) = {} THEN "settle" ELSE "attempt"])
  /\ UNCHANGED <<row, lock, world>>

-----------------------------------------------------------------------------
(* LineService.multicast: consecutive chunks, one after another.           *)
Chunk(to, i) ==
  {u \in to : Cardinality({v \in to : v < u}) \div ChunkSize = i}
Current(w) == Chunk(tx[w].to, tx[w].chunk)

(* Mutant of RetryKey: seeded with the announcement's id alone.            *)
RetryKeyById(w) == <<0, Current(w)>>
(* Mutant of RetryKey: a fresh key for every attempt.                      *)
RetryKeyPerAttempt(w) ==
  <<tx[w].stamp + (MaxStamp + 1) * tx[w].attempt, Current(w)>>

(* lineRetryKey of id|updatedAt and the members of the chunk.              *)
RetryKey(w) == <<tx[w].stamp, Current(w)>>
Request(w) == [key |-> RetryKey(w), stamp |-> tx[w].stamp, text |-> tx[w].text]

(* A failed chunk ends the send: nothing accepted rolls back, anything     *)
(* accepted is settled.                                                    *)
Fail(w) ==
  IF tx[w].got = {} THEN Rollback(w)
  ELSE Become(w, [tx[w] EXCEPT !.pc = "settle"]) /\ UNCHANGED lock

(* Before each attempt the deadline is checked; a missing client fails the *)
(* first one.                                                              *)
Attempt(w) ==
  /\ tx[w].pc = "attempt"
  /\ \/ /\ wire' = wire \cup {Request(w)}
        /\ Become(w, [tx[w] EXCEPT !.pc = "await"])
        /\ UNCHANGED lock
     \/ Fail(w) /\ UNCHANGED wire
  /\ UNCHANGED <<row, live, member, keys, inbox, sends, changes>>

(* Accepted, by a 2xx or by the 409 of a known key: on to the next chunk.  *)
Accepted(w) ==
  LET got == tx[w].got \cup Current(w)
  IN  [tx[w] EXCEPT !.got = got, !.chunk = @ + 1, !.attempt = 1,
                    !.pc = IF got = tx[w].to THEN "settle" ELSE "attempt"]

(* Mutant of Transient: retried for as long as it fails.                   *)
TransientForever(w) ==
  /\ tx[w].pc = "await"
  /\ Become(w, [tx[w] EXCEPT !.pc = "attempt", !.attempt = 2])
  /\ UNCHANGED lock
  /\ UNCHANGED <<row, world>>

(* TRANSIENT, the per-call timeout among others: one retry with the same   *)
(* key.  The request given up on stays on the wire.                        *)
Transient(w) ==
  /\ tx[w].pc = "await"
  /\ IF tx[w].attempt < 2
     THEN Become(w, [tx[w] EXCEPT !.pc = "attempt", !.attempt = @ + 1])
          /\ UNCHANGED lock
     ELSE Fail(w)
  /\ UNCHANGED <<row, world>>

(* LINE takes a request: a known key delivers nothing.  The caller sees    *)
(* the answer if it still waits and the answer is not lost.                *)
LineServes(q) ==
  /\ q \in wire
  /\ wire' = wire \ {q}
  /\ IF q.key \in keys THEN UNCHANGED <<keys, inbox>>
     ELSE /\ keys' = keys \cup {q.key}
          /\ inbox' = [u \in Users |-> IF u \in q.key[2]
                         THEN Append(inbox[u], [stamp |-> q.stamp, text |-> q.text])
                         ELSE inbox[u]]
  /\ \/ UNCHANGED tx
     \/ \E w \in Workers : /\ tx[w].pc = "await" /\ Request(w) = q
                           /\ Become(w, Accepted(w))
  /\ UNCHANGED <<row, lock, live, member, sends, changes>>

(* 401, 403, 429 and any other 4xx: not delivered, not retried.  An equal  *)
(* request that was given up on earlier may still be on the wire.          *)
LineRefuses(w) ==
  /\ tx[w].pc = "await" /\ Request(w) \in wire
  /\ \/ wire' = wire \ {Request(w)}
     \/ (tx[w].attempt = 2 \/ sends > 1) /\ UNCHANGED wire
  /\ Fail(w)
  /\ UNCHANGED <<row, live, member, keys, inbox, sends, changes>>

(* LINE forgets a key after 24 h.                                          *)
LineForgets(k) ==
  /\ Forgets /\ k \in keys
  /\ keys' = keys \ {k}
  /\ UNCHANGED <<row, lock, tx, live, member, wire, inbox, sends, changes>>

(* The SENT write, and the commit.                                         *)
Settle(w) ==
  /\ tx[w].pc = "settle"
  /\ row' = [row EXCEPT !.status = "SENT", !.sentCount = Cardinality(tx[w].got),
                        !.stamp = @ + 1]
  /\ lock' = Nobody
  /\ End(w)
  /\ UNCHANGED world

-----------------------------------------------------------------------------
(* The process or the connection is lost, or the transaction expires.      *)
Crash(w) ==
  /\ tx[w].pc # "idle"
  /\ Rollback(w)
  /\ UNCHANGED <<row, world>>

(* The options service soft-deletes a department, and in the same          *)
(* transaction moves its registrations to the tombstone department.        *)
DeleteDepartment(d) ==
  /\ d \in live
  /\ live' = live \ {d}
  /\ UNCHANGED <<row, lock, tx, member, wire, keys, inbox, sends, changes>>

(* A user is approved or blocked, unfollows, opts in or out.               *)
ChangeMember(u) ==
  /\ changes < MaxChanges
  /\ changes' = changes + 1
  /\ member' = IF u \in member THEN member \ {u} ELSE member \cup {u}
  /\ UNCHANGED <<row, lock, tx, live, wire, keys, inbox, sends>>

SendStep(w) ==
  \/ ReadContent(w) \/ ResolveRecipients(w) \/ Attempt(w) \/ Transient(w)
  \/ Settle(w)

Handler(w) ==
  \/ \E dto \in Patches : Create(w, dto) \/ Update(w, dto)
  \/ Insert(w) \/ ResolveDepartment(w) \/ WriteUpdate(w)
  \/ Remove(w) \/ WriteTombstone(w)
  \/ SendLock(w) \/ SendStep(w) \/ LineRefuses(w) \/ Crash(w)

Next ==
  \/ \E w \in Workers : Handler(w)
  \/ \E q \in wire : LineServes(q)
  \/ \E k \in keys : LineForgets(k)
  \/ \E d \in Departments : DeleteDepartment(d)
  \/ \E u \in Users : ChangeMember(u)

Init ==
  /\ row = NoRow /\ lock = Nobody
  /\ tx = [w \in Workers |-> Idle]
  /\ live = Departments /\ member = Users
  /\ wire = {} /\ keys = {} /\ inbox = [u \in Users |-> <<>>]
  /\ sends = 0 /\ changes = 0

Spec == Init /\ [][Next]_vars

(* While the recipients stay the same and LINE remembers its keys.  A      *)
(* handler that can go on does: Node runs it, the 15 s timer of a call     *)
(* fires, and the database executes the statement of the lock holder.      *)
SteadyNext ==
  \/ \E w \in Workers : Handler(w)
  \/ \E q \in wire : LineServes(q)

SteadySpec == Init /\ [][SteadyNext]_vars /\ \A w \in Workers : WF_vars(SendStep(w))
=============================================================================
