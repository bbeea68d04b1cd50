------------------------- MODULE AdminNotifications -------------------------
(* The notifications of the staff as each of them sees them.  A row of     *)
(* admin_notifications is shared; what one person has read or dismissed is *)
(* a receipt, made on demand by whichever request comes first.             *)
EXTENDS Naturals, FiniteSets

CONSTANTS
  NoteIds,     \* ids of notifications
  Readers,     \* staff accounts
  NoteClerks,  \* requests that can be under way at once
  MaxNoteRequests \* bound: requests, new notifications and role changes

ASSUME NoteConstants == MaxNoteRequests \in Nat /\ IsFiniteSet(NoteIds)

VARIABLES
  note,       \* admin_notifications: the target role of each, or Unwritten
  readerRole, \* the role of each account
  receipt,    \* admin_notification_receipts
  counted,    \* ghost: what the answers to each account have added up to
  noteLeft,   \* requests still to come
  noteTx      \* the requests under way

noteVars == <<note, readerRole, receipt, counted, noteLeft, noteTx>>

NoteRoles == {"SUPER_ADMIN", "ADMIN", "VIEWER"}
Unwritten == "unwritten"
NoReceipt == [there |-> FALSE, read |-> FALSE, dismissed |-> FALSE]

VisibleTargetRoles(role) ==
  CASE role = "SUPER_ADMIN" -> {"ALL", "ADMIN", "SUPER_ADMIN"}
    [] role = "ADMIN" -> {"ALL", "ADMIN"}
    [] OTHER -> {"ALL"}

VisibleTo(u, role) ==
  {n \in NoteIds : note[n] \in VisibleTargetRoles(role) /\ ~receipt[u][n].dismissed}
UnreadFor(u) == {n \in NoteIds : ~receipt[u][n].read}

NoteFree == [pc |-> "free", then |-> "none", user |-> CHOOSE u \in Readers : TRUE, role |-> "VIEWER",
             ids |-> {}, made |-> {}]
NoteSay(c, t) == noteTx' = [noteTx EXCEPT ![c] = t]
NoteDone(c) == NoteSay(c, NoteFree)
(* The caller is who the session guard loaded: its role is the one it had. *)
NoteStart(c, pc, then, u, ids) ==
  /\ noteTx[c] = NoteFree /\ noteLeft > 0 /\ noteLeft' = noteLeft - 1
  /\ NoteSay(c, [pc |-> pc, then |-> then, user |-> u, role |-> readerRole[u],
                 ids |-> ids, made |-> {}])
  /\ UNCHANGED <<note, readerRole, receipt, counted>>

-----------------------------------------------------------------------------
(* The routes.                                                             *)
SubmitRead(c, u, n) == NoteStart(c, "assert", "snapshot", u, {n})
SubmitUnread(c, u, n) == NoteStart(c, "assert", "unread", u, {n})
(* The ids of a body are one to fifty, each once; no body of a read-all is *)
(* every notification.                                                     *)
ReadBodies == {[ids |-> ids] : ids \in (SUBSET NoteIds) \ {{}}}
DismissBodies == [ids : SUBSET NoteIds, allRead : BOOLEAN]
SubmitReadAll(c, u, body) == NoteStart(c, "snapshot", "none", u, body.ids)
(* Either ids or all that is read, never both and never neither.           *)
SubmitDismiss(c, u, body) ==
  /\ (body.ids = {}) = body.allRead
  /\ IF body.allRead THEN NoteStart(c, "dismissRead", "none", u, NoteIds)
     ELSE NoteStart(c, "targets", "none", u, body.ids)

(* A single item must be one the caller can see, before and after.         *)
AssertVisible(c) ==
  LET t == noteTx[c] IN
  /\ t.pc = "assert"
  /\ IF t.ids \subseteq VisibleTo(t.user, t.role)
       THEN NoteSay(c, [t EXCEPT !.pc = t.then]) ELSE NoteDone(c)
  /\ UNCHANGED <<note, readerRole, receipt, counted, noteLeft>>
NoteAnswer(c) ==
  IF noteTx[c].then = "none" THEN NoteDone(c)
  ELSE NoteSay(c, [noteTx[c] EXCEPT !.pc = "readOne"])
(* Dismissed in the meantime, it answers 404 with the receipt changed.     *)
ReadOne(c) ==
  /\ noteTx[c].pc = "readOne" /\ NoteDone(c)
  /\ UNCHANGED <<note, readerRole, receipt, counted, noteLeft>>

(* A row another transaction has inserted and not committed is waited for. *)
Pending(u, c) ==
  UNION {noteTx[d].made : d \in {e \in NoteClerks \ {c} : noteTx[e].user = u}}

(* markManyRead: one INSERT ... SELECT ... ON CONFLICT.  Its SELECT reads  *)
(* a snapshot; what it inserts meets the receipts as they are then.        *)
ReadSnapshot(c) ==
  LET t == noteTx[c] IN
  /\ t.pc = "snapshot"
  /\ NoteSay(c, [t EXCEPT !.pc = "upsert",
       !.ids = t.ids \cap VisibleTo(t.user, t.role) \cap UnreadFor(t.user)])
  /\ UNCHANGED <<note, readerRole, receipt, counted, noteLeft>>

(* Mutant of ToMarkRead: the ON CONFLICT DO UPDATE has no WHERE.           *)
AllSelected(t) == t.ids
ToMarkRead(t) ==
  {n \in t.ids : ~receipt[t.user][n].read /\ ~receipt[t.user][n].dismissed}
MarkManyRead(c) ==
  LET t == noteTx[c]  ns == ToMarkRead(t) IN
  /\ t.pc = "upsert" /\ t.ids \cap Pending(t.user, c) = {}
  /\ receipt' = [receipt EXCEPT ![t.user] = [n \in NoteIds |->
       IF n \in ns THEN [@[n] EXCEPT !.there = TRUE, !.read = TRUE] ELSE @[n]]]
  /\ counted' = [counted EXCEPT ![t.user].read = @ + Cardinality(ns)]
  /\ NoteAnswer(c) /\ UNCHANGED <<note, readerRole, noteLeft>>

(* markUnread: of a receipt dismissed since, too.                          *)
MarkUnread(c) ==
  LET t == noteTx[c]  ns == {n \in t.ids : receipt[t.user][n].read} IN
  /\ t.pc = "unread" /\ t.ids \cap Pending(t.user, c) = {}
  /\ receipt' = [receipt EXCEPT ![t.user] = [n \in NoteIds |->
       IF n \in ns THEN [@[n] EXCEPT !.read = FALSE] ELSE @[n]]]
  /\ counted' = [counted EXCEPT ![t.user].unread = @ + Cardinality(ns)]
  /\ NoteAnswer(c) /\ UNCHANGED <<note, readerRole, noteLeft>>

-----------------------------------------------------------------------------
(* dismissIds: the targets, then the missing receipts, then the others.    *)
DismissTargets(c) ==
  LET t == noteTx[c]  ns == t.ids \cap VisibleTo(t.user, t.role) IN
  /\ t.pc = "targets"
  /\ IF ns = {} THEN NoteDone(c) ELSE NoteSay(c, [t EXCEPT !.pc = "make", !.ids = ns])
  /\ UNCHANGED <<note, readerRole, receipt, counted, noteLeft>>

MakeReceipts(c) ==
  LET t == noteTx[c] IN
  /\ t.pc = "make" /\ t.ids \cap Pending(t.user, c) = {}
  /\ NoteSay(c, [t EXCEPT !.pc = "dismiss",
                          !.made = {n \in t.ids : ~receipt[t.user][n].there}])
  /\ UNCHANGED <<note, readerRole, receipt, counted, noteLeft>>

(* Mutant of ToDismiss: the UPDATE without dismissedAt: null.              *)
EveryTarget(t) == t.ids
ToDismiss(t) == {n \in t.ids : ~receipt[t.user][n].dismissed}
Dismissed(u, ns) ==
  [receipt EXCEPT ![u] = [n \in NoteIds |->
     IF n \in ns THEN [@[n] EXCEPT !.there = TRUE, !.dismissed = TRUE] ELSE @[n]]]
DismissIds(c) ==
  LET t == noteTx[c]  ns == t.made \cup ToDismiss(t) IN
  /\ t.pc = "dismiss"
  /\ receipt' = Dismissed(t.user, ns)
  /\ counted' = [counted EXCEPT ![t.user].dismissed = @ + Cardinality(ns)]
  /\ NoteDone(c) /\ UNCHANGED <<note, readerRole, noteLeft>>

(* allRead: one UPDATE.                                                    *)
DismissRead(c) ==
  LET t == noteTx[c]
      ns == {n \in NoteIds : /\ receipt[t.user][n].read /\ ~receipt[t.user][n].dismissed
                             /\ note[n] \in VisibleTargetRoles(t.role)} IN
  /\ t.pc = "dismissRead" /\ NoteIds \cap Pending(t.user, c) = {}
  /\ receipt' = Dismissed(t.user, ns)
  /\ counted' = [counted EXCEPT ![t.user].dismissed = @ + Cardinality(ns)]
  /\ NoteDone(c) /\ UNCHANGED <<note, readerRole, noteLeft>>

-----------------------------------------------------------------------------
(* A trigger writes a notification; an account gets another role.          *)
NoteCreated(n, target) ==
  /\ noteLeft > 0 /\ noteLeft' = noteLeft - 1 /\ note[n] = Unwritten
  /\ note' = [note EXCEPT ![n] = target]
  /\ UNCHANGED <<readerRole, receipt, counted, noteTx>>
RoleChanges(u, role) ==
  /\ noteLeft > 0 /\ noteLeft' = noteLeft - 1
  /\ readerRole' = [readerRole EXCEPT ![u] = role] /\ readerRole' # readerRole
  /\ UNCHANGED <<note, receipt, counted, noteTx>>

NoteInit ==
  /\ note = [n \in NoteIds |-> IF n = CHOOSE m \in NoteIds : TRUE THEN "ALL" ELSE Unwritten]
  /\ readerRole = [u \in Readers |-> "ADMIN"]
  /\ receipt = [u \in Readers |-> [n \in NoteIds |-> NoReceipt]]
  /\ counted = [u \in Readers |-> [read |-> 0, unread |-> 0, dismissed |-> 0]]
  /\ noteLeft = MaxNoteRequests /\ noteTx = [c \in NoteClerks |-> NoteFree]

NoteNext ==
  \/ \E c \in NoteClerks :
       \/ \E u \in Readers :
            \/ \E n \in NoteIds : SubmitRead(c, u, n) \/ SubmitUnread(c, u, n)
            \/ \E body \in ReadBodies : SubmitReadAll(c, u, body)
            \/ \E body \in DismissBodies : SubmitDismiss(c, u, body)
       \/ AssertVisible(c) \/ ReadOne(c)
       \/ ReadSnapshot(c) \/ MarkManyRead(c) \/ MarkUnread(c)
       \/ DismissTargets(c) \/ MakeReceipts(c) \/ DismissIds(c) \/ DismissRead(c)
  \/ \E n \in NoteIds, target \in {"ALL", "ADMIN", "SUPER_ADMIN"} : NoteCreated(n, target)
  \/ \E u \in Readers, role \in NoteRoles : RoleChanges(u, role)

NoteSpec == NoteInit /\ [][NoteNext]_noteVars

-----------------------------------------------------------------------------
(* "The number of rows whose state actually changed": however requests of  *)
(* one person overlap, two tabs or a double click, the counts they are     *)
(* answered add up to the receipts there are, none counted twice and none  *)
(* lost.                                                                   *)
CountsAddUp ==
  \A u \in Readers :
    LET Is(f) == Cardinality({n \in NoteIds : receipt[u][n][f]}) IN
    /\ counted[u].dismissed = Is("dismissed")
    /\ counted[u].read = counted[u].unread + Is("read")
=============================================================================
