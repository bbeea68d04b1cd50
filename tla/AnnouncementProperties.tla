----------------------- MODULE AnnouncementProperties -----------------------
(* What the announcements endpoints promise.                               *)
EXTENDS Announcements

(* The types of the variables.                                             *)
Rows == [status : Statuses, deleted : BOOLEAN, text : Texts, aud : Audiences,
         dept : DeptIds, stamp : Nat, sentCount : Nat]
Txs == [pc : Pcs, dto : Patches, aud : Audiences, dept : DeptIds,
        text : Texts, stamp : Nat, to : SUBSET Users, chunk : Nat,
        attempt : 1..2, got : SUBSET Users]
TypeOK ==
  /\ row \in Rows /\ lock \in Workers \cup {Nobody} /\ tx \in [Workers -> Txs]
  /\ live \subseteq Departments /\ member \subseteq Users
  /\ wire \subseteq [key : Nat \X SUBSET Users, stamp : Nat, text : Texts]
  /\ keys \subseteq Nat \X SUBSET Users
  /\ inbox \in [Users -> Seq([stamp : Nat, text : Texts])]
  /\ sends \in Nat /\ changes \in Nat

(* "Content cannot change during a send": from the moment send has read    *)
(* the row until it commits, with LINE calls of up to 90 s in between, no  *)
(* PATCH, DELETE or other send has changed what it is sending.             *)
ContentFrozen ==
  \A w \in Workers : tx[w].pc \in ReadPcs =>
    /\ row.status = "DRAFT" /\ ~row.deleted
    /\ row.text = tx[w].text /\ row.stamp = tx[w].stamp

(* The users who have received the announcement as it stands.              *)
Received == {u \in Users : \E i \in 1..Len(inbox[u]) : inbox[u][i].text = row.text}

(* sentCount of a SENT row never overstates: at least so many users have   *)
(* received exactly the recorded text, although a 409 counts as accepted   *)
(* and timed-out requests of earlier sends land late.                      *)
CountedReceived == row.status = "SENT" => row.sentCount <= Cardinality(Received)

(* departmentId is set iff the audience is DEPARTMENT, although a PATCH    *)
(* decides the pair from a row that a rival PATCH has changed since.       *)
DepartmentIffAudience == (row.dept # None) <=> (row.aud = "DEPARTMENT")

(* A SENT row is immutable but for its soft deletion, and deletion is      *)
(* final, whatever handlers began when the row was a live DRAFT.           *)
SentIsFinal ==
  [][/\ row.status = "SENT" =>
          \A f \in {"status", "text", "aud", "dept", "sentCount"} : row'[f] = row[f]
     /\ row.deleted => row' = row]_vars

(* "A resend is safe within 24 h": no user receives one edition of an      *)
(* announcement twice, however often it is sent, retried or given up on.   *)
ResendIsSafe ==
  \A u \in Users : \A i, j \in 1..Len(inbox[u]) :
    inbox[u][i].stamp = inbox[u][j].stamp => i = j

(* "Omitted: the stored department is kept": a PATCH that mentions neither *)
(* the audience nor the department leaves both as they are stored.         *)
OmittedIsKept ==
  [][\A w \in Workers :
       WriteUpdate(w) /\ tx[w].dto.aud = Absent /\ tx[w].dto.dept = Absent =>
         row'.aud = row.aud /\ row'.dept = row.dept]_vars

-----------------------------------------------------------------------------
(* The inductive invariant behind the safety properties.                   *)

(* The lock belongs to the handler that is inside its transaction, which   *)
(* has found the row live, and a DRAFT if it is sending.                   *)
LockHeld ==
  \A w \in Workers :
    /\ lock = w <=> tx[w].pc \in LockedPcs
    /\ tx[w].pc \in LockedPcs => ~row.deleted /\ row.status # "NONE"
    /\ tx[w].pc \in SendPcs => row.status = "DRAFT"

(* A pair about to be written is consistent.                               *)
PendingPair ==
  \A w \in Workers : tx[w].pc \in {"insert", "write"} =>
    (tx[w].dept # None <=> tx[w].aud = "DEPARTMENT")

(* An edition is one text: what is under way for the current one carries   *)
(* the current text, and nothing is ahead of the row.                      *)
EditionsTrue ==
  /\ \A q \in wire :
       /\ q.key[1] = q.stamp /\ q.stamp <= row.stamp
       /\ q.stamp = row.stamp => q.text = row.text
  /\ \A k \in keys :
       /\ k[1] <= row.stamp
       /\ k[1] = row.stamp => k[2] \subseteq Received
  /\ row.status = "NONE" => wire = {} /\ keys = {} /\ ~row.deleted

(* Whoever a send counts as accepted has received its text.                *)
GotReceived ==
  \A w \in Workers :
    /\ tx[w].pc = "content" => tx[w].got = {}
    /\ tx[w].pc \in ReadPcs => tx[w].got \subseteq Received

SendInvariant ==
  /\ TypeOK /\ LockHeld /\ ContentFrozen /\ PendingPair /\ EditionsTrue
  /\ GotReceived /\ CountedReceived /\ DepartmentIffAudience

(* Behind ResendIsSafe, while the recipients stay the same and LINE        *)
(* remembers its keys.  The recipients of the edition as it stands.        *)
EditionRecipients ==
  {u \in member : row.aud = "DEPARTMENT" => row.dept \in live /\ DeptOf[u] = row.dept}

(* Every send of an edition resolves the same recipients.                  *)
SameRecipients ==
  \A w \in Workers :
    /\ tx[w].pc = "recipients" => tx[w].aud = row.aud /\ tx[w].dept = row.dept
    /\ tx[w].pc \in {"attempt", "await"} => tx[w].to = EditionRecipients

(* The keys of one edition, on their way or taken, are of chunks that have *)
(* nobody in common.                                                       *)
UsedKeys == keys \cup {q.key : q \in wire}
ChunksApart ==
  /\ \A k \in UsedKeys : k[1] = row.stamp => \E i \in Nat : k[2] = Chunk(EditionRecipients, i)
  /\ \A k, l \in UsedKeys : k[1] = l[1] => k = l \/ k[2] \cap l[2] = {}

(* What a user has received, LINE has taken under a key it remembers.      *)
DeliveredByKey ==
  \A u \in Users : \A i \in 1..Len(inbox[u]) :
    \E k \in keys : k[1] = inbox[u][i].stamp /\ u \in k[2]

ResendInvariant ==
  SendInvariant /\ SameRecipients /\ ChunksApart /\ DeliveredByKey /\ ResendIsSafe

-----------------------------------------------------------------------------
(* A send ends, whatever LINE does: the row lock and its pooled connection *)
(* are not held for ever.                                                  *)
SendEnds == \A w \in Workers : tx[w].pc \in SendPcs ~> tx[w].pc \notin SendPcs
=============================================================================
