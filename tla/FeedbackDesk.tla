---------------------------- MODULE FeedbackDesk ----------------------------
(* What LINE users report and what the staff do with it, and the canned    *)
(* replies.  Two locks do the work: the row lock under which a status is   *)
(* changed and logged, and the advisory lock under which the replies are   *)
(* counted.                                                                *)
EXTENDS Naturals, FiniteSets, Sequences, FiniteSetsExt

CONSTANTS
  FbIds,         \* ids of feedback rows
  FbClerks,      \* requests that can be under way at once
  CannedIds,     \* ids of canned replies
  NoClerk,       \* nobody
  CannedMax,     \* CANNED_REPLIES_MAX
  SortOrderMax,  \* CANNED_REPLY_SORT_ORDER_MAX
  FbMaxAttempts, \* FEEDBACK_CODE_MAX_ATTEMPTS
  MaxFbRequests  \* bound: requests

ASSUME FbConstants ==
  /\ NoClerk \notin FbClerks
  /\ CannedMax \in Nat /\ SortOrderMax \in Nat /\ MaxFbRequests \in Nat
  /\ FbMaxAttempts \in Nat \ {0}
  /\ IsFiniteSet(FbIds) /\ IsFiniteSet(CannedIds)

VARIABLES
  reporter,   \* is the reporter ALLOWED?
  fbRow,      \* feedbacks of one day, by id
  fbLog,      \* feedback_logs: the statuses logged for each
  fbHeld,     \* who has the row lock of each
  canned,     \* canned_replies: the sort orders, by id
  cannedHeld, \* who has the advisory lock
  fbLeft,     \* requests still to come
  fbTx        \* the requests under way

fbVars == <<reporter, fbRow, fbLog, fbHeld, canned, cannedHeld, fbLeft, fbTx>>

FeedbackType == {"ISSUE", "FEEDBACK"}
FeedbackStatus == {"PENDING", "IN_PROGRESS", "RESOLVED", "DISMISSED"}
Same == "same"      \* a DTO without a status
NoReply == SortOrderMax + 1
NoFeedback == [there |-> FALSE, type |-> "ISSUE", code |-> 0, status |-> "PENDING"]

FbFree == [pc |-> "free", id |-> NoClerk, type |-> "ISSUE", code |-> 0, tries |-> 0,
           status |-> Same, note |-> FALSE, changed |-> FALSE, sort |-> NoReply]
FbSay(c, t) == fbTx' = [fbTx EXCEPT ![c] = t]
FbDone(c) == FbSay(c, FbFree)
FbStart(c, t) == fbTx[c] = FbFree /\ fbLeft > 0 /\ fbLeft' = fbLeft - 1 /\ FbSay(c, t)
FbRest == <<reporter, fbLog, fbHeld, canned, cannedHeld, fbLeft>>

-----------------------------------------------------------------------------
(* create: the reporter, then the venue and the photos, which may refuse   *)
(* it; nothing is checked again afterwards.                                *)
SubmitFeedback(c, type) ==
  /\ FbStart(c, [FbFree EXCEPT !.pc = "check", !.type = type, !.tries = 1])
  /\ UNCHANGED <<reporter, fbRow, fbLog, fbHeld, canned, cannedHeld>>
ResolveAllowedReporter == reporter
CheckFeedback(c) ==
  /\ fbTx[c].pc = "check"
  /\ \/ ResolveAllowedReporter /\ FbSay(c, [fbTx[c] EXCEPT !.pc = "count"])
     \/ FbDone(c)
  /\ UNCHANGED <<fbRow, FbRest>>
AccessChanges ==
  /\ fbLeft > 0 /\ fbLeft' = fbLeft - 1 /\ reporter' = ~reporter
  /\ UNCHANGED <<fbRow, fbLog, fbHeld, canned, cannedHeld, fbTx>>

(* nextFeedbackCode: one more than the rows of the type that day.          *)
NextFeedbackCode(type) ==
  1 + Cardinality({f \in FbIds : fbRow[f].there /\ fbRow[f].type = type})
CountCodes(c) ==
  /\ fbTx[c].pc = "count"
  /\ FbSay(c, [fbTx[c] EXCEPT !.pc = "insert", !.code = NextFeedbackCode(fbTx[c].type)])
  /\ UNCHANGED <<fbRow, FbRest>>

(* insertWithCode: the unique index refuses a code somebody else took      *)
(* between the count and here; the transaction is tried again.             *)
IsCodeCollision(t) ==
  \E f \in FbIds : fbRow[f].there /\ fbRow[f].type = t.type /\ fbRow[f].code = t.code
InsertFeedback(c) ==
  LET t == fbTx[c] IN
  /\ t.pc = "insert"
  /\ \/ /\ ~IsCodeCollision(t)
        /\ \E f \in FbIds :
             /\ ~fbRow[f].there
             /\ fbRow' = [fbRow EXCEPT ![f] = [NoFeedback EXCEPT
                            !.there = TRUE, !.type = t.type, !.code = t.code]]
        /\ FbDone(c)
     \/ /\ IsCodeCollision(t) /\ t.tries < FbMaxAttempts /\ UNCHANGED fbRow
        /\ FbSay(c, [t EXCEPT !.pc = "count", !.tries = @ + 1])
     \/ /\ IsCodeCollision(t) /\ t.tries = FbMaxAttempts /\ UNCHANGED fbRow
        /\ FbDone(c)
  /\ UNCHANGED FbRest

-----------------------------------------------------------------------------
(* update: a status, a note or both; neither is the 400.                   *)
SubmitFeedbackUpdate(c, f, s, note) ==
  /\ s # Same \/ note
  /\ fbRow[f].there
  /\ FbStart(c, [FbFree EXCEPT !.pc = "lock", !.id = f, !.status = s, !.note = note])
  /\ UNCHANGED <<reporter, fbRow, fbLog, fbHeld, canned, cannedHeld>>

(* SELECT ... FOR UPDATE, and what follows from the status it reads.       *)
Decided(t) == [t EXCEPT !.pc = "write",
                        !.status = IF t.status = Same THEN fbRow[t.id].status ELSE t.status,
                        !.changed = t.status \notin {Same, fbRow[t.id].status}]
(* Mutant of LockFeedback: the row is read without FOR UPDATE.             *)
ReadFeedback(c) ==
  /\ fbTx[c].pc = "lock"
  /\ FbSay(c, Decided(fbTx[c])) /\ UNCHANGED fbHeld
  /\ UNCHANGED <<reporter, fbRow, fbLog, canned, cannedHeld, fbLeft>>
LockFeedback(c) ==
  LET t == fbTx[c]  noChange == ~Decided(t).changed /\ ~t.note IN
  /\ t.pc = "lock" /\ fbHeld[t.id] = NoClerk
  /\ \/ noChange /\ FbDone(c) /\ UNCHANGED fbHeld
     \/ ~noChange /\ FbSay(c, Decided(t)) /\ fbHeld' = [fbHeld EXCEPT ![t.id] = c]
  /\ UNCHANGED <<reporter, fbRow, fbLog, canned, cannedHeld, fbLeft>>

WriteFeedback(c) ==
  LET t == fbTx[c] IN
  /\ t.pc = "write"
  /\ fbRow' = IF t.changed THEN [fbRow EXCEPT ![t.id].status = t.status] ELSE fbRow
  /\ fbLog' = [fbLog EXCEPT ![t.id] = Append(@, t.status)]
  /\ fbHeld' = [fbHeld EXCEPT ![t.id] = NoClerk]
  /\ FbDone(c) /\ UNCHANGED <<reporter, canned, cannedHeld, fbLeft>>

-----------------------------------------------------------------------------
(* The canned replies: create under the advisory lock.                     *)
SubmitReply(c, sort) ==
  /\ FbStart(c, [FbFree EXCEPT !.pc = "cap", !.sort = sort])
  /\ UNCHANGED <<reporter, fbRow, fbLog, fbHeld, canned, cannedHeld>>

Replies == {r \in CannedIds : canned[r] # NoReply}
NextSortOrder ==
  IF Replies = {} THEN 0
  ELSE Min({Max({canned[r] : r \in Replies}) + 1, SortOrderMax})

(* Mutant of AdvisoryLock: the count is taken without it.                  *)
NoLock(c) == UNCHANGED cannedHeld
AdvisoryLock(c) == cannedHeld = NoClerk /\ cannedHeld' = c

CountReplies(c) ==
  LET t == fbTx[c] IN
  /\ t.pc = "cap"
  /\ \/ /\ Cardinality(Replies) >= CannedMax /\ cannedHeld = NoClerk
        /\ FbDone(c) /\ UNCHANGED cannedHeld
     \/ /\ Cardinality(Replies) < CannedMax /\ AdvisoryLock(c)
        /\ FbSay(c, [t EXCEPT !.pc = "reply",
                              !.sort = IF @ = NoReply THEN NextSortOrder ELSE @])
  /\ UNCHANGED <<reporter, fbRow, fbLog, fbHeld, canned, fbLeft>>

CreateReply(c) ==
  /\ fbTx[c].pc = "reply"
  /\ \E r \in CannedIds \ Replies : canned' = [canned EXCEPT ![r] = fbTx[c].sort]
  /\ cannedHeld' = NoClerk
  /\ FbDone(c) /\ UNCHANGED <<reporter, fbRow, fbLog, fbHeld, fbLeft>>

(* update and remove are one statement by id.                              *)
UpdateReply(r, sort) ==
  /\ fbLeft > 0 /\ fbLeft' = fbLeft - 1 /\ r \in Replies
  /\ canned' = [canned EXCEPT ![r] = sort]
  /\ UNCHANGED <<reporter, fbRow, fbLog, fbHeld, cannedHeld, fbTx>>
RemoveReply(r) ==
  /\ fbLeft > 0 /\ fbLeft' = fbLeft - 1 /\ r \in Replies
  /\ canned' = [canned EXCEPT ![r] = NoReply]
  /\ UNCHANGED <<reporter, fbRow, fbLog, fbHeld, cannedHeld, fbTx>>

-----------------------------------------------------------------------------
FbIdle ==
  /\ reporter = TRUE
  /\ fbRow = [f \in FbIds |-> NoFeedback] /\ fbLog = [f \in FbIds |-> <<>>]
  /\ fbHeld = [f \in FbIds |-> NoClerk] /\ cannedHeld = NoClerk
  /\ canned = [r \in CannedIds |-> NoReply]
  /\ fbLeft = MaxFbRequests /\ fbTx = [c \in FbClerks |-> FbFree]

FbNext ==
  \/ \E c \in FbClerks :
       \/ \E type \in FeedbackType : SubmitFeedback(c, type)
       \/ \E f \in FbIds, s \in FeedbackStatus \cup {Same}, note \in BOOLEAN :
            SubmitFeedbackUpdate(c, f, s, note)
       \/ \E sort \in {0, SortOrderMax, NoReply} : SubmitReply(c, sort)
       \/ CheckFeedback(c) \/ CountCodes(c) \/ InsertFeedback(c) \/ LockFeedback(c) \/ WriteFeedback(c)
       \/ CountReplies(c) \/ CreateReply(c)
  \/ AccessChanges
  \/ \E r \in CannedIds : RemoveReply(r) \/ \E sort \in 0 .. SortOrderMax : UpdateReply(r, sort)

FbSpec == FbIdle /\ [][FbNext]_fbVars

-----------------------------------------------------------------------------
(* What the two locks are for: the newest entry of a timeline is the       *)
(* status the row has, however updates overlap, and creates that overlap   *)
(* never leave more replies than the limit.                                *)
DeskLocksHold ==
  /\ \A f \in FbIds :
       fbRow[f].status = IF fbLog[f] = <<>> THEN "PENDING" ELSE fbLog[f][Len(fbLog[f])]
  /\ Cardinality(Replies) <= CannedMax
=============================================================================
