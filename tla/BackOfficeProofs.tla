-------------------------- MODULE BackOfficeProofs --------------------------
(***************************************************************************)
(* What is proved about the components of the back office, each by itself, *)
(* for any number of rows and of requests under way.                       *)
(***************************************************************************)
EXTENDS FeedbackDesk, OptionLists, BookingCode, AdminNotifications, VenuePhotos,
        NotificationTriggers, Incidents, FiniteSetTheorems, WellFoundedInduction, TLAPS

(***************************************************************************)
(* Feedback and canned replies.                                            *)
(***************************************************************************)
FbPcs == {"free", "check", "count", "insert", "lock", "write", "cap", "reply"}
FbRows == [there : BOOLEAN, type : FeedbackType, code : Nat, status : FeedbackStatus]
FbRequest ==
  [pc : FbPcs, id : FbIds \cup {NoClerk}, type : FeedbackType, code : Nat, tries : Nat,
   status : FeedbackStatus \cup {Same}, note : BOOLEAN, changed : BOOLEAN, sort : 0 .. NoReply]

RepliesTyped == canned \in [CannedIds -> 0 .. NoReply]
FbTyped ==
  /\ reporter \in BOOLEAN /\ fbLeft \in Nat
  /\ fbRow \in [FbIds -> FbRows] /\ fbLog \in [FbIds -> Seq(FeedbackStatus)]
  /\ fbHeld \in [FbIds -> FbClerks \cup {NoClerk}]
  /\ cannedHeld \in FbClerks \cup {NoClerk} /\ RepliesTyped
  /\ fbTx \in [FbClerks -> FbRequest]

(* The newest entry is the status, and a row that is not there has none.   *)
Newest(log) == IF log = <<>> THEN "PENDING" ELSE log[Len(log)]
TimelineAgrees(f) ==
  /\ fbRow[f].status = Newest(fbLog[f])
  /\ ~fbRow[f].there => fbLog[f] = <<>>

(* An update is about a row that is there; past the lock it is the only    *)
(* one to write it, and what it decided from the status it read still      *)
(* stands.                                                                 *)
UpdateStands(c) ==
  LET t == fbTx[c] IN
  /\ t.pc \in {"lock", "write"} => t.id \in FbIds /\ fbRow[t.id].there
  /\ t.pc = "write" => /\ fbHeld[t.id] = c /\ t.status \in FeedbackStatus
                       /\ ~t.changed => t.status = fbRow[t.id].status

(* One create at most is past its count, and while it is there is room.    *)
ReplyHasRoom ==
  /\ \A c \in FbClerks : fbTx[c].pc = "reply" => cannedHeld = c
  /\ cannedHeld # NoClerk => Cardinality(Replies) < CannedMax
  /\ Cardinality(Replies) <= CannedMax

FbInvariant ==
  /\ FbTyped /\ ReplyHasRoom
  /\ \A f \in FbIds : TimelineAgrees(f)
  /\ \A c \in FbClerks : UpdateStands(c)

-----------------------------------------------------------------------------
(* Library facts: a non-empty set of sort orders has a least and a         *)
(* greatest element.                                                       *)
LEMMA LeastOf ==
  ASSUME NEW S \in SUBSET Nat, S # {}
  PROVE  \E n \in S : \A m \in S : n <= m
<1>1. PICK n \in S : \A m \in S : ~(<<m, n>> \in OpToRel(<, Nat))
  BY NatLessThanWellFounded, WFMin, Zenon
<1>2. \A m \in S : ~(m < n)
  BY <1>1 DEF OpToRel
<1> QED
  BY <1>2

LEMMA GreatestOf ==
  ASSUME NEW k \in Nat, NEW S \in SUBSET (0 .. k), S # {}
  PROVE  Max(S) \in S
<1> DEFINE T == {k - n : n \in S}
<1>1. T \in SUBSET Nat /\ T # {}
  <2>1. \A n \in S : k - n \in Nat
    OBVIOUS
  <2> QED
    BY <2>1
<1>2. PICK t \in T : \A u \in T : t <= u
  BY <1>1, LeastOf
<1>3. PICK n \in S : t = k - n
  OBVIOUS
<1>4. \A m \in S : n >= m
  BY <1>2, <1>3
<1> QED
  BY <1>3, <1>4 DEF Max

(* nextSortOrder stays within what a DTO may say.                          *)
LEMMA SortOrderInRange ==
  ASSUME RepliesTyped
  PROVE  NextSortOrder \in 0 .. SortOrderMax
<1> USE FbConstants
<1> DEFINE S == {canned[r] : r \in Replies}
<1>1. CASE Replies = {}
  BY <1>1 DEF NextSortOrder
<1>2. CASE Replies # {}
  <2>1. S \in SUBSET (0 .. SortOrderMax) /\ S # {}
    BY <1>2 DEF Replies, RepliesTyped, NoReply
  <2>2. Max(S) \in 0 .. SortOrderMax
    BY <2>1, GreatestOf
  <2> DEFINE next == Max(S) + 1
  <2>3. next \in Nat /\ NextSortOrder = Min({next, SortOrderMax})
    BY <1>2, <2>2 DEF NextSortOrder
  <2> HIDE DEF next
  <2>4. \E x \in {next, SortOrderMax} : \A y \in {next, SortOrderMax} : x <= y
    BY <2>3
  <2>5. /\ Min({next, SortOrderMax}) \in {next, SortOrderMax}
        /\ Min({next, SortOrderMax}) <= SortOrderMax
    BY <2>4 DEF Min
  <2> QED
    BY <2>3, <2>5
<1> QED
  BY <1>1, <1>2

(* A row of its own for a new request, and nothing under way.              *)
LEMMA FbFreeFits == FbFree \in FbRequest
BY FbConstants DEF FbFree, FbRequest, FbPcs, FeedbackType, Same, NoReply

(* nextFeedbackCode is a number.                                           *)
LEMMA FeedbackCodeTyped == \A type : NextFeedbackCode(type) \in Nat
<1> SUFFICES ASSUME NEW type
             PROVE  NextFeedbackCode(type) \in Nat
  OBVIOUS
<1> DEFINE S == {f \in FbIds : fbRow[f].there /\ fbRow[f].type = type}
<1>1. NextFeedbackCode(type) = 1 + Cardinality(S)
  BY DEF NextFeedbackCode
<1>2. S \subseteq FbIds
  OBVIOUS
<1> HIDE DEF S
<1>3. Cardinality(S) \in Nat
  BY <1>2, FbConstants, FS_Subset, FS_CardinalityType
<1> QED
  BY <1>1, <1>3

(* What the requests do to what is under way.                              *)
LEMMA FbTypesHold ==
  ASSUME FbInvariant, [FbNext]_fbVars
  PROVE  FbTyped'
<1> USE FbConstants DEF FbInvariant, FbTyped, RepliesTyped
<1>1. ASSUME NEW c \in FbClerks, NEW type \in FeedbackType, SubmitFeedback(c, type)
      PROVE  FbTyped'
  <2>1. [FbFree EXCEPT !.pc = "check", !.type = type, !.tries = 1] \in FbRequest
    BY FbFreeFits DEF FbRequest, FbPcs
  <2> QED
    BY <1>1, <2>1 DEF SubmitFeedback, FbStart, FbSay
<1>2. ASSUME NEW c \in FbClerks, NEW f \in FbIds, NEW s \in FeedbackStatus \cup {Same},
             NEW noted \in BOOLEAN, SubmitFeedbackUpdate(c, f, s, noted)
      PROVE  FbTyped'
  <2>1. [FbFree EXCEPT !.pc = "lock", !.id = f, !.status = s, !.note = noted] \in FbRequest
    BY FbFreeFits DEF FbRequest, FbPcs
  <2> QED
    BY <1>2, <2>1 DEF SubmitFeedbackUpdate, FbStart, FbSay
<1>3. ASSUME NEW c \in FbClerks, NEW sort \in {0, SortOrderMax, NoReply}, SubmitReply(c, sort)
      PROVE  FbTyped'
  <2>1. sort \in 0 .. NoReply
    BY DEF NoReply
  <2>2. [FbFree EXCEPT !.pc = "cap", !.sort = sort] \in FbRequest
    BY <2>1, FbFreeFits DEF FbRequest, FbPcs
  <2> QED
    BY <1>3, <2>2 DEF SubmitReply, FbStart, FbSay
<1>4. ASSUME NEW c \in FbClerks, CheckFeedback(c)
      PROVE  FbTyped'
  <2>1. [fbTx[c] EXCEPT !.pc = "count"] \in FbRequest
    BY DEF FbRequest, FbPcs
  <2> QED
    BY <1>4, <2>1, FbFreeFits, Zenon DEF CheckFeedback, FbDone, FbSay, FbRest
<1>5. ASSUME NEW c \in FbClerks, CountCodes(c)
      PROVE  FbTyped'
  <2>2. NextFeedbackCode(fbTx[c].type) \in Nat
    BY FeedbackCodeTyped
  <2>3. [fbTx[c] EXCEPT !.pc = "insert", !.code = NextFeedbackCode(fbTx[c].type)] \in FbRequest
    BY <2>2, Zenon DEF FbRequest, FbPcs
  <2> QED
    BY <1>5, <2>3 DEF CountCodes, FbSay, FbRest
<1>6. ASSUME NEW c \in FbClerks, InsertFeedback(c)
      PROVE  FbTyped'
  <2>1. [fbTx[c] EXCEPT !.pc = "count", !.tries = @ + 1] \in FbRequest
    <3>1. fbTx[c].tries + 1 \in Nat
      BY DEF FbRequest
    <3> QED
      BY <3>1, Zenon DEF FbRequest, FbPcs
  <2>2. [NoFeedback EXCEPT !.there = TRUE, !.type = fbTx[c].type, !.code = fbTx[c].code] \in FbRows
    BY DEF FbRequest, NoFeedback, FbRows, FeedbackStatus, FeedbackType
  <2>3. fbTx' \in [FbClerks -> FbRequest]
    BY <1>6, <2>1, FbFreeFits DEF InsertFeedback, FbDone, FbSay
  <2>4. fbRow' \in [FbIds -> FbRows]
    BY <1>6, <2>2 DEF InsertFeedback
  <2> QED
    BY <1>6, <2>3, <2>4 DEF InsertFeedback, FbRest
<1>7. ASSUME NEW c \in FbClerks, LockFeedback(c)
      PROVE  FbTyped'
  <2>1. fbTx[c].pc = "lock" /\ fbTx[c].id \in FbIds
    BY <1>7 DEF LockFeedback, UpdateStands
  <2>2. Decided(fbTx[c]) \in FbRequest
    <3> DEFINE status == IF fbTx[c].status = Same THEN fbRow[fbTx[c].id].status
                         ELSE fbTx[c].status
               changed == fbTx[c].status \notin {Same, fbRow[fbTx[c].id].status}
    <3>1. status \in FeedbackStatus \cup {Same} /\ changed \in BOOLEAN
      BY <2>1 DEF FbRequest, FbRows
    <3>2. Decided(fbTx[c]) = [fbTx[c] EXCEPT !.pc = "write", !.status = status,
                                             !.changed = changed]
      BY DEF Decided, FbRequest
    <3>3. fbTx[c] \in FbRequest
      OBVIOUS
    <3> HIDE DEF status, changed
    <3> QED
      BY <3>1, <3>2, <3>3 DEF FbRequest, FbPcs
  <2>3. fbTx' \in [FbClerks -> FbRequest]
    BY <1>7, <2>2, FbFreeFits DEF LockFeedback, FbDone, FbSay
  <2>4. fbHeld' \in [FbIds -> FbClerks \cup {NoClerk}]
    BY <1>7 DEF LockFeedback
  <2> QED
    BY <1>7, <2>3, <2>4 DEF LockFeedback
<1>8. ASSUME NEW c \in FbClerks, WriteFeedback(c)
      PROVE  FbTyped'
  <2> DEFINE t == fbTx[c]
  <2>1. t.id \in FbIds /\ t.status \in FeedbackStatus
    BY <1>8 DEF WriteFeedback, UpdateStands
  <2> HIDE DEF t
  <2>2. fbRow' = (IF t.changed THEN [fbRow EXCEPT ![t.id].status = t.status] ELSE fbRow)
        /\ fbLog' = [fbLog EXCEPT ![t.id] = Append(fbLog[t.id], t.status)]
    BY <1>8 DEF WriteFeedback, t
  <2>3. fbRow' \in [FbIds -> FbRows]
    <3>1. [fbRow[t.id] EXCEPT !.status = t.status] \in FbRows
      BY <2>1 DEF FbRows
    <3> QED
      BY <2>1, <2>2, <3>1
  <2>4. fbLog' \in [FbIds -> Seq(FeedbackStatus)]
    BY <2>1, <2>2
  <2>5. fbTx' \in [FbClerks -> FbRequest] /\ fbHeld' \in [FbIds -> FbClerks \cup {NoClerk}]
    BY <1>8, FbFreeFits DEF WriteFeedback, FbDone, FbSay
  <2> QED
    BY <1>8, <2>3, <2>4, <2>5 DEF WriteFeedback
<1>9. ASSUME NEW c \in FbClerks, CountReplies(c)
      PROVE  FbTyped'
  <2>1. NextSortOrder \in 0 .. NoReply
    BY SortOrderInRange DEF NoReply
  <2>2. [fbTx[c] EXCEPT !.pc = "reply",
                        !.sort = IF @ = NoReply THEN NextSortOrder ELSE @] \in FbRequest
    BY <2>1, Zenon DEF FbRequest, FbPcs
  <2> QED
    BY <1>9, <2>2, FbFreeFits DEF CountReplies, AdvisoryLock, FbDone, FbSay
<1>10. ASSUME NEW c \in FbClerks, CreateReply(c)
       PROVE  FbTyped'
  <2>1. fbTx[c].sort \in 0 .. NoReply
    BY DEF FbRequest
  <2> QED
    BY <1>10, <2>1, FbFreeFits DEF CreateReply, FbDone, FbSay
<1>11. ASSUME NEW r \in CannedIds, NEW sort \in 0 .. SortOrderMax, UpdateReply(r, sort)
       PROVE  FbTyped'
  <2>1. sort \in 0 .. NoReply
    BY DEF NoReply
  <2> QED
    BY <1>11, <2>1 DEF UpdateReply
<1>12. ASSUME NEW r \in CannedIds, RemoveReply(r)
       PROVE  FbTyped'
  <2>1. NoReply \in 0 .. NoReply
    BY DEF NoReply
  <2> QED
    BY <1>12, <2>1 DEF RemoveReply
<1>13. CASE AccessChanges
  BY <1>13 DEF AccessChanges
<1>14. CASE UNCHANGED fbVars
  BY <1>14 DEF fbVars
<1> HIDE DEF FbInvariant, FbTyped, RepliesTyped
<1> QED
  BY <1>1, <1>2, <1>3, <1>4, <1>5, <1>6, <1>7, <1>8, <1>9, <1>10, <1>11, <1>12, <1>13, <1>14
  DEF FbNext

(* Counting the replies: one more, or one gone.                            *)
LEMMA RepliesCounted ==
  ASSUME FbTyped, FbTyped'
  PROVE  /\ Cardinality(Replies) \in Nat /\ Cardinality(Replies') \in Nat
         /\ Replies' \subseteq Replies => Cardinality(Replies') <= Cardinality(Replies)
         /\ \A r \in CannedIds : Replies' \subseteq Replies \cup {r}
              => Cardinality(Replies') <= Cardinality(Replies) + 1
<1> USE FbConstants
<1>1. IsFiniteSet(Replies) /\ IsFiniteSet(Replies')
  <2>1. Replies \subseteq CannedIds /\ Replies' \subseteq CannedIds
    BY DEF Replies
  <2> QED
    BY <2>1, FS_Subset
<1>2. Cardinality(Replies) \in Nat /\ Cardinality(Replies') \in Nat
  BY <1>1, FS_CardinalityType
<1>3. Replies' \subseteq Replies => Cardinality(Replies') <= Cardinality(Replies)
  BY <1>1, FS_Subset
<1>4. ASSUME NEW r \in CannedIds, Replies' \subseteq Replies \cup {r}
      PROVE  Cardinality(Replies') <= Cardinality(Replies) + 1
  <2>1. /\ IsFiniteSet(Replies \cup {r})
        /\ Cardinality(Replies \cup {r}) \in {Cardinality(Replies), Cardinality(Replies) + 1}
    BY <1>1, FS_AddElement
  <2>2. Cardinality(Replies') <= Cardinality(Replies \cup {r})
    BY <1>4, <2>1, FS_Subset
  <2> QED
    BY <1>2, <2>1, <2>2
<1> QED
  BY <1>2, <1>3, <1>4

(* The advisory lock of the canned replies.                                *)
LEMMA RoomKept ==
  ASSUME FbInvariant, FbTyped', [FbNext]_fbVars
  PROVE  ReplyHasRoom'
<1> USE FbConstants DEF FbInvariant, FbTyped, ReplyHasRoom
<1>1. ASSUME UNCHANGED <<canned, cannedHeld>>,
             \A c \in FbClerks : fbTx'[c].pc = "reply" => fbTx[c].pc = "reply"
      PROVE  ReplyHasRoom'
  BY <1>1 DEF Replies
<1>2. ASSUME NEW c \in FbClerks,
             \/ \E type \in FeedbackType : SubmitFeedback(c, type)
             \/ \E f \in FbIds, s \in FeedbackStatus \cup {Same}, noted \in BOOLEAN :
                  SubmitFeedbackUpdate(c, f, s, noted)
             \/ \E sort \in {0, SortOrderMax, NoReply} : SubmitReply(c, sort)
      PROVE  ReplyHasRoom'
  <2>1. \E t \in FbRequest : t.pc # "reply" /\ fbTx' = [fbTx EXCEPT ![c] = t]
    <3>1. fbTx' \in [FbClerks -> FbRequest] /\ fbTx' = [fbTx EXCEPT ![c] = fbTx'[c]]
      BY <1>2, Zenon DEF SubmitFeedback, SubmitFeedbackUpdate, SubmitReply, FbStart, FbSay
    <3>2. fbTx \in [FbClerks -> FbRequest]
      OBVIOUS
    <3>3. fbTx'[c].pc \in {"check", "lock", "cap"}
      <4> HIDE DEF FbInvariant, FbTyped, ReplyHasRoom
      <4>1. CASE \E type \in FeedbackType : SubmitFeedback(c, type)
        BY <3>2, <4>1 DEF SubmitFeedback, FbStart, FbSay, FbFree
      <4>2. CASE \E f \in FbIds, s \in FeedbackStatus \cup {Same}, noted \in BOOLEAN :
                   SubmitFeedbackUpdate(c, f, s, noted)
        BY <3>2, <4>2 DEF SubmitFeedbackUpdate, FbStart, FbSay, FbFree
      <4>3. CASE \E sort \in {0, SortOrderMax, NoReply} : SubmitReply(c, sort)
        BY <3>2, <4>3 DEF SubmitReply, FbStart, FbSay, FbFree
      <4> QED
        BY <1>2, <4>1, <4>2, <4>3
    <3> QED
      BY <3>1, <3>3
  <2>2. UNCHANGED <<canned, cannedHeld>>
    BY <1>2, Zenon DEF SubmitFeedback, SubmitFeedbackUpdate, SubmitReply
  <2> QED
    BY <1>1, <2>1, <2>2
<1>3. ASSUME NEW c \in FbClerks,
             \/ CheckFeedback(c) \/ CountCodes(c) \/ InsertFeedback(c)
             \/ LockFeedback(c) \/ WriteFeedback(c)
      PROVE  ReplyHasRoom'
  <2>1. fbTx' = [fbTx EXCEPT ![c] = fbTx'[c]]
    BY <1>3 DEF CheckFeedback, CountCodes, InsertFeedback, LockFeedback, WriteFeedback,
                FbDone, FbSay
  <2>2. fbTx[c] \in FbRequest /\ fbTx \in [FbClerks -> FbRequest]
    OBVIOUS
  <2>3. fbTx'[c].pc # "reply"
    <3>1. \A t : fbTx' = [fbTx EXCEPT ![c] = t] => fbTx'[c] = t
      OBVIOUS
    <3>2. FbFree.pc = "free" /\ Decided(fbTx[c]).pc = "write"
      BY <2>2 DEF FbFree, Decided, FbRequest
    <3>3. \A k \in Nat : /\ [fbTx[c] EXCEPT !.pc = "count"].pc = "count"
                         /\ [fbTx[c] EXCEPT !.pc = "insert", !.code = k].pc = "insert"
                         /\ [fbTx[c] EXCEPT !.pc = "count", !.tries = k].pc = "count"
      BY <2>2 DEF FbRequest
    <3> HIDE DEF FbInvariant, FbTyped, ReplyHasRoom
    <3>4. fbTx[c].tries + 1 \in Nat /\ NextFeedbackCode(fbTx[c].type) \in Nat
      <4>1. fbTx[c].tries \in Nat
        BY <2>2 DEF FbRequest
      <4>2. fbTx[c].tries + 1 \in Nat
        BY <4>1
      <4> QED
        BY <4>2, FeedbackCodeTyped
    <3>5. CASE CheckFeedback(c)
      BY <3>1, <3>2, <3>3, <3>5 DEF CheckFeedback, FbDone, FbSay
    <3>6. CASE CountCodes(c)
      BY <3>1, <3>3, <3>4, <3>6 DEF CountCodes, FbSay
    <3>7. CASE InsertFeedback(c)
      BY <3>1, <3>2, <3>3, <3>4, <3>7 DEF InsertFeedback, FbDone, FbSay
    <3>8. CASE LockFeedback(c)
      BY <3>1, <3>2, <3>8 DEF LockFeedback, FbDone, FbSay
    <3>9. CASE WriteFeedback(c)
      BY <3>1, <3>2, <3>9 DEF WriteFeedback, FbDone, FbSay
    <3> QED
      BY <1>3, <3>5, <3>6, <3>7, <3>8, <3>9
  <2>4. UNCHANGED <<canned, cannedHeld>>
    BY <1>3 DEF CheckFeedback, CountCodes, InsertFeedback, LockFeedback, WriteFeedback, FbRest
  <2> QED
    BY <1>1, <2>1, <2>3, <2>4
<1>4. ASSUME NEW c \in FbClerks, CountReplies(c)
      PROVE  ReplyHasRoom'
  <2>1. CASE Cardinality(Replies) >= CannedMax /\ FbDone(c) /\ UNCHANGED cannedHeld
    BY <1>1, <1>4, <2>1 DEF CountReplies, FbDone, FbSay, FbFree
  <2>2. CASE Cardinality(Replies) < CannedMax /\ AdvisoryLock(c)
    <3>1. \A d \in FbClerks : fbTx'[d].pc = "reply" => d = c
      BY <1>4, <2>2 DEF CountReplies, AdvisoryLock, FbSay
    <3> QED
      BY <1>4, <2>2, <3>1 DEF CountReplies, AdvisoryLock, Replies
  <2> QED
    BY <1>4, <2>1, <2>2 DEF CountReplies
<1>5. ASSUME NEW c \in FbClerks, CreateReply(c)
      PROVE  ReplyHasRoom'
  <2>1. Cardinality(Replies) < CannedMax /\ cannedHeld = c
    BY <1>5 DEF CreateReply
  <2>2. PICK r \in CannedIds : canned' = [canned EXCEPT ![r] = fbTx[c].sort]
    BY <1>5 DEF CreateReply
  <2>3. Replies' \subseteq Replies \cup {r}
    BY <2>2 DEF Replies, RepliesTyped
  <2>4. Cardinality(Replies') <= CannedMax
    <3> HIDE DEF FbInvariant, FbTyped, ReplyHasRoom
    <3>1. FbTyped
      BY DEF FbInvariant
    <3>2. /\ Cardinality(Replies) \in Nat /\ Cardinality(Replies') \in Nat
          /\ Cardinality(Replies') <= Cardinality(Replies) + 1
      BY <2>3, <3>1, RepliesCounted
    <3> QED
      BY <2>1, <3>2
  <2>5. \A d \in FbClerks : fbTx'[d].pc # "reply"
    BY <1>5, <2>1 DEF CreateReply, FbDone, FbSay, FbFree
  <2> QED
    BY <1>5, <2>4, <2>5 DEF CreateReply
<1>6. ASSUME NEW r \in CannedIds,
             RemoveReply(r) \/ \E sort \in 0 .. SortOrderMax : UpdateReply(r, sort)
      PROVE  ReplyHasRoom'
  <2>1. Replies' \subseteq Replies
    BY <1>6 DEF Replies, RepliesTyped, RemoveReply, UpdateReply
  <2>2. UNCHANGED <<cannedHeld, fbTx>>
    BY <1>6 DEF RemoveReply, UpdateReply
  <2> QED
    BY <2>1, <2>2, RepliesCounted
<1>7. CASE AccessChanges
  BY <1>1, <1>7 DEF AccessChanges
<1>8. CASE UNCHANGED fbVars
  BY <1>1, <1>8 DEF fbVars
<1> QED
  BY <1>2, <1>3, <1>4, <1>5, <1>6, <1>7, <1>8 DEF FbNext

(* The timelines: a new row starts one, an update writes status and entry  *)
(* together.                                                               *)
LEMMA TimelinesKept ==
  ASSUME FbInvariant, [FbNext]_fbVars
  PROVE  \A f \in FbIds : TimelineAgrees(f)'
<1> USE FbConstants DEF FbInvariant, FbTyped
<1>1. ASSUME UNCHANGED <<fbRow, fbLog>>
      PROVE  \A f \in FbIds : TimelineAgrees(f)'
  BY <1>1 DEF TimelineAgrees
<1>2. ASSUME NEW c \in FbClerks, InsertFeedback(c)
      PROVE  \A f \in FbIds : TimelineAgrees(f)'
  <2>1. CASE UNCHANGED fbRow
    BY <1>1, <1>2, <2>1 DEF InsertFeedback, FbRest
  <2>2. CASE \E f \in FbIds :
               /\ ~fbRow[f].there
               /\ fbRow' = [fbRow EXCEPT ![f] = [NoFeedback EXCEPT
                     !.there = TRUE, !.type = fbTx[c].type, !.code = fbTx[c].code]]
    <3>1. PICK f \in FbIds :
               /\ ~fbRow[f].there
               /\ fbRow' = [fbRow EXCEPT ![f] = [NoFeedback EXCEPT
                     !.there = TRUE, !.type = fbTx[c].type, !.code = fbTx[c].code]]
      BY <2>2
    <3>2. fbRow'[f].there /\ fbRow'[f].status = "PENDING"
      BY <3>1 DEF NoFeedback
    <3>3. fbLog' = fbLog /\ fbLog[f] = <<>>
      BY <1>2, <3>1 DEF InsertFeedback, FbRest, TimelineAgrees
    <3>4. TimelineAgrees(f)'
      BY <3>2, <3>3 DEF TimelineAgrees, Newest
    <3>5. \A g \in FbIds : g # f => fbRow'[g] = fbRow[g]
      BY <3>1
    <3> QED
      BY <3>3, <3>4, <3>5 DEF TimelineAgrees
  <2> QED
    BY <1>2, <2>1, <2>2 DEF InsertFeedback
<1>3. ASSUME NEW c \in FbClerks, WriteFeedback(c)
      PROVE  \A f \in FbIds : TimelineAgrees(f)'
  <2>0. PICK t \in FbRequest : t = fbTx[c]
    OBVIOUS
  <2>1. /\ t.id \in FbIds /\ fbRow[t.id].there /\ t.status \in FeedbackStatus
        /\ ~t.changed => t.status = fbRow[t.id].status
    BY <1>3, <2>0 DEF WriteFeedback, UpdateStands
  <2>2. /\ fbRow' = (IF t.changed THEN [fbRow EXCEPT ![t.id].status = t.status] ELSE fbRow)
        /\ fbLog' = [fbLog EXCEPT ![t.id] = Append(fbLog[t.id], t.status)]
    BY <1>3, <2>0 DEF WriteFeedback
  <2>3. fbRow'[t.id].there /\ fbRow'[t.id].status = t.status
    BY <2>1, <2>2 DEF FbRows
  <2>4. fbLog'[t.id] = Append(fbLog[t.id], t.status) /\ fbLog[t.id] \in Seq(FeedbackStatus)
    BY <2>1, <2>2
  <2>5. Newest(fbLog'[t.id]) = t.status
    <3>1. /\ Len(fbLog'[t.id]) = Len(fbLog[t.id]) + 1 /\ Len(fbLog[t.id]) \in Nat
          /\ fbLog'[t.id][Len(fbLog[t.id]) + 1] = t.status
      BY <2>1, <2>4
    <3>2. fbLog'[t.id] # <<>>
      BY <3>1
    <3> QED
      BY <3>1, <3>2 DEF Newest
  <2>6. TimelineAgrees(t.id)'
    BY <2>3, <2>5 DEF TimelineAgrees
  <2>7. \A g \in FbIds : g # t.id => fbRow'[g] = fbRow[g] /\ fbLog'[g] = fbLog[g]
    BY <2>1, <2>2
  <2> QED
    BY <2>6, <2>7 DEF TimelineAgrees
<1> QED
  BY <1>1, <1>2, <1>3, Zenon
  DEF FbNext, fbVars, FbRest, SubmitFeedback, SubmitFeedbackUpdate, SubmitReply, CheckFeedback,
      CountCodes, LockFeedback, CountReplies, CreateReply, AccessChanges, RemoveReply, UpdateReply

(* The row lock: what an update relies on survives what the others do.     *)
LEMMA UpdatesStand ==
  ASSUME FbInvariant, [FbNext]_fbVars
  PROVE  \A d \in FbClerks : UpdateStands(d)'
<1> USE FbConstants DEF FbInvariant, FbTyped
<1>1. ASSUME NEW d \in FbClerks, fbTx'[d] = fbTx[d],
             \A f \in FbIds : fbRow[f].there => fbRow'[f].there,
             \A f \in FbIds : fbHeld[f] = d =>
               fbHeld'[f] = d /\ (fbRow[f].there => fbRow'[f].status = fbRow[f].status)
      PROVE  UpdateStands(d)'
  <2>1. PICK t \in FbRequest : t = fbTx[d] /\ t = fbTx'[d]
    BY <1>1
  <2>2. /\ t.pc \in {"lock", "write"} => t.id \in FbIds /\ fbRow[t.id].there
        /\ t.pc = "write" => /\ fbHeld[t.id] = d /\ t.status \in FeedbackStatus
                             /\ ~t.changed => t.status = fbRow[t.id].status
    BY <2>1 DEF UpdateStands
  <2>3. /\ t.pc \in {"lock", "write"} => t.id \in FbIds /\ fbRow'[t.id].there
        /\ t.pc = "write" => /\ fbHeld'[t.id] = d /\ t.status \in FeedbackStatus
                             /\ ~t.changed => t.status = fbRow'[t.id].status
    <3> HIDE DEF FbInvariant, FbTyped
    <3> QED
      BY <1>1, <2>2
  <2> QED
    BY <2>1, <2>3 DEF UpdateStands
<1>2. ASSUME NEW d \in FbClerks, fbTx'[d].pc \notin {"lock", "write"}
      PROVE  UpdateStands(d)'
  BY <1>2 DEF UpdateStands
<1>3. ASSUME NEW c \in FbClerks,
             \/ \E type \in FeedbackType : SubmitFeedback(c, type)
             \/ \E sort \in {0, SortOrderMax, NoReply} : SubmitReply(c, sort)
             \/ CheckFeedback(c) \/ CountCodes(c) \/ CountReplies(c) \/ CreateReply(c)
      PROVE  \A d \in FbClerks : UpdateStands(d)'
  <2>1. UNCHANGED <<fbRow, fbHeld>> /\ \A d \in FbClerks \ {c} : fbTx'[d] = fbTx[d]
    BY <1>3, Zenon DEF SubmitFeedback, SubmitReply, CheckFeedback, CountCodes, CountReplies,
                CreateReply, FbStart, FbDone, FbSay, FbRest
  <2>2. fbTx'[c].pc \notin {"lock", "write"}
    <3>1. fbTx \in [FbClerks -> FbRequest] /\ fbTx[c] \in FbRequest
      OBVIOUS
    <3>2. FbFree.pc = "free"
      BY DEF FbFree
    <3> HIDE DEF FbInvariant, FbTyped
    <3>3. CASE \E type \in FeedbackType : SubmitFeedback(c, type)
      BY <3>1, <3>3 DEF SubmitFeedback, FbStart, FbSay, FbFree
    <3>4. CASE \E sort \in {0, SortOrderMax, NoReply} : SubmitReply(c, sort)
      BY <3>1, <3>4 DEF SubmitReply, FbStart, FbSay, FbFree
    <3>5. CASE CheckFeedback(c)
      BY <3>1, <3>2, <3>5 DEF CheckFeedback, FbDone, FbSay, FbRequest
    <3>6. CASE CountCodes(c)
      BY <3>1, <3>6 DEF CountCodes, FbSay, FbRequest
    <3>7. CASE CountReplies(c)
      BY <3>1, <3>2, <3>7, Zenon DEF CountReplies, FbDone, FbSay, FbRequest
    <3>8. CASE CreateReply(c)
      BY <3>1, <3>2, <3>8 DEF CreateReply, FbDone, FbSay
    <3> QED
      BY <1>3, <3>3, <3>4, <3>5, <3>6, <3>7, <3>8
  <2> QED
    BY <1>1, <1>2, <2>1, <2>2
<1>4. ASSUME NEW c \in FbClerks, NEW f \in FbIds, NEW s \in FeedbackStatus \cup {Same},
             NEW noted \in BOOLEAN, SubmitFeedbackUpdate(c, f, s, noted)
      PROVE  \A d \in FbClerks : UpdateStands(d)'
  <2>1. UNCHANGED <<fbRow, fbHeld>> /\ \A d \in FbClerks \ {c} : fbTx'[d] = fbTx[d]
    BY <1>4 DEF SubmitFeedbackUpdate, FbStart, FbSay
  <2>2. fbTx'[c].pc = "lock" /\ fbTx'[c].id = f /\ fbRow[f].there
    BY <1>4 DEF SubmitFeedbackUpdate, FbStart, FbSay, FbFree
  <2>3. UpdateStands(c)'
    BY <2>1, <2>2 DEF UpdateStands
  <2> QED
    BY <1>1, <2>1, <2>3
<1>5. ASSUME NEW c \in FbClerks, InsertFeedback(c)
      PROVE  \A d \in FbClerks : UpdateStands(d)'
  <2>1. UNCHANGED fbHeld /\ \A d \in FbClerks \ {c} : fbTx'[d] = fbTx[d]
    BY <1>5 DEF InsertFeedback, FbDone, FbSay, FbRest
  <2>2. fbTx'[c].pc \notin {"lock", "write"}
    <3>1. fbTx \in [FbClerks -> FbRequest] /\ fbTx[c] \in FbRequest /\ FbFree.pc = "free"
      BY DEF FbFree
    <3>2. [fbTx[c] EXCEPT !.pc = "count", !.tries = @ + 1].pc = "count"
      BY <3>1 DEF FbRequest
    <3> HIDE DEF FbInvariant, FbTyped
    <3> QED
      BY <1>5, <3>1, <3>2 DEF InsertFeedback, FbDone, FbSay
  <2>3. \A f \in FbIds : fbRow[f].there => fbRow'[f] = fbRow[f]
    BY <1>5 DEF InsertFeedback
  <2> QED
    BY <1>1, <1>2, <2>1, <2>2, <2>3
<1>6. ASSUME NEW c \in FbClerks, LockFeedback(c)
      PROVE  \A d \in FbClerks : UpdateStands(d)'
  <2> DEFINE t == fbTx[c]
  <2>1. UNCHANGED fbRow /\ \A d \in FbClerks \ {c} : fbTx'[d] = fbTx[d]
    BY <1>6 DEF LockFeedback, FbDone, FbSay
  <2>2. \A f \in FbIds : fbHeld[f] # NoClerk => fbHeld'[f] = fbHeld[f]
    BY <1>6 DEF LockFeedback
  <2>3. /\ t \in FbRequest /\ t.pc = "lock" /\ t.id \in FbIds /\ fbRow[t.id].there
        /\ fbRow[t.id].status \in FeedbackStatus
    BY <1>6 DEF LockFeedback, UpdateStands, FbRows
  <2>4. UpdateStands(c)'
    <3>1. CASE FbDone(c)
      BY <1>2, <3>1 DEF FbDone, FbSay, FbFree
    <3>2. CASE FbSay(c, Decided(t)) /\ fbHeld' = [fbHeld EXCEPT ![t.id] = c]
      <4>1. fbTx'[c] = Decided(t) /\ fbHeld'[t.id] = c
        BY <2>3, <3>2 DEF FbSay
      <4> HIDE DEF t
      <4>2. /\ Decided(t).id = t.id /\ Decided(t).status \in FeedbackStatus
            /\ ~Decided(t).changed => Decided(t).status = fbRow[t.id].status
        BY <2>3 DEF Decided, FbRequest
      <4> QED
        BY <2>1, <2>3, <4>1, <4>2 DEF UpdateStands
    <3> QED
      BY <1>6, <3>1, <3>2 DEF LockFeedback
  <2> QED
    BY <1>1, <2>1, <2>2, <2>4
<1>7. ASSUME NEW c \in FbClerks, WriteFeedback(c)
      PROVE  \A d \in FbClerks : UpdateStands(d)'
  <2> DEFINE t == fbTx[c]
  <2>1. t.id \in FbIds /\ fbHeld[t.id] = c /\ t.status \in FeedbackStatus
    BY <1>7 DEF WriteFeedback, UpdateStands
  <2>2. /\ fbRow' = (IF t.changed THEN [fbRow EXCEPT ![t.id].status = t.status] ELSE fbRow)
        /\ fbHeld' = [fbHeld EXCEPT ![t.id] = NoClerk]
    BY <1>7 DEF WriteFeedback
  <2>3. \A d \in FbClerks \ {c} : fbTx'[d] = fbTx[d]
    BY <1>7 DEF WriteFeedback, FbDone, FbSay
  <2>4. UpdateStands(c)'
    BY <1>2, <1>7 DEF WriteFeedback, FbDone, FbSay, FbFree
  <2> HIDE DEF t
  <2>5. \A f \in FbIds : fbRow[f].there => fbRow'[f].there
    BY <2>1, <2>2 DEF FbRows
  <2>6. \A f \in FbIds : f # t.id => fbRow'[f] = fbRow[f] /\ fbHeld'[f] = fbHeld[f]
    BY <2>1, <2>2
  <2> QED
    BY <1>1, <2>1, <2>3, <2>4, <2>5, <2>6
<1>8. CASE UNCHANGED <<fbRow, fbHeld, fbTx>>
  BY <1>1, <1>8
<1> HIDE DEF FbInvariant, FbTyped
<1> QED
  BY <1>3, <1>4, <1>5, <1>6, <1>7, <1>8
  DEF FbNext, fbVars, AccessChanges, RemoveReply, UpdateReply

(* The rows, logs, locks and replies of the desk, in every state.          *)
THEOREM FeedbackInvariantHolds == FbSpec => []FbInvariant
<1>1. FbIdle => FbInvariant
  <2> SUFFICES ASSUME FbIdle
               PROVE  FbInvariant
    OBVIOUS
  <2> USE FbConstants DEF FbIdle
  <2>1. NoReply \in 0 .. NoReply /\ NoFeedback \in FbRows
    BY DEF NoReply, NoFeedback, FbRows, FeedbackType, FeedbackStatus
  <2>2. FbTyped
    BY <2>1, FbFreeFits DEF FbTyped, RepliesTyped
  <2>3. Replies = {}
    BY DEF Replies
  <2>4. ReplyHasRoom
    BY <2>3, FS_EmptySet DEF ReplyHasRoom, FbFree
  <2>5. \A f \in FbIds : TimelineAgrees(f)
    BY DEF TimelineAgrees, NoFeedback, Newest
  <2>6. \A c \in FbClerks : UpdateStands(c)
    BY DEF UpdateStands, FbFree
  <2> QED
    BY <2>2, <2>4, <2>5, <2>6 DEF FbInvariant
<1>2. FbInvariant /\ [FbNext]_fbVars => FbInvariant'
  <2> SUFFICES ASSUME FbInvariant, [FbNext]_fbVars
               PROVE  FbInvariant'
    OBVIOUS
  <2>1. FbTyped'
    BY FbTypesHold
  <2>2. ReplyHasRoom'
    BY <2>1, RoomKept
  <2> QED
    BY <2>1, <2>2, TimelinesKept, UpdatesStand DEF FbInvariant
<1> QED
  BY <1>1, <1>2, PTL DEF FbSpec

(* A timeline ends with the status of its row however updates overlap, and *)
(* overlapping creates never leave more replies than the limit.            *)
THEOREM DeskIsConsistent == FbSpec => []DeskLocksHold
<1>1. FbInvariant => DeskLocksHold
  BY DEF FbInvariant, ReplyHasRoom, TimelineAgrees, Newest, DeskLocksHold
<1> QED
  BY <1>1, FeedbackInvariantHolds, PTL

(***************************************************************************)
(* The option lists and their holders.                                     *)
(***************************************************************************)
OptPcs == {"free", "insert", "rename", "tomb", "make", "move", "commit", "drop", "hold",
           "dropCounts", "fill"}
OptRowType == [there : BOOLEAN, name : OptNames, reserved : BOOLEAN, deleted : BOOLEAN]
OptHoldType == [opt : OptIds \cup {NoOpt}, deleted : BOOLEAN, raced : BOOLEAN]
OptLists == SUBSET [opt : OptIds, holderCount : Nat, isFallback : BOOLEAN]
OptRequest ==
  [pc : OptPcs, opt : OptIds \cup {NoOpt}, to : OptIds \cup {NoOpt}, name : OptNames,
   holder : OptHolders \cup {NoOpt}, moved : SUBSET OptHolders, raced : BOOLEAN,
   key : OptKeys, list : OptLists]

OptRowsTyped ==
  /\ optKind \in OptKinds /\ optLeft \in Nat
  /\ optRow \in [OptIds -> OptRowType] /\ optHold \in [OptHolders -> OptHoldType]
OptListsTyped ==
  /\ optCache \in [OptKeys -> OptLists \cup {NoOpt}]
  /\ optAnswer \in [key : OptKeys, list : OptLists]
OptTyped == OptRowsTyped /\ OptListsTyped /\ optTx \in [OptClerks -> OptRequest]

(* A reserved row is there for good: no route curates it.                  *)
ReservedStay == \A o \in OptIds : optRow[o].reserved => optRow[o].there /\ ~optRow[o].deleted

(* A list for those who may not see the reserved rows.                     *)
CleanList(list) ==
  \A d \in list : d.opt \in OptIds /\ optRow[d.opt].there /\ ~optRow[d.opt].reserved
ListsClean ==
  /\ \A k \in OptKeys \ {"all"} : optCache[k] # NoOpt => CleanList(optCache[k])
  /\ optAnswer.key # "all" => CleanList(optAnswer.list)

(* What a request relies on: it curates an ordinary row; the holders it    *)
(* moves go to a reserved one, or to nothing; a holder's option was there, *)
(* and gone since only by a race; and at the commit whoever holds the      *)
(* option without being moved came past its check.                         *)
Curates == {"rename", "tomb", "make", "move", "commit"}
OptFits(t) ==
  /\ t.pc \in Curates =>
       t.opt \in OptIds /\ optRow[t.opt].there /\ ~optRow[t.opt].reserved
  /\ t.pc \in {"move", "commit"} =>
       t.to = NoOpt \/ (t.to \in OptIds /\ optRow[t.to].reserved)
  /\ t.pc = "hold" =>
       /\ t.opt \in OptIds /\ t.holder \in OptHolders /\ optRow[t.opt].there
       /\ optRow[t.opt].deleted => t.raced
  /\ t.pc # "commit" => t.moved = {}
  /\ t.pc = "commit" => \A h \in OptHolders :
       optHold[h].opt = t.opt => h \in t.moved \/ optHold[h].raced
  /\ t.pc = "fill" /\ t.key # "all" => CleanList(t.list)
MovesApart ==
  \A c, d \in OptClerks : c # d => optTx[c].moved \cap optTx[d].moved = {}

OptInvariant ==
  /\ OptTyped /\ ReservedStay /\ OrphansAreRaced /\ ListsClean /\ MovesApart
  /\ \A c \in OptClerks : OptFits(optTx[c])

(* What most steps leave alone: rows that are there keep their kind, none  *)
(* is deleted, and nobody's option changes.                                *)
RowsGrow ==
  \A o \in OptIds :
    /\ optRow[o].there => optRow'[o].there /\ (optRow'[o].reserved <=> optRow[o].reserved)
    /\ optRow'[o].deleted => optRow[o].deleted
HoldersStay ==
  \A h \in OptHolders : optHold'[h].opt = optHold[h].opt /\ optHold'[h].raced = optHold[h].raced
ListsStayClean ==
  /\ \A k \in OptKeys \ {"all"} : \/ optCache'[k] = optCache[k] \/ optCache'[k] = NoOpt
                                  \/ CleanList(optCache'[k])
  /\ \/ optAnswer' = optAnswer \/ optAnswer'.key = "all"
     \/ CleanList(optAnswer'.list)

-----------------------------------------------------------------------------
(* Nothing under way.                                                      *)
LEMMA OptFreeFits == OptFree \in OptRequest /\ OptFits(OptFree) /\ OptFits(OptFree)'
BY OptConstants DEF OptFree, OptRequest, OptPcs, OptNames, OptKeys, OptLists, OptFits, Curates

(* A clean list stays clean.                                               *)
LEMMA CleanStaysClean ==
  ASSUME RowsGrow, NEW list, CleanList(list)
  PROVE  CleanList(list)'
BY DEF RowsGrow, CleanList

(* So does what a request relies on.                                       *)
LEMMA OptFitsStays ==
  ASSUME ReservedStay, RowsGrow, HoldersStay, NEW t, OptFits(t)
  PROVE  OptFits(t)'
<1>1. t.pc = "fill" /\ t.key # "all" => CleanList(t.list)'
  BY CleanStaysClean DEF OptFits
<1>2. t.pc \in Curates =>
        t.opt \in OptIds /\ optRow'[t.opt].there /\ ~optRow'[t.opt].reserved
  BY DEF RowsGrow, OptFits
<1>3. t.pc = "hold" =>
        /\ t.opt \in OptIds /\ t.holder \in OptHolders /\ optRow'[t.opt].there
        /\ optRow'[t.opt].deleted => t.raced
  BY DEF RowsGrow, OptFits
<1>4. t.pc = "commit" => \A h \in OptHolders :
        optHold'[h].opt = t.opt => h \in t.moved \/ optHold'[h].raced
  BY DEF HoldersStay, OptFits
<1>5. t.pc \in {"move", "commit"} =>
        t.to = NoOpt \/ (t.to \in OptIds /\ optRow'[t.to].reserved)
  BY DEF RowsGrow, ReservedStay, OptFits
<1> QED
  BY <1>1, <1>2, <1>3, <1>4, <1>5 DEF OptFits

(* The steps that neither delete an option nor give somebody another.      *)
LEMMA QuietStep ==
  ASSUME OptInvariant, OptTyped', RowsGrow, HoldersStay, ReservedStay', ListsStayClean,
         \A d \in OptClerks : \/ optTx'[d] = optTx[d]
                              \/ optTx'[d].moved = {} /\ OptFits(optTx[d])'
  PROVE  OptInvariant'
<1>1. \A d \in OptClerks : OptFits(optTx[d])'
  <2> SUFFICES ASSUME NEW d \in OptClerks, optTx'[d] = optTx[d]
               PROVE  OptFits(optTx[d])'
    OBVIOUS
  <2>1. PICK t \in OptRequest : t = optTx[d]
    BY DEF OptInvariant, OptTyped
  <2>2. OptFits(t)'
    BY <2>1, OptFitsStays DEF OptInvariant
  <2> QED
    BY <2>1, <2>2
<1>2. MovesApart'
  BY DEF OptInvariant, MovesApart
<1>3. OrphansAreRaced'
  BY OptConstants DEF OptInvariant, OptTyped, OptRowsTyped, OptHoldType, OrphansAreRaced,
                      RowsGrow, HoldersStay
<1>4. ListsClean'
  <2>1. ASSUME NEW k \in OptKeys \ {"all"}, optCache'[k] # NoOpt
        PROVE  CleanList(optCache[k])'
    <3>1. PICK list : list = optCache'[k]
      OBVIOUS
    <3>2. CASE CleanList(optCache'[k])
      BY <3>1, <3>2, CleanStaysClean
    <3>3. CASE optCache'[k] = optCache[k]
      <4>1. CleanList(list)
        BY <2>1, <3>1, <3>3 DEF OptInvariant, ListsClean
      <4>2. CleanList(list)'
        BY <4>1, CleanStaysClean
      <4> QED
        BY <3>1, <4>2
    <3> QED
      BY <2>1, <3>2, <3>3 DEF ListsStayClean
  <2>2. ASSUME optAnswer'.key # "all"
        PROVE  CleanList(optAnswer.list)'
    <3>1. PICK list : list = optAnswer'.list
      OBVIOUS
    <3>2. CleanList(list)
      BY <2>2, <3>1 DEF OptInvariant, ListsClean, ListsStayClean
    <3>3. CleanList(list)'
      BY <3>2, CleanStaysClean
    <3> QED
      BY <3>1, <3>3
  <2> QED
    BY <2>1, <2>2 DEF ListsClean
<1> QED
  BY <1>1, <1>2, <1>3, <1>4 DEF OptInvariant

(* A step that only says what a request does next, and drops lists.        *)
LEMMA ReadStep ==
  ASSUME OptInvariant, NEW c \in OptClerks, NEW t \in OptRequest,
         optTx' = [optTx EXCEPT ![c] = t], OptFits(t), t.pc # "commit",
         UNCHANGED <<optKind, optRow, optHold>>, optLeft' \in Nat,
         OptListsTyped', ListsStayClean
  PROVE  OptInvariant'
<1>1. RowsGrow /\ HoldersStay /\ ReservedStay /\ ReservedStay'
  BY DEF OptInvariant, RowsGrow, HoldersStay, ReservedStay
<1>2. OptFits(t)' /\ t.moved = {}
  BY <1>1, OptFitsStays DEF OptFits
<1>3. OptTyped'
  BY DEF OptInvariant, OptTyped, OptRowsTyped
<1>4. \A d \in OptClerks : \/ optTx'[d] = optTx[d]
                           \/ optTx'[d].moved = {} /\ OptFits(optTx[d])'
  <2> SUFFICES ASSUME NEW d \in OptClerks
               PROVE  \/ optTx'[d] = optTx[d]
                      \/ optTx'[d].moved = {} /\ OptFits(optTx[d])'
    OBVIOUS
  <2>1. CASE d = c
    <3>1. optTx'[d] = t
      BY <2>1 DEF OptInvariant, OptTyped
    <3> QED
      BY <1>2, <3>1
  <2>2. CASE d # c
    BY <2>2 DEF OptInvariant, OptTyped
  <2> QED
    BY <2>1, <2>2
<1> QED
  BY <1>1, <1>3, <1>4, QuietStep

(* The same step when the cache is left alone.                             *)
LEMMA SayStep ==
  ASSUME OptInvariant, NEW c \in OptClerks, NEW t \in OptRequest,
         optTx' = [optTx EXCEPT ![c] = t], OptFits(t), t.pc # "commit",
         UNCHANGED <<optKind, optRow, optHold, optCache, optAnswer>>, optLeft' \in Nat
  PROVE  OptInvariant'
<1>1. OptListsTyped' /\ ListsStayClean
  BY DEF OptInvariant, OptTyped, OptListsTyped, ListsStayClean
<1> QED
  BY <1>1, ReadStep

(* The routes that begin, and the checks before a holder is written.       *)
LEMMA OptStarts ==
  ASSUME OptInvariant, NEW c \in OptClerks, NEW t \in OptRequest, OptStart(c, t),
         OptFits(t), t.pc # "commit"
  PROVE  OptInvariant'
<1>1. optTx' = [optTx EXCEPT ![c] = t]
  BY DEF OptStart, OptSay
<1>2. optLeft' \in Nat /\ UNCHANGED <<optKind, optRow, optHold, optCache, optAnswer>>
  BY DEF OptStart, OptInvariant, OptTyped, OptRowsTyped
<1> QED
  BY <1>1, <1>2, SayStep

LEMMA RoutesHold ==
  ASSUME OptInvariant, NEW c \in OptClerks, OptRoutes(c)
  PROVE  OptInvariant'
<1> USE OptFreeFits
<1>1. ASSUME NEW n \in OptNames, OptSubmitCreate(c, n)
      PROVE  OptInvariant'
  <2>1. PICK t \in OptRequest : t = [OptFree EXCEPT !.pc = "insert", !.name = n]
    BY DEF OptRequest, OptPcs
  <2>2. t.pc = "insert" /\ t.moved = {}
    BY <2>1 DEF OptFree
  <2>3. OptStart(c, t)
    BY <1>1, <2>1 DEF OptSubmitCreate, OptStart, OptSay
  <2>4. OptFits(t)
    BY <2>2 DEF OptFits, Curates
  <2> QED
    BY <2>2, <2>3, <2>4, OptStarts
<1>2. ASSUME NEW o \in OptIds, NEW n \in OptNames, OptSubmitRename(c, o, n)
      PROVE  OptInvariant'
  <2>1. PICK t \in OptRequest : t = [OptFree EXCEPT !.pc = "rename", !.opt = o, !.name = n]
    BY DEF OptRequest, OptPcs
  <2>2. t.pc = "rename" /\ t.opt = o /\ t.moved = {}
    BY <2>1 DEF OptFree
  <2>3. OptStart(c, t) /\ optRow[o].there /\ ~optRow[o].reserved
    BY <1>2, <2>1 DEF OptSubmitRename, OptStart, OptSay, Curated, OptActive
  <2>4. OptFits(t)
    BY <2>2, <2>3 DEF OptFits
  <2> QED
    BY <2>2, <2>3, <2>4, OptStarts
<1>3. ASSUME NEW o \in OptIds, OptSubmitDelete(c, o)
      PROVE  OptInvariant'
  <2> DEFINE pc == IF optKind = "amenity" THEN "move" ELSE "tomb"
  <2>1. PICK t \in OptRequest : t = [OptFree EXCEPT !.pc = pc, !.opt = o]
    BY DEF OptRequest, OptPcs
  <2>2. t.pc \in {"move", "tomb"} /\ t.opt = o /\ t.moved = {} /\ t.to = NoOpt
    BY <2>1 DEF OptFree
  <2>3. OptStart(c, t) /\ optRow[o].there /\ ~optRow[o].reserved
    BY <1>3, <2>1 DEF OptSubmitDelete, OptStart, OptSay, Curated, OptActive
  <2>4. OptFits(t)
    BY <2>2, <2>3 DEF OptFits
  <2> QED
    BY <2>2, <2>3, <2>4, OptStarts
<1> QED
  BY <1>1, <1>2, <1>3 DEF OptRoutes

LEMMA ChecksHold ==
  ASSUME OptInvariant, NEW c \in OptClerks, NEW h \in OptHolders, NEW o \in OptIds,
         NEW super \in BOOLEAN, CheckOption(c, h, o, super)
  PROVE  OptInvariant'
<1>1. PICK t \in OptRequest : t = [OptFree EXCEPT !.pc = "hold", !.holder = h, !.opt = o]
  BY OptFreeFits DEF OptRequest, OptPcs
<1>2. t.pc = "hold" /\ t.opt = o /\ t.holder = h /\ t.moved = {}
  BY <1>1 DEF OptFree
<1>3. OptStart(c, t) /\ optRow[o].there /\ ~optRow[o].deleted
  BY <1>1 DEF CheckOption, OptStart, OptSay, Assignable, OptActive
<1>4. OptFits(t)
  BY <1>2, <1>3 DEF OptFits, Curates
<1> QED
  BY <1>2, <1>3, <1>4, OptStarts

(* A request that does another step with the same option, or is done.      *)
LEMMA OptGoes ==
  ASSUME OptInvariant, NEW c \in OptClerks, NEW pc \in {"drop", "dropCounts", "make"},
         optTx[c].pc \in OptPcs \ {"commit"},
         pc = "make" => optTx[c].pc = "tomb"
  PROVE  \E t \in OptRequest : /\ t = [optTx[c] EXCEPT !.pc = pc] /\ t.moved = {}
                               /\ t.pc = pc /\ OptFits(t)
<1>1. optTx[c] \in OptRequest /\ OptFits(optTx[c])
  BY DEF OptInvariant, OptTyped
<1>2. PICK t \in OptRequest : t = [optTx[c] EXCEPT !.pc = pc]
  BY <1>1 DEF OptRequest, OptPcs
<1>3. t.pc = pc /\ t.moved = {} /\ t.opt = optTx[c].opt
  BY <1>1, <1>2 DEF OptRequest, OptFits
<1>4. OptFits(t)
  BY <1>1, <1>3 DEF OptFits, Curates
<1> QED
  BY <1>2, <1>3, <1>4

(* The tombstone found: the row the holders go to is reserved.             *)
LEMMA OptMoves ==
  ASSUME OptInvariant, NEW c \in OptClerks, NEW o \in OptIds, optTx[c].pc \in {"tomb", "make"}
  PROVE  \E t \in OptRequest : /\ t = [optTx[c] EXCEPT !.pc = "move", !.to = o]
                               /\ t.moved = {} /\ t.pc = "move" /\ t.to = o
                               /\ optRow[o].reserved => OptFits(t)
                               /\ t.opt = optTx[c].opt
<1>1. optTx[c] \in OptRequest /\ OptFits(optTx[c])
  BY DEF OptInvariant, OptTyped
<1>2. PICK t \in OptRequest : t = [optTx[c] EXCEPT !.pc = "move", !.to = o]
  BY <1>1 DEF OptRequest, OptPcs
<1>3. t.pc = "move" /\ t.moved = {} /\ t.opt = optTx[c].opt /\ t.to = o
  BY <1>1, <1>2 DEF OptRequest, OptFits
<1>4. optRow[o].reserved => OptFits(t)
  BY <1>1, <1>3 DEF OptFits, Curates
<1> QED
  BY <1>2, <1>3, <1>4

(* A step that writes rows and goes on.                                    *)
LEMMA RowStep ==
  ASSUME OptInvariant, NEW c \in OptClerks, NEW t \in OptRequest,
         optTx' = [optTx EXCEPT ![c] = t], t.moved = {}, OptFits(t)',
         UNCHANGED <<optKind, optHold, optCache, optAnswer, optLeft>>,
         optRow' \in [OptIds -> OptRowType], RowsGrow, ReservedStay'
  PROVE  OptInvariant'
<1>1. HoldersStay /\ ListsStayClean
  BY DEF HoldersStay, ListsStayClean
<1>2. OptTyped'
  BY DEF OptInvariant, OptTyped, OptRowsTyped, OptListsTyped
<1>3. \A d \in OptClerks : \/ optTx'[d] = optTx[d]
                           \/ optTx'[d].moved = {} /\ OptFits(optTx[d])'
  <2> SUFFICES ASSUME NEW d \in OptClerks
               PROVE  \/ optTx'[d] = optTx[d]
                      \/ optTx'[d].moved = {} /\ OptFits(optTx[d])'
    OBVIOUS
  <2>1. CASE d = c
    <3>1. optTx'[d] = t
      BY <2>1 DEF OptInvariant, OptTyped
    <3> QED
      BY <3>1
  <2>2. CASE d # c
    BY <2>2 DEF OptInvariant, OptTyped
  <2> QED
    BY <2>1, <2>2
<1> QED
  BY <1>1, <1>2, <1>3, QuietStep

(* A row that is made where there was none.                                *)
LEMMA NewRow ==
  ASSUME OptInvariant, NEW o \in OptIds, ~optRow[o].there,
         NEW new \in OptRowType, new.there, ~new.deleted,
         optRow' = [optRow EXCEPT ![o] = new]
  PROVE  optRow' \in [OptIds -> OptRowType] /\ RowsGrow /\ ReservedStay'
<1>1. optRow' \in [OptIds -> OptRowType] /\ optRow'[o] = new
      /\ \A p \in OptIds : p # o => optRow'[p] = optRow[p]
  BY DEF OptInvariant, OptTyped, OptRowsTyped
<1> QED
  BY <1>1 DEF OptInvariant, ReservedStay, RowsGrow

(* create of each service.                                                 *)
LEMMA InsertHolds ==
  ASSUME OptInvariant, NEW c \in OptClerks, InsertOption(c)
  PROVE  OptInvariant'
<1>1. optTx[c] \in OptRequest /\ optTx[c].pc = "insert" /\ optTx[c].name \in OptNames
  BY DEF OptInvariant, OptTyped, InsertOption, OptRequest
<1>2. CASE OptDone(c) /\ UNCHANGED optRow
  BY <1>2, OptFreeFits, SayStep
  DEF InsertOption, OptDone, OptSay, OptFree, OptInvariant, OptTyped, OptRowsTyped
<1>3. CASE /\ OptGo(c, "drop")
           /\ \E o \in OptIds : /\ ~optRow[o].there
                                /\ optRow' = [optRow EXCEPT ![o] =
                                     [NoOption EXCEPT !.there = TRUE, !.name = optTx[c].name]]
  <2>1. PICK o \in OptIds : /\ ~optRow[o].there
                            /\ optRow' = [optRow EXCEPT ![o] =
                                 [NoOption EXCEPT !.there = TRUE, !.name = optTx[c].name]]
    BY <1>3
  <2>2. PICK new \in OptRowType :
          new = [NoOption EXCEPT !.there = TRUE, !.name = optTx[c].name]
    BY <1>1 DEF OptRowType, NoOption
  <2>3. new.there /\ ~new.deleted
    BY <2>2 DEF NoOption
  <2>4. optRow' \in [OptIds -> OptRowType] /\ RowsGrow /\ ReservedStay'
    BY <2>1, <2>2, <2>3, NewRow
  <2>5. PICK t \in OptRequest : /\ t = [optTx[c] EXCEPT !.pc = "drop"] /\ t.moved = {}
                                /\ t.pc = "drop" /\ OptFits(t)
    BY <1>1, OptGoes DEF OptPcs
  <2>6. OptFits(t)'
    BY <2>5 DEF OptFits, Curates
  <2>7. optTx' = [optTx EXCEPT ![c] = t]
    BY <1>3, <2>5 DEF OptGo, OptSay
  <2> QED
    BY <2>4, <2>5, <2>6, <2>7, RowStep DEF InsertOption
<1> QED
  BY <1>2, <1>3 DEF InsertOption

(* update of each service.                                                 *)
LEMMA RenameHolds ==
  ASSUME OptInvariant, NEW c \in OptClerks, RenameOption(c)
  PROVE  OptInvariant'
<1>1. /\ optTx[c] \in OptRequest /\ optTx[c].pc = "rename" /\ optTx[c].name \in OptNames
      /\ optTx[c].opt \in OptIds
  BY DEF OptInvariant, OptTyped, RenameOption, OptRequest, OptFits, Curates
<1>2. CASE OptDone(c) /\ UNCHANGED optRow
  BY <1>2, OptFreeFits, SayStep
  DEF RenameOption, OptDone, OptSay, OptFree, OptInvariant, OptTyped, OptRowsTyped
<1>3. CASE OptGo(c, "drop") /\ optRow' = [optRow EXCEPT ![optTx[c].opt].name = optTx[c].name]
  <2>1. PICK o \in OptIds, n \in OptNames : o = optTx[c].opt /\ n = optTx[c].name
    BY <1>1
  <2>2. optRow' = [optRow EXCEPT ![o].name = n]
    BY <1>3, <2>1
  <2>3. optRow' \in [OptIds -> OptRowType] /\ RowsGrow /\ ReservedStay'
    BY <2>2 DEF OptInvariant, OptTyped, OptRowsTyped, OptRowType, RowsGrow, ReservedStay
  <2>4. PICK t \in OptRequest : /\ t = [optTx[c] EXCEPT !.pc = "drop"] /\ t.moved = {}
                                /\ t.pc = "drop" /\ OptFits(t)
    BY <1>1, OptGoes DEF OptPcs
  <2>5. OptFits(t)'
    BY <2>4 DEF OptFits, Curates
  <2>6. optTx' = [optTx EXCEPT ![c] = t]
    BY <1>3, <2>4 DEF OptGo, OptSay
  <2> QED
    BY <2>3, <2>4, <2>5, <2>6, RowStep DEF RenameOption
<1> QED
  BY <1>2, <1>3 DEF RenameOption

(* softDelete up to the row the holders will move to.                      *)
LEMMA FoundTombstone ==
  ASSUME OptInvariant, NEW c \in OptClerks, optTx[c].pc \in {"tomb", "make"}, ToTombstone(c),
         UNCHANGED <<optKind, optRow, optHold, optCache, optAnswer, optLeft>>
  PROVE  OptInvariant'
<1>1. PICK o \in OptIds : /\ optRow[o].reserved
                          /\ optTx' = [optTx EXCEPT ![c] = [optTx[c] EXCEPT !.pc = "move", !.to = o]]
  BY Zenon DEF ToTombstone, Tombstones, OptSay
<1>2. PICK t \in OptRequest : /\ t = [optTx[c] EXCEPT !.pc = "move", !.to = o]
                              /\ t.pc = "move" /\ OptFits(t)
  BY <1>1, OptMoves, Zenon
<1>3. optTx' = [optTx EXCEPT ![c] = t] /\ optLeft' \in Nat
  BY <1>1, <1>2 DEF OptInvariant, OptTyped, OptRowsTyped
<1> QED
  BY <1>2, <1>3, SayStep

LEMMA GivesUp ==
  ASSUME OptInvariant, NEW c \in OptClerks, OptDone(c),
         UNCHANGED <<optKind, optRow, optHold, optCache, optAnswer, optLeft>>
  PROVE  OptInvariant'
BY OptFreeFits, SayStep DEF OptDone, OptSay, OptFree, OptInvariant, OptTyped, OptRowsTyped

LEMMA TombstoneHolds ==
  ASSUME OptInvariant, NEW c \in OptClerks,
         ResolveTombstoneId(c) \/ FindTombstoneId(c) \/ MakeTombstone(c)
  PROVE  OptInvariant'
<1>1. optTx[c] \in OptRequest /\ optTx[c].pc \in {"tomb", "make"}
  BY Zenon DEF OptInvariant, OptTyped, ResolveTombstoneId, FindTombstoneId, MakeTombstone
<1>2. CASE /\ UNCHANGED <<optKind, optRow, optHold, optCache, optAnswer, optLeft>>
           /\ ToTombstone(c) \/ OptDone(c)
  BY <1>1, <1>2, FoundTombstone, GivesUp
<1>3. CASE FindTombstoneId(c) /\ OptGo(c, "make")
  <2>1. PICK t \in OptRequest : /\ t = [optTx[c] EXCEPT !.pc = "make"]
                                /\ t.pc = "make" /\ OptFits(t)
    BY <1>1, <1>3, OptGoes DEF FindTombstoneId, OptPcs
  <2>2. optTx' = [optTx EXCEPT ![c] = t] /\ optLeft' \in Nat
    BY <1>3, <2>1 DEF FindTombstoneId, OptGo, OptSay, OptInvariant, OptTyped, OptRowsTyped
  <2> QED
    BY <1>3, <2>1, <2>2, SayStep DEF FindTombstoneId
<1>4. ASSUME NEW o \in OptIds, MakeTombstone(c), ~optRow[o].there,
             optRow' = [optRow EXCEPT ![o] = [there |-> TRUE, name |-> TombstoneName,
                                              reserved |-> TRUE, deleted |-> FALSE]],
             OptSay(c, [optTx[c] EXCEPT !.pc = "move", !.to = o])
      PROVE  OptInvariant'
  <2>1. PICK new \in OptRowType : new = [there |-> TRUE, name |-> TombstoneName,
                                         reserved |-> TRUE, deleted |-> FALSE]
    BY DEF OptRowType, OptNames
  <2>2. optRow' \in [OptIds -> OptRowType] /\ RowsGrow /\ ReservedStay'
    BY <1>4, <2>1, NewRow
  <2>3. PICK t \in OptRequest : /\ t = [optTx[c] EXCEPT !.pc = "move", !.to = o]
                                /\ t.moved = {} /\ t.pc = "move" /\ t.to = o
                                /\ optRow[o].reserved => OptFits(t)
                                /\ t.opt = optTx[c].opt
    BY <1>1, OptMoves, Zenon
  <2>4. OptFits(t)'
    <3>1. /\ t.opt \in OptIds /\ optRow[t.opt].there /\ ~optRow[t.opt].reserved
      BY <1>1, <2>3 DEF OptInvariant, OptFits, Curates
    <3>2. optRow'[t.opt].there /\ ~optRow'[t.opt].reserved
      BY <2>2, <3>1 DEF RowsGrow
    <3>3. optRow'[o].reserved
      BY <1>4 DEF OptInvariant, OptTyped, OptRowsTyped
    <3> QED
      BY <2>3, <3>1, <3>2, <3>3 DEF OptFits, Curates
  <2>5. optTx' = [optTx EXCEPT ![c] = t]
    BY <1>4, <2>3 DEF OptSay
  <2> QED
    BY <1>4, <2>2, <2>3, <2>4, <2>5, RowStep, Zenon DEF MakeTombstone
<1> QED
  BY <1>1, <1>2, <1>3, <1>4, Zenon DEF ResolveTombstoneId, FindTombstoneId, MakeTombstone

LEMMA ReservedMadeHolds ==
  ASSUME OptInvariant, ResolveOrCreateReserved
  PROVE  OptInvariant'
<1>1. PICK o \in OptIds :
        /\ ~optRow[o].there
        /\ optRow' = [optRow EXCEPT ![o] = [there |-> TRUE, name |-> TombstoneName,
                                            reserved |-> TRUE, deleted |-> FALSE]]
  BY DEF ResolveOrCreateReserved
<1>2. PICK new \in OptRowType : new = [there |-> TRUE, name |-> TombstoneName,
                                       reserved |-> TRUE, deleted |-> FALSE]
  BY DEF OptRowType, OptNames
<1>3. optRow' \in [OptIds -> OptRowType] /\ RowsGrow /\ ReservedStay'
  BY <1>1, <1>2, NewRow
<1>4. /\ UNCHANGED <<optKind, optHold, optCache, optAnswer, optTx>> /\ optLeft' \in Nat
      /\ HoldersStay /\ ListsStayClean
  BY DEF ResolveOrCreateReserved, OptInvariant, OptTyped, OptRowsTyped, HoldersStay, ListsStayClean
<1>5. OptTyped'
  BY <1>3, <1>4 DEF OptInvariant, OptTyped, OptRowsTyped, OptListsTyped
<1> QED
  BY <1>3, <1>4, <1>5, QuietStep

(* The UPDATE of the holders takes those committed by now, all of them.    *)
LEMMA LockHolds ==
  ASSUME OptInvariant, NEW c \in OptClerks, LockHolders(c)
  PROVE  OptInvariant'
<1>1. optTx[c] \in OptRequest /\ optTx[c].pc = "move" /\ OptFits(optTx[c])
  BY DEF OptInvariant, OptTyped, LockHolders
<1>2. PICK hs \in SUBSET OptHolders : hs = HoldersToMove(optTx[c].opt)
  BY DEF HoldersToMove
<1>3. PICK t \in OptRequest : t = [optTx[c] EXCEPT !.pc = "commit", !.moved = hs]
  BY <1>1 DEF OptRequest, OptPcs
<1>4. t.pc = "commit" /\ t.moved = hs /\ t.opt = optTx[c].opt /\ t.to = optTx[c].to
  BY <1>1, <1>3 DEF OptRequest
<1>5. /\ optTx' = [optTx EXCEPT ![c] = t]
      /\ UNCHANGED <<optKind, optRow, optHold, optCache, optAnswer, optLeft>>
      /\ \A h \in hs : ~OptLocked(h, c)
  BY <1>2, <1>3 DEF LockHolders, OptSay
<1>6. OptFits(t)
  <2>1. \A h \in OptHolders : optHold[h].opt = t.opt => h \in t.moved
    BY <1>2, <1>4 DEF HoldersToMove
  <2> QED
    BY <1>1, <1>4, <2>1 DEF OptFits, Curates
<1>7. RowsGrow /\ HoldersStay /\ ReservedStay
  BY <1>5 DEF OptInvariant, RowsGrow, HoldersStay
<1>8. \A d \in OptClerks : OptFits(optTx[d])'
  <2> SUFFICES ASSUME NEW d \in OptClerks
               PROVE  OptFits(optTx[d])'
    OBVIOUS
  <2>1. optTx'[d] = IF d = c THEN t ELSE optTx[d]
    BY <1>5 DEF OptInvariant, OptTyped
  <2>2. PICK u : u = optTx'[d]
    OBVIOUS
  <2>3. OptFits(u)
    BY <1>6, <2>1, <2>2 DEF OptInvariant
  <2>4. OptFits(u)'
    BY <1>7, <2>3, OptFitsStays
  <2> QED
    BY <2>2, <2>4
<1>9. MovesApart'
  <2>1. \A d \in OptClerks \ {c} : optTx'[d] = optTx[d] /\ optTx[d].moved \cap hs = {}
    BY <1>5 DEF OptInvariant, OptTyped, OptLocked
  <2>2. optTx'[c].moved = hs
    BY <1>4, <1>5 DEF OptInvariant, OptTyped
  <2> QED
    BY <2>1, <2>2 DEF OptInvariant, MovesApart
<1>10. OptTyped' /\ ReservedStay' /\ OrphansAreRaced'
  BY <1>5 DEF OptInvariant, OptTyped, OptRowsTyped, OptListsTyped, ReservedStay, OrphansAreRaced
<1>11. ListsClean'
  BY <1>5 DEF OptInvariant, ListsClean, CleanList
<1> QED
  BY <1>8, <1>9, <1>10, <1>11 DEF OptInvariant

(* deletedAt and the commit: whoever is left on the option is a racer.     *)
LEMMA DeleteHolds ==
  ASSUME OptInvariant, NEW c \in OptClerks, OptDelete(c)
  PROVE  OptInvariant'
<1>1. PICK t \in OptRequest : t = optTx[c] /\ t.pc = "commit" /\ OptFits(t)
  BY Zenon DEF OptInvariant, OptTyped, OptDelete
<1>2. /\ t.opt \in OptIds /\ optRow[t.opt].there /\ ~optRow[t.opt].reserved
      /\ t.to = NoOpt \/ (t.to \in OptIds /\ optRow[t.to].reserved)
      /\ \A h \in OptHolders : optHold[h].opt = t.opt => h \in t.moved \/ optHold[h].raced
  BY <1>1 DEF OptFits, Curates
<1>3. /\ optHold' = [h \in OptHolders |->
           IF h \in t.moved
             THEN [optHold[h] EXCEPT !.opt = t.to, !.raced = FALSE] ELSE optHold[h]]
      /\ optRow' = [optRow EXCEPT ![t.opt].deleted = TRUE]
      /\ optTx' = [d \in OptClerks |->
           IF d = c THEN [t EXCEPT !.pc = "drop", !.moved = {}]
           ELSE [optTx[d] EXCEPT !.raced = @ \/ (optTx[d].pc = "hold" /\ optTx[d].opt = t.opt)]]
      /\ UNCHANGED <<optKind, optCache, optAnswer, optLeft>>
  BY <1>1, Zenon DEF OptDelete
<1>4. /\ \A o \in OptIds : /\ optRow'[o].there = optRow[o].there
                           /\ optRow'[o].reserved = optRow[o].reserved
                           /\ o # t.opt => optRow'[o].deleted = optRow[o].deleted
      /\ optRow' \in [OptIds -> OptRowType]
  BY <1>2, <1>3, Zenon DEF OptInvariant, OptTyped, OptRowsTyped, OptRowType
<1>5. /\ optHold' \in [OptHolders -> OptHoldType]
      /\ \A h \in OptHolders :
           IF h \in t.moved THEN optHold'[h].opt = t.to ELSE optHold'[h] = optHold[h]
  BY <1>3, Zenon DEF OptInvariant, OptTyped, OptRowsTyped, OptHoldType, OptRequest
<1>6. /\ optTx' \in [OptClerks -> OptRequest]
      /\ optTx'[c].pc = "drop" /\ optTx'[c].moved = {}
      /\ \A d \in OptClerks \ {c} :
           /\ optTx'[d].pc = optTx[d].pc /\ optTx'[d].opt = optTx[d].opt
           /\ optTx'[d].to = optTx[d].to /\ optTx'[d].holder = optTx[d].holder
           /\ optTx'[d].moved = optTx[d].moved /\ optTx'[d].key = optTx[d].key
           /\ optTx'[d].list = optTx[d].list
           /\ optTx[d].raced \/ (optTx[d].pc = "hold" /\ optTx[d].opt = t.opt)
                => optTx'[d].raced
  <2>1. [t EXCEPT !.pc = "drop", !.moved = {}] \in OptRequest
    BY DEF OptRequest, OptPcs
  <2>2. ASSUME NEW d \in OptClerks, NEW raced \in BOOLEAN
        PROVE  [optTx[d] EXCEPT !.raced = raced] \in OptRequest
    BY DEF OptInvariant, OptTyped, OptRequest
  <2>3. \A d \in OptClerks : (optTx[d].raced \/ (optTx[d].pc = "hold" /\ optTx[d].opt = t.opt))
                               \in BOOLEAN
    OBVIOUS
  <2>4. optTx' \in [OptClerks -> OptRequest]
    BY <1>3, <2>1, <2>2, <2>3, Zenon
  <2>5. optTx'[c].pc = "drop" /\ optTx'[c].moved = {}
    BY <1>3, Zenon DEF OptRequest
  <2>6. ASSUME NEW d \in OptClerks \ {c}
        PROVE  /\ optTx'[d].pc = optTx[d].pc /\ optTx'[d].opt = optTx[d].opt
               /\ optTx'[d].to = optTx[d].to /\ optTx'[d].holder = optTx[d].holder
               /\ optTx'[d].moved = optTx[d].moved /\ optTx'[d].key = optTx[d].key
               /\ optTx'[d].list = optTx[d].list
               /\ optTx[d].raced \/ (optTx[d].pc = "hold" /\ optTx[d].opt = t.opt)
                    => optTx'[d].raced
    <3>1. optTx[d] \in OptRequest
      BY DEF OptInvariant, OptTyped
    <3> QED
      BY <1>3, <3>1, Zenon DEF OptRequest
  <2> QED
    BY <2>4, <2>5, <2>6
<1>7. \A list \in OptLists : CleanList(list) => CleanList(list)'
  BY <1>4 DEF CleanList
<1>8. OptFits(optTx[c])'
  BY <1>6 DEF OptFits, Curates
<1>9. ASSUME NEW d \in OptClerks \ {c}
      PROVE  OptFits(optTx[d])'
  <2>1. PICK u \in OptRequest, v \in OptRequest : u = optTx[d] /\ v = optTx'[d]
    BY <1>6 DEF OptInvariant, OptTyped
  <2>2. OptFits(u) /\ u.list \in OptLists
    BY <2>1 DEF OptInvariant, OptRequest
  <2>3. /\ v.pc = u.pc /\ v.opt = u.opt /\ v.to = u.to /\ v.holder = u.holder
        /\ v.moved = u.moved /\ v.key = u.key /\ v.list = u.list
        /\ u.raced \/ (u.pc = "hold" /\ u.opt = t.opt) => v.raced
    BY <1>6, <2>1
  <2>4. v.pc \in Curates =>
          v.opt \in OptIds /\ optRow'[v.opt].there /\ ~optRow'[v.opt].reserved
    BY <1>4, <2>2, <2>3 DEF OptFits
  <2>5. v.pc \in {"move", "commit"} =>
          v.to = NoOpt \/ (v.to \in OptIds /\ optRow'[v.to].reserved)
    BY <1>4, <2>2, <2>3 DEF OptFits
  <2>6. v.pc = "hold" =>
          /\ v.opt \in OptIds /\ v.holder \in OptHolders /\ optRow'[v.opt].there
          /\ optRow'[v.opt].deleted => v.raced
    BY <1>4, <2>2, <2>3 DEF OptFits
  <2>7. v.pc # "commit" => v.moved = {}
    BY <2>2, <2>3 DEF OptFits
  <2>8. v.pc = "commit" => \A h \in OptHolders :
          optHold'[h].opt = v.opt => h \in v.moved \/ optHold'[h].raced
    <3> SUFFICES ASSUME v.pc = "commit", NEW h \in OptHolders, optHold'[h].opt = v.opt
                 PROVE  h \in v.moved \/ optHold'[h].raced
      OBVIOUS
    <3>1. v.opt \in OptIds /\ ~optRow[v.opt].reserved
      BY <2>2, <2>3 DEF OptFits, Curates
    <3>2. v.opt # t.to
      BY <1>2, <3>1, OptConstants
    <3>3. optHold'[h] = optHold[h]
      BY <1>5, <3>2
    <3> QED
      BY <2>2, <2>3, <3>3 DEF OptFits
  <2>9. v.pc = "fill" /\ v.key # "all" => CleanList(v.list)'
    BY <1>7, <2>2, <2>3 DEF OptFits
  <2>10. OptFits(v)'
    BY <2>4, <2>5, <2>6, <2>7, <2>8, <2>9 DEF OptFits
  <2> QED
    BY <2>1, <2>10
<1>10. MovesApart'
  BY <1>6 DEF OptInvariant, MovesApart
<1>11. OrphansAreRaced'
  <2> SUFFICES ASSUME NEW h \in OptHolders, optHold'[h].opt # NoOpt,
                      optRow'[optHold'[h].opt].deleted
               PROVE  optHold'[h].raced
    BY DEF OrphansAreRaced
  <2>1. CASE h \in t.moved
    <3>1. optHold'[h].opt = t.to /\ t.to \in OptIds /\ optRow[t.to].reserved
      BY <1>2, <1>5, <2>1
    <3>2. ~optRow[t.to].deleted /\ t.to # t.opt
      BY <1>2, <3>1 DEF OptInvariant, ReservedStay
    <3> QED
      BY <1>4, <3>1, <3>2
  <2>2. CASE h \notin t.moved
    <3>1. optHold'[h] = optHold[h] /\ optHold[h].opt \in OptIds
      BY <1>5, <2>2 DEF OptInvariant, OptTyped, OptRowsTyped, OptHoldType
    <3>2. CASE optHold[h].opt = t.opt
      BY <1>2, <2>2, <3>1, <3>2
    <3>3. CASE optHold[h].opt # t.opt
      BY <1>4, <3>1, <3>3 DEF OptInvariant, OrphansAreRaced
    <3> QED
      BY <3>2, <3>3
  <2> QED
    BY <2>1, <2>2
<1>12. ListsClean'
  <2>1. PICK answer \in [key : OptKeys, list : OptLists] : answer = optAnswer
    BY DEF OptInvariant, OptTyped, OptListsTyped
  <2>2. answer.key # "all" => CleanList(answer.list)'
    BY <1>7, <2>1 DEF OptInvariant, ListsClean
  <2>3. ASSUME NEW k \in OptKeys \ {"all"}, optCache[k] # NoOpt
        PROVE  CleanList(optCache[k])'
    <3>1. PICK list \in OptLists : list = optCache[k]
      BY <2>3 DEF OptInvariant, OptTyped, OptListsTyped
    <3>2. CleanList(list)'
      BY <1>7, <2>3, <3>1 DEF OptInvariant, ListsClean
    <3> QED
      BY <1>3, <3>1, <3>2, Zenon
  <2> QED
    BY <1>3, <2>1, <2>2, <2>3, Zenon DEF ListsClean
<1>13. ReservedStay'
  BY <1>2, <1>4 DEF OptInvariant, ReservedStay
<1>14. OptTyped'
  BY <1>3, <1>4, <1>5, <1>6, Zenon DEF OptInvariant, OptTyped, OptRowsTyped, OptListsTyped
<1> QED
  BY <1>8, <1>9, <1>10, <1>11, <1>12, <1>13, <1>14 DEF OptInvariant

(* The holder written: over a delete that is about to commit it is raced.  *)
LEMMA WriteHolds ==
  ASSUME OptInvariant, NEW c \in OptClerks, WriteHolder(c)
  PROVE  OptInvariant'
<1>1. PICK t \in OptRequest : t = optTx[c] /\ t.pc = "hold" /\ OptFits(t)
  BY DEF OptInvariant, OptTyped, WriteHolder
<1>2. /\ t.opt \in OptIds /\ t.holder \in OptHolders /\ optRow[t.opt].there
      /\ optRow[t.opt].deleted => t.raced
  BY <1>1 DEF OptFits
<1> DEFINE over == \E d \in OptClerks : optTx[d].pc = "commit" /\ optTx[d].opt = t.opt
           raced == t.raced \/ over
<1>3. /\ optHold' = [optHold EXCEPT ![t.holder].opt = t.opt, ![t.holder].raced = raced]
      /\ UNCHANGED <<optKind, optRow, optCache, optAnswer, optLeft>>
  BY <1>1 DEF WriteHolder
<1>4. raced \in BOOLEAN
  BY DEF OptRequest
<1>5. PICK u \in OptRequest : /\ u = [optTx[c] EXCEPT !.pc = "dropCounts"]
                              /\ u.moved = {} /\ u.pc = "dropCounts" /\ OptFits(u)
  BY <1>1, OptGoes DEF OptPcs
<1>6. optTx' = [optTx EXCEPT ![c] = u]
  BY <1>5 DEF WriteHolder, OptGo, OptSay
<1>7. \A d \in OptClerks : d # c /\ optTx[d].pc = "commit" /\ optTx[d].opt = t.opt => raced
  OBVIOUS
<1> HIDE DEF raced
<1>8. /\ optHold' \in [OptHolders -> OptHoldType]
      /\ optHold'[t.holder].opt = t.opt /\ optHold'[t.holder].raced = raced
      /\ \A h \in OptHolders : h # t.holder => optHold'[h] = optHold[h]
  BY <1>2, <1>3, <1>4 DEF OptInvariant, OptTyped, OptRowsTyped, OptHoldType
<1>9. ASSUME NEW d \in OptClerks
      PROVE  OptFits(optTx[d])'
  <2>1. CASE d = c
    <3>1. optTx'[d] = u
      BY <1>6, <2>1 DEF OptInvariant, OptTyped
    <3>2. OptFits(u)'
      BY <1>5 DEF OptFits, Curates
    <3> QED
      BY <3>1, <3>2
  <2>2. CASE d # c
    <3>1. PICK v \in OptRequest : v = optTx[d] /\ v = optTx'[d] /\ OptFits(v)
      BY <1>6, <2>2 DEF OptInvariant, OptTyped
    <3>2. v.pc = "commit" => \A h \in OptHolders :
            optHold'[h].opt = v.opt => h \in v.moved \/ optHold'[h].raced
      <4> SUFFICES ASSUME v.pc = "commit", NEW h \in OptHolders, optHold'[h].opt = v.opt
                   PROVE  h \in v.moved \/ optHold'[h].raced
        OBVIOUS
      <4>1. CASE h = t.holder
        BY <1>7, <1>8, <2>2, <3>1, <4>1
      <4>2. CASE h # t.holder
        BY <1>8, <3>1, <4>2 DEF OptFits
      <4> QED
        BY <4>1, <4>2
    <3>3. v.pc = "fill" /\ v.key # "all" => CleanList(v.list)'
      BY <1>3, <3>1 DEF OptFits, CleanList
    <3>4. OptFits(v)'
      BY <1>3, <3>1, <3>2, <3>3 DEF OptFits
    <3> QED
      BY <3>1, <3>4
  <2> QED
    BY <2>1, <2>2
<1>10. MovesApart'
  <2>1. \A d \in OptClerks : optTx'[d].moved \subseteq optTx[d].moved
    BY <1>5, <1>6 DEF OptInvariant, OptTyped
  <2> QED
    BY <2>1 DEF OptInvariant, MovesApart
<1>11. OrphansAreRaced'
  <2> SUFFICES ASSUME NEW h \in OptHolders, optHold'[h].opt # NoOpt,
                      optRow[optHold'[h].opt].deleted
               PROVE  optHold'[h].raced
    BY <1>3 DEF OrphansAreRaced
  <2>1. CASE h = t.holder
    <3>1. t.raced
      BY <1>2, <1>8, <2>1
    <3> QED
      BY <1>8, <2>1, <3>1 DEF raced
  <2>2. CASE h # t.holder
    BY <1>8, <2>2 DEF OptInvariant, OrphansAreRaced
  <2> QED
    BY <2>1, <2>2
<1>12. ListsClean' /\ ReservedStay'
  BY <1>3 DEF OptInvariant, ListsClean, CleanList, ReservedStay
<1>13. OptTyped'
  BY <1>3, <1>6, <1>8 DEF OptInvariant, OptTyped, OptRowsTyped, OptListsTyped
<1> QED
  BY <1>9, <1>10, <1>11, <1>12, <1>13 DEF OptInvariant

LEMMA HideHolds ==
  ASSUME OptInvariant, NEW c \in OptClerks, NEW h \in OptHolders, HideHolder(c, h)
  PROVE  OptInvariant'
<1>1. PICK t \in OptRequest : t = [OptFree EXCEPT !.pc = "dropCounts"]
  BY OptFreeFits DEF OptRequest, OptPcs
<1>2. t.pc = "dropCounts" /\ t.moved = {}
  BY <1>1 DEF OptFree
<1>3. OptFits(t)'
  BY <1>2 DEF OptFits, Curates
<1>4. /\ optHold' = [optHold EXCEPT ![h].deleted = ~@] /\ optTx' = [optTx EXCEPT ![c] = t]
      /\ UNCHANGED <<optKind, optRow, optCache, optAnswer>> /\ optLeft' \in Nat
  BY <1>1 DEF HideHolder, OptSay, OptInvariant, OptTyped, OptRowsTyped
<1>5. HoldersStay /\ optHold' \in [OptHolders -> OptHoldType]
  BY <1>4 DEF OptInvariant, OptTyped, OptRowsTyped, OptHoldType, HoldersStay
<1>6. RowsGrow /\ ReservedStay' /\ ListsStayClean
  BY <1>4 DEF OptInvariant, ReservedStay, RowsGrow, ListsStayClean
<1>7. OptTyped'
  BY <1>4, <1>5 DEF OptInvariant, OptTyped, OptRowsTyped, OptListsTyped
<1>8. \A d \in OptClerks : \/ optTx'[d] = optTx[d]
                           \/ optTx'[d].moved = {} /\ OptFits(optTx[d])'
  <2> SUFFICES ASSUME NEW d \in OptClerks
               PROVE  \/ optTx'[d] = optTx[d]
                      \/ optTx'[d].moved = {} /\ OptFits(optTx[d])'
    OBVIOUS
  <2>1. CASE d = c
    <3>1. optTx'[d] = t
      BY <1>4, <2>1 DEF OptInvariant, OptTyped
    <3> QED
      BY <1>2, <1>3, <3>1
  <2>2. CASE d # c
    BY <1>4, <2>2 DEF OptInvariant, OptTyped
  <2> QED
    BY <2>1, <2>2
<1> QED
  BY <1>5, <1>6, <1>7, <1>8, QuietStep

-----------------------------------------------------------------------------
(* The lists.  What those who may not see the reserved rows are shown.     *)
LEMMA ListsFit ==
  ASSUME OptInvariant
  PROVE  /\ \A inc \in BOOLEAN :
              /\ {OptionDto(o) : o \in Visible(inc)} \in OptLists
              /\ {VenueTypeDto(o) : o \in Visible(inc)} \in OptLists
         /\ {AmenityDto(o) : o \in Visible(FALSE)} \in OptLists
         /\ {LiffDto(o) : o \in Visible(FALSE)} \in OptLists
         /\ CleanList({OptionDto(o) : o \in Visible(FALSE)})
         /\ CleanList({VenueTypeDto(o) : o \in Visible(FALSE)})
         /\ CleanList({AmenityDto(o) : o \in Visible(FALSE)})
         /\ CleanList({LiffDto(o) : o \in Visible(FALSE)})
<1>1. \A o : HolderCount(o) \in Nat
  <2> SUFFICES ASSUME NEW o
               PROVE  HolderCount(o) \in Nat
    OBVIOUS
  <2>1. CountedHolders(o) \subseteq OptHolders
    BY DEF CountedHolders
  <2>2. Cardinality(CountedHolders(o)) \in Nat
    BY <2>1, OptConstants, FS_Subset, FS_CardinalityType
  <2> QED
    BY <2>2 DEF HolderCount
<1>2. \A o \in OptIds : (optRow[o].reserved /\ optRow[o].name = TombstoneName) \in BOOLEAN
  OBVIOUS
<1>3. \A o \in OptIds :
        /\ OptionDto(o) \in [opt : OptIds, holderCount : Nat, isFallback : BOOLEAN]
        /\ VenueTypeDto(o) \in [opt : OptIds, holderCount : Nat, isFallback : BOOLEAN]
        /\ AmenityDto(o) \in [opt : OptIds, holderCount : Nat, isFallback : BOOLEAN]
        /\ LiffDto(o) \in [opt : OptIds, holderCount : Nat, isFallback : BOOLEAN]
  BY <1>1, <1>2 DEF OptionDto, VenueTypeDto, AmenityDto, LiffDto
<1>4. \A inc : Visible(inc) \subseteq OptIds
  BY DEF Visible
<1>5. \A o \in Visible(FALSE) : o \in OptIds /\ optRow[o].there /\ ~optRow[o].reserved
  BY DEF Visible, OptActive
<1>6. \A o : /\ OptionDto(o).opt = o /\ VenueTypeDto(o).opt = o
             /\ AmenityDto(o).opt = o /\ LiffDto(o).opt = o
  BY DEF OptionDto, VenueTypeDto, AmenityDto, LiffDto
<1>7. \A inc \in BOOLEAN : /\ {OptionDto(o) : o \in Visible(inc)} \in OptLists
                           /\ {VenueTypeDto(o) : o \in Visible(inc)} \in OptLists
  BY <1>3, <1>4 DEF OptLists
<1>8. /\ {AmenityDto(o) : o \in Visible(FALSE)} \in OptLists
      /\ {LiffDto(o) : o \in Visible(FALSE)} \in OptLists
  BY <1>3, <1>4 DEF OptLists
<1>9. \A list : (\A d \in list : d.opt \in Visible(FALSE)) => CleanList(list)
  BY <1>5 DEF CleanList
<1>10. CleanList({OptionDto(o) : o \in Visible(FALSE)})
  <2>1. \A d \in {OptionDto(o) : o \in Visible(FALSE)} : d.opt \in Visible(FALSE)
    BY <1>6, Zenon
  <2> QED
    BY <1>9, <2>1
<1>11. CleanList({VenueTypeDto(o) : o \in Visible(FALSE)})
  <2>1. \A d \in {VenueTypeDto(o) : o \in Visible(FALSE)} : d.opt \in Visible(FALSE)
    BY <1>6, Zenon
  <2> QED
    BY <1>9, <2>1
<1>12. CleanList({AmenityDto(o) : o \in Visible(FALSE)})
  <2>1. \A d \in {AmenityDto(o) : o \in Visible(FALSE)} : d.opt \in Visible(FALSE)
    BY <1>6, Zenon
  <2> QED
    BY <1>9, <2>1
<1>13. CleanList({LiffDto(o) : o \in Visible(FALSE)})
  <2>1. \A d \in {LiffDto(o) : o \in Visible(FALSE)} : d.opt \in Visible(FALSE)
    BY <1>6, Zenon
  <2> QED
    BY <1>9, <2>1
<1> QED
  BY <1>7, <1>8, <1>10, <1>11, <1>12, <1>13

(* A list is read, from the cache or from the rows.                        *)
LEMMA ReadHolds ==
  ASSUME OptInvariant, NEW c \in OptClerks, NEW key \in OptKeys, NEW list \in OptLists,
         key # "all" => CleanList(list), ReadList(c, key, list)
  PROVE  OptInvariant'
<1>1. optTx[c] = OptFree /\ optLeft' \in Nat /\ UNCHANGED <<optKind, optRow, optHold, optCache>>
  BY DEF ReadList, OptInvariant, OptTyped, OptRowsTyped
<1>2. CASE optCache[key] # NoOpt
  <2>1. optAnswer' = [key |-> key, list |-> optCache[key]] /\ UNCHANGED optTx
    BY <1>2 DEF ReadList
  <2>2. OptListsTyped'
    BY <1>1, <1>2, <2>1 DEF OptInvariant, OptTyped, OptListsTyped
  <2>3. key # "all" => CleanList(optCache[key])
    BY <1>2 DEF OptInvariant, ListsClean
  <2>4. ListsStayClean
    BY <1>1, <2>1, <2>3 DEF ListsStayClean
  <2>5. optTx' = [optTx EXCEPT ![c] = OptFree]
    BY <1>1, <2>1 DEF OptInvariant, OptTyped
  <2>6. OptFree \in OptRequest /\ OptFits(OptFree) /\ OptFree.pc # "commit"
    BY OptFreeFits DEF OptFree
  <2> QED
    BY <1>1, <2>2, <2>4, <2>5, <2>6, ReadStep
<1>3. CASE optCache[key] = NoOpt
  <2>1. PICK t \in OptRequest : t = [OptFree EXCEPT !.pc = "fill", !.key = key, !.list = list]
    BY OptFreeFits DEF OptRequest, OptPcs
  <2>2. t.pc = "fill" /\ t.key = key /\ t.list = list /\ t.moved = {}
    BY <2>1 DEF OptFree
  <2>3. OptFits(t)
    BY <2>2 DEF OptFits, Curates
  <2>4. optTx' = [optTx EXCEPT ![c] = t] /\ UNCHANGED optAnswer
    BY <1>3, <2>1 DEF ReadList, OptSay
  <2> QED
    BY <1>1, <2>2, <2>3, <2>4, SayStep
<1> QED
  BY <1>2, <1>3

LEMMA RoutesRead ==
  ASSUME OptInvariant, NEW c \in OptClerks,
         ListOptions(c) \/ ListVenueTypes(c) \/ ListAmenities(c) \/ LiffOptions(c)
  PROVE  OptInvariant'
<1>1. ASSUME NEW inc \in BOOLEAN,
             \/ ReadList(c, OptionListKey(inc), {OptionDto(o) : o \in Visible(inc)})
             \/ ReadList(c, OptionListKey(inc), {VenueTypeDto(o) : o \in Visible(inc)})
      PROVE  OptInvariant'
  <2>1. OptionListKey(inc) \in OptKeys /\ (OptionListKey(inc) # "all" => inc = FALSE)
    BY DEF OptionListKey, OptKeys
  <2>2. CASE ReadList(c, OptionListKey(inc), {OptionDto(o) : o \in Visible(inc)})
    <3>1. PICK key, list : /\ key = OptionListKey(inc)
                           /\ list = {OptionDto(o) : o \in Visible(inc)}
      OBVIOUS
    <3>2. list \in OptLists /\ (key # "all" => CleanList(list))
      BY <2>1, <3>1, ListsFit
    <3>3. ReadList(c, key, list)
      BY <2>2, <3>1 DEF ReadList
    <3> QED
      BY <2>1, <3>1, <3>2, <3>3, ReadHolds
  <2>3. CASE ReadList(c, OptionListKey(inc), {VenueTypeDto(o) : o \in Visible(inc)})
    <3>1. PICK key, list : /\ key = OptionListKey(inc)
                           /\ list = {VenueTypeDto(o) : o \in Visible(inc)}
      OBVIOUS
    <3>2. list \in OptLists /\ (key # "all" => CleanList(list))
      BY <2>1, <3>1, ListsFit
    <3>3. ReadList(c, key, list)
      BY <2>3, <3>1 DEF ReadList
    <3> QED
      BY <2>1, <3>1, <3>2, <3>3, ReadHolds
  <2> QED
    BY <1>1, <2>2, <2>3
<1>2. CASE ReadList(c, "public", {AmenityDto(o) : o \in Visible(FALSE)})
  <2>1. PICK list : list = {AmenityDto(o) : o \in Visible(FALSE)}
    OBVIOUS
  <2>2. list \in OptLists /\ CleanList(list) /\ "public" \in OptKeys
    BY <2>1, ListsFit DEF OptKeys
  <2>3. ReadList(c, "public", list)
    BY <1>2, <2>1 DEF ReadList
  <2> QED
    BY <2>2, <2>3, ReadHolds
<1>3. CASE ReadList(c, "liff", {LiffDto(o) : o \in Visible(FALSE)})
  <2>1. PICK list : list = {LiffDto(o) : o \in Visible(FALSE)}
    OBVIOUS
  <2>2. list \in OptLists /\ CleanList(list) /\ "liff" \in OptKeys
    BY <2>1, ListsFit DEF OptKeys
  <2>3. ReadList(c, "liff", list)
    BY <1>3, <2>1 DEF ReadList
  <2> QED
    BY <2>2, <2>3, ReadHolds
<1> QED
  BY <1>1, <1>2, <1>3 DEF ListOptions, ListVenueTypes, ListAmenities, LiffOptions

(* The cache is filled with a clean list, and dropped.                     *)
LEMMA CacheHolds ==
  ASSUME OptInvariant, NEW c \in OptClerks,
         FillList(c) \/ DropOptionCache(c) \/ DropOptionCounts(c)
  PROVE  OptInvariant'
<1>1. PICK t \in OptRequest : t = optTx[c] /\ OptFits(t)
  BY DEF OptInvariant, OptTyped
<1>2. OptFree \in OptRequest /\ OptFits(OptFree) /\ OptFree.pc # "commit"
  BY OptFreeFits DEF OptFree
<1>3. /\ optTx' = [optTx EXCEPT ![c] = OptFree] /\ optLeft' \in Nat
      /\ UNCHANGED <<optKind, optRow, optHold>>
  BY DEF FillList, DropOptionCache, DropOptionCounts, DropKeys, OptDone, OptSay,
         OptInvariant, OptTyped, OptRowsTyped
<1>4. CASE FillList(c)
  <2>1. /\ t.pc = "fill" /\ optAnswer' = [key |-> t.key, list |-> t.list]
        /\ optCache' = [optCache EXCEPT ![t.key] = t.list] \/ UNCHANGED optCache
    BY <1>1, <1>4 DEF FillList
  <2>2. t.key \in OptKeys /\ t.list \in OptLists /\ (t.key # "all" => CleanList(t.list))
    BY <1>1, <2>1 DEF OptFits, OptRequest
  <2>3. OptListsTyped'
    BY <2>1, <2>2 DEF OptInvariant, OptTyped, OptListsTyped
  <2>4. \A k \in OptKeys \ {"all"} : optCache'[k] = optCache[k] \/ CleanList(optCache'[k])
    <3> SUFFICES ASSUME NEW k \in OptKeys \ {"all"}, optCache'[k] # optCache[k]
                 PROVE  CleanList(optCache'[k])
      OBVIOUS
    <3>1. k = t.key /\ optCache'[k] = t.list
      BY <2>1, <2>2 DEF OptInvariant, OptTyped, OptListsTyped
    <3> QED
      BY <2>2, <3>1
  <2>5. optAnswer'.key = "all" \/ CleanList(optAnswer'.list)
    BY <2>1, <2>2
  <2>6. ListsStayClean
    BY <2>4, <2>5 DEF ListsStayClean
  <2> QED
    BY <1>2, <1>3, <2>3, <2>6, ReadStep
<1>5. CASE DropOptionCache(c) \/ DropOptionCounts(c)
  <2>1. /\ UNCHANGED optAnswer
        /\ \E keys : \/ optCache' = [k \in OptKeys |-> IF k \in keys THEN NoOpt ELSE optCache[k]]
                     \/ UNCHANGED optCache
    BY <1>5 DEF DropOptionCache, DropOptionCounts, DropKeys
  <2>2. OptListsTyped' /\ ListsStayClean
    BY <2>1 DEF OptInvariant, OptTyped, OptListsTyped, ListsStayClean
  <2> QED
    BY <1>2, <1>3, <2>2, ReadStep
<1> QED
  BY <1>4, <1>5

LEMMA ExpiryHolds ==
  ASSUME OptInvariant, NEW k \in OptKeys, ListExpires(k)
  PROVE  OptInvariant'
<1>1. /\ optCache' = [optCache EXCEPT ![k] = NoOpt]
      /\ UNCHANGED <<optKind, optRow, optHold, optAnswer, optLeft, optTx>>
  BY DEF ListExpires
<1>2. RowsGrow /\ HoldersStay /\ ReservedStay'
  BY <1>1 DEF OptInvariant, RowsGrow, HoldersStay, ReservedStay
<1>3. OptTyped' /\ ListsStayClean
  BY <1>1 DEF OptInvariant, OptTyped, OptRowsTyped, OptListsTyped, ListsStayClean
<1> QED
  BY <1>1, <1>2, <1>3, QuietStep

(* A seeded list, and a database that was never seeded.                    *)
LEMMA OptStartsSound == OptInit => OptInvariant
<1> SUFFICES ASSUME OptInit
             PROVE  OptInvariant
  OBVIOUS
<1>1. SomeOpt \in OptIds
  BY OptConstants DEF SomeOpt
<1>1b. PICK p \in OptIds : \E t : Seeded(p, t)
  BY <1>1 DEF OptInit, SeedOptions, SeedVenueTypes, SeedAmenities
<1>2. PICK t : Seeded(p, t)
  BY <1>1b
<1>3. OptIdle /\ optKind \in OptKinds
  BY DEF OptInit
<1>4. /\ optRow \in [OptIds -> OptRowType]
      /\ \A o \in OptIds : /\ ~optRow[o].deleted
                           /\ optRow[o].reserved => optRow[o].there
  BY <1>2 DEF Seeded, OptRowType, NoOption, OptNames
<1>5. optHold \in [OptHolders -> OptHoldType]
  BY <1>2 DEF Seeded, OptHoldType
<1>6. OptTyped
  BY <1>3, <1>4, <1>5, OptConstants, OptFreeFits
  DEF OptIdle, OptTyped, OptRowsTyped, OptListsTyped, OptKeys, OptLists
<1>7. ReservedStay
  BY <1>4 DEF ReservedStay
<1>8. OrphansAreRaced
  BY <1>4, <1>5 DEF OrphansAreRaced, OptHoldType
<1>9. ListsClean
  BY <1>3 DEF OptIdle, ListsClean
<1>10. MovesApart
  BY <1>3 DEF OptIdle, MovesApart, OptFree
<1>11. \A c \in OptClerks : OptFits(optTx[c])
  BY <1>3, OptFreeFits DEF OptIdle
<1> QED
  BY <1>6, <1>7, <1>8, <1>9, <1>10, <1>11 DEF OptInvariant

(* The lists, their holders, the cache and the requests, in every state.   *)
THEOREM OptionInvariantHolds == OptSpec => []OptInvariant
<1>1. OptInvariant /\ [OptNext]_optVars => OptInvariant'
  <2> SUFFICES ASSUME OptInvariant, [OptNext]_optVars
               PROVE  OptInvariant'
    OBVIOUS
  <2>1. ASSUME NEW c \in OptClerks,
               \/ DepartmentRoutes(c) \/ PersonnelRoleRoutes(c)
               \/ VenueTypeRoutes(c) \/ AmenityRoutes(c)
        PROVE  OptInvariant'
    BY <2>1, RoutesHold DEF DepartmentRoutes, PersonnelRoleRoutes, VenueTypeRoutes, AmenityRoutes
  <2>2. ASSUME NEW c \in OptClerks, NEW h \in OptHolders, NEW o \in OptIds,
               \/ AssertOptionsAssignable(c, h, o) \/ AssertActiveOptions(c, h, o)
               \/ AssertAssignableVenueType(c, h, o) \/ AssertActiveAmenities(c, h, o)
        PROVE  OptInvariant'
    BY <2>2, ChecksHold DEF AssertOptionsAssignable, AssertActiveOptions,
                            AssertAssignableVenueType, AssertActiveAmenities
  <2>3. ASSUME NEW c \in OptClerks,
               ListOptions(c) \/ ListVenueTypes(c) \/ ListAmenities(c) \/ LiffOptions(c)
        PROVE  OptInvariant'
    BY <2>3, RoutesRead
  <2>4. ASSUME NEW c \in OptClerks,
               \/ CreateOption(c) \/ CreateVenueType(c) \/ CreateAmenity(c)
               \/ UpdateOption(c) \/ UpdateVenueType(c) \/ UpdateAmenity(c)
        PROVE  OptInvariant'
    BY <2>4, InsertHolds, RenameHolds DEF CreateOption, CreateVenueType, CreateAmenity,
                                          UpdateOption, UpdateVenueType, UpdateAmenity
  <2>5. ASSUME NEW c \in OptClerks,
               ResolveTombstoneId(c) \/ FindTombstoneId(c) \/ MakeTombstone(c)
        PROVE  OptInvariant'
    BY <2>5, TombstoneHolds
  <2>6. ASSUME NEW c \in OptClerks, MoveHolders(c) \/ MoveVenues(c) \/ ReleaseVenues(c)
        PROVE  OptInvariant'
    BY <2>6, LockHolds DEF MoveHolders, MoveVenues, ReleaseVenues
  <2>7. ASSUME NEW c \in OptClerks, OptDelete(c)
        PROVE  OptInvariant'
    BY <2>7, DeleteHolds
  <2>8. ASSUME NEW c \in OptClerks, WriteHolder(c) \/ \E h \in OptHolders : HideHolder(c, h)
        PROVE  OptInvariant'
    BY <2>8, WriteHolds, HideHolds
  <2>9. ASSUME NEW c \in OptClerks, FillList(c) \/ DropOptionCache(c) \/ DropOptionCounts(c)
        PROVE  OptInvariant'
    BY <2>9, CacheHolds
  <2>10. CASE ResolveOrCreateReserved
    BY <2>10, ReservedMadeHolds
  <2>11. ASSUME NEW k \in OptKeys, ListExpires(k)
         PROVE  OptInvariant'
    BY <2>11, ExpiryHolds
  <2>12. CASE UNCHANGED optVars
    <3>1. UNCHANGED <<optKind, optRow, optHold, optCache, optAnswer, optLeft, optTx>>
      BY <2>12 DEF optVars
    <3>2. RowsGrow /\ HoldersStay /\ ReservedStay' /\ ListsStayClean
      BY <3>1 DEF OptInvariant, RowsGrow, HoldersStay, ReservedStay, ListsStayClean
    <3>3. OptTyped'
      BY <3>1 DEF OptInvariant, OptTyped, OptRowsTyped, OptListsTyped
    <3> QED
      BY <3>1, <3>2, <3>3, QuietStep
  <2> QED
    BY <2>1, <2>2, <2>3, <2>4, <2>5, <2>6, <2>7, <2>8, <2>9, <2>10, <2>11, <2>12 DEF OptNext
<1> QED
  BY <1>1, OptStartsSound, PTL DEF OptSpec

(* A soft delete leaves nobody on the option but whoever was past its      *)
(* check, and a reserved row is never answered to those who may not see    *)
(* it, whatever the cache holds.                                           *)
THEOREM OptionListsSafe == OptSpec => []OptionsAreSafe
<1>1. OptInvariant => OptionsAreSafe
  BY DEF OptInvariant, OptionsAreSafe, ReservedStaysHidden, ListsClean, CleanList
<1> QED
  BY <1>1, OptionInvariantHolds, PTL

(***************************************************************************)
(* The booking numbers.                                                    *)
(***************************************************************************)
CodePcs == {"idle", "clock", "count", "insert", "commit", "failed"}
NumberedRows == [code : [day : Nat, seq : Nat], createdAt : Nat]
CodeRequest == [pc : CodePcs, attempt : Nat, at : Nat, base : Nat, row : NumberedRows]
CodeTyped ==
  /\ now \in Nat /\ bookings \subseteq NumberedRows /\ IsFiniteSet(bookings)
  /\ codeTx \in [Inserters -> CodeRequest]

CreatedOn(d) == {b \in bookings : BangkokDay(b.createdAt) = d}
Counted(code) == code.seq <= 1 + Cardinality(CreatedOn(code.day))

(* A row created on the day of its number is one of those that number      *)
(* counts; one created after midnight has the number of the day before.    *)
NumbersCount ==
  \A b \in bookings :
    /\ b.createdAt <= now /\ b.code.day <= BangkokDay(b.createdAt)
    /\ b.code.day = BangkokDay(b.createdAt)
         => b.code.seq <= Cardinality(CreatedOn(b.code.day))

(* A handler numbers the day its clock read, and at its commit the number  *)
(* is nobody else's.                                                       *)
NumberFits(t) ==
  /\ t.pc \in {"count", "insert", "commit"} => t.at <= now
  /\ t.pc \in {"insert", "commit"} => t.row.code.day = BangkokDay(t.at) /\ Counted(t.row.code)
  /\ t.pc = "commit" =>
       /\ t.at <= t.row.createdAt /\ t.row.createdAt <= now
       /\ \A b \in bookings : b.code # t.row.code
NumbersApart ==
  \A w, x \in Inserters : w # x /\ codeTx[w].pc = "commit" /\ codeTx[x].pc = "commit"
    => codeTx[w].row.code # codeTx[x].row.code

(* As long as no more bookings have come than its attempts account for,    *)
(* nothing has been committed since a handler read the clock, and its      *)
(* number is the next one.                                                 *)
PaidFor(t) ==
  t.pc # "idle" =>
    /\ t.base + t.attempt <= 1 + Cardinality(bookings)
    /\ t.base + t.attempt = 1 + Cardinality(bookings) =>
         /\ t.pc \in {"count", "insert"} => \A b \in bookings : b.createdAt <= t.at
         /\ t.pc = "insert" =>
              t.row.code.seq = 1 + Cardinality(CreatedOn(t.row.code.day))

CodeInvariant ==
  /\ CodeTyped /\ NumbersCount /\ NumbersApart
  /\ \A w \in Inserters : NumberFits(codeTx[w]) /\ PaidFor(codeTx[w])

-----------------------------------------------------------------------------
(* Days follow each other.                                                 *)
LEMMA DaysInOrder ==
  ASSUME NEW a \in Nat, NEW b \in Nat, a <= b
  PROVE  BangkokDay(a) \in Nat /\ BangkokDay(b) \in Nat /\ BangkokDay(a) <= BangkokDay(b)
<1>1. DayLength \in Nat /\ DayLength > 0 /\ Offset \in Nat
  BY CodeAssumption
<1>2. PICK x \in Nat, y \in Nat : x = a + Offset /\ y = b + Offset /\ x <= y
  BY <1>1
<1>3. PICK p, q : p = x \div DayLength /\ q = y \div DayLength
  OBVIOUS
<1>4. p \in Nat /\ q \in Nat /\ p <= q
  BY <1>1, <1>2, <1>3
<1> QED
  BY <1>2, <1>3, <1>4 DEF BangkokDay

(* Counting the rows of a day.                                             *)
LEMMA CreatedCounted ==
  ASSUME IsFiniteSet(bookings)
  PROVE  /\ Cardinality(bookings) \in Nat
         /\ \A d : Cardinality(CreatedOn(d)) \in Nat
<1> SUFFICES ASSUME NEW d
             PROVE  Cardinality(bookings) \in Nat /\ Cardinality(CreatedOn(d)) \in Nat
  OBVIOUS
<1>1. CreatedOn(d) \subseteq bookings
  BY DEF CreatedOn
<1> QED
  BY <1>1, FS_Subset, FS_CardinalityType

(* A booking that is new adds one to all, and to its own day.              *)
LEMMA BookingAdds ==
  ASSUME CodeTyped, NEW b \in NumberedRows, b \notin bookings, bookings' = bookings \cup {b}
  PROVE  /\ IsFiniteSet(bookings') /\ Cardinality(bookings') = Cardinality(bookings) + 1
         /\ \A d : Cardinality(CreatedOn(d)') =
                     IF BangkokDay(b.createdAt) = d THEN Cardinality(CreatedOn(d)) + 1
                     ELSE Cardinality(CreatedOn(d))
<1>1. IsFiniteSet(bookings') /\ Cardinality(bookings') = Cardinality(bookings) + 1
  BY FS_AddElement DEF CodeTyped
<1>2. ASSUME NEW d
      PROVE  Cardinality(CreatedOn(d)') =
               IF BangkokDay(b.createdAt) = d THEN Cardinality(CreatedOn(d)) + 1
               ELSE Cardinality(CreatedOn(d))
  <2>1. IsFiniteSet(CreatedOn(d)) /\ b \notin CreatedOn(d)
    <3>1. CreatedOn(d) \subseteq bookings
      BY DEF CreatedOn
    <3> QED
      BY <3>1, FS_Subset DEF CodeTyped
  <2>2. CASE BangkokDay(b.createdAt) = d
    <3>1. CreatedOn(d)' = CreatedOn(d) \cup {b}
      BY <2>2 DEF CreatedOn
    <3> QED
      BY <2>1, <2>2, <3>1, FS_AddElement
  <2>3. CASE BangkokDay(b.createdAt) # d
    <3>1. CreatedOn(d)' = CreatedOn(d)
      BY <2>3 DEF CreatedOn
    <3> QED
      BY <2>3, <3>1
  <2> QED
    BY <2>2, <2>3
<1> QED
  BY <1>1, <1>2

(* Time passes.                                                            *)
LEMMA TickHolds ==
  ASSUME CodeInvariant, ClockTick
  PROVE  CodeInvariant'
<1>1. now \in Nat /\ now' = now + 1 /\ UNCHANGED <<bookings, codeTx>>
  BY DEF CodeInvariant, CodeTyped, ClockTick
<1>2. \A d : CreatedOn(d)' = CreatedOn(d)
  BY <1>1 DEF CreatedOn
<1>3. CodeTyped' /\ NumbersApart'
  BY <1>1 DEF CodeInvariant, CodeTyped, NumbersApart
<1>4. NumbersCount'
  <2>1. \A b \in bookings : b.createdAt \in Nat
    BY DEF CodeInvariant, CodeTyped, NumberedRows
  <2> QED
    BY <1>1, <1>2, <2>1 DEF CodeInvariant, NumbersCount
<1>5. ASSUME NEW w \in Inserters
      PROVE  NumberFits(codeTx[w])' /\ PaidFor(codeTx[w])'
  <2>1. PICK t \in CodeRequest : t = codeTx[w] /\ t = codeTx'[w]
    BY <1>1 DEF CodeInvariant, CodeTyped
  <2>2. NumberFits(t) /\ PaidFor(t) /\ t.at \in Nat /\ t.row.createdAt \in Nat
    BY <2>1 DEF CodeInvariant, CodeRequest, NumberedRows
  <2>3. NumberFits(t)'
    BY <1>1, <1>2, <2>2 DEF NumberFits, Counted
  <2>4. PaidFor(t)'
    BY <1>1, <1>2, <2>2 DEF PaidFor
  <2> QED
    BY <2>1, <2>3, <2>4
<1> QED
  BY <1>3, <1>4, <1>5 DEF CodeInvariant

(* A step of one handler that commits nothing.                             *)
LEMMA HandlerStep ==
  ASSUME CodeInvariant, NEW w \in Inserters, NEW t \in CodeRequest,
         codeTx' = [codeTx EXCEPT ![w] = t], UNCHANGED <<now, bookings>>,
         NumberFits(t), PaidFor(t),
         t.pc = "commit" => \A x \in Inserters \ {w} :
           codeTx[x].pc = "commit" => codeTx[x].row.code # t.row.code
  PROVE  CodeInvariant'
<1>1. codeTx' \in [Inserters -> CodeRequest]
      /\ \A x \in Inserters : codeTx'[x] = IF x = w THEN t ELSE codeTx[x]
  BY DEF CodeInvariant, CodeTyped
<1>2. \A d : CreatedOn(d)' = CreatedOn(d)
  BY DEF CreatedOn
<1>3. CodeTyped' /\ NumbersCount'
  BY <1>1, <1>2 DEF CodeInvariant, CodeTyped, NumbersCount
<1>4. NumbersApart'
  BY <1>1 DEF CodeInvariant, NumbersApart
<1>5. ASSUME NEW x \in Inserters
      PROVE  NumberFits(codeTx[x])' /\ PaidFor(codeTx[x])'
  <2>1. PICK u \in CodeRequest : u = codeTx'[x]
    BY <1>1
  <2>2. NumberFits(u) /\ PaidFor(u)
    BY <1>1, <2>1 DEF CodeInvariant
  <2>3. NumberFits(u)' /\ PaidFor(u)'
    BY <1>2, <2>2 DEF NumberFits, Counted, PaidFor
  <2> QED
    BY <2>1, <2>3
<1> QED
  BY <1>3, <1>4, <1>5 DEF CodeInvariant

(* The number is taken: then a booking has come since the clock was read.  *)
LEMMA TakenIsPaid ==
  ASSUME CodeInvariant, NEW w \in Inserters, codeTx[w].pc = "insert",
         NEW b \in bookings, b.code = codeTx[w].row.code
  PROVE  codeTx[w].base + codeTx[w].attempt <= Cardinality(bookings)
<1>1. PICK t \in CodeRequest : t = codeTx[w] /\ NumberFits(t) /\ PaidFor(t) /\ t.pc = "insert"
  BY DEF CodeInvariant, CodeTyped
<1>2. /\ t.base \in Nat /\ t.attempt \in Nat /\ t.at \in Nat
      /\ b.createdAt \in Nat /\ b.code.seq \in Nat /\ b.code.day \in Nat
      /\ Cardinality(bookings) \in Nat /\ \A d : Cardinality(CreatedOn(d)) \in Nat
  BY CreatedCounted DEF CodeInvariant, CodeTyped, CodeRequest, NumberedRows
<1>3. t.base + t.attempt <= 1 + Cardinality(bookings)
  BY <1>1 DEF PaidFor
<1>4. SUFFICES ASSUME t.base + t.attempt = 1 + Cardinality(bookings)
               PROVE  FALSE
  BY <1>1, <1>2, <1>3
<1>5. b.createdAt <= t.at /\ b.code.seq = 1 + Cardinality(CreatedOn(b.code.day))
  BY <1>1, <1>4 DEF PaidFor
<1>6. b.code.day = BangkokDay(t.at) /\ b.code.day <= BangkokDay(b.createdAt)
  BY <1>1 DEF NumberFits, CodeInvariant, NumbersCount
<1>7. /\ BangkokDay(b.createdAt) <= BangkokDay(t.at)
      /\ BangkokDay(b.createdAt) \in Nat /\ BangkokDay(t.at) \in Nat
  BY <1>2, <1>5, DaysInOrder
<1>8. b.code.day = BangkokDay(b.createdAt)
  BY <1>6, <1>7
<1>9. b.code.seq <= Cardinality(CreatedOn(b.code.day))
  BY <1>8 DEF CodeInvariant, NumbersCount
<1> QED
  BY <1>2, <1>5, <1>9

(* What a handler does, step by step.                                      *)
LEMMA HandlersHold ==
  ASSUME CodeInvariant, NEW w \in Inserters,
         \/ BeginInsert(w) \/ ReadClock(w) \/ NextBookingCode(w) \/ InsertRow(w) \/ Abort(w)
  PROVE  CodeInvariant'
<1>1. PICK t \in CodeRequest : t = codeTx[w] /\ NumberFits(t) /\ PaidFor(t)
  BY DEF CodeInvariant, CodeTyped
<1>2. /\ t.base \in Nat /\ t.attempt \in Nat /\ t.at \in Nat /\ t.row \in NumberedRows
      /\ t.pc \in CodePcs
      /\ Cardinality(bookings) \in Nat /\ \A d : Cardinality(CreatedOn(d)) \in Nat
      /\ now \in Nat /\ \A b \in bookings : b.createdAt <= now
  BY <1>1, CreatedCounted DEF CodeInvariant, CodeTyped, CodeRequest, NumbersCount
<1>3. CASE Abort(w)
  <2>1. NoInsert \in CodeRequest /\ NoInsert.pc = "idle"
    BY DEF NoInsert, CodeRequest, CodePcs, NumberedRows
  <2>2. NumberFits(NoInsert) /\ PaidFor(NoInsert)
    BY <2>1 DEF NumberFits, PaidFor
  <2> QED
    BY <1>3, <2>1, <2>2, HandlerStep DEF Abort
<1>4. CASE BeginInsert(w)
  <2>1. PICK u \in CodeRequest :
          u = [NoInsert EXCEPT !.pc = "clock", !.attempt = 1, !.base = Cardinality(bookings)]
    BY <1>2 DEF NoInsert, CodeRequest, CodePcs, NumberedRows
  <2>2. u.pc = "clock" /\ u.attempt = 1 /\ u.base = Cardinality(bookings)
    BY <2>1 DEF NoInsert
  <2>3. NumberFits(u) /\ PaidFor(u)
    BY <1>2, <2>2 DEF NumberFits, PaidFor
  <2> QED
    BY <1>4, <2>1, <2>2, <2>3, HandlerStep DEF BeginInsert
<1>5. CASE ReadClock(w)
  <2>1. PICK u \in CodeRequest : u = [t EXCEPT !.pc = "count", !.at = now]
    BY <1>2 DEF CodeRequest, CodePcs
  <2>2. u.pc = "count" /\ u.at = now /\ u.attempt = t.attempt /\ u.base = t.base
    BY <2>1 DEF CodeRequest
  <2>3. NumberFits(u) /\ PaidFor(u)
    BY <1>1, <1>2, <1>5, <2>2 DEF NumberFits, PaidFor, ReadClock
  <2>4. codeTx' = [codeTx EXCEPT ![w] = u]
    BY <1>1, <1>5, <2>1 DEF ReadClock
  <2> QED
    BY <1>5, <2>2, <2>3, <2>4, HandlerStep DEF ReadClock
<1>6. CASE NextBookingCode(w)
  <2> DEFINE d == BangkokDay(t.at)
             n == 1 + Cardinality(CreatedOn(d))
  <2>1. d \in Nat /\ n \in Nat
    BY <1>2, DaysInOrder
  <2>2. CreatedOn(d) = {b \in bookings : InDayRange(b.createdAt, t.at)}
    BY DEF CreatedOn, InDayRange
  <2>3. codeTx' = [codeTx EXCEPT ![w].pc = "insert", ![w].row.code = [day |-> d, seq |-> n]]
    BY <1>1, <1>6, <2>2 DEF NextBookingCode
  <2> HIDE DEF n
  <2>4. PICK u \in CodeRequest : u = [t EXCEPT !.pc = "insert", !.row.code = [day |-> d, seq |-> n]]
    BY <1>2, <2>1 DEF CodeRequest, CodePcs, NumberedRows
  <2>5. /\ u.pc = "insert" /\ u.at = t.at /\ u.attempt = t.attempt /\ u.base = t.base
        /\ u.row.code.day = d /\ u.row.code.seq = n
    BY <1>2, <2>4 DEF CodeRequest, NumberedRows
  <2>6. NumberFits(u) /\ PaidFor(u)
    BY <1>1, <1>2, <1>6, <2>1, <2>5 DEF NumberFits, Counted, PaidFor, NextBookingCode, n
  <2>7. codeTx' = [codeTx EXCEPT ![w] = u]
    BY <1>1, <2>3, <2>4
  <2> QED
    BY <1>6, <2>5, <2>6, <2>7, HandlerStep DEF NextBookingCode
<1>7. CASE InsertRow(w)
  <2>1. /\ t.pc = "insert" /\ UNCHANGED <<now, bookings>>
        /\ \A x \in Inserters : codeTx[x].pc = "commit" => codeTx[x].row.code # t.row.code
    BY <1>1, <1>7 DEF InsertRow
  <2>2. CASE \A b \in bookings : b.code # t.row.code
    <3>1. PICK u \in CodeRequest : u = [t EXCEPT !.pc = "commit", !.row.createdAt = now]
      BY <1>2 DEF CodeRequest, CodePcs, NumberedRows
    <3>2. /\ u.pc = "commit" /\ u.at = t.at /\ u.attempt = t.attempt /\ u.base = t.base
          /\ u.row.code = t.row.code /\ u.row.createdAt = now
      BY <1>2, <3>1 DEF CodeRequest, NumberedRows
    <3>3. NumberFits(u) /\ PaidFor(u)
      BY <1>1, <1>2, <2>1, <2>2, <3>2 DEF NumberFits, Counted, PaidFor
    <3>4. codeTx' = [codeTx EXCEPT ![w] = u]
      BY <1>1, <1>7, <2>2, <3>1 DEF InsertRow, CreatedAt
    <3> QED
      BY <2>1, <3>2, <3>3, <3>4, HandlerStep
  <2>3. CASE ~(\A b \in bookings : b.code # t.row.code)
    <3>1. t.base + t.attempt <= Cardinality(bookings)
      BY <1>1, <2>1, <2>3, TakenIsPaid
    <3>2. CASE t.attempt = MaxAttempts
      <4>1. PICK u \in CodeRequest : u = [t EXCEPT !.pc = "failed"]
        BY DEF CodeRequest, CodePcs
      <4>2. u.pc = "failed" /\ u.attempt = t.attempt /\ u.base = t.base
        BY <4>1 DEF CodeRequest
      <4>3. NumberFits(u) /\ PaidFor(u)
        BY <1>2, <3>1, <4>2 DEF NumberFits, PaidFor
      <4>4. codeTx' = [codeTx EXCEPT ![w] = u]
        BY <1>1, <1>7, <2>3, <3>2, <4>1 DEF InsertRow
      <4> QED
        BY <2>1, <4>2, <4>3, <4>4, HandlerStep
    <3>3. CASE t.attempt # MaxAttempts
      <4>1. PICK u \in CodeRequest : u = [t EXCEPT !.pc = "clock", !.attempt = t.attempt + 1]
        <5>1. t.attempt + 1 \in Nat
          BY <1>2
        <5> QED
          BY <5>1 DEF CodeRequest, CodePcs
      <4>2. u.pc = "clock" /\ u.attempt = t.attempt + 1 /\ u.base = t.base
        BY <4>1 DEF CodeRequest
      <4>3. NumberFits(u) /\ PaidFor(u)
        BY <1>2, <3>1, <4>2 DEF NumberFits, PaidFor
      <4>4. codeTx' = [codeTx EXCEPT ![w] = u]
        BY <1>1, <1>7, <2>3, <3>3, <4>1 DEF InsertRow
      <4> QED
        BY <2>1, <4>2, <4>3, <4>4, HandlerStep
    <3> QED
      BY <3>2, <3>3
  <2> QED
    BY <2>2, <2>3
<1> QED
  BY <1>3, <1>4, <1>5, <1>6, <1>7

(* A booking is committed: its number is nobody else's, it counts itself,  *)
(* and every other handler now has a booking to spare.                     *)
LEMMA CommitHolds ==
  ASSUME CodeInvariant, NEW w \in Inserters, Commit(w)
  PROVE  CodeInvariant'
<1>1. PICK t \in CodeRequest : t = codeTx[w] /\ NumberFits(t) /\ t.pc = "commit"
  BY DEF CodeInvariant, CodeTyped, Commit
<1>2. PICK b \in NumberedRows : b = t.row
  BY DEF CodeRequest
<1>3. /\ b.code.day \in Nat /\ b.code.seq \in Nat /\ b.createdAt \in Nat /\ t.at \in Nat
      /\ Cardinality(bookings) \in Nat /\ \A d : Cardinality(CreatedOn(d)) \in Nat
      /\ now \in Nat /\ bookings \subseteq NumberedRows
  BY <1>2, CreatedCounted DEF CodeInvariant, CodeTyped, CodeRequest, NumberedRows
<1>4. /\ t.at <= b.createdAt /\ b.createdAt <= now
      /\ b.code.day = BangkokDay(t.at) /\ Counted(b.code)
      /\ \A c \in bookings : c.code # b.code
  BY <1>1, <1>2 DEF NumberFits
<1>5. b \notin bookings /\ bookings' = bookings \cup {b} /\ now' = now
      /\ codeTx' = [codeTx EXCEPT ![w] = NoInsert]
  BY <1>1, <1>2, <1>4 DEF Commit
<1>6. /\ IsFiniteSet(bookings') /\ Cardinality(bookings') = Cardinality(bookings) + 1
      /\ \A d : Cardinality(CreatedOn(d)') =
                  IF BangkokDay(b.createdAt) = d THEN Cardinality(CreatedOn(d)) + 1
                  ELSE Cardinality(CreatedOn(d))
  BY <1>5, BookingAdds DEF CodeInvariant
<1>7. /\ NoInsert \in CodeRequest /\ NoInsert.pc = "idle"
      /\ codeTx' \in [Inserters -> CodeRequest]
      /\ \A x \in Inserters : codeTx'[x] = IF x = w THEN NoInsert ELSE codeTx[x]
  <2>1. NoInsert \in CodeRequest /\ NoInsert.pc = "idle"
    BY DEF NoInsert, CodeRequest, CodePcs, NumberedRows
  <2> QED
    BY <1>5, <2>1 DEF CodeInvariant, CodeTyped
<1>8. CodeTyped'
  BY <1>3, <1>5, <1>6, <1>7 DEF CodeTyped
<1>9. \A d : Cardinality(CreatedOn(d)) <= Cardinality(CreatedOn(d)')
  <2> SUFFICES ASSUME NEW d
               PROVE  Cardinality(CreatedOn(d)) <= Cardinality(CreatedOn(d)')
    OBVIOUS
  <2>1. PICK n \in Nat : n = Cardinality(CreatedOn(d))
    BY <1>3
  <2> QED
    BY <1>6, <2>1
<1>10. NumbersCount'
  <2>1. ASSUME NEW c \in bookings
        PROVE  /\ c.createdAt <= now' /\ c.code.day <= BangkokDay(c.createdAt)
               /\ c.code.day = BangkokDay(c.createdAt)
                    => c.code.seq <= Cardinality(CreatedOn(c.code.day)')
    <3>1. PICK d \in Nat, s \in Nat, n \in Nat, m \in Nat :
            /\ d = c.code.day /\ s = c.code.seq /\ n = Cardinality(CreatedOn(d))
            /\ m = Cardinality(CreatedOn(d)') /\ n <= m
      <4>1. c.code.day \in Nat /\ c.code.seq \in Nat
        BY <1>3 DEF NumberedRows
      <4>2. Cardinality(CreatedOn(c.code.day)') \in Nat
        <5>1. PICK n \in Nat : n = Cardinality(CreatedOn(c.code.day))
          BY <1>3
        <5> QED
          BY <1>6, <5>1
      <4> QED
        BY <1>3, <1>9, <4>1, <4>2
    <3>2. /\ c.createdAt <= now /\ d <= BangkokDay(c.createdAt)
          /\ d = BangkokDay(c.createdAt) => s <= n
      BY <3>1 DEF CodeInvariant, NumbersCount
    <3>3. d = BangkokDay(c.createdAt) => s <= m
      BY <3>1, <3>2
    <3> QED
      BY <1>5, <3>1, <3>2, <3>3
  <2>2. /\ b.createdAt <= now' /\ b.code.day <= BangkokDay(b.createdAt)
        /\ b.code.day = BangkokDay(b.createdAt)
             => b.code.seq <= Cardinality(CreatedOn(b.code.day)')
    <3>1. b.code.day <= BangkokDay(b.createdAt)
      BY <1>3, <1>4, DaysInOrder
    <3>2. ASSUME b.code.day = BangkokDay(b.createdAt)
          PROVE  b.code.seq <= Cardinality(CreatedOn(b.code.day)')
      <4>1. PICK n \in Nat : n = Cardinality(CreatedOn(b.code.day))
        BY <1>3
      <4>2. Cardinality(CreatedOn(b.code.day)') = n + 1
        BY <1>6, <3>2, <4>1
      <4>3. b.code.seq <= 1 + n
        BY <1>4, <4>1 DEF Counted
      <4> QED
        BY <4>2, <4>3
    <3> QED
      BY <1>4, <1>5, <3>1, <3>2
  <2> QED
    BY <1>5, <2>1, <2>2 DEF NumbersCount
<1>11. NumbersApart'
  BY <1>7 DEF CodeInvariant, NumbersApart
<1>12. ASSUME NEW x \in Inserters
       PROVE  NumberFits(codeTx[x])' /\ PaidFor(codeTx[x])'
  <2>1. CASE x = w
    <3>1. codeTx'[x] = NoInsert
      BY <1>7, <2>1
    <3> QED
      BY <1>7, <3>1 DEF NumberFits, PaidFor
  <2>2. CASE x # w
    <3>1. PICK u \in CodeRequest : u = codeTx[x] /\ u = codeTx'[x]
      BY <1>7, <2>2 DEF CodeInvariant, CodeTyped
    <3>2. NumberFits(u) /\ PaidFor(u) /\ u.base \in Nat /\ u.attempt \in Nat
          /\ u.row.code.seq \in Nat /\ u.row.code.day \in Nat
      BY <3>1 DEF CodeInvariant, CodeRequest, NumberedRows
    <3>3. Counted(u.row.code) => Counted(u.row.code)'
      <4>1. PICK d \in Nat, n \in Nat :
              d = u.row.code.day /\ n = Cardinality(CreatedOn(d))
        BY <1>3, <3>2
      <4>2. Cardinality(CreatedOn(d)') \in Nat /\ n <= Cardinality(CreatedOn(d)')
        BY <1>6, <4>1
      <4> QED
        BY <3>2, <4>1, <4>2 DEF Counted
    <3>4. u.pc = "commit" => u.row.code # b.code
      BY <1>1, <1>2, <2>2, <3>1 DEF CodeInvariant, NumbersApart
    <3>5. NumberFits(u)'
      BY <1>5, <3>2, <3>3, <3>4 DEF NumberFits
    <3>6. PaidFor(u)'
      BY <1>3, <1>6, <3>2 DEF PaidFor
    <3> QED
      BY <3>1, <3>5, <3>6
  <2> QED
    BY <2>1, <2>2
<1> QED
  BY <1>8, <1>10, <1>11, <1>12 DEF CodeInvariant

(* The numbers of the committed rows, and of the handlers that are about   *)
(* to commit, are as the count promised.                                   *)
THEOREM CodeInvariantHolds == CodeSpec => []CodeInvariant
<1>1. CodeInit => CodeInvariant
  <2> SUFFICES ASSUME CodeInit
               PROVE  CodeInvariant
    OBVIOUS
  <2>1. NoInsert \in CodeRequest /\ NoInsert.pc = "idle"
    BY DEF NoInsert, CodeRequest, CodePcs, NumberedRows
  <2>2. CodeTyped /\ NumbersCount
    BY <2>1, FS_EmptySet DEF CodeInit, CodeTyped, NumbersCount
  <2>3. NumbersApart /\ \A w \in Inserters : NumberFits(codeTx[w]) /\ PaidFor(codeTx[w])
    BY <2>1 DEF CodeInit, NumbersApart, NumberFits, PaidFor
  <2> QED
    BY <2>2, <2>3 DEF CodeInvariant
<1>2. CodeInvariant /\ [CodeNext]_<<now, bookings, codeTx>> => CodeInvariant'
  <2> SUFFICES ASSUME CodeInvariant, [CodeNext]_<<now, bookings, codeTx>>
               PROVE  CodeInvariant'
    OBVIOUS
  <2>1. CASE ClockTick
    BY <2>1, TickHolds
  <2>2. ASSUME NEW w \in Inserters, Commit(w)
        PROVE  CodeInvariant'
    BY <2>2, CommitHolds
  <2>3. ASSUME NEW w \in Inserters,
               \/ BeginInsert(w) \/ ReadClock(w) \/ NextBookingCode(w) \/ InsertRow(w)
               \/ Abort(w)
        PROVE  CodeInvariant'
    BY <2>3, HandlersHold
  <2>4. CASE UNCHANGED <<now, bookings, codeTx>>
    BY <2>4 DEF CodeInvariant, CodeTyped, NumbersCount, NumbersApart, NumberFits, Counted,
       CreatedOn, PaidFor
  <2> QED
    BY <2>1, <2>2, <2>3, <2>4 DEF CodeNext
<1> QED
  BY <1>1, <1>2, PTL DEF CodeSpec

(* A handler on its k-th attempt has been beaten by k - 1 bookings that    *)
(* were committed after it began: a recount never meets the same taken     *)
(* number again.                                                           *)
THEOREM RetriesPaid == CodeSpec => []RetriesArePaidFor
<1>1. CodeInvariant => RetriesArePaidFor
  <2> SUFFICES ASSUME CodeInvariant, NEW w \in Inserters, codeTx[w].pc # "idle"
               PROVE  codeTx[w].attempt <= 1 + (Cardinality(bookings) - codeTx[w].base)
    BY DEF RetriesArePaidFor
  <2>1. PICK t \in CodeRequest : t = codeTx[w] /\ PaidFor(t)
    BY DEF CodeInvariant, CodeTyped
  <2>2. t.base \in Nat /\ t.attempt \in Nat /\ Cardinality(bookings) \in Nat
    BY CreatedCounted DEF CodeInvariant, CodeTyped, CodeRequest
  <2>3. t.base + t.attempt <= 1 + Cardinality(bookings)
    BY <2>1 DEF PaidFor
  <2> QED
    BY <2>1, <2>2, <2>3
<1> QED
  BY <1>1, CodeInvariantHolds, PTL

(***************************************************************************)
(* The notifications of the staff.                                         *)
(***************************************************************************)
NotePcs == {"free", "assert", "snapshot", "upsert", "unread", "readOne", "dismissRead",
            "targets", "make", "dismiss"}
NoteThens == {"none", "snapshot", "unread"}
ReceiptRow == [there : BOOLEAN, read : BOOLEAN, dismissed : BOOLEAN]
NoteRequest == [pc : NotePcs, then : NoteThens, user : Readers \cup {NoteFree.user},
                role : NoteRoles, ids : SUBSET NoteIds, made : SUBSET NoteIds]
NoteTyped ==
  /\ readerRole \in [Readers -> NoteRoles]
  /\ receipt \in [Readers -> [NoteIds -> ReceiptRow]]
  /\ counted \in [Readers -> [read : Nat, unread : Nat, dismissed : Nat]]
  /\ noteTx \in [NoteClerks -> NoteRequest]

(* What is read or dismissed has its receipt.                              *)
ReceiptsKept ==
  \A u \in Readers : \A n \in NoteIds :
    receipt[u][n].read \/ receipt[u][n].dismissed => receipt[u][n].there

(* A dismissal has made the receipts that were missing, and nobody else    *)
(* may make them before it commits.                                        *)
NoteFits(t) ==
  /\ t.pc # "free" => t.user \in Readers
  /\ t.pc = "assert" => t.then # "none"
  /\ t.pc # "dismiss" => t.made = {}
  /\ t.pc = "dismiss" =>
       t.made \subseteq t.ids /\ \A n \in t.ids : receipt[t.user][n].there <=> n \notin t.made
MadeApart ==
  \A c, d \in NoteClerks : c # d /\ noteTx[c].user = noteTx[d].user
    => noteTx[c].made \cap noteTx[d].made = {}

NoteInvariant ==
  /\ NoteTyped /\ ReceiptsKept /\ MadeApart /\ CountsAddUp
  /\ \A c \in NoteClerks : NoteFits(noteTx[c])

-----------------------------------------------------------------------------
(* A request that holds nothing fits.                                      *)
LEMMA NoteFreeFits ==
  NoteFree \in NoteRequest /\ NoteFits(NoteFree) /\ NoteFree.pc = "free" /\ NoteFree.made = {}
<1>1. NoteFree \in NoteRequest /\ NoteFree.pc = "free" /\ NoteFree.made = {}
  BY DEF NoteFree, NoteRequest, NotePcs, NoteThens, NoteRoles
<1> QED
  BY <1>1 DEF NoteFits

(* A step that changes no receipt.                                         *)
LEMMA NoteStep ==
  ASSUME NoteInvariant, NEW c \in NoteClerks, NEW t \in NoteRequest,
         noteTx' = [noteTx EXCEPT ![c] = t], UNCHANGED <<readerRole, receipt, counted>>,
         NoteFits(t),
         t.made = {} \/ /\ t.user = noteTx[c].user
                        /\ t.made \cap Pending(t.user, c) = {}
  PROVE  NoteInvariant'
<1>1. /\ noteTx' \in [NoteClerks -> NoteRequest]
      /\ \A d \in NoteClerks : noteTx'[d] = IF d = c THEN t ELSE noteTx[d]
  BY DEF NoteInvariant, NoteTyped
<1>2. NoteTyped' /\ ReceiptsKept' /\ CountsAddUp'
  BY <1>1 DEF NoteInvariant, NoteTyped, ReceiptsKept, CountsAddUp
<1>3. MadeApart'
  BY <1>1 DEF NoteInvariant, MadeApart, Pending
<1>4. \A d \in NoteClerks : NoteFits(noteTx[d])'
  BY <1>1 DEF NoteInvariant, NoteFits
<1> QED
  BY <1>2, <1>3, <1>4 DEF NoteInvariant

(* A step that changes receipts, none of which another request has made    *)
(* and not committed.                                                      *)
TouchesOwn(c, u, ns, R) ==
  /\ ns \cap Pending(u, c) = {}
  /\ \A n \in NoteIds : n \notin ns => R[n] = receipt[u][n]
  /\ \A n \in ns : /\ receipt[u][n].there => R[n].there
                   /\ R[n].read \/ R[n].dismissed => R[n].there

LEMMA ReceiptStep ==
  ASSUME NoteInvariant, NEW c \in NoteClerks, NEW t \in NoteRequest, NEW u \in Readers,
         NEW ns \in SUBSET NoteIds, NEW R \in [NoteIds -> ReceiptRow],
         noteTx' = [noteTx EXCEPT ![c] = t], receipt' = [receipt EXCEPT ![u] = R],
         readerRole' = readerRole,
         t.made = {}, NoteFits(t), t.pc # "dismiss", u = noteTx[c].user,
         TouchesOwn(c, u, ns, R),
         counted' \in [Readers -> [read : Nat, unread : Nat, dismissed : Nat]],
         CountsAddUp'
  PROVE  NoteInvariant'
<1>1. /\ noteTx' \in [NoteClerks -> NoteRequest]
      /\ \A d \in NoteClerks : noteTx'[d] = IF d = c THEN t ELSE noteTx[d]
  BY DEF NoteInvariant, NoteTyped
<1>2. /\ receipt' \in [Readers -> [NoteIds -> ReceiptRow]]
      /\ \A x \in Readers : receipt'[x] = IF x = u THEN R ELSE receipt[x]
  BY DEF NoteInvariant, NoteTyped
<1>3. NoteTyped'
  BY <1>1, <1>2 DEF NoteInvariant, NoteTyped
<1>4. ReceiptsKept'
  <2>1. \A n \in NoteIds : R[n].read \/ R[n].dismissed => R[n].there
    <3> SUFFICES ASSUME NEW n \in NoteIds
                 PROVE  R[n].read \/ R[n].dismissed => R[n].there
      OBVIOUS
    <3>1. CASE n \in ns
      BY <3>1 DEF TouchesOwn
    <3>2. CASE n \notin ns
      <4>1. R[n] = receipt[u][n]
        BY <3>2 DEF TouchesOwn
      <4>2. receipt[u][n].read \/ receipt[u][n].dismissed => receipt[u][n].there
        BY DEF NoteInvariant, ReceiptsKept
      <4> QED
        BY <4>1, <4>2
    <3> QED
      BY <3>1, <3>2
  <2> QED
    BY <1>2, <2>1 DEF NoteInvariant, ReceiptsKept
<1>5. MadeApart'
  BY <1>1 DEF NoteInvariant, MadeApart
<1>6. ASSUME NEW d \in NoteClerks
      PROVE  NoteFits(noteTx[d])'
  <2>1. CASE d = c
    BY <1>1, <2>1 DEF NoteFits
  <2>2. CASE d # c
    <3>1. PICK q \in NoteRequest : q = noteTx[d] /\ q = noteTx'[d] /\ NoteFits(q)
      BY <1>1, <2>2 DEF NoteInvariant, NoteTyped
    <3>2. ASSUME q.pc = "dismiss", NEW n \in q.ids
          PROVE  receipt'[q.user][n].there <=> n \notin q.made
      <4>1. q.user \in Readers /\ n \in NoteIds
            /\ (receipt[q.user][n].there <=> n \notin q.made)
        BY <3>1, <3>2 DEF NoteFits, NoteRequest
      <4>2. CASE q.user # u \/ n \notin ns
        <5>1. receipt'[q.user][n] = receipt[q.user][n]
          BY <1>2, <4>1, <4>2 DEF TouchesOwn
        <5> QED
          BY <4>1, <5>1
      <4>3. CASE q.user = u /\ n \in ns
        <5>1. n \notin q.made
          BY <2>2, <3>1, <4>3 DEF Pending, TouchesOwn
        <5> QED
          BY <1>2, <4>1, <4>3, <5>1 DEF TouchesOwn
      <4> QED
        BY <4>2, <4>3
    <3>3. NoteFits(q)'
      BY <3>1, <3>2 DEF NoteFits
    <3> QED
      BY <3>1, <3>3
  <2> QED
    BY <2>1, <2>2
<1> QED
  BY <1>3, <1>4, <1>5, <1>6 DEF NoteInvariant

(* What is added to a count, and what is taken from it.                    *)
LEMMA CountGrows ==
  ASSUME NEW A \in SUBSET NoteIds, NEW B \in SUBSET NoteIds, A \cap B = {}
  PROVE  /\ Cardinality(A \cup B) = Cardinality(A) + Cardinality(B)
         /\ Cardinality(A) \in Nat /\ Cardinality(B) \in Nat /\ Cardinality(A \cup B) \in Nat
<1>1. IsFiniteSet(A) /\ IsFiniteSet(B)
  BY NoteConstants, FS_Subset
<1>2. Cardinality(A) \in Nat /\ Cardinality(B) \in Nat
  BY <1>1, FS_CardinalityType
<1>3. Cardinality(A \cup B) = Cardinality(A) + Cardinality(B) - Cardinality(A \cap B)
  BY <1>1, FS_Union
<1>4. Cardinality(A \cap B) = 0
  BY FS_EmptySet
<1> QED
  BY <1>2, <1>3, <1>4

(* The rows that one account has read, and those it has dismissed.         *)
HasRead(u) == {n \in NoteIds : receipt[u][n].read}
HasDismissed(u) == {n \in NoteIds : receipt[u][n].dismissed}

LEMMA CountsOf ==
  CountsAddUp <=> \A u \in Readers :
    /\ counted[u].dismissed = Cardinality(HasDismissed(u))
    /\ counted[u].read = counted[u].unread + Cardinality(HasRead(u))
BY DEF CountsAddUp, HasRead, HasDismissed

(* Reads and checks, and the start of a request.                           *)
LEMMA QuietNotes ==
  ASSUME NoteInvariant, NEW c \in NoteClerks,
         \/ AssertVisible(c) \/ ReadOne(c) \/ ReadSnapshot(c)
         \/ DismissTargets(c) \/ MakeReceipts(c)
         \/ \E u \in Readers :
              \/ \E n \in NoteIds : SubmitRead(c, u, n) \/ SubmitUnread(c, u, n)
              \/ \E body \in ReadBodies : SubmitReadAll(c, u, body)
              \/ \E body \in DismissBodies : SubmitDismiss(c, u, body)
  PROVE  NoteInvariant'
<1>1. PICK t \in NoteRequest : t = noteTx[c] /\ NoteFits(t)
  BY DEF NoteInvariant, NoteTyped
<1>2. CASE noteTx' = [noteTx EXCEPT ![c] = NoteFree] /\ UNCHANGED <<readerRole, receipt, counted>>
  BY <1>2, NoteFreeFits, NoteStep
<1>3. ASSUME NEW pc \in {"assert", "snapshot", "dismissRead", "targets"}, NEW then \in NoteThens,
             NEW u \in Readers, NEW ids \in SUBSET NoteIds, NoteStart(c, pc, then, u, ids),
             pc = "assert" => then # "none"
      PROVE  NoteInvariant'
  <2>1. PICK q \in NoteRequest :
          q = [pc |-> pc, then |-> then, user |-> u, role |-> readerRole[u],
               ids |-> ids, made |-> {}]
    BY <1>3 DEF NoteInvariant, NoteTyped, NoteRequest, NotePcs
  <2>2. q.pc = pc /\ q.then = then /\ q.user = u /\ q.made = {}
    BY <2>1
  <2>3. NoteFits(q)
    BY <1>3, <2>2 DEF NoteFits
  <2> QED
    BY <1>3, <2>1, <2>2, <2>3, NoteStep DEF NoteStart, NoteSay
<1>4. ASSUME NEW u \in Readers, NEW n \in NoteIds, SubmitRead(c, u, n) \/ SubmitUnread(c, u, n)
      PROVE  NoteInvariant'
  BY <1>3, <1>4 DEF SubmitRead, SubmitUnread, NoteThens
<1>5. ASSUME NEW u \in Readers, NEW body \in ReadBodies, SubmitReadAll(c, u, body)
      PROVE  NoteInvariant'
  <2>1. body.ids \in SUBSET NoteIds
    BY DEF ReadBodies
  <2> QED
    BY <1>3, <1>5, <2>1 DEF SubmitReadAll, NoteThens
<1>6. ASSUME NEW u \in Readers, NEW body \in DismissBodies, SubmitDismiss(c, u, body)
      PROVE  NoteInvariant'
  <2>1. body.ids \in SUBSET NoteIds
    BY DEF DismissBodies
  <2> QED
    BY <1>3, <1>6, <2>1 DEF SubmitDismiss, NoteThens
<1>7. ASSUME NEW pc \in {"snapshot", "unread", "upsert", "targets", "make"},
             NEW ids \in SUBSET NoteIds, t.pc \notin {"free", "dismiss"},
             noteTx' = [noteTx EXCEPT ![c] = [t EXCEPT !.pc = pc, !.ids = ids]],
             UNCHANGED <<readerRole, receipt, counted>>
      PROVE  NoteInvariant'
  <2>1. PICK q \in NoteRequest : q = [t EXCEPT !.pc = pc, !.ids = ids]
    BY DEF NoteRequest, NotePcs
  <2>2. q.pc = pc /\ q.user = t.user /\ q.made = t.made
    BY <2>1 DEF NoteRequest
  <2>3. NoteFits(q) /\ q.made = {}
    BY <1>1, <1>7, <2>2 DEF NoteFits
  <2> QED
    BY <1>7, <2>1, <2>3, NoteStep
<1>8. CASE AssertVisible(c)
  <2>1. t.pc = "assert" /\ UNCHANGED <<readerRole, receipt, counted>>
    BY <1>1, <1>8 DEF AssertVisible
  <2>2. CASE noteTx' = [noteTx EXCEPT ![c] = [t EXCEPT !.pc = t.then]]
    <3>1. PICK pc \in {"snapshot", "unread"} : pc = t.then
      BY <1>1, <2>1 DEF NoteFits, NoteRequest, NoteThens
    <3>1a. PICK q \in NoteRequest : q = [t EXCEPT !.pc = pc]
      BY DEF NoteRequest, NotePcs
    <3>2. q.pc = pc /\ q.user = t.user /\ q.made = t.made
      BY <3>1a DEF NoteRequest
    <3>3. NoteFits(q) /\ q.made = {}
      BY <1>1, <2>1, <3>2 DEF NoteFits, NoteThens
    <3> QED
      BY <2>1, <2>2, <3>1, <3>1a, <3>3, NoteStep
  <2>3. CASE noteTx' = [noteTx EXCEPT ![c] = NoteFree]
    BY <1>2, <2>1, <2>3
  <2> QED
    BY <1>1, <1>8, <2>2, <2>3 DEF AssertVisible, NoteSay, NoteDone
<1>9. CASE ReadOne(c)
  BY <1>2, <1>9 DEF ReadOne, NoteDone, NoteSay
<1>10. CASE ReadSnapshot(c)
  <2>1. PICK ids \in SUBSET NoteIds : ids = t.ids \cap VisibleTo(t.user, t.role) \cap UnreadFor(t.user)
    BY DEF UnreadFor
  <2>2. t.pc = "snapshot" /\ UNCHANGED <<readerRole, receipt, counted>>
        /\ noteTx' = [noteTx EXCEPT ![c] = [t EXCEPT !.pc = "upsert", !.ids = ids]]
    BY <1>1, <1>10, <2>1 DEF ReadSnapshot, NoteSay
  <2> QED
    BY <1>7, <2>2, Zenon
<1>11. CASE DismissTargets(c)
  <2>1. PICK ids \in SUBSET NoteIds : ids = t.ids \cap VisibleTo(t.user, t.role)
    BY DEF VisibleTo
  <2>2. t.pc = "targets" /\ UNCHANGED <<readerRole, receipt, counted>>
    BY <1>1, <1>11 DEF DismissTargets
  <2>3. \/ noteTx' = [noteTx EXCEPT ![c] = NoteFree]
        \/ noteTx' = [noteTx EXCEPT ![c] = [t EXCEPT !.pc = "make", !.ids = ids]]
    BY <1>1, <1>11, <2>1 DEF DismissTargets, NoteSay, NoteDone
  <2> QED
    BY <1>2, <1>7, <2>2, <2>3, Zenon
<1>12. CASE MakeReceipts(c)
  <2>1. PICK made \in SUBSET NoteIds : made = {n \in t.ids : ~receipt[t.user][n].there}
    BY DEF NoteRequest
  <2>2. /\ t.pc = "make" /\ t.ids \cap Pending(t.user, c) = {}
        /\ UNCHANGED <<readerRole, receipt, counted>>
        /\ noteTx' = [noteTx EXCEPT ![c] = [t EXCEPT !.pc = "dismiss", !.made = made]]
    BY <1>1, <1>12, <2>1 DEF MakeReceipts, NoteSay
  <2>3. PICK q \in NoteRequest : q = [t EXCEPT !.pc = "dismiss", !.made = made]
    BY DEF NoteRequest, NotePcs
  <2>4. q.pc = "dismiss" /\ q.user = t.user /\ q.made = made /\ q.ids = t.ids
    BY <2>3 DEF NoteRequest
  <2>5. NoteFits(q)
    BY <1>1, <2>1, <2>2, <2>4 DEF NoteFits
  <2>6. q.user = noteTx[c].user /\ q.made \cap Pending(q.user, c) = {}
    BY <1>1, <2>1, <2>2, <2>4
  <2> QED
    BY <2>2, <2>3, <2>5, <2>6, NoteStep
<1> QED
  BY <1>4, <1>5, <1>6, <1>8, <1>9, <1>10, <1>11, <1>12

(* A request answers: it is done, or reads the row once more.              *)
LEMMA AnswerFits ==
  ASSUME NoteInvariant, NEW c \in NoteClerks, noteTx[c].pc \notin {"free", "dismiss"},
         NoteAnswer(c) \/ NoteDone(c)
  PROVE  \E t \in NoteRequest : /\ noteTx' = [noteTx EXCEPT ![c] = t]
                                /\ t.made = {} /\ t.pc # "dismiss" /\ NoteFits(t)
<1>1. PICK t \in NoteRequest : t = noteTx[c] /\ NoteFits(t)
  BY DEF NoteInvariant, NoteTyped
<1>2. PICK q \in NoteRequest : q = [t EXCEPT !.pc = "readOne"]
  BY DEF NoteRequest, NotePcs
<1>3. q.pc = "readOne" /\ q.user = t.user /\ q.made = t.made
  BY <1>2 DEF NoteRequest
<1>4. NoteFits(q) /\ q.made = {}
  BY <1>1, <1>3 DEF NoteFits
<1>5. noteTx' = [noteTx EXCEPT ![c] = NoteFree] \/ noteTx' = [noteTx EXCEPT ![c] = q]
  BY <1>1, <1>2 DEF NoteAnswer, NoteDone, NoteSay
<1> QED
  BY <1>3, <1>4, <1>5, NoteFreeFits

(* Receipts are read, or read no more.                                     *)
LEMMA ReadingHolds ==
  ASSUME NoteInvariant, NEW c \in NoteClerks, MarkManyRead(c) \/ MarkUnread(c)
  PROVE  NoteInvariant'
<1>1. PICK t \in NoteRequest : t = noteTx[c] /\ NoteFits(t)
  BY DEF NoteInvariant, NoteTyped
<1>2. PICK u \in Readers : u = t.user
  BY <1>1, Zenon DEF NoteFits, MarkManyRead, MarkUnread
<1>3. t.pc \in {"upsert", "unread"} /\ t.ids \cap Pending(u, c) = {} /\ readerRole' = readerRole
  BY <1>1, <1>2, Zenon DEF MarkManyRead, MarkUnread
<1>4. /\ receipt[u] \in [NoteIds -> ReceiptRow]
      /\ counted[u] \in [read : Nat, unread : Nat, dismissed : Nat]
      /\ counted[u].dismissed = Cardinality(HasDismissed(u))
      /\ counted[u].read = counted[u].unread + Cardinality(HasRead(u))
  BY CountsOf DEF NoteInvariant, NoteTyped
<1>5. PICK q \in NoteRequest : /\ noteTx' = [noteTx EXCEPT ![c] = q]
                               /\ q.made = {} /\ q.pc # "dismiss" /\ NoteFits(q)
  BY <1>1, <1>3, AnswerFits, Zenon DEF MarkManyRead, MarkUnread
<1>6. PICK A \in Nat, B \in Nat, D \in Nat :
        A = counted[u].read /\ B = counted[u].unread /\ D = counted[u].dismissed
  BY <1>4
<1>7. CASE MarkManyRead(c)
  <2>1. PICK ns \in SUBSET NoteIds : ns = ToMarkRead(t)
    BY DEF ToMarkRead, NoteRequest
  <2>2. \A n \in ns : n \in t.ids /\ ~receipt[u][n].read /\ ~receipt[u][n].dismissed
    BY <1>2, <2>1 DEF ToMarkRead
  <2>3. PICK R \in [NoteIds -> ReceiptRow] :
          /\ R = [n \in NoteIds |-> IF n \in ns THEN [receipt[u][n] EXCEPT !.there = TRUE, !.read = TRUE]
                                    ELSE receipt[u][n]]
    BY <1>4, Zenon DEF ReceiptRow
  <2>4. receipt' = [receipt EXCEPT ![u] = R]
    BY <1>1, <1>2, <1>7, <2>1, <2>3, Zenon DEF MarkManyRead
  <2>5. \A n \in NoteIds : n \notin ns => R[n] = receipt[u][n]
    BY <2>3, Zenon
  <2>6. \A n \in ns : R[n].there /\ R[n].read /\ (R[n].dismissed <=> receipt[u][n].dismissed)
    BY <1>4, <2>3, Zenon DEF ReceiptRow
  <2>7. counted' = [counted EXCEPT ![u].read = A + Cardinality(ns)]
    BY <1>1, <1>2, <1>6, <1>7, <2>1, Zenon DEF MarkManyRead
  <2>8. receipt'[u] = R /\ \A x \in Readers : x # u => receipt'[x] = receipt[x]
    BY <2>4 DEF NoteInvariant, NoteTyped
  <2>9. /\ HasRead(u)' = HasRead(u) \cup ns /\ HasDismissed(u)' = HasDismissed(u)
        /\ \A x \in Readers : x # u =>
             HasRead(x)' = HasRead(x) /\ HasDismissed(x)' = HasDismissed(x)
    BY <2>5, <2>6, <2>8 DEF HasRead, HasDismissed
  <2>10. /\ Cardinality(HasRead(u) \cup ns) = Cardinality(HasRead(u)) + Cardinality(ns)
         /\ Cardinality(HasRead(u)) \in Nat /\ Cardinality(ns) \in Nat
    <3>1. HasRead(u) \in SUBSET NoteIds /\ HasRead(u) \cap ns = {}
      BY <2>2 DEF HasRead
    <3> QED
      BY <3>1, CountGrows
  <2>11. /\ counted' \in [Readers -> [read : Nat, unread : Nat, dismissed : Nat]]
         /\ counted'[u].read = A + Cardinality(ns)
         /\ counted'[u].unread = B /\ counted'[u].dismissed = D
         /\ \A x \in Readers : x # u => counted'[x] = counted[x]
    <3>1. A + Cardinality(ns) \in Nat
      BY <2>10
    <3> QED
      BY <1>6, <2>7, <3>1 DEF NoteInvariant, NoteTyped
  <2>12. CountsAddUp'
    <3>1. \A x \in Readers : /\ counted'[x].dismissed = Cardinality(HasDismissed(x)')
                             /\ counted'[x].read = counted'[x].unread + Cardinality(HasRead(x)')
      <4>1. A + Cardinality(ns) = B + (Cardinality(HasRead(u)) + Cardinality(ns))
        BY <1>4, <1>6, <2>10
      <4> QED
        BY <1>4, <1>6, <2>9, <2>10, <2>11, <4>1, CountsOf DEF NoteInvariant
    <3> QED
      BY <3>1 DEF CountsAddUp, HasRead, HasDismissed
  <2>13. ns \cap Pending(u, c) = {}
    BY <1>3, <2>2
  <2>14. TouchesOwn(c, u, ns, R)
    BY <2>5, <2>6, <2>13 DEF TouchesOwn
  <2>15. u = noteTx[c].user /\ readerRole' = readerRole
    BY <1>1, <1>2, <1>3
  <2> QED
    BY <1>5, <2>4, <2>11, <2>12, <2>14, <2>15, ReceiptStep
<1>8. CASE MarkUnread(c)
  <2>1. PICK ns \in SUBSET NoteIds : ns = {n \in t.ids : receipt[t.user][n].read}
    BY DEF NoteRequest
  <2>2. \A n \in ns : n \in t.ids /\ receipt[u][n].read
    BY <1>2, <2>1
  <2>3. PICK R \in [NoteIds -> ReceiptRow] :
          /\ R = [n \in NoteIds |-> IF n \in ns THEN [receipt[u][n] EXCEPT !.read = FALSE]
                                    ELSE receipt[u][n]]
    BY <1>4 DEF ReceiptRow
  <2>4. receipt' = [receipt EXCEPT ![u] = R]
    BY <1>1, <1>2, <1>8, <2>1, <2>3 DEF MarkUnread
  <2>5. \A n \in NoteIds : n \notin ns => R[n] = receipt[u][n]
    BY <2>3
  <2>6. \A n \in ns : /\ ~R[n].read /\ (R[n].dismissed <=> receipt[u][n].dismissed)
                      /\ R[n].there
    BY <1>4, <2>2, <2>3 DEF ReceiptRow, NoteInvariant, ReceiptsKept
  <2>7. counted' = [counted EXCEPT ![u].unread = B + Cardinality(ns)]
    BY <1>1, <1>2, <1>6, <1>8, <2>1 DEF MarkUnread
  <2>8. receipt'[u] = R /\ \A x \in Readers : x # u => receipt'[x] = receipt[x]
    BY <2>4 DEF NoteInvariant, NoteTyped
  <2>9. /\ HasRead(u)' = HasRead(u) \ ns /\ HasDismissed(u)' = HasDismissed(u)
        /\ \A x \in Readers : x # u =>
             HasRead(x)' = HasRead(x) /\ HasDismissed(x)' = HasDismissed(x)
    BY <2>5, <2>6, <2>8 DEF HasRead, HasDismissed
  <2>10. /\ Cardinality(HasRead(u)) = Cardinality(HasRead(u) \ ns) + Cardinality(ns)
         /\ Cardinality(HasRead(u) \ ns) \in Nat /\ Cardinality(ns) \in Nat
    <3>1. HasRead(u) \ ns \in SUBSET NoteIds /\ (HasRead(u) \ ns) \cap ns = {}
          /\ (HasRead(u) \ ns) \cup ns = HasRead(u)
      BY <2>2 DEF HasRead
    <3> QED
      BY <3>1, CountGrows
  <2>11. /\ counted' \in [Readers -> [read : Nat, unread : Nat, dismissed : Nat]]
         /\ counted'[u].unread = B + Cardinality(ns)
         /\ counted'[u].read = A /\ counted'[u].dismissed = D
         /\ \A x \in Readers : x # u => counted'[x] = counted[x]
    <3>1. B + Cardinality(ns) \in Nat
      BY <2>10
    <3> QED
      BY <1>6, <2>7, <3>1 DEF NoteInvariant, NoteTyped
  <2>12. CountsAddUp'
    <3>1. \A x \in Readers : /\ counted'[x].dismissed = Cardinality(HasDismissed(x)')
                             /\ counted'[x].read = counted'[x].unread + Cardinality(HasRead(x)')
      <4>1. A = (B + Cardinality(ns)) + Cardinality(HasRead(u) \ ns)
        BY <1>4, <1>6, <2>10
      <4> QED
        BY <1>4, <1>6, <2>9, <2>10, <2>11, <4>1, CountsOf DEF NoteInvariant
    <3> QED
      BY <3>1 DEF CountsAddUp, HasRead, HasDismissed
  <2>13. ns \cap Pending(u, c) = {}
    BY <1>3, <2>2
  <2>14. TouchesOwn(c, u, ns, R)
    BY <2>5, <2>6, <2>13 DEF TouchesOwn
  <2>15. u = noteTx[c].user /\ readerRole' = readerRole
    BY <1>1, <1>2, <1>3
  <2> QED
    BY <1>5, <2>4, <2>11, <2>12, <2>14, <2>15, ReceiptStep
<1> QED
  BY <1>7, <1>8

(* Receipts are dismissed.                                                 *)
LEMMA DismissingHolds ==
  ASSUME NoteInvariant, NEW c \in NoteClerks, NEW u \in Readers, u = noteTx[c].user,
         NEW ns \in SUBSET NoteIds, ns \cap Pending(u, c) = {},
         \A n \in ns : ~receipt[u][n].dismissed,
         receipt' = Dismissed(u, ns), readerRole' = readerRole, NoteDone(c),
         counted' = [counted EXCEPT ![u].dismissed = counted[u].dismissed + Cardinality(ns)]
  PROVE  NoteInvariant'
<1>1. /\ receipt[u] \in [NoteIds -> ReceiptRow]
      /\ counted[u] \in [read : Nat, unread : Nat, dismissed : Nat]
      /\ counted[u].dismissed = Cardinality(HasDismissed(u))
      /\ counted[u].read = counted[u].unread + Cardinality(HasRead(u))
  BY CountsOf DEF NoteInvariant, NoteTyped
<1>2. PICK R \in [NoteIds -> ReceiptRow] :
        R = [n \in NoteIds |-> IF n \in ns THEN [receipt[u][n] EXCEPT !.there = TRUE, !.dismissed = TRUE]
                               ELSE receipt[u][n]]
  BY <1>1, Zenon DEF ReceiptRow
<1>3. receipt' = [receipt EXCEPT ![u] = R]
  BY <1>2, Zenon DEF Dismissed
<1>4. \A n \in NoteIds : n \notin ns => R[n] = receipt[u][n]
  BY <1>2, Zenon
<1>5. \A n \in ns : R[n].there /\ R[n].dismissed /\ (R[n].read <=> receipt[u][n].read)
  BY <1>1, <1>2, Zenon DEF ReceiptRow
<1>6. receipt'[u] = R /\ \A x \in Readers : x # u => receipt'[x] = receipt[x]
  BY <1>3 DEF NoteInvariant, NoteTyped
<1>7. /\ HasDismissed(u)' = HasDismissed(u) \cup ns /\ HasRead(u)' = HasRead(u)
      /\ \A x \in Readers : x # u =>
           HasRead(x)' = HasRead(x) /\ HasDismissed(x)' = HasDismissed(x)
  BY <1>4, <1>5, <1>6 DEF HasRead, HasDismissed
<1>8. /\ Cardinality(HasDismissed(u) \cup ns) = Cardinality(HasDismissed(u)) + Cardinality(ns)
      /\ Cardinality(HasDismissed(u)) \in Nat /\ Cardinality(ns) \in Nat
  <2>1. HasDismissed(u) \in SUBSET NoteIds /\ HasDismissed(u) \cap ns = {}
    BY DEF HasDismissed
  <2> QED
    BY <2>1, CountGrows
<1>9. PICK D \in Nat : D = counted[u].dismissed + Cardinality(ns)
  <2>1. counted[u].dismissed + Cardinality(ns) \in Nat
    BY <1>1, <1>8
  <2> QED
    BY <2>1
<1>10. /\ counted' \in [Readers -> [read : Nat, unread : Nat, dismissed : Nat]]
       /\ counted'[u].dismissed = D
       /\ counted'[u].unread = counted[u].unread /\ counted'[u].read = counted[u].read
       /\ \A x \in Readers : x # u => counted'[x] = counted[x]
  BY <1>9 DEF NoteInvariant, NoteTyped
<1>11. CountsAddUp'
  <2>1. \A x \in Readers : /\ counted'[x].dismissed = Cardinality(HasDismissed(x)')
                           /\ counted'[x].read = counted'[x].unread + Cardinality(HasRead(x)')
    BY <1>1, <1>7, <1>8, <1>9, <1>10, CountsOf, Zenon DEF NoteInvariant
  <2> QED
    BY <2>1 DEF CountsAddUp, HasRead, HasDismissed
<1>12. TouchesOwn(c, u, ns, R)
  BY <1>4, <1>5 DEF TouchesOwn
<1>13. PICK q \in NoteRequest : /\ noteTx' = [noteTx EXCEPT ![c] = q]
                                /\ q.made = {} /\ q.pc # "dismiss" /\ NoteFits(q)
  BY NoteFreeFits DEF NoteDone, NoteSay
<1> QED
  BY <1>3, <1>10, <1>11, <1>12, <1>13, ReceiptStep

LEMMA DismissalsHold ==
  ASSUME NoteInvariant, NEW c \in NoteClerks, DismissIds(c) \/ DismissRead(c)
  PROVE  NoteInvariant'
<1>1. PICK t \in NoteRequest : t = noteTx[c] /\ NoteFits(t)
  BY DEF NoteInvariant, NoteTyped
<1>2. PICK u \in Readers : u = t.user
  BY <1>1 DEF NoteFits, DismissIds, DismissRead
<1>3. CASE DismissRead(c)
  <2>1. PICK ns \in SUBSET NoteIds :
          ns = {n \in NoteIds : /\ receipt[t.user][n].read /\ ~receipt[t.user][n].dismissed
                                /\ note[n] \in VisibleTargetRoles(t.role)}
    OBVIOUS
  <2>2. ns \cap Pending(u, c) = {} /\ \A n \in ns : ~receipt[u][n].dismissed
    BY <1>1, <1>2, <1>3, <2>1 DEF DismissRead
  <2>3. /\ receipt' = Dismissed(u, ns) /\ readerRole' = readerRole /\ NoteDone(c)
        /\ counted' = [counted EXCEPT ![u].dismissed = counted[u].dismissed + Cardinality(ns)]
    BY <1>1, <1>2, <1>3, <2>1 DEF DismissRead
  <2> QED
    BY <1>1, <1>2, <2>2, <2>3, DismissingHolds
<1>4. CASE DismissIds(c)
  <2>1. t.pc = "dismiss" /\ t.made \subseteq t.ids
        /\ \A n \in t.ids : receipt[u][n].there <=> n \notin t.made
    BY <1>1, <1>2, <1>4 DEF DismissIds, NoteFits
  <2>2. PICK ns \in SUBSET NoteIds : ns = t.made \cup ToDismiss(t)
    BY DEF ToDismiss, NoteRequest
  <2>3. \A n \in ns : n \in t.ids /\ ~receipt[u][n].dismissed
    <3>1. \A n \in t.made : n \in NoteIds /\ ~receipt[u][n].there
      BY <2>1 DEF NoteRequest
    <3>2. \A n \in t.made : ~receipt[u][n].dismissed
      BY <3>1 DEF NoteInvariant, ReceiptsKept
    <3> QED
      BY <1>2, <2>1, <2>2, <3>2 DEF ToDismiss
  <2>4. ns \cap Pending(u, c) = {}
    <3>1. SUFFICES ASSUME NEW n \in ns, NEW d \in NoteClerks \ {c}, noteTx[d].user = u,
                          n \in noteTx[d].made
                   PROVE  FALSE
      BY DEF Pending
    <3>2. noteTx[d].pc = "dismiss" /\ n \in noteTx[d].ids /\ ~receipt[u][n].there
      BY <3>1 DEF NoteInvariant, NoteFits
    <3>3. n \in t.made
      BY <2>1, <2>3, <3>2
    <3> QED
      BY <1>1, <1>2, <3>1, <3>3 DEF NoteInvariant, MadeApart
  <2>5. /\ receipt' = Dismissed(u, ns) /\ readerRole' = readerRole /\ NoteDone(c)
        /\ counted' = [counted EXCEPT ![u].dismissed = counted[u].dismissed + Cardinality(ns)]
    BY <1>1, <1>2, <1>4, <2>2 DEF DismissIds
  <2> QED
    BY <1>1, <1>2, <2>3, <2>4, <2>5, DismissingHolds
<1> QED
  BY <1>3, <1>4

(* The receipts, the counts and the requests, in every state.              *)
THEOREM NoteInvariantHolds == NoteSpec => []NoteInvariant
<1>1. NoteInit => NoteInvariant
  <2> SUFFICES ASSUME NoteInit
               PROVE  NoteInvariant
    OBVIOUS
  <2>1. NoteTyped
    BY NoteFreeFits DEF NoteInit, NoteTyped, NoteRoles, NoReceipt, ReceiptRow
  <2>2. ReceiptsKept /\ MadeApart
    BY NoteFreeFits DEF NoteInit, ReceiptsKept, NoReceipt, MadeApart
  <2>3. CountsAddUp
    <3>1. \A u \in Readers : /\ HasRead(u) = {} /\ HasDismissed(u) = {}
                             /\ counted[u] = [read |-> 0, unread |-> 0, dismissed |-> 0]
      BY DEF NoteInit, NoReceipt, HasRead, HasDismissed
    <3> QED
      BY <3>1, CountsOf, FS_EmptySet
  <2>4. \A c \in NoteClerks : NoteFits(noteTx[c])
    BY NoteFreeFits DEF NoteInit
  <2> QED
    BY <2>1, <2>2, <2>3, <2>4 DEF NoteInvariant
<1>2. NoteInvariant /\ [NoteNext]_noteVars => NoteInvariant'
  <2> SUFFICES ASSUME NoteInvariant, [NoteNext]_noteVars
               PROVE  NoteInvariant'
    OBVIOUS
  <2>1. ASSUME NEW c \in NoteClerks,
               \/ AssertVisible(c) \/ ReadOne(c) \/ ReadSnapshot(c)
               \/ DismissTargets(c) \/ MakeReceipts(c)
               \/ \E u \in Readers :
                    \/ \E n \in NoteIds : SubmitRead(c, u, n) \/ SubmitUnread(c, u, n)
                    \/ \E body \in ReadBodies : SubmitReadAll(c, u, body)
                    \/ \E body \in DismissBodies : SubmitDismiss(c, u, body)
        PROVE  NoteInvariant'
    BY <2>1, QuietNotes
  <2>2. ASSUME NEW c \in NoteClerks, MarkManyRead(c) \/ MarkUnread(c)
        PROVE  NoteInvariant'
    BY <2>2, ReadingHolds
  <2>3. ASSUME NEW c \in NoteClerks, DismissIds(c) \/ DismissRead(c)
        PROVE  NoteInvariant'
    BY <2>3, DismissalsHold
  <2>4. CASE UNCHANGED <<receipt, counted, noteTx>> /\ readerRole' \in [Readers -> NoteRoles]
    BY <2>4 DEF NoteInvariant, NoteTyped, ReceiptsKept, MadeApart, CountsAddUp, NoteFits
  <2>5. ASSUME NEW n \in NoteIds, NEW target \in {"ALL", "ADMIN", "SUPER_ADMIN"},
               NoteCreated(n, target)
        PROVE  NoteInvariant'
    BY <2>4, <2>5 DEF NoteCreated, NoteInvariant, NoteTyped
  <2>6. ASSUME NEW u \in Readers, NEW role \in NoteRoles, RoleChanges(u, role)
        PROVE  NoteInvariant'
    BY <2>4, <2>6 DEF RoleChanges, NoteInvariant, NoteTyped
  <2>7. CASE UNCHANGED noteVars
    BY <2>4, <2>7 DEF noteVars, NoteInvariant, NoteTyped
  <2> QED
    BY <2>1, <2>2, <2>3, <2>5, <2>6, <2>7 DEF NoteNext
<1> QED
  BY <1>1, <1>2, PTL DEF NoteSpec

(* However the requests of one person overlap, the counts they are         *)
(* answered add up to the receipts there are.                              *)
THEOREM CountsAlwaysAddUp == NoteSpec => []CountsAddUp
<1>1. NoteInvariant => CountsAddUp
  BY DEF NoteInvariant
<1> QED
  BY <1>1, NoteInvariantHolds, PTL

(***************************************************************************)
(* The venue photos and the avatars.                                       *)
(***************************************************************************)
PhPcs == {"free", "upload", "discard", "create", "update", "clear", "rehome", "close", "reopen",
          "remove", "sweep", "put", "picture", "previous"}
VenuePcs == {"create", "update", "clear", "rehome", "close", "reopen", "remove"}
Folder(v) == {Staged, v} \X Photos
PhFiles == Photos \cup {NoPicture}
PhUrls == ({Staged} \cup PhotoVenues) \X Photos
PhRequest ==
  [pc : PhPcs, venue : PhotoVenues \cup {Staged}, urls : SUBSET PhUrls, before : SUBSET PhUrls,
   moves : SUBSET PhUrls, gen : Nat, file : PhFiles, prev : PhFiles]
VenueRow ==
  [there : BOOLEAN, open : BOOLEAN, deleted : BOOLEAN, urls : SUBSET PhUrls, gen : Nat,
   shown : SUBSET PhUrls, lost : SUBSET PhUrls]
PhTyped ==
  /\ told \cup aged \subseteq Photos
  /\ phVenue \in [PhotoVenues -> VenueRow]
  /\ avatar \in [row : PhFiles, files : SUBSET Photos]
  /\ phTx \in [PhotoClerks -> PhRequest]

(* A venue's URLs are staged, or in its own folder.                        *)
InOwnFolder ==
  \A v \in PhotoVenues : phVenue[v].urls \cup phVenue[v].shown \subseteq Folder(v)

PhFits(t) ==
  /\ t.venue \in PhotoVenues <=> t.pc \in VenuePcs
  /\ t.urls \cup t.before \subseteq Folder(t.venue)
  /\ t.moves \subseteq {Staged} \X Photos
  /\ t.pc # "rehome" => t.moves = {}
  /\ t.pc = "upload" => t.file # NoPicture
  /\ t.pc \in {"clear", "rehome"} => t.gen <= phVenue[t.venue].gen

(* Who may still use a staged file: the operator it was uploaded by, an    *)
(* upload or a discard under way, or a venue: by its rows, its answers or  *)
(* a request about it.                                                     *)
Names(v, k) ==
  \/ <<Staged, k>> \in phVenue[v].urls \cup phVenue[v].shown
  \/ \E c \in PhotoClerks :
       phTx[c].venue = v /\ <<Staged, k>> \in phTx[c].urls \cup phTx[c].before
Uploads(c, k) == phTx[c].pc = "upload" /\ phTx[c].file = k
Discards(c, k) == phTx[c].pc = "discard" /\ <<Staged, k>> \in phTx[c].urls
OneUser ==
  \A k \in Photos :
    /\ k \in told => /\ \A v \in PhotoVenues : ~Names(v, k)
                     /\ \A c \in PhotoClerks : ~Uploads(c, k) /\ ~Discards(c, k)
    /\ \A v \in PhotoVenues : Names(v, k) =>
         /\ \A w \in PhotoVenues : Names(w, k) => v = w
         /\ \A c \in PhotoClerks : ~Uploads(c, k) /\ ~Discards(c, k)
    /\ \A c \in PhotoClerks : Uploads(c, k) =>
         \A d \in PhotoClerks : ~Discards(d, k) /\ (Uploads(d, k) => c = d)

(* A save that sends a file no answer has shown is the only one that knows *)
(* of it.                                                                  *)
SendsUnshown(c, k) ==
  /\ phTx[c].pc \in {"create", "update"}
  /\ <<Staged, k>> \in phTx[c].urls \ phVenue[phTx[c].venue].shown
SendsAlone ==
  \A c \in PhotoClerks : \A k \in Photos : SendsUnshown(c, k) =>
    /\ <<Staged, k>> \notin phVenue[phTx[c].venue].urls \cup phTx[c].before
    /\ \A d \in PhotoClerks \ {c} :
         phTx[d].venue = phTx[c].venue => <<Staged, k>> \notin phTx[d].urls \cup phTx[d].before

(* What a request has copied and not yet repointed is in the folder of its *)
(* venue, as long as the rows are those it began with.                     *)
MovesKept ==
  \A c \in PhotoClerks :
    LET t == phTx[c]  v == phVenue[t.venue] IN
    t.pc = "rehome" /\ t.gen = v.gen =>
      \A u \in (t.moves \cap v.urls) \ v.lost : VenuePhotoKeyFor(t.venue, u) \in bucket

(* A file is one upload's; the picture is nobody's to delete.              *)
PictureKept ==
  /\ \A c, d \in PhotoClerks :
       /\ phTx[c].pc \in {"put", "picture"} => phTx[c].file # phTx[d].prev
       /\ phTx[c].file # NoPicture /\ phTx[c].file = phTx[d].file => c = d
  /\ \A c \in PhotoClerks :
       /\ phTx[c].pc \in {"put", "picture"} =>
            phTx[c].file # NoPicture /\ phTx[c].file # avatar.row
       /\ phTx[c].pc = "picture" => phTx[c].file \in avatar.files
       /\ phTx[c].pc = "previous" /\ phTx[c].prev # NoPicture => phTx[c].prev # avatar.row

PhInvariant ==
  /\ PhTyped /\ InOwnFolder /\ OneUser /\ SendsAlone /\ MovesKept /\ PictureKept
  /\ \A c \in PhotoClerks : PhFits(phTx[c])
  /\ ImagesAreSafe

-----------------------------------------------------------------------------
(* A request that is over names nothing.                                   *)
LEMMA PhFreeFits ==
  /\ PhFree \in PhRequest /\ PhFits(PhFree)
  /\ PhFree.pc = "free" /\ PhFree.venue = Staged /\ PhFree.urls = {} /\ PhFree.before = {}
  /\ PhFree.moves = {} /\ PhFree.file = NoPicture /\ PhFree.prev = NoPicture
<1>1. /\ PhFree.pc = "free" /\ PhFree.venue = Staged /\ PhFree.urls = {} /\ PhFree.before = {}
      /\ PhFree.moves = {} /\ PhFree.file = NoPicture /\ PhFree.prev = NoPicture
  BY DEF PhFree, NoPicture
<1>2. PhFree \in PhRequest
  BY DEF PhFree, NoPicture, PhRequest, PhPcs, PhFiles
<1>3. PhFits(PhFree)
  BY <1>1, PhotoConstants DEF PhFits, VenuePcs
<1> QED
  BY <1>1, <1>2, <1>3

(* The claims on the staged files, seen from the steps: a step that adds   *)
(* none, and one that hands a file from one user to another.               *)
Kept(k) ==
  /\ k \in told' => k \in told
  /\ \A v \in PhotoVenues : Names(v, k)' => Names(v, k)
  /\ \A c \in PhotoClerks : (Uploads(c, k)' => Uploads(c, k)) /\ (Discards(c, k)' => Discards(c, k))

LEMMA KeptHasOneUser ==
  ASSUME OneUser, \A k \in Photos : Kept(k)
  PROVE  OneUser'
BY DEF OneUser, Kept

(* A request goes on with what it had, or begins with the rows of its      *)
(* venue, or is about none.                                                *)
Aside(t, q) ==
  /\ q.pc \notin {"create", "update"}
  /\ \/ q.venue \notin PhotoVenues
     \/ q.urls \cup q.before \subseteq phVenue[q.venue].urls
     \/ q.venue = t.venue /\ q.urls \subseteq t.urls /\ q.before \subseteq t.before
Quieter(t, q) == Aside(t, q) /\ q.pc \notin {"upload", "discard"}

(* No venue has a staged file in its rows or answers that it had not.      *)
RowsQuiet ==
  \A v \in PhotoVenues :
    /\ phVenue[v].shown \subseteq phVenue'[v].shown
    /\ phVenue'[v].shown \subseteq phVenue[v].shown \cup phVenue[v].urls
    /\ \A k \in Photos : <<Staged, k>> \in phVenue'[v].urls => <<Staged, k>> \in phVenue[v].urls

LEMMA NamesKeep ==
  ASSUME RowsQuiet, NEW k \in Photos, NEW v \in PhotoVenues, Names(v, k)',
         \A d \in PhotoClerks : phTx'[d] = phTx[d] \/ Aside(phTx[d], phTx'[d])
  PROVE  Names(v, k)
<1>1. CASE <<Staged, k>> \in phVenue'[v].urls \cup phVenue'[v].shown
  BY <1>1 DEF RowsQuiet, Names
<1>2. ASSUME NEW d \in PhotoClerks, phTx'[d].venue = v,
             <<Staged, k>> \in phTx'[d].urls \cup phTx'[d].before
      PROVE  Names(v, k)
  BY <1>2 DEF Aside, Names
<1> QED
  BY <1>1, <1>2 DEF Names

LEMMA SendsKeep ==
  ASSUME PhInvariant, RowsQuiet,
         \A d \in PhotoClerks : phTx'[d] = phTx[d] \/ Aside(phTx[d], phTx'[d])
  PROVE  SendsAlone'
<1> SUFFICES ASSUME NEW c \in PhotoClerks, NEW k \in Photos, SendsUnshown(c, k)',
                    NEW v, v = phTx'[c].venue
             PROVE  /\ <<Staged, k>> \notin phVenue'[v].urls \cup phTx'[c].before
                    /\ \A d \in PhotoClerks \ {c} :
                         phTx'[d].venue = v => <<Staged, k>> \notin phTx'[d].urls \cup phTx'[d].before
  BY DEF SendsAlone
<1>1. phTx'[c] = phTx[c] /\ v \in PhotoVenues
  <2>1. phTx'[c] = phTx[c]
    BY DEF SendsUnshown, Aside
  <2> QED
    BY <2>1 DEF SendsUnshown, PhInvariant, PhFits, VenuePcs
<1>2. SendsUnshown(c, k)
  BY <1>1 DEF SendsUnshown, RowsQuiet
<1>3. /\ <<Staged, k>> \notin phVenue[v].urls \cup phTx[c].before
      /\ \A d \in PhotoClerks \ {c} :
           phTx[d].venue = v => <<Staged, k>> \notin phTx[d].urls \cup phTx[d].before
  BY <1>1, <1>2 DEF PhInvariant, SendsAlone
<1>4. ASSUME NEW d \in PhotoClerks \ {c}, phTx'[d].venue = v
      PROVE  <<Staged, k>> \notin phTx'[d].urls \cup phTx'[d].before
  BY <1>1, <1>3, <1>4 DEF Aside
<1> QED
  BY <1>1, <1>3, <1>4 DEF RowsQuiet

LEMMA ClaimsKeep ==
  ASSUME PhInvariant, told' \subseteq told, RowsQuiet,
         \A d \in PhotoClerks : phTx'[d] = phTx[d] \/ Quieter(phTx[d], phTx'[d])
  PROVE  OneUser' /\ SendsAlone'
<1>1. \A d \in PhotoClerks : phTx'[d] = phTx[d] \/ Aside(phTx[d], phTx'[d])
  BY DEF Quieter
<1>2. ASSUME NEW k \in Photos
      PROVE  Kept(k)
  <2>1. \A d \in PhotoClerks : (Uploads(d, k)' => Uploads(d, k))
                               /\ (Discards(d, k)' => Discards(d, k))
    BY DEF Uploads, Discards, Quieter
  <2> QED
    BY <1>1, <2>1, NamesKeep DEF Kept
<1> QED
  BY <1>1, <1>2, KeptHasOneUser, SendsKeep DEF PhInvariant

(* The avatars are not touched.                                            *)
NoPictureOf(t, q) ==
  /\ q.pc \notin {"put", "picture", "previous"}
  /\ q.file \in {t.file, NoPicture} /\ q.prev \in {t.prev, NoPicture}
LEMMA PictureKeeps ==
  ASSUME PhInvariant, avatar' = avatar,
         \A d \in PhotoClerks : phTx'[d] = phTx[d] \/ NoPictureOf(phTx[d], phTx'[d])
  PROVE  PictureKept' /\ AvatarResolves'
<1>1. AvatarResolves'
  BY DEF PhInvariant, ImagesAreSafe, AvatarResolves
<1>2. PictureKept'
  <2>1. \A c \in PhotoClerks : phTx'[c].pc \in {"put", "picture", "previous"} => phTx'[c] = phTx[c]
    BY DEF NoPictureOf
  <2>2. \A c \in PhotoClerks : /\ phTx'[c].file \in {phTx[c].file, NoPicture}
                               /\ phTx'[c].prev \in {phTx[c].prev, NoPicture}
    BY DEF NoPictureOf
  <2>3. \A c \in PhotoClerks : phTx[c].pc \in {"put", "picture"} => phTx[c].file # NoPicture
    BY DEF PhInvariant, PictureKept
  <2> QED
    BY <2>1, <2>2, <2>3 DEF PhInvariant, PictureKept
<1> QED
  BY <1>1, <1>2

(* The types, and what fits each request.                                  *)
LEMMA FitsKeep ==
  ASSUME PhInvariant, NEW c \in PhotoClerks, NEW q \in PhRequest,
         phTx' = [phTx EXCEPT ![c] = q], PhFits(q)',
         (told \cup aged)' \subseteq Photos, avatar' \in [row : PhFiles, files : SUBSET Photos],
         phVenue' \in [PhotoVenues -> VenueRow],
         \A v \in PhotoVenues : phVenue[v].gen <= phVenue'[v].gen
  PROVE  /\ PhTyped' /\ \A d \in PhotoClerks : PhFits(phTx[d])'
         /\ \A d \in PhotoClerks : phTx'[d] = IF d = c THEN q ELSE phTx[d]
<1>1. /\ phTx' \in [PhotoClerks -> PhRequest]
      /\ \A d \in PhotoClerks : phTx'[d] = IF d = c THEN q ELSE phTx[d]
  BY DEF PhInvariant, PhTyped
<1>2. PhTyped'
  BY <1>1 DEF PhTyped
<1>3. ASSUME NEW d \in PhotoClerks
      PROVE  PhFits(phTx[d])'
  <2>1. PICK t \in PhRequest : t = phTx[d] /\ PhFits(t)
    BY DEF PhInvariant, PhTyped
  <2>2. t.pc \in {"clear", "rehome"} => t.gen <= phVenue'[t.venue].gen
    <3>1. SUFFICES ASSUME t.pc \in {"clear", "rehome"}
                   PROVE  t.gen <= phVenue'[t.venue].gen
      OBVIOUS
    <3>2. PICK v \in PhotoVenues : v = t.venue
      BY <2>1, <3>1 DEF PhFits, VenuePcs
    <3>3. t.gen \in Nat /\ phVenue[v].gen \in Nat /\ phVenue'[v].gen \in Nat
      BY DEF PhInvariant, PhTyped, PhRequest, VenueRow
    <3> QED
      BY <2>1, <3>1, <3>2, <3>3 DEF PhFits
  <2>3. PhFits(t)'
    BY <2>1, <2>2 DEF PhFits
  <2> QED
    BY <1>1, <2>1, <2>3
<1> QED
  BY <1>1, <1>2, <1>3

(* The bytes of a photo stay where they are, or reach the venue's folder,  *)
(* and what is in its folder stays there.                                  *)
BytesStay(v) ==
  \A u \in phVenue[v].urls \ phVenue'[v].lost :
    LET key == VenuePhotoKeyFor(v, u) IN
    /\ u \in bucket => u \in bucket' \/ key \in bucket'
    /\ key \in bucket => key \in bucket'
MovesStay(t, q) ==
  q.pc = "rehome" =>
    /\ q.venue \in PhotoVenues
    /\ \A u \in q.moves : \/ VenuePhotoKeyFor(q.venue, u) \in bucket'
                          \/ t.pc = "rehome" /\ t.venue = q.venue /\ t.gen = q.gen /\ u \in t.moves
LEMMA BytesKeep ==
  ASSUME PhInvariant,
         \A v \in PhotoVenues : /\ phVenue'[v].urls = phVenue[v].urls
                                /\ phVenue[v].lost \subseteq phVenue'[v].lost
                                /\ phVenue'[v].gen = phVenue[v].gen
                                /\ BytesStay(v),
         \A d \in PhotoClerks : MovesStay(phTx[d], phTx'[d])
  PROVE  MovesKept' /\ RehomeKeepsBytes'
<1>1. RehomeKeepsBytes'
  BY Zenon DEF PhInvariant, ImagesAreSafe, RehomeKeepsBytes, BytesStay, VenuePhotoKeyFor
<1>2. MovesKept'
  <2> SUFFICES ASSUME NEW c \in PhotoClerks, NEW v, v = phTx'[c].venue,
                      phTx'[c].pc = "rehome", phTx'[c].gen = phVenue'[v].gen,
                      NEW u \in (phTx'[c].moves \cap phVenue'[v].urls) \ phVenue'[v].lost
               PROVE  VenuePhotoKeyFor(v, u) \in bucket'
    BY DEF MovesKept, VenuePhotoKeyFor
  <2>1. v \in PhotoVenues
    BY DEF MovesStay
  <2>2. ASSUME phTx[c].pc = "rehome", phTx[c].venue = v, phTx[c].gen = phTx'[c].gen,
               u \in phTx[c].moves
        PROVE  VenuePhotoKeyFor(v, u) \in bucket'
    <3>1. u \in (phTx[c].moves \cap phVenue[v].urls) \ phVenue[v].lost
      BY <2>1, <2>2
    <3>2. VenuePhotoKeyFor(v, u) \in bucket
      BY <2>1, <2>2, <3>1 DEF PhInvariant, MovesKept
    <3> QED
      BY <2>1, <3>1, <3>2 DEF BytesStay
  <2> QED
    BY <2>2 DEF MovesStay
<1> QED
  BY <1>1, <1>2

(* A request that has not begun to copy, or goes on as it was.             *)
LEMMA SameMoves ==
  ASSUME \A d \in PhotoClerks : PhFits(phTx[d])', NEW d \in PhotoClerks,
         phTx'[d] = phTx[d] \/ phTx'[d].moves = {}
  PROVE  MovesStay(phTx[d], phTx'[d])
<1>1. phTx'[d].pc = "rehome" => phTx'[d].venue \in PhotoVenues
  BY DEF PhFits, VenuePcs
<1> QED
  BY <1>1 DEF MovesStay

-----------------------------------------------------------------------------
(* A request changes its place, perhaps with a new object in the bucket.   *)
LEMMA QuietButPicture ==
  ASSUME PhInvariant, NEW c \in PhotoClerks, NEW q \in PhRequest,
         phTx' = [phTx EXCEPT ![c] = q], bucket \subseteq bucket',
         UNCHANGED <<aged, told, phVenue>>, avatar' \in [row : PhFiles, files : SUBSET Photos],
         PhFits(q), Quieter(phTx[c], q), q.moves = {}, PictureKept', AvatarResolves'
  PROVE  PhInvariant'
<1>1. PhFits(q)'
  BY DEF PhFits
<1>2. /\ PhTyped' /\ \A d \in PhotoClerks : PhFits(phTx[d])'
      /\ \A d \in PhotoClerks : phTx'[d] = IF d = c THEN q ELSE phTx[d]
  <2>1. \A v \in PhotoVenues : phVenue[v].gen <= phVenue'[v].gen
    BY DEF PhInvariant, PhTyped, VenueRow
  <2>2. /\ (told \cup aged)' \subseteq Photos
        /\ phVenue' \in [PhotoVenues -> VenueRow]
    BY DEF PhInvariant, PhTyped
  <2> QED
    BY <1>1, <2>1, <2>2, FitsKeep
<1>3. OneUser' /\ SendsAlone'
  BY <1>2, ClaimsKeep DEF RowsQuiet
<1>4. MovesKept' /\ RehomeKeepsBytes'
  <2>1. \A d \in PhotoClerks : MovesStay(phTx[d], phTx'[d])
    BY <1>2, SameMoves
  <2> QED
    BY <2>1, BytesKeep DEF BytesStay
<1>5. InOwnFolder'
  BY DEF PhInvariant, InOwnFolder
<1> QED
  BY <1>2, <1>3, <1>4, <1>5 DEF PhInvariant, ImagesAreSafe

LEMMA QuietRequest ==
  ASSUME PhInvariant, NEW c \in PhotoClerks, NEW q \in PhRequest,
         phTx' = [phTx EXCEPT ![c] = q], bucket \subseteq bucket',
         UNCHANGED <<aged, told, phVenue, avatar>>,
         PhFits(q), Quieter(phTx[c], q), NoPictureOf(phTx[c], q), q.moves = {}
  PROVE  PhInvariant'
<1>1. \A d \in PhotoClerks : phTx'[d] = IF d = c THEN q ELSE phTx[d]
  BY DEF PhInvariant, PhTyped
<1>2. PictureKept' /\ AvatarResolves'
  BY <1>1, PictureKeeps
<1>3. avatar' \in [row : PhFiles, files : SUBSET Photos]
  BY DEF PhInvariant, PhTyped
<1> QED
  BY <1>2, <1>3, QuietButPicture

(* Requests that begin without a file of their own.                        *)
LEMMA BeginningsHold ==
  ASSUME PhInvariant, NEW c \in PhotoClerks,
         \/ ListStaged(c)
         \/ \E v \in PhotoVenues :
              SubmitClose(c, v) \/ SubmitReopen(c, v) \/ SubmitRemove(c, v) \/ PatchVenue(c, v)
  PROVE  PhInvariant'
<1>1. CASE ListStaged(c)
  <2>1. PICK us \in SUBSET ({Staged} \X Photos) : us = Eligible
    <3>1. \A u \in Eligible : u \in {Staged} \X Photos
      BY DEF PhInvariant, PhTyped, Eligible
    <3> QED
      BY <3>1
  <2>2. PICK q \in PhRequest : q = [PhFree EXCEPT !.pc = "sweep", !.urls = us]
    <3>1. us \in SUBSET PhUrls
      BY DEF PhUrls
    <3> QED
      BY <3>1, PhFreeFits DEF PhRequest, PhPcs
  <2>3. /\ q.pc = "sweep" /\ q.urls = us /\ q.before = {} /\ q.moves = {} /\ q.venue = Staged
        /\ q.file = NoPicture /\ q.prev = NoPicture
    BY <2>2, PhFreeFits DEF PhRequest
  <2>4. PhFits(q) /\ Quieter(phTx[c], q) /\ NoPictureOf(phTx[c], q)
    BY <2>1, <2>3, PhotoConstants DEF PhFits, VenuePcs, Folder, Quieter, Aside, NoPictureOf
  <2>5. phTx' = [phTx EXCEPT ![c] = q] /\ UNCHANGED <<bucket, aged, told, phVenue, avatar>>
    BY <1>1, <2>1, <2>2 DEF ListStaged, PhSay
  <2> QED
    BY <2>3, <2>4, <2>5, QuietRequest
<1>2. ASSUME NEW v \in PhotoVenues, NEW pc \in {"close", "reopen", "remove"}, SubmitToggle(c, v, pc)
      PROVE  PhInvariant'
  <2>1. PICK q \in PhRequest : q = [PhFree EXCEPT !.pc = pc, !.venue = v]
    BY PhFreeFits DEF PhRequest, PhPcs
  <2>2. /\ q.pc = pc /\ q.urls = {} /\ q.before = {} /\ q.moves = {} /\ q.venue = v
        /\ q.file = NoPicture /\ q.prev = NoPicture
    BY <2>1, PhFreeFits DEF PhRequest
  <2>3. PhFits(q) /\ Quieter(phTx[c], q) /\ NoPictureOf(phTx[c], q)
    BY <2>2 DEF PhFits, VenuePcs, Quieter, Aside, NoPictureOf
  <2>4. phTx' = [phTx EXCEPT ![c] = q] /\ UNCHANGED <<bucket, aged, told, phVenue, avatar>>
    BY <1>2, <2>1 DEF SubmitToggle, PhStart, PhSay
  <2> QED
    BY <2>2, <2>3, <2>4, QuietRequest
<1>3. ASSUME NEW v \in PhotoVenues, PatchVenue(c, v)
      PROVE  PhInvariant'
  <2>1. PICK r \in VenueRow : r = phVenue[v]
    BY DEF PhInvariant, PhTyped
  <2>2. PICK us \in SUBSET PhUrls, g \in Nat : us = r.urls /\ g = r.gen
    BY DEF VenueRow
  <2>3. PICK q \in PhRequest :
          q = [PhFree EXCEPT !.pc = "rehome", !.venue = v, !.urls = us, !.gen = g]
    BY PhFreeFits DEF PhRequest, PhPcs
  <2>4. /\ q.pc = "rehome" /\ q.urls = us /\ q.before = {} /\ q.moves = {} /\ q.venue = v
        /\ q.file = NoPicture /\ q.prev = NoPicture /\ q.gen = g
    BY <2>3, PhFreeFits DEF PhRequest
  <2>5. PhFits(q)
    BY <2>1, <2>2, <2>4 DEF PhFits, VenuePcs, PhInvariant, InOwnFolder
  <2>6. Quieter(phTx[c], q) /\ NoPictureOf(phTx[c], q)
    BY <2>1, <2>2, <2>4 DEF Quieter, Aside, NoPictureOf
  <2>7. phTx' = [phTx EXCEPT ![c] = q] /\ UNCHANGED <<bucket, aged, told, phVenue, avatar>>
    BY <1>3, <2>1, <2>2, <2>3, Zenon DEF PatchVenue, PhStart, PhSay
  <2> QED
    BY <2>4, <2>5, <2>6, <2>7, QuietRequest
<1> QED
  BY <1>1, <1>2, <1>3 DEF SubmitClose, SubmitReopen, SubmitRemove

(* The venue is closed, opened or removed: its photos are not touched.     *)
LEMMA TogglesHold ==
  ASSUME PhInvariant, NEW c \in PhotoClerks, CloseVenue(c) \/ ReopenVenue(c) \/ RemoveVenue(c)
  PROVE  PhInvariant'
<1>1. PICK v \in PhotoVenues : v = phTx[c].venue
  BY DEF CloseVenue, ReopenVenue, RemoveVenue, PhInvariant, PhFits, VenuePcs
<1>2. PICK R \in VenueRow :
        /\ phVenue' = [phVenue EXCEPT ![v] = R] /\ R.urls = phVenue[v].urls
        /\ R.shown = phVenue[v].shown /\ R.lost = phVenue[v].lost /\ R.gen = phVenue[v].gen
  <2>1. PICK r \in VenueRow : r = phVenue[v]
    BY DEF PhInvariant, PhTyped
  <2>2. /\ [r EXCEPT !.open = FALSE] \in VenueRow
        /\ [r EXCEPT !.open = TRUE] \in VenueRow
        /\ [r EXCEPT !.deleted = TRUE] \in VenueRow
    BY DEF VenueRow
  <2>3. \/ phVenue' = [phVenue EXCEPT ![v] = [r EXCEPT !.open = FALSE]]
        \/ phVenue' = [phVenue EXCEPT ![v] = [r EXCEPT !.open = TRUE]]
        \/ phVenue' = [phVenue EXCEPT ![v] = [r EXCEPT !.deleted = TRUE]]
    BY <1>1, <2>1 DEF CloseVenue, ReopenVenue, RemoveVenue
  <2> QED
    BY <2>1, <2>2, <2>3 DEF VenueRow
<1>3. /\ phVenue' \in [PhotoVenues -> VenueRow]
      /\ \A w \in PhotoVenues :
           /\ phVenue'[w].urls = phVenue[w].urls /\ phVenue'[w].shown = phVenue[w].shown
           /\ phVenue'[w].lost = phVenue[w].lost /\ phVenue'[w].gen = phVenue[w].gen
  BY <1>2 DEF PhInvariant, PhTyped
<1>4. phTx' = [phTx EXCEPT ![c] = PhFree] /\ UNCHANGED <<bucket, aged, told, avatar>>
  BY DEF CloseVenue, ReopenVenue, RemoveVenue, PhDone, PhSay
<1>5. /\ PhTyped' /\ \A d \in PhotoClerks : PhFits(phTx[d])'
      /\ \A d \in PhotoClerks : phTx'[d] = IF d = c THEN PhFree ELSE phTx[d]
  <2>1. \A w \in PhotoVenues : phVenue[w].gen <= phVenue'[w].gen
    BY <1>3 DEF PhInvariant, PhTyped, VenueRow
  <2>2. /\ (told \cup aged)' \subseteq Photos /\ avatar' \in [row : PhFiles, files : SUBSET Photos]
    BY <1>4 DEF PhInvariant, PhTyped
  <2>3. PhFits(PhFree)'
    BY PhFreeFits DEF PhFits
  <2> QED
    BY <1>3, <1>4, <2>1, <2>2, <2>3, PhFreeFits, FitsKeep
<1>6. Quieter(phTx[c], PhFree) /\ NoPictureOf(phTx[c], PhFree)
  BY PhFreeFits, PhotoConstants DEF Quieter, Aside, NoPictureOf
<1>7. OneUser' /\ SendsAlone'
  BY <1>3, <1>4, <1>5, <1>6, ClaimsKeep DEF RowsQuiet
<1>8. PictureKept' /\ AvatarResolves'
  BY <1>4, <1>5, <1>6, PictureKeeps
<1>9. \A d \in PhotoClerks : MovesStay(phTx[d], phTx'[d])
  BY <1>5, PhFreeFits, SameMoves
<1>10. MovesKept' /\ RehomeKeepsBytes'
  BY <1>3, <1>4, <1>9, BytesKeep DEF BytesStay
<1>11. InOwnFolder'
  BY <1>3 DEF PhInvariant, InOwnFolder
<1> QED
  BY <1>5, <1>7, <1>8, <1>10, <1>11 DEF PhInvariant, ImagesAreSafe

OnlyShown ==
  /\ phVenue' \in [PhotoVenues -> VenueRow]
  /\ \A v \in PhotoVenues :
       /\ phVenue'[v].urls = phVenue[v].urls /\ phVenue[v].shown \subseteq phVenue'[v].shown
       /\ phVenue'[v].shown \subseteq phVenue[v].shown \cup phVenue[v].urls
       /\ phVenue'[v].lost = phVenue[v].lost /\ phVenue'[v].gen = phVenue[v].gen

(* An answer shows the URLs of some venues, or a day passes, or the        *)
(* process stops: the requests go on or are gone.                          *)
LEMMA BystandersHold ==
  ASSUME PhInvariant,
         ListVenues \/ (\E v \in PhotoVenues : FindVenue(v)) \/ DayPasses \/ PhotoCrash
  PROVE  PhInvariant'
<1>1. /\ UNCHANGED <<bucket, told, avatar>> /\ aged' \subseteq Photos
      /\ phTx' = phTx \/ phTx' = [c \in PhotoClerks |-> PhFree]
      /\ \/ phVenue' = phVenue
         \/ \E vs \in SUBSET PhotoVenues : Show(vs)
  <2>1. \A status : VenueListWhere(status) \in SUBSET PhotoVenues
    BY DEF VenueListWhere
  <2>2. ASSUME NEW vs \in SUBSET PhotoVenues, Show(vs)
        PROVE  UNCHANGED <<bucket, aged, told, avatar, phTx>>
    BY <2>2 DEF Show
  <2> QED
    BY <2>1, <2>2 DEF ListVenues, FindVenue, DayPasses, PhotoCrash, PhInvariant, PhTyped
<1>2. OnlyShown
  <2>1. CASE phVenue' = phVenue
    BY <2>1 DEF OnlyShown, PhInvariant, PhTyped
  <2>2. ASSUME NEW vs \in SUBSET PhotoVenues, Show(vs)
        PROVE  OnlyShown
    <3>1. ASSUME NEW v \in PhotoVenues
          PROVE  \E S \in SUBSET PhUrls :
                   /\ phVenue'[v] = [phVenue[v] EXCEPT !.shown = S] /\ phVenue[v].shown \subseteq S
                   /\ S \subseteq phVenue[v].shown \cup phVenue[v].urls
      <4>1. PICK r \in VenueRow : r = phVenue[v]
        BY DEF PhInvariant, PhTyped
      <4>2. r.shown \in SUBSET PhUrls /\ r.urls \in SUBSET PhUrls
        BY DEF VenueRow
      <4>3. \/ phVenue'[v] = [r EXCEPT !.shown = r.shown]
            \/ phVenue'[v] = [r EXCEPT !.shown = r.shown \cup r.urls]
        BY <2>2, <4>1 DEF Show, ToDto
      <4> QED
        BY <4>1, <4>2, <4>3
    <3>2. ASSUME NEW v \in PhotoVenues
          PROVE  /\ phVenue'[v] \in VenueRow
                 /\ phVenue'[v].urls = phVenue[v].urls /\ phVenue[v].shown \subseteq phVenue'[v].shown
                 /\ phVenue'[v].shown \subseteq phVenue[v].shown \cup phVenue[v].urls
                 /\ phVenue'[v].lost = phVenue[v].lost /\ phVenue'[v].gen = phVenue[v].gen
      <4>1. PICK r \in VenueRow : r = phVenue[v]
        BY DEF PhInvariant, PhTyped
      <4>2. PICK S \in SUBSET PhUrls :
              phVenue'[v] = [r EXCEPT !.shown = S] /\ r.shown \subseteq S
              /\ S \subseteq r.shown \cup r.urls
        BY <3>1, <4>1
      <4> QED
        BY <4>1, <4>2 DEF VenueRow
    <3>3. phVenue' = [v \in PhotoVenues |-> phVenue'[v]]
      BY <2>2 DEF Show
    <3> QED
      BY <3>2, <3>3 DEF OnlyShown
  <2> QED
    BY <1>1, <2>1, <2>2
<1>3. \A d \in PhotoClerks : phTx'[d] = phTx[d] \/ phTx'[d] = PhFree
  BY <1>1
<1>4. PhTyped' /\ \A d \in PhotoClerks : PhFits(phTx[d])'
  <2>1. phTx' \in [PhotoClerks -> PhRequest]
    BY <1>1, PhFreeFits DEF PhInvariant, PhTyped
  <2>2. PhFits(PhFree)'
    BY PhFreeFits DEF PhFits
  <2>3. ASSUME NEW d \in PhotoClerks, phTx'[d] = phTx[d]
        PROVE  PhFits(phTx[d])'
    <3>1. PhFits(phTx[d])
      BY DEF PhInvariant
    <3> QED
      BY <1>2, <2>3, <3>1 DEF OnlyShown, PhFits, VenuePcs
  <2> QED
    BY <1>1, <1>2, <1>3, <2>1, <2>2, <2>3 DEF OnlyShown, PhInvariant, PhTyped
<1>5. \A d \in PhotoClerks : phTx'[d] = phTx[d]
                             \/ (Quieter(phTx[d], phTx'[d]) /\ NoPictureOf(phTx[d], phTx'[d]))
  BY <1>3, PhFreeFits, PhotoConstants DEF Quieter, Aside, NoPictureOf
<1>6. OneUser' /\ SendsAlone'
  BY <1>1, <1>2, <1>5, ClaimsKeep DEF OnlyShown, RowsQuiet
<1>7. PictureKept' /\ AvatarResolves'
  BY <1>1, <1>5, PictureKeeps
<1>8. MovesKept' /\ RehomeKeepsBytes'
  <2>1. \A d \in PhotoClerks : MovesStay(phTx[d], phTx'[d])
    BY <1>3, <1>4, PhFreeFits, SameMoves
  <2> QED
    BY <1>1, <1>2, <2>1, BytesKeep DEF OnlyShown, BytesStay
<1>9. InOwnFolder'
  BY <1>2 DEF OnlyShown, PhInvariant, InOwnFolder
<1> QED
  BY <1>4, <1>6, <1>7, <1>8, <1>9 DEF PhInvariant, ImagesAreSafe

(* A fresh upload is of a key that nothing knows of.                       *)
LEMMA SubmitUploadHolds ==
  ASSUME PhInvariant, NEW c \in PhotoClerks, NEW k \in Photos, SubmitUpload(c, k)
  PROVE  PhInvariant'
<1>1. PICK q \in PhRequest : q = [PhFree EXCEPT !.pc = "upload", !.file = k]
  BY PhFreeFits DEF PhRequest, PhPcs, PhFiles
<1>2. /\ q.pc = "upload" /\ q.file = k /\ q.venue = Staged /\ q.urls = {} /\ q.before = {}
      /\ q.moves = {} /\ q.prev = NoPicture
  BY <1>1, PhFreeFits DEF PhRequest
<1>3. /\ phTx' = [phTx EXCEPT ![c] = q] /\ UNCHANGED <<bucket, aged, told, phVenue, avatar>>
      /\ phTx[c] = PhFree /\ NewKey(k)
  BY <1>1 DEF SubmitUpload, PhStart, PhSay
<1>4. k # NoPicture
  BY PhotoConstants
<1>5. /\ PhTyped' /\ \A d \in PhotoClerks : PhFits(phTx[d])'
      /\ \A d \in PhotoClerks : phTx'[d] = IF d = c THEN q ELSE phTx[d]
  <2>1. /\ (told \cup aged)' \subseteq Photos /\ avatar' \in [row : PhFiles, files : SUBSET Photos]
        /\ phVenue' \in [PhotoVenues -> VenueRow]
        /\ \A v \in PhotoVenues : phVenue[v].gen <= phVenue'[v].gen
    BY <1>3 DEF PhInvariant, PhTyped, VenueRow
  <2>2. PhFits(q)'
    BY <1>2, <1>4, PhotoConstants DEF PhFits, VenuePcs
  <2> QED
    BY <1>3, <2>1, <2>2, FitsKeep
<1>6. \A d \in PhotoClerks : phTx'[d] = phTx[d] \/ Aside(phTx[d], phTx'[d])
  BY <1>2, <1>5, PhotoConstants DEF Aside
<1>7. SendsAlone'
  BY <1>3, <1>6, SendsKeep DEF RowsQuiet
<1>8. OneUser'
  <2>1. /\ k \notin told /\ \A v \in PhotoVenues : ~Names(v, k)
        /\ \A d \in PhotoClerks : ~Uploads(d, k) /\ ~Discards(d, k)
    <3>1. \A u : u[2] = k =>
            /\ \A v \in PhotoVenues : u \notin phVenue[v].urls \cup phVenue[v].shown
            /\ \A d \in PhotoClerks : u \notin phTx[d].urls \cup phTx[d].before
      BY <1>3 DEF NewKey, Fresh
    <3>2. <<Staged, k>>[2] = k
      OBVIOUS
    <3>3. k \notin told /\ \A d \in PhotoClerks : phTx[d].file # k
      BY <1>3 DEF NewKey, NewFile
    <3> QED
      BY <3>1, <3>2, <3>3 DEF Names, Uploads, Discards
  <2>2. \A j \in Photos, v \in PhotoVenues : Names(v, j)' => Names(v, j)
    BY <1>3, <1>6, NamesKeep DEF RowsQuiet
  <2>3. \A j \in Photos, d \in PhotoClerks :
          /\ Uploads(d, j)' => Uploads(d, j) \/ (d = c /\ j = k)
          /\ Discards(d, j)' => Discards(d, j)
    BY <1>2, <1>5 DEF Uploads, Discards
  <2>4. OneUser /\ told' = told
    BY <1>3 DEF PhInvariant
  <2> QED
    BY <2>1, <2>2, <2>3, <2>4 DEF OneUser
<1>9. PictureKept' /\ AvatarResolves'
  <2>1. \A d \in PhotoClerks : phTx[d].file # k /\ phTx[d].prev # k
    BY <1>3 DEF NewKey, NewFile
  <2>2. PictureKept /\ AvatarResolves
    BY DEF PhInvariant, ImagesAreSafe
  <2>3. PictureKept'
    BY <1>2, <1>3, <1>4, <1>5, <2>1, <2>2 DEF PictureKept
  <2> QED
    BY <1>3, <2>2, <2>3 DEF AvatarResolves
<1>10. MovesKept' /\ RehomeKeepsBytes'
  <2>1. \A d \in PhotoClerks : MovesStay(phTx[d], phTx'[d])
    BY <1>2, <1>5, SameMoves
  <2> QED
    BY <1>3, <2>1, BytesKeep DEF BytesStay
<1>11. InOwnFolder'
  BY <1>3 DEF PhInvariant, InOwnFolder
<1> QED
  BY <1>5, <1>7, <1>8, <1>9, <1>10, <1>11 DEF PhInvariant, ImagesAreSafe
(* The upload ends: its operator has the URL, or there is nothing.         *)
LEMMA UploadHolds ==
  ASSUME PhInvariant, NEW c \in PhotoClerks, UploadPhoto(c)
  PROVE  PhInvariant'
<1>1. PICK k \in Photos : k = phTx[c].file /\ Uploads(c, k)
  <2>1. phTx[c] \in PhRequest /\ PhFits(phTx[c])
    BY DEF PhInvariant, PhTyped
  <2>2. phTx[c].pc = "upload"
    BY DEF UploadPhoto
  <2> QED
    BY <2>1, <2>2 DEF PhRequest, PhFiles, PhFits, Uploads
<1>2. /\ phTx' = [phTx EXCEPT ![c] = PhFree] /\ bucket \subseteq bucket'
      /\ told' \in {told, told \cup {k}} /\ UNCHANGED <<aged, phVenue, avatar>>
  BY <1>1 DEF UploadPhoto, PutImage, PhDone, PhSay
<1>3. /\ PhTyped' /\ \A d \in PhotoClerks : PhFits(phTx[d])'
      /\ \A d \in PhotoClerks : phTx'[d] = IF d = c THEN PhFree ELSE phTx[d]
  <2>1. /\ (told \cup aged)' \subseteq Photos /\ avatar' \in [row : PhFiles, files : SUBSET Photos]
        /\ phVenue' \in [PhotoVenues -> VenueRow]
        /\ \A v \in PhotoVenues : phVenue[v].gen <= phVenue'[v].gen
    BY <1>2 DEF PhInvariant, PhTyped, VenueRow
  <2>2. PhFits(PhFree)'
    BY PhFreeFits DEF PhFits
  <2> QED
    BY <1>2, <2>1, <2>2, PhFreeFits, FitsKeep
<1>4. \A d \in PhotoClerks : phTx'[d] = phTx[d] \/ Aside(phTx[d], phTx'[d])
  BY <1>3, PhFreeFits, PhotoConstants DEF Aside
<1>5. SendsAlone'
  BY <1>2, <1>4, SendsKeep DEF RowsQuiet
<1>6. OneUser'
  <2>1. \A j \in Photos, v \in PhotoVenues : Names(v, j)' => Names(v, j)
    BY <1>2, <1>4, NamesKeep DEF RowsQuiet
  <2>2. \A j \in Photos, d \in PhotoClerks :
          /\ Uploads(d, j)' => Uploads(d, j) /\ d # c
          /\ Discards(d, j)' => Discards(d, j)
    BY <1>3, PhFreeFits DEF Uploads, Discards
  <2>3. OneUser
    BY DEF PhInvariant
  <2>4. /\ \A v \in PhotoVenues : ~Names(v, k)
        /\ \A d \in PhotoClerks : ~Discards(d, k) /\ (Uploads(d, k) => d = c)
    BY <1>1, <2>3 DEF OneUser
  <2> QED
    BY <1>2, <2>1, <2>2, <2>3, <2>4 DEF OneUser
<1>7. PictureKept' /\ AvatarResolves'
  <2>1. \A d \in PhotoClerks : phTx'[d] = phTx[d] \/ NoPictureOf(phTx[d], phTx'[d])
    BY <1>3, PhFreeFits DEF NoPictureOf
  <2> QED
    BY <1>2, <2>1, PictureKeeps
<1>8. MovesKept' /\ RehomeKeepsBytes'
  <2>1. \A d \in PhotoClerks : MovesStay(phTx[d], phTx'[d])
    BY <1>3, PhFreeFits, SameMoves
  <2> QED
    BY <1>2, <2>1, BytesKeep DEF BytesStay
<1>9. InOwnFolder'
  BY <1>2 DEF PhInvariant, InOwnFolder
<1> QED
  BY <1>3, <1>5, <1>6, <1>7, <1>8, <1>9 DEF PhInvariant, ImagesAreSafe

(* A discard takes a file from its operator, and deletes its object.       *)
LEMMA SubmitDiscardHolds ==
  ASSUME PhInvariant, NEW c \in PhotoClerks, NEW k \in Photos, SubmitDiscard(c, k)
  PROVE  PhInvariant'
<1>1. PICK us \in SUBSET PhUrls : us = {<<Staged, k>>}
  <2>1. {<<Staged, k>>} \in SUBSET PhUrls
    BY DEF PhUrls
  <2> QED
    BY <2>1
<1>2. PICK q \in PhRequest : q = [PhFree EXCEPT !.pc = "discard", !.urls = us]
  BY PhFreeFits DEF PhRequest, PhPcs
<1>3. /\ q.pc = "discard" /\ q.file = NoPicture /\ q.venue = Staged /\ q.urls = us /\ q.before = {}
      /\ q.moves = {} /\ q.prev = NoPicture
  BY <1>2, PhFreeFits DEF PhRequest
<1>4. /\ phTx' = [phTx EXCEPT ![c] = q] /\ UNCHANGED <<bucket, aged, phVenue, avatar>>
      /\ k \in told /\ told' = told \ {k}
  BY <1>1, <1>2 DEF SubmitDiscard, PhStart, PhSay
<1>5. /\ PhTyped' /\ \A d \in PhotoClerks : PhFits(phTx[d])'
      /\ \A d \in PhotoClerks : phTx'[d] = IF d = c THEN q ELSE phTx[d]
  <2>1. /\ (told \cup aged)' \subseteq Photos /\ avatar' \in [row : PhFiles, files : SUBSET Photos]
        /\ phVenue' \in [PhotoVenues -> VenueRow]
        /\ \A v \in PhotoVenues : phVenue[v].gen <= phVenue'[v].gen
    BY <1>4 DEF PhInvariant, PhTyped, VenueRow
  <2>2. PhFits(q)'
    BY <1>1, <1>3, PhotoConstants DEF PhFits, VenuePcs, Folder
  <2> QED
    BY <1>4, <2>1, <2>2, FitsKeep
<1>6. \A d \in PhotoClerks : phTx'[d] = phTx[d] \/ Aside(phTx[d], phTx'[d])
  BY <1>3, <1>5, PhotoConstants DEF Aside
<1>7. SendsAlone'
  BY <1>4, <1>6, SendsKeep DEF RowsQuiet
<1>8. OneUser'
  <2>1. \A j \in Photos, v \in PhotoVenues : Names(v, j)' => Names(v, j)
    BY <1>4, <1>6, NamesKeep DEF RowsQuiet
  <2>2. \A j \in Photos, d \in PhotoClerks :
          /\ Uploads(d, j)' => Uploads(d, j)
          /\ Discards(d, j)' => Discards(d, j) \/ j = k
    BY <1>1, <1>3, <1>5 DEF Uploads, Discards
  <2>3. OneUser
    BY DEF PhInvariant
  <2> QED
    BY <1>4, <2>1, <2>2, <2>3 DEF OneUser
<1>9. PictureKept' /\ AvatarResolves'
  <2>1. \A d \in PhotoClerks : phTx'[d] = phTx[d] \/ NoPictureOf(phTx[d], phTx'[d])
    BY <1>3, <1>5 DEF NoPictureOf
  <2> QED
    BY <1>4, <2>1, PictureKeeps
<1>10. MovesKept' /\ RehomeKeepsBytes'
  <2>1. \A d \in PhotoClerks : MovesStay(phTx[d], phTx'[d])
    BY <1>3, <1>5, SameMoves
  <2> QED
    BY <1>4, <2>1, BytesKeep DEF BytesStay
<1>11. InOwnFolder'
  BY <1>4 DEF PhInvariant, InOwnFolder
<1> QED
  BY <1>5, <1>7, <1>8, <1>9, <1>10, <1>11 DEF PhInvariant, ImagesAreSafe

(* What a discard or the sweep deletes is staged, and is no venue's, or is *)
(* counted as lost.                                                        *)
LEMMA DeletingHolds ==
  ASSUME PhInvariant, NEW c \in PhotoClerks, Discard(c) \/ SweepStagedPhotos(c)
  PROVE  PhInvariant'
<1>1. PICK t \in PhRequest : t = phTx[c] /\ PhFits(t)
  BY DEF PhInvariant, PhTyped
<1>2. t.urls \in SUBSET ({Staged} \X Photos)
  <2>1. t.venue = Staged
    BY <1>1 DEF Discard, SweepStagedPhotos, PhFits, VenuePcs, PhRequest
  <2> QED
    BY <1>1, <2>1 DEF PhFits, Folder
<1>3. PICK gone \in SUBSET t.urls : bucket' = bucket \ gone
  BY <1>1 DEF Discard, SweepStagedPhotos, DeleteObject
<1>4. phTx' = [phTx EXCEPT ![c] = PhFree] /\ UNCHANGED <<aged, told, avatar>>
  BY DEF Discard, SweepStagedPhotos, PhDone, PhSay
<1>5. /\ phVenue' \in [PhotoVenues -> VenueRow]
      /\ \A v \in PhotoVenues :
           /\ phVenue'[v].urls = phVenue[v].urls /\ phVenue'[v].shown = phVenue[v].shown
           /\ phVenue[v].lost \subseteq phVenue'[v].lost /\ phVenue'[v].gen = phVenue[v].gen
           /\ \A u \in phVenue[v].urls \ phVenue'[v].lost : u \notin t.urls
  <2>1. CASE Discard(c)
    <3>1. ASSUME NEW v \in PhotoVenues, NEW u \in phVenue[v].urls
          PROVE  u \notin t.urls
      <4>1. SUFFICES ASSUME u \in t.urls
                     PROVE  FALSE
        OBVIOUS
      <4>2. PICK k \in Photos : u = <<Staged, k>>
        BY <1>2, <4>1
      <4>3. Discards(c, k) /\ Names(v, k)
        BY <1>1, <2>1, <3>1, <4>1, <4>2 DEF Discard, Discards, Names
      <4> QED
        BY <4>3 DEF PhInvariant, OneUser
    <3> QED
      BY <2>1, <3>1 DEF Discard, PhInvariant, PhTyped
  <2>2. CASE SweepStagedPhotos(c)
    <3>1. ASSUME NEW v \in PhotoVenues
          PROVE  /\ phVenue'[v] \in VenueRow
                 /\ phVenue'[v].urls = phVenue[v].urls /\ phVenue'[v].shown = phVenue[v].shown
                 /\ phVenue'[v].gen = phVenue[v].gen
                 /\ phVenue'[v].lost = phVenue[v].lost \cup (phVenue[v].urls \cap t.urls)
      <4>1. PICK r \in VenueRow : r = phVenue[v]
        BY DEF PhInvariant, PhTyped
      <4>2. PICK L \in SUBSET PhUrls : L = r.lost \cup (r.urls \cap t.urls)
        BY DEF VenueRow
      <4>3. phVenue'[v] = [r EXCEPT !.lost = L]
        BY <1>1, <2>2, <4>1, <4>2 DEF SweepStagedPhotos
      <4> QED
        BY <4>1, <4>2, <4>3 DEF VenueRow
    <3>2. phVenue' = [v \in PhotoVenues |-> phVenue'[v]]
      BY <2>2 DEF SweepStagedPhotos
    <3> QED
      BY <3>1, <3>2
  <2> QED
    BY <2>1, <2>2
<1>6. /\ PhTyped' /\ \A d \in PhotoClerks : PhFits(phTx[d])'
      /\ \A d \in PhotoClerks : phTx'[d] = IF d = c THEN PhFree ELSE phTx[d]
  <2>1. /\ (told \cup aged)' \subseteq Photos /\ avatar' \in [row : PhFiles, files : SUBSET Photos]
    BY <1>4 DEF PhInvariant, PhTyped
  <2>2. \A v \in PhotoVenues : phVenue[v].gen <= phVenue'[v].gen
    BY <1>5 DEF PhInvariant, PhTyped, VenueRow
  <2>3. PhFits(PhFree)'
    BY PhFreeFits DEF PhFits
  <2> QED
    BY <1>4, <1>5, <2>1, <2>2, <2>3, PhFreeFits, FitsKeep
<1>7. Quieter(phTx[c], PhFree) /\ NoPictureOf(phTx[c], PhFree)
  BY PhFreeFits, PhotoConstants DEF Quieter, Aside, NoPictureOf
<1>8. OneUser' /\ SendsAlone'
  BY <1>4, <1>5, <1>6, <1>7, ClaimsKeep DEF RowsQuiet
<1>9. PictureKept' /\ AvatarResolves'
  BY <1>4, <1>6, <1>7, PictureKeeps
<1>10. MovesKept' /\ RehomeKeepsBytes'
  <2>1. \A d \in PhotoClerks : MovesStay(phTx[d], phTx'[d])
    BY <1>6, PhFreeFits, SameMoves
  <2>2. ASSUME NEW v \in PhotoVenues
        PROVE  BytesStay(v)
    BY <1>2, <1>3, <1>5, PhotoConstants DEF BytesStay, VenuePhotoKeyFor
  <2> QED
    BY <1>5, <2>1, <2>2, BytesKeep
<1>11. InOwnFolder'
  BY <1>5 DEF PhInvariant, InOwnFolder
<1> QED
  BY <1>6, <1>8, <1>9, <1>10, <1>11 DEF PhInvariant, ImagesAreSafe
(* A save begins: the files it sends are its operator's own, who gives     *)
(* them up, or files some answer has shown.                                *)
SaveOf(v, us, q) ==
  /\ q.pc \in {"create", "update"} /\ q.venue = v /\ q.urls = us
  /\ q.before \subseteq phVenue[v].urls /\ q.moves = {}
  /\ q.file = NoPicture /\ q.prev = NoPicture

LEMMA SubmitSaveHolds ==
  ASSUME PhInvariant, NEW c \in PhotoClerks, NEW v \in PhotoVenues,
         NEW urls \in AssertOwnPhotoUrls(v),
         SubmitCreateVenue(c, v, urls) \/ SubmitUpdateVenue(c, v, urls)
  PROVE  PhInvariant'
<1>1. /\ urls \in SUBSET PhUrls /\ urls \subseteq Folder(v)
      /\ \A k \in Photos : <<Staged, k>> \in urls => k \in told \/ <<Staged, k>> \in phVenue[v].shown
  <2>1. \A u \in urls : u \in {Staged} \X told \/ u \in phVenue[v].shown
    BY DEF AssertOwnPhotoUrls
  <2>2. {Staged} \X told \subseteq Folder(v) /\ phVenue[v].shown \subseteq Folder(v)
    BY DEF PhInvariant, PhTyped, InOwnFolder, Folder
  <2>3. urls \subseteq Folder(v) /\ Folder(v) \subseteq PhUrls
    BY <2>1, <2>2 DEF Folder, PhUrls
  <2>4. \A k \in Photos : <<Staged, k>> \in urls => k \in told \/ <<Staged, k>> \in phVenue[v].shown
    BY <2>1
  <2> QED
    BY <2>3, <2>4
<1>2. PICK q \in PhRequest : phTx' = [phTx EXCEPT ![c] = q] /\ SaveOf(v, urls, q)
  <2>1. PICK us \in SUBSET PhUrls, rows \in SUBSET PhUrls : us = urls /\ rows = phVenue[v].urls
    BY <1>1 DEF PhInvariant, PhTyped, VenueRow
  <2>2. PICK q \in PhRequest : q = [PhFree EXCEPT !.pc = "create", !.venue = v, !.urls = us]
    BY PhFreeFits DEF PhRequest, PhPcs
  <2>3. SaveOf(v, urls, q)
    BY <2>1, <2>2, PhFreeFits DEF SaveOf, PhRequest
  <2>4. PICK p \in PhRequest :
          p = [PhFree EXCEPT !.pc = "update", !.venue = v, !.urls = us, !.before = rows]
    BY PhFreeFits DEF PhRequest, PhPcs
  <2>5. SaveOf(v, urls, p)
    BY <2>1, <2>4, PhFreeFits DEF SaveOf, PhRequest
  <2>6. phTx' = [phTx EXCEPT ![c] = q] \/ phTx' = [phTx EXCEPT ![c] = p]
    BY <2>1, <2>2, <2>4 DEF SubmitCreateVenue, SubmitUpdateVenue, PhStart, PhSay
  <2> QED
    BY <2>3, <2>5, <2>6
<1>3. /\ UNCHANGED <<bucket, aged, phVenue, avatar>> /\ phTx[c] = PhFree
      /\ told' = {k \in told : <<Staged, k>> \notin urls}
  BY DEF SubmitCreateVenue, SubmitUpdateVenue, PhStart
<1>4. /\ PhTyped' /\ \A d \in PhotoClerks : PhFits(phTx[d])'
      /\ \A d \in PhotoClerks : phTx'[d] = IF d = c THEN q ELSE phTx[d]
  <2>1. /\ (told \cup aged)' \subseteq Photos /\ avatar' \in [row : PhFiles, files : SUBSET Photos]
        /\ phVenue' \in [PhotoVenues -> VenueRow]
        /\ \A w \in PhotoVenues : phVenue[w].gen <= phVenue'[w].gen
    BY <1>3 DEF PhInvariant, PhTyped, VenueRow
  <2>2. PhFits(q)'
    BY <1>1, <1>2 DEF SaveOf, PhFits, VenuePcs, PhInvariant, InOwnFolder
  <2> QED
    BY <1>2, <2>1, <2>2, FitsKeep
<1>5. ASSUME NEW k \in Photos, NEW w \in PhotoVenues, Names(w, k)'
      PROVE  Names(w, k) \/ (w = v /\ k \in told /\ <<Staged, k>> \in urls)
  <2>1. CASE <<Staged, k>> \in phVenue'[w].urls \cup phVenue'[w].shown
    BY <1>3, <2>1 DEF Names
  <2>2. ASSUME NEW d \in PhotoClerks, phTx'[d].venue = w,
               <<Staged, k>> \in phTx'[d].urls \cup phTx'[d].before
        PROVE  Names(w, k) \/ (w = v /\ k \in told /\ <<Staged, k>> \in urls)
    <3>1. CASE d # c
      BY <1>4, <2>2, <3>1 DEF Names
    <3>2. CASE d = c
      BY <1>1, <1>2, <1>4, <2>2, <3>2 DEF SaveOf, Names
    <3> QED
      BY <3>1, <3>2
  <2> QED
    BY <1>5, <2>1, <2>2 DEF Names
<1>6. OneUser'
  <2>1. \A k \in Photos, d \in PhotoClerks :
          /\ Uploads(d, k)' => Uploads(d, k)
          /\ Discards(d, k)' => Discards(d, k)
    BY <1>2, <1>4 DEF SaveOf, Uploads, Discards
  <2>2. OneUser
    BY DEF PhInvariant
  <2> QED
    BY <1>3, <1>5, <2>1, <2>2 DEF OneUser
<1>7. SendsAlone'
  <2> SUFFICES ASSUME NEW d \in PhotoClerks, NEW k \in Photos, SendsUnshown(d, k)',
                      NEW w, w = phTx'[d].venue
               PROVE  /\ <<Staged, k>> \notin phVenue'[w].urls \cup phTx'[d].before
                      /\ \A e \in PhotoClerks \ {d} :
                           phTx'[e].venue = w => <<Staged, k>> \notin phTx'[e].urls \cup phTx'[e].before
    BY DEF SendsAlone
  <2>1. CASE d = c
    <3>1. k \in told /\ w = v
      BY <1>1, <1>2, <1>3, <1>4, <2>1 DEF SaveOf, SendsUnshown
    <3>2. ~Names(v, k)
      BY <3>1 DEF PhInvariant, OneUser
    <3> QED
      BY <1>2, <1>3, <1>4, <2>1, <3>1, <3>2 DEF SaveOf, Names
  <2>2. CASE d # c
    <3>1. SendsUnshown(d, k) /\ phTx'[d] = phTx[d] /\ w = phTx[d].venue
      BY <1>3, <1>4, <2>2 DEF SendsUnshown
    <3>2. w \in PhotoVenues
      BY <3>1 DEF SendsUnshown, PhInvariant, PhFits, VenuePcs
    <3>3. /\ <<Staged, k>> \notin phVenue[w].urls \cup phTx[d].before
          /\ \A e \in PhotoClerks \ {d} :
               phTx[e].venue = w => <<Staged, k>> \notin phTx[e].urls \cup phTx[e].before
      BY <3>1 DEF PhInvariant, SendsAlone
    <3>4. ASSUME w = v
          PROVE  <<Staged, k>> \notin urls \cup q.before
      <4>1. Names(v, k) /\ <<Staged, k>> \notin phVenue[v].shown
        BY <3>1, <3>4 DEF SendsUnshown, Names
      <4>2. k \notin told
        BY <4>1 DEF PhInvariant, OneUser
      <4> QED
        BY <1>1, <1>2, <3>3, <3>4, <4>1, <4>2 DEF SaveOf
    <3> QED
      BY <1>2, <1>3, <1>4, <3>1, <3>3, <3>4 DEF SaveOf
  <2> QED
    BY <2>1, <2>2
<1>8. PictureKept' /\ AvatarResolves'
  <2>1. \A d \in PhotoClerks : phTx'[d] = phTx[d] \/ NoPictureOf(phTx[d], phTx'[d])
    BY <1>2, <1>4 DEF SaveOf, NoPictureOf
  <2> QED
    BY <1>3, <2>1, PictureKeeps
<1>9. MovesKept' /\ RehomeKeepsBytes'
  <2>1. \A d \in PhotoClerks : MovesStay(phTx[d], phTx'[d])
    BY <1>2, <1>4, SameMoves DEF SaveOf
  <2> QED
    BY <1>3, <2>1, BytesKeep DEF BytesStay
<1>10. InOwnFolder'
  BY <1>3 DEF PhInvariant, InOwnFolder
<1> QED
  BY <1>4, <1>6, <1>7, <1>8, <1>9, <1>10 DEF PhInvariant, ImagesAreSafe
(* The transaction is refused: the operator has the files back that only   *)
(* this request knew of.                                                   *)
SaveRefused(c) ==
  /\ told' = told \cup {k \in Photos : <<Staged, k>> \in phTx[c].urls \ phVenue[phTx[c].venue].shown}
  /\ phTx' = [phTx EXCEPT ![c] = PhFree] /\ UNCHANGED <<bucket, aged, phVenue, avatar>>
LEMMA RefusedHolds ==
  ASSUME PhInvariant, NEW c \in PhotoClerks, phTx[c].pc \in {"create", "update"}, SaveRefused(c)
  PROVE  PhInvariant'
<1>1. UNCHANGED <<bucket, aged, phVenue, avatar>> /\ phTx' = [phTx EXCEPT ![c] = PhFree]
  BY DEF SaveRefused
<1>2. /\ PhTyped' /\ \A d \in PhotoClerks : PhFits(phTx[d])'
      /\ \A d \in PhotoClerks : phTx'[d] = IF d = c THEN PhFree ELSE phTx[d]
  <2>1. /\ (told \cup aged)' \subseteq Photos /\ avatar' \in [row : PhFiles, files : SUBSET Photos]
        /\ phVenue' \in [PhotoVenues -> VenueRow]
        /\ \A v \in PhotoVenues : phVenue[v].gen <= phVenue'[v].gen
    BY DEF SaveRefused, PhInvariant, PhTyped, VenueRow
  <2>2. PhFits(PhFree)'
    BY PhFreeFits DEF PhFits
  <2> QED
    BY <1>1, <2>1, <2>2, PhFreeFits, FitsKeep, Zenon
<1>3. \A d \in PhotoClerks : phTx'[d] = phTx[d] \/ Aside(phTx[d], phTx'[d])
  BY <1>2, PhFreeFits, PhotoConstants DEF Aside
<1>4. SendsAlone'
  BY <1>1, <1>3, SendsKeep DEF RowsQuiet
<1>5. OneUser'
  <2>1. \A k \in Photos, v \in PhotoVenues : Names(v, k)' => Names(v, k)
    BY <1>1, <1>3, NamesKeep DEF RowsQuiet
  <2>2. \A k \in Photos, d \in PhotoClerks :
          (Uploads(d, k)' => Uploads(d, k)) /\ (Discards(d, k)' => Discards(d, k))
    BY <1>2, PhFreeFits DEF Uploads, Discards
  <2>3. ASSUME NEW k \in Photos, k \in told', k \notin told
        PROVE  /\ \A v \in PhotoVenues : ~Names(v, k)'
               /\ \A d \in PhotoClerks : ~Uploads(d, k) /\ ~Discards(d, k)
    <3>1. PICK v \in PhotoVenues : v = phTx[c].venue
      BY DEF PhInvariant, PhFits, VenuePcs
    <3>2. SendsUnshown(c, k) /\ Names(v, k)
      BY <2>3, <3>1 DEF SaveRefused, SendsUnshown, Names
    <3>3. /\ <<Staged, k>> \notin phVenue[v].urls \cup phVenue[v].shown
          /\ \A d \in PhotoClerks \ {c} :
               phTx[d].venue = v => <<Staged, k>> \notin phTx[d].urls \cup phTx[d].before
      BY <3>1, <3>2 DEF PhInvariant, SendsAlone, SendsUnshown
    <3>4. ~Names(v, k)'
      BY <1>1, <1>2, <3>3, PhFreeFits DEF Names
    <3> QED
      BY <2>1, <3>2, <3>4 DEF PhInvariant, OneUser
  <2>4. OneUser
    BY DEF PhInvariant
  <2> QED
    BY <2>1, <2>2, <2>3, <2>4 DEF OneUser
<1>6. PictureKept' /\ AvatarResolves'
  <2>1. \A d \in PhotoClerks : phTx'[d] = phTx[d] \/ NoPictureOf(phTx[d], phTx'[d])
    BY <1>2, PhFreeFits DEF NoPictureOf
  <2> QED
    BY <1>1, <2>1, PictureKeeps
<1>7. MovesKept' /\ RehomeKeepsBytes'
  <2>1. \A d \in PhotoClerks : MovesStay(phTx[d], phTx'[d])
    BY <1>2, PhFreeFits, SameMoves
  <2> QED
    BY <1>1, <2>1, BytesKeep DEF BytesStay
<1>8. InOwnFolder'
  BY <1>1 DEF PhInvariant, InOwnFolder
<1> QED
  BY <1>2, <1>4, <1>5, <1>6, <1>7, <1>8 DEF PhInvariant, ImagesAreSafe

(* The rows are replaced: those of another request's reading are gone, and *)
(* with them what it may still repoint.                                    *)
SaveStands(c, v, r, t) ==
  /\ phVenue' = [phVenue EXCEPT ![v] =
       [r EXCEPT !.there = TRUE, !.urls = t.urls, !.gen = r.gen + 1,
                 !.lost = (r.lost \cap t.urls) \cup (t.urls \ bucket)]]
  /\ phTx' = [phTx EXCEPT ![c] = [t EXCEPT !.pc = "clear", !.gen = r.gen + 1]]
  /\ UNCHANGED <<bucket, aged, told, avatar>>
LEMMA StandsHolds ==
  ASSUME PhInvariant, NEW c \in PhotoClerks, NEW v \in PhotoVenues, NEW r \in VenueRow,
         NEW t \in PhRequest, r = phVenue[v], t = phTx[c], t.venue = v,
         t.pc \in {"create", "update"}, SaveStands(c, v, r, t)
  PROVE  PhInvariant'
<1>1. PICK g \in Nat : g = r.gen + 1 /\ r.gen \in Nat /\ r.gen <= g /\ ~(g <= r.gen)
  <2>1. r.gen \in Nat
    BY DEF VenueRow
  <2>2. r.gen + 1 \in Nat /\ r.gen <= r.gen + 1 /\ ~(r.gen + 1 <= r.gen)
    BY <2>1
  <2> QED
    BY <2>1, <2>2
<1>2. PICK q \in PhRequest :
        /\ phTx' = [phTx EXCEPT ![c] = q] /\ q.pc = "clear" /\ q.gen = g /\ q.venue = v
        /\ q.urls = t.urls /\ q.before = t.before /\ q.moves = t.moves /\ q.file = t.file
        /\ q.prev = t.prev
  <2>1. PICK q \in PhRequest : q = [t EXCEPT !.pc = "clear", !.gen = g]
    BY DEF PhRequest, PhPcs
  <2> QED
    BY <1>1, <2>1 DEF PhRequest, SaveStands
<1>3. PICK R \in VenueRow :
        /\ phVenue' = [phVenue EXCEPT ![v] = R] /\ R.urls = t.urls /\ R.shown = r.shown /\ R.gen = g
        /\ R.lost = (r.lost \cap t.urls) \cup (t.urls \ bucket)
  <2>1. PICK us \in SUBSET PhUrls : us = t.urls
    BY DEF PhRequest
  <2>2. PICK L \in SUBSET PhUrls : L = (r.lost \cap t.urls) \cup (t.urls \ bucket)
    BY <2>1
  <2>3. PICK R \in VenueRow : R = [r EXCEPT !.there = TRUE, !.urls = us, !.gen = g, !.lost = L]
    BY DEF VenueRow
  <2> QED
    BY <1>1, <2>1, <2>2, <2>3 DEF VenueRow, SaveStands
<1>4. UNCHANGED <<bucket, aged, told, avatar>>
  BY DEF SaveStands
<1>5. /\ phVenue' \in [PhotoVenues -> VenueRow]
      /\ \A w \in PhotoVenues : phVenue'[w] = IF w = v THEN R ELSE phVenue[w]
  BY <1>3 DEF PhInvariant, PhTyped
<1>6. PhFits(t) /\ t.moves = {}
  BY DEF PhInvariant, PhFits
<1>7. /\ PhTyped' /\ \A d \in PhotoClerks : PhFits(phTx[d])'
      /\ \A d \in PhotoClerks : phTx'[d] = IF d = c THEN q ELSE phTx[d]
  <2>1. /\ (told \cup aged)' \subseteq Photos /\ avatar' \in [row : PhFiles, files : SUBSET Photos]
    BY <1>4 DEF PhInvariant, PhTyped
  <2>2. \A w \in PhotoVenues : phVenue[w].gen <= phVenue'[w].gen
    <3>1. \A w \in PhotoVenues : phVenue[w].gen \in Nat
      BY DEF PhInvariant, PhTyped, VenueRow
    <3>2. \A w \in PhotoVenues : phVenue[w].gen <= phVenue[w].gen
      BY <3>1
    <3> QED
      BY <1>1, <1>3, <1>5, <3>2
  <2>3. PhFits(q)'
    BY <1>1, <1>2, <1>3, <1>5, <1>6 DEF PhFits, VenuePcs
  <2> QED
    BY <1>2, <1>5, <2>1, <2>2, <2>3, FitsKeep
<1>8. OneUser'
  <2>1. ASSUME NEW k \in Photos
        PROVE  Kept(k)
    <3>1. ASSUME NEW w \in PhotoVenues, Names(w, k)'
          PROVE  Names(w, k)
      <4>1. CASE <<Staged, k>> \in phVenue'[w].urls \cup phVenue'[w].shown
        BY <1>3, <1>5, <4>1 DEF Names
      <4>2. ASSUME NEW d \in PhotoClerks, phTx'[d].venue = w,
                   <<Staged, k>> \in phTx'[d].urls \cup phTx'[d].before
            PROVE  Names(w, k)
        BY <1>2, <1>7, <4>2 DEF Names
      <4> QED
        BY <3>1, <4>1, <4>2 DEF Names
    <3>2. \A d \in PhotoClerks : (Uploads(d, k)' => Uploads(d, k))
                                 /\ (Discards(d, k)' => Discards(d, k))
      BY <1>2, <1>7 DEF Uploads, Discards
    <3> QED
      BY <1>4, <3>1, <3>2 DEF Kept
  <2> QED
    BY <2>1, KeptHasOneUser DEF PhInvariant
<1>9. SendsAlone'
  <2> SUFFICES ASSUME NEW d \in PhotoClerks, NEW k \in Photos, SendsUnshown(d, k)',
                      NEW w, w = phTx'[d].venue
               PROVE  /\ <<Staged, k>> \notin phVenue'[w].urls \cup phTx'[d].before
                      /\ \A e \in PhotoClerks \ {d} :
                           phTx'[e].venue = w => <<Staged, k>> \notin phTx'[e].urls \cup phTx'[e].before
    BY DEF SendsAlone
  <2>1. d # c /\ phTx'[d] = phTx[d]
    BY <1>2, <1>7 DEF SendsUnshown
  <2>2. w \in PhotoVenues
    BY <2>1 DEF SendsUnshown, PhInvariant, PhFits, VenuePcs
  <2>3. SendsUnshown(d, k)
    BY <1>3, <1>5, <2>1, <2>2 DEF SendsUnshown
  <2>4. /\ <<Staged, k>> \notin phVenue[w].urls \cup phTx[d].before
        /\ \A e \in PhotoClerks \ {d} :
             phTx[e].venue = w => <<Staged, k>> \notin phTx[e].urls \cup phTx[e].before
    BY <2>1, <2>3 DEF PhInvariant, SendsAlone
  <2> QED
    BY <1>2, <1>3, <1>5, <1>7, <2>1, <2>2, <2>4
<1>10. PictureKept' /\ AvatarResolves'
  <2>1. \A d \in PhotoClerks : phTx'[d] = phTx[d] \/ NoPictureOf(phTx[d], phTx'[d])
    BY <1>2, <1>7 DEF NoPictureOf
  <2> QED
    BY <1>4, <2>1, PictureKeeps
<1>11. RehomeKeepsBytes'
  BY <1>3, <1>4, <1>5, Zenon DEF PhInvariant, ImagesAreSafe, RehomeKeepsBytes, VenuePhotoKeyFor
<1>12. MovesKept'
  <2> SUFFICES ASSUME NEW d \in PhotoClerks, NEW w, w = phTx'[d].venue,
                      phTx'[d].pc = "rehome", phTx'[d].gen = phVenue'[w].gen,
                      NEW u \in (phTx'[d].moves \cap phVenue'[w].urls) \ phVenue'[w].lost
               PROVE  VenuePhotoKeyFor(w, u) \in bucket'
    BY DEF MovesKept, VenuePhotoKeyFor
  <2>1. phTx'[d] = phTx[d] /\ w \in PhotoVenues /\ phTx[d].gen <= phVenue[w].gen
    <3>1. phTx'[d] = phTx[d]
      BY <1>2, <1>7
    <3> QED
      BY <3>1 DEF PhInvariant, PhFits, VenuePcs
  <2>2. w # v
    BY <1>1, <1>3, <1>5, <2>1
  <2> QED
    BY <1>4, <1>5, <2>1, <2>2 DEF PhInvariant, MovesKept
<1>13. InOwnFolder'
  BY <1>3, <1>5, <1>6 DEF PhInvariant, InOwnFolder, PhFits
<1> QED
  BY <1>7, <1>8, <1>9, <1>10, <1>11, <1>12, <1>13 DEF PhInvariant, ImagesAreSafe

LEMMA SaveHolds ==
  ASSUME PhInvariant, NEW c \in PhotoClerks, CreateVenue(c) \/ UpdateVenue(c)
  PROVE  PhInvariant'
<1>1. PICK t \in PhRequest : t = phTx[c] /\ PhFits(t) /\ t.pc \in {"create", "update"}
  BY DEF CreateVenue, UpdateVenue, PhInvariant, PhTyped
<1>2. PICK v \in PhotoVenues : v = t.venue
  BY <1>1 DEF PhFits, VenuePcs
<1>3. PICK r \in VenueRow : r = phVenue[v]
  BY DEF PhInvariant, PhTyped
<1>4. SaveRefused(c) \/ SaveStands(c, v, r, t)
  BY <1>1, <1>2, <1>3
     DEF CreateVenue, UpdateVenue, SaveVenue, PhDone, PhSay, SaveRefused, SaveStands
<1> QED
  BY <1>1, <1>2, <1>3, <1>4, RefusedHolds, StandsHolds
(* A staged file in the folders of two venues is of one of them.           *)
LEMMA OneVenue ==
  ASSUME PhInvariant, NEW v \in PhotoVenues, NEW w \in PhotoVenues, NEW c \in PhotoClerks,
         phTx[c].venue = v, NEW u \in phTx[c].urls \cup phTx[c].before,
         u \in phVenue[w].urls \/ u = VenuePhotoKeyFor(w, u)
  PROVE  v = w
<1>1. u \in Folder(v)
  BY DEF PhInvariant, PhFits
<1>2. CASE u = VenuePhotoKeyFor(w, u)
  <2>1. u[1] = w /\ w # Staged
    BY <1>2, PhotoConstants DEF VenuePhotoKeyFor
  <2> QED
    BY <1>1, <2>1 DEF Folder
<1>3. CASE u \in phVenue[w].urls /\ u[1] = Staged
  <2>1. PICK k \in Photos : u = <<Staged, k>>
    BY <1>1, <1>3 DEF Folder
  <2>2. Names(v, k) /\ Names(w, k)
    BY <1>3, <2>1 DEF Names
  <2> QED
    BY <2>2 DEF PhInvariant, OneUser
<1>4. CASE u \in phVenue[w].urls /\ u[1] # Staged
  BY <1>1, <1>4 DEF PhInvariant, InOwnFolder, Folder
<1> QED
  BY <1>2, <1>3, <1>4

(* The objects the save dropped are deleted: what another save has bound   *)
(* in the meantime is counted as lost.                                     *)
LEMMA DeleteObjectsHolds ==
  ASSUME PhInvariant, NEW c \in PhotoClerks, DeleteObjectsFor(c)
  PROVE  PhInvariant'
<1>1. PICK t \in PhRequest : t = phTx[c] /\ PhFits(t) /\ t.pc = "clear"
  BY DEF DeleteObjectsFor, PhInvariant, PhTyped
<1>2. PICK v \in PhotoVenues : v = t.venue
  BY <1>1 DEF PhFits, VenuePcs
<1>3. PICK r \in VenueRow : r = phVenue[v]
  BY DEF PhInvariant, PhTyped
<1> DEFINE keys == t.before \ t.urls
<1>4. PICK gone \in SUBSET keys : bucket' = bucket \ gone
  BY <1>1 DEF DeleteObjectsFor, DeleteObject
<1>5. PICK R \in VenueRow :
        /\ phVenue' = [phVenue EXCEPT ![v] = R] /\ R.urls = r.urls /\ R.shown = r.shown
        /\ R.gen = r.gen /\ r.lost \subseteq R.lost
        /\ \A u \in r.urls \ R.lost : u \notin keys /\ VenuePhotoKeyFor(v, u) \notin keys
  <2>1. PICK L \in SUBSET PhUrls :
          L = r.lost \cup {u \in r.urls : {u, VenuePhotoKeyFor(v, u)} \cap keys # {}}
    BY DEF VenueRow
  <2>2. PICK R \in VenueRow : R = [r EXCEPT !.lost = L]
    BY DEF VenueRow
  <2>3. phVenue' = [phVenue EXCEPT ![v] = R]
    BY <1>1, <1>2, <1>3, <2>1, <2>2 DEF DeleteObjectsFor
  <2>4. \A u \in r.urls \ L : u \notin keys /\ VenuePhotoKeyFor(v, u) \notin keys
    BY <2>1
  <2> QED
    BY <2>1, <2>2, <2>3, <2>4 DEF VenueRow
<1>6. PICK q \in PhRequest :
        /\ phTx' = [phTx EXCEPT ![c] = q] /\ q.pc = "rehome" /\ q.gen = t.gen /\ q.venue = v
        /\ q.urls = t.urls /\ q.before = t.before /\ q.moves = {} /\ q.file = t.file
        /\ q.prev = t.prev
  <2>1. PICK q \in PhRequest : q = [t EXCEPT !.pc = "rehome"]
    BY DEF PhRequest, PhPcs
  <2>2. phTx' = [phTx EXCEPT ![c] = q]
    BY <1>1, <2>1 DEF DeleteObjectsFor, PhSay
  <2>3. t.moves = {}
    BY <1>1 DEF PhFits
  <2> QED
    BY <1>2, <2>1, <2>2, <2>3 DEF PhRequest
<1>7. UNCHANGED <<aged, told, avatar>>
  BY DEF DeleteObjectsFor
<1>8. /\ phVenue' \in [PhotoVenues -> VenueRow]
      /\ \A w \in PhotoVenues :
           /\ phVenue'[w].urls = phVenue[w].urls /\ phVenue'[w].shown = phVenue[w].shown
           /\ phVenue[w].lost \subseteq phVenue'[w].lost /\ phVenue'[w].gen = phVenue[w].gen
  BY <1>3, <1>5 DEF PhInvariant, PhTyped
<1>9. /\ PhTyped' /\ \A d \in PhotoClerks : PhFits(phTx[d])'
      /\ \A d \in PhotoClerks : phTx'[d] = IF d = c THEN q ELSE phTx[d]
  <2>1. /\ (told \cup aged)' \subseteq Photos /\ avatar' \in [row : PhFiles, files : SUBSET Photos]
    BY <1>7 DEF PhInvariant, PhTyped
  <2>2. \A w \in PhotoVenues : phVenue[w].gen <= phVenue'[w].gen
    BY <1>8 DEF PhInvariant, PhTyped, VenueRow
  <2>3. PhFits(q)'
    BY <1>1, <1>2, <1>6, <1>8 DEF PhFits, VenuePcs
  <2> QED
    BY <1>6, <1>8, <2>1, <2>2, <2>3, FitsKeep
<1>10. OneUser' /\ SendsAlone'
  <2>1. Quieter(phTx[c], q)
    BY <1>1, <1>2, <1>6 DEF Quieter, Aside
  <2> QED
    BY <1>7, <1>8, <1>9, <2>1, ClaimsKeep DEF RowsQuiet
<1>11. PictureKept' /\ AvatarResolves'
  <2>1. \A d \in PhotoClerks : phTx'[d] = phTx[d] \/ NoPictureOf(phTx[d], phTx'[d])
    BY <1>1, <1>6, <1>9 DEF NoPictureOf
  <2> QED
    BY <1>7, <2>1, PictureKeeps
<1>12. MovesKept' /\ RehomeKeepsBytes'
  <2>1. \A d \in PhotoClerks : MovesStay(phTx[d], phTx'[d])
    BY <1>6, <1>9, SameMoves
  <2>2. ASSUME NEW w \in PhotoVenues
        PROVE  BytesStay(w)
    <3>1. CASE w = v
      BY <1>3, <1>4, <1>5, <1>8, <3>1 DEF BytesStay, PhInvariant, PhTyped
    <3>2. CASE w # v
      <4>1. \A u \in phVenue[w].urls : u \notin t.before /\ VenuePhotoKeyFor(w, u) \notin t.before
        <5>1. \A u : VenuePhotoKeyFor(w, VenuePhotoKeyFor(w, u)) = VenuePhotoKeyFor(w, u)
          BY DEF VenuePhotoKeyFor
        <5> QED
          BY <1>1, <1>2, <3>2, <5>1, OneVenue
      <4> QED
        BY <1>4, <4>1 DEF BytesStay
    <3> QED
      BY <3>1, <3>2
  <2> QED
    BY <1>8, <2>1, <2>2, BytesKeep
<1>13. InOwnFolder'
  BY <1>8 DEF PhInvariant, InOwnFolder
<1> QED
  BY <1>9, <1>10, <1>11, <1>12, <1>13 DEF PhInvariant, ImagesAreSafe

(* One photo is copied, or is not: the staged object goes only when its    *)
(* copy is there.                                                          *)
LEMMA RehomePhotoHolds ==
  ASSUME PhInvariant, NEW c \in PhotoClerks, RehomePhoto(c)
  PROVE  PhInvariant'
<1>1. PICK t \in PhRequest : t = phTx[c] /\ PhFits(t) /\ t.pc = "rehome"
  BY DEF RehomePhoto, PhInvariant, PhTyped
<1>2. PICK v \in PhotoVenues : v = t.venue
  BY <1>1 DEF PhFits, VenuePcs
<1>3. PICK url \in t.urls :
        /\ IsStagedVenuePhotoKey(url)
        /\ \/ /\ CopyObject(url, VenuePhotoKeyFor(v, url))
              /\ phTx' = [phTx EXCEPT ![c] = [t EXCEPT !.urls = t.urls \ {url}, !.moves = t.moves \cup {url}]]
           \/ UNCHANGED bucket /\ phTx' = [phTx EXCEPT ![c] = [t EXCEPT !.urls = t.urls \ {url}]]
  BY <1>1, <1>2, Zenon DEF RehomePhoto, PhSay
<1>4. /\ url \in {Staged} \X Photos /\ t.moves \subseteq {Staged} \X Photos
      /\ t.urls \cup t.before \subseteq Folder(v)
  <2>1. url \in Folder(v)
    BY <1>1, <1>2 DEF PhFits
  <2> QED
    BY <1>1, <1>2, <1>3, <2>1 DEF PhFits, Folder, IsStagedVenuePhotoKey
<1>5. UNCHANGED <<aged, told, phVenue, avatar>>
  BY DEF RehomePhoto
<1>6. PICK q \in PhRequest :
        /\ phTx' = [phTx EXCEPT ![c] = q] /\ q.pc = "rehome" /\ q.gen = t.gen /\ q.venue = v
        /\ q.urls \subseteq t.urls /\ q.before = t.before /\ q.file = t.file /\ q.prev = t.prev
        /\ \/ q.moves = t.moves /\ UNCHANGED bucket
           \/ q.moves = t.moves \cup {url} /\ CopyObject(url, VenuePhotoKeyFor(v, url))
  <2>1. PICK us \in SUBSET PhUrls, ms \in SUBSET PhUrls :
          us = t.urls \ {url} /\ ms = t.moves \cup {url}
    <3>1. t.urls \in SUBSET PhUrls /\ t.moves \in SUBSET PhUrls
      BY DEF PhRequest
    <3> QED
      BY <3>1
  <2>2. PICK q \in PhRequest : q = [t EXCEPT !.urls = us, !.moves = ms]
    BY DEF PhRequest
  <2>3. PICK p \in PhRequest : p = [t EXCEPT !.urls = us]
    BY DEF PhRequest
  <2>4. /\ q.pc = t.pc /\ q.gen = t.gen /\ q.venue = t.venue /\ q.urls = us /\ q.before = t.before
        /\ q.file = t.file /\ q.prev = t.prev /\ q.moves = ms
    BY <2>2 DEF PhRequest
  <2>5. /\ p.pc = t.pc /\ p.gen = t.gen /\ p.venue = t.venue /\ p.urls = us /\ p.before = t.before
        /\ p.file = t.file /\ p.prev = t.prev /\ p.moves = t.moves
    BY <2>3 DEF PhRequest
  <2>6. \/ phTx' = [phTx EXCEPT ![c] = q] /\ CopyObject(url, VenuePhotoKeyFor(v, url))
        \/ phTx' = [phTx EXCEPT ![c] = p] /\ UNCHANGED bucket
    BY <1>3, <2>1, <2>2, <2>3
  <2> QED
    BY <1>1, <1>2, <2>1, <2>4, <2>5, <2>6
<1>7. /\ PhTyped' /\ \A d \in PhotoClerks : PhFits(phTx[d])'
      /\ \A d \in PhotoClerks : phTx'[d] = IF d = c THEN q ELSE phTx[d]
  <2>1. /\ (told \cup aged)' \subseteq Photos /\ avatar' \in [row : PhFiles, files : SUBSET Photos]
        /\ phVenue' \in [PhotoVenues -> VenueRow]
        /\ \A w \in PhotoVenues : phVenue[w].gen <= phVenue'[w].gen
    BY <1>5 DEF PhInvariant, PhTyped, VenueRow
  <2>2. t.gen <= phVenue'[v].gen
    BY <1>1, <1>2, <1>5 DEF PhFits
  <2>3. PhFits(q)'
    BY <1>4, <1>6, <2>2 DEF PhFits, VenuePcs
  <2> QED
    BY <1>6, <2>1, <2>3, FitsKeep
<1>8. OneUser' /\ SendsAlone'
  <2>1. Quieter(phTx[c], q)
    BY <1>1, <1>2, <1>6 DEF Quieter, Aside
  <2> QED
    BY <1>5, <1>7, <2>1, ClaimsKeep DEF RowsQuiet
<1>9. PictureKept' /\ AvatarResolves'
  <2>1. \A d \in PhotoClerks : phTx'[d] = phTx[d] \/ NoPictureOf(phTx[d], phTx'[d])
    BY <1>1, <1>6, <1>7 DEF NoPictureOf
  <2> QED
    BY <1>5, <2>1, PictureKeeps
<1>10. /\ \A w \in PhotoVenues : \A u : VenuePhotoKeyFor(w, u) \in bucket => VenuePhotoKeyFor(w, u) \in bucket'
       /\ \A u \in bucket : u \in bucket' \/ (u = url /\ VenuePhotoKeyFor(v, url) \in bucket')
       /\ url \in q.moves \ t.moves => VenuePhotoKeyFor(v, url) \in bucket'
  <2>1. \A w \in PhotoVenues : \A u : VenuePhotoKeyFor(w, u) # url
    BY <1>4, PhotoConstants DEF VenuePhotoKeyFor
  <2> QED
    BY <1>6, <2>1 DEF CopyObject
<1>11. MovesKept' /\ RehomeKeepsBytes'
  <2>1. ASSUME NEW d \in PhotoClerks
        PROVE  MovesStay(phTx[d], phTx'[d])
    <3>1. CASE d = c
      BY <1>1, <1>2, <1>6, <1>7, <1>10, <3>1 DEF MovesStay
    <3>2. CASE d # c
      BY <1>7, <3>2, SameMoves
    <3> QED
      BY <3>1, <3>2
  <2>2. ASSUME NEW w \in PhotoVenues
        PROVE  BytesStay(w)
    <3>1. \A u \in phVenue[w].urls : u = url => w = v
      BY <1>1, <1>2, OneVenue
    <3> QED
      BY <1>10, <3>1 DEF BytesStay
  <2> QED
    BY <1>5, <2>1, <2>2, BytesKeep
<1>12. InOwnFolder'
  BY <1>5 DEF PhInvariant, InOwnFolder
<1> QED
  BY <1>7, <1>8, <1>9, <1>11, <1>12 DEF PhInvariant, ImagesAreSafe
(* The rows follow their bytes: those that lost them stay lost under their *)
(* new URL, and a repointed row's copy is in the folder.                   *)
LEMMA RepointHolds ==
  ASSUME PhInvariant, NEW c \in PhotoClerks, NEW v \in PhotoVenues, phTx[c].pc = "rehome",
         phTx[c].venue = v, phVenue[v].gen = phTx[c].gen,
         phVenue' = [phVenue EXCEPT ![v] = Repoint(v, phTx[c].moves)],
         phTx' = [phTx EXCEPT ![c] = PhFree], UNCHANGED <<bucket, aged, told, avatar>>
  PROVE  PhInvariant'
<1>1. PICK r \in VenueRow : r = phVenue[v]
  BY DEF PhInvariant, PhTyped
<1>2. PICK moves \in SUBSET ({Staged} \X Photos) : moves = phTx[c].moves
  BY DEF PhInvariant, PhFits
<1> DEFINE key(u) == VenuePhotoKeyFor(v, u)
           To(us) == (us \ moves) \cup {key(u) : u \in us \cap moves}
<1>3. ASSUME NEW us \in SUBSET PhUrls
      PROVE  To(us) \in SUBSET PhUrls
  BY DEF VenuePhotoKeyFor, PhUrls
<1>4. PICK R \in VenueRow :
        /\ phVenue' = [phVenue EXCEPT ![v] = R] /\ R.urls = To(r.urls) /\ R.lost = To(r.lost)
        /\ R.shown = r.shown /\ R.gen = r.gen
  <2>1. r.urls \in SUBSET PhUrls /\ r.lost \in SUBSET PhUrls
    BY DEF VenueRow
  <2>2. PICK us \in SUBSET PhUrls, L \in SUBSET PhUrls : us = To(r.urls) /\ L = To(r.lost)
    BY <1>3, <2>1
  <2>3. PICK R \in VenueRow : R = [r EXCEPT !.urls = us, !.lost = L]
    BY DEF VenueRow
  <2>4. phVenue' = [phVenue EXCEPT ![v] = R]
    BY <1>1, <1>2, <2>2, <2>3 DEF Repoint
  <2> QED
    BY <2>2, <2>3, <2>4, Zenon DEF VenueRow
<1>5. /\ phVenue' \in [PhotoVenues -> VenueRow]
      /\ \A w \in PhotoVenues : phVenue'[w] = IF w = v THEN R ELSE phVenue[w]
      /\ \A w \in PhotoVenues : phVenue'[w].gen = phVenue[w].gen /\ phVenue'[w].shown = phVenue[w].shown
  BY <1>1, <1>4 DEF PhInvariant, PhTyped
<1>6. /\ PhTyped' /\ \A d \in PhotoClerks : PhFits(phTx[d])'
      /\ \A d \in PhotoClerks : phTx'[d] = IF d = c THEN PhFree ELSE phTx[d]
  <2>1. /\ (told \cup aged)' \subseteq Photos /\ avatar' \in [row : PhFiles, files : SUBSET Photos]
    BY DEF PhInvariant, PhTyped
  <2>2. \A w \in PhotoVenues : phVenue[w].gen <= phVenue'[w].gen
    BY <1>5 DEF PhInvariant, PhTyped, VenueRow
  <2>3. PhFits(PhFree)' /\ PhFree \in PhRequest
    BY PhFreeFits DEF PhFits
  <2>4. phVenue' \in [PhotoVenues -> VenueRow] /\ phTx' = [phTx EXCEPT ![c] = PhFree]
    BY <1>5
  <2> HIDE DEF key, To
  <2> QED
    BY <2>1, <2>2, <2>3, <2>4, FitsKeep
<1>7. /\ \A u : u \in moves => key(u)[1] # Staged
      /\ \A u \in To(r.urls) : u[1] = Staged => u \in r.urls \ moves
  BY PhotoConstants DEF VenuePhotoKeyFor
<1>8. OneUser' /\ SendsAlone'
  <2>1. RowsQuiet
    <3>1. ASSUME NEW w \in PhotoVenues, NEW k \in Photos, <<Staged, k>> \in phVenue'[w].urls
          PROVE  <<Staged, k>> \in phVenue[w].urls
      BY <1>1, <1>4, <1>5, <1>7, <3>1
    <3> QED
      BY <1>5, <3>1 DEF RowsQuiet
  <2>2. \A d \in PhotoClerks : phTx'[d] = phTx[d] \/ Quieter(phTx[d], phTx'[d])
    BY <1>6, PhFreeFits, PhotoConstants DEF Quieter, Aside
  <2> QED
    BY <2>1, <2>2, ClaimsKeep
<1>9. PictureKept' /\ AvatarResolves'
  <2>1. \A d \in PhotoClerks : phTx'[d] = phTx[d] \/ NoPictureOf(phTx[d], phTx'[d])
    BY <1>6, PhFreeFits DEF NoPictureOf
  <2> QED
    BY <2>1, PictureKeeps
<1>10. RehomeKeepsBytes'
  <2>1. ASSUME NEW u \in To(r.urls) \ To(r.lost)
        PROVE  u \in bucket \/ key(u) \in bucket
    <3>1. CASE u \in r.urls \ moves
      <4>1. u \in r.urls \ r.lost
        BY <2>1, <3>1
      <4> QED
        BY <1>1, <4>1 DEF PhInvariant, ImagesAreSafe, RehomeKeepsBytes
    <3>2. ASSUME NEW o \in r.urls \cap moves, u = key(o)
          PROVE  u \in bucket
      <4>1. o \in (moves \cap r.urls) \ r.lost
        BY <2>1, <3>2
      <4> QED
        BY <1>1, <1>2, <3>2, <4>1 DEF PhInvariant, MovesKept
    <3> QED
      BY <3>1, <3>2
  <2> QED
    BY <1>4, <1>5, <2>1, Zenon DEF PhInvariant, ImagesAreSafe, RehomeKeepsBytes, VenuePhotoKeyFor
<1>11. MovesKept'
  <2> SUFFICES ASSUME NEW d \in PhotoClerks, NEW w, w = phTx'[d].venue,
                      phTx'[d].pc = "rehome", phTx'[d].gen = phVenue'[w].gen,
                      NEW u \in (phTx'[d].moves \cap phVenue'[w].urls) \ phVenue'[w].lost
               PROVE  VenuePhotoKeyFor(w, u) \in bucket'
    BY DEF MovesKept, VenuePhotoKeyFor
  <2>1. phTx'[d] = phTx[d] /\ w \in PhotoVenues /\ phTx[d].moves \subseteq {Staged} \X Photos
    <3>1. phTx'[d] = phTx[d]
      BY <1>6, PhFreeFits
    <3> QED
      BY <3>1 DEF PhInvariant, PhFits, VenuePcs
  <2>2. u \in (phTx[d].moves \cap phVenue[w].urls) \ phVenue[w].lost
    <3>1. u[1] = Staged
      BY <2>1
    <3>2. CASE w = v
      <4>1. u \in r.urls \ moves
        BY <1>4, <1>5, <1>7, <3>1, <3>2
      <4>2. u \notin r.lost
        BY <1>4, <1>5, <3>2, <4>1
      <4> QED
        BY <1>1, <2>1, <3>2, <4>1, <4>2
    <3> QED
      BY <1>5, <2>1, <3>2
  <2> QED
    BY <1>5, <2>1, <2>2 DEF PhInvariant, MovesKept
<1>12. InOwnFolder'
  <2>1. R.urls \cup R.shown \subseteq Folder(v)
    <3>1. r.urls \cup r.shown \subseteq Folder(v)
      BY <1>1 DEF PhInvariant, InOwnFolder
    <3>2. \A u \in moves : key(u) \in Folder(v)
      BY DEF VenuePhotoKeyFor, Folder
    <3> QED
      BY <1>4, <3>1, <3>2
  <2> QED
    BY <1>5, <2>1 DEF PhInvariant, InOwnFolder
<1> QED
  BY <1>6, <1>8, <1>9, <1>10, <1>11, <1>12 DEF PhInvariant, ImagesAreSafe

LEMMA RehomeRowsHolds ==
  ASSUME PhInvariant, NEW c \in PhotoClerks, RehomeRows(c)
  PROVE  PhInvariant'
<1>1. PICK v \in PhotoVenues : v = phTx[c].venue
  BY DEF RehomeRows, PhInvariant, PhFits, VenuePcs
<1>2. /\ phTx[c].pc = "rehome" /\ UNCHANGED <<bucket, aged, told, avatar>>
      /\ phTx' = [phTx EXCEPT ![c] = PhFree]
  BY DEF RehomeRows, PhDone, PhSay
<1>3. CASE UNCHANGED phVenue
  <2>1. Quieter(phTx[c], PhFree) /\ NoPictureOf(phTx[c], PhFree)
    BY PhFreeFits, PhotoConstants DEF Quieter, Aside, NoPictureOf
  <2> QED
    BY <1>2, <1>3, <2>1, PhFreeFits, QuietRequest
<1>4. CASE /\ phVenue[v].gen = phTx[c].gen
           /\ phVenue' = [phVenue EXCEPT ![v] = Repoint(v, phTx[c].moves)]
  BY <1>1, <1>2, <1>4, RepointHolds
<1> QED
  BY <1>1, <1>3, <1>4 DEF RehomeRows

(* The avatar: the picture is never the one a request deletes.             *)
LEMMA AvatarsHold ==
  ASSUME PhInvariant, NEW c \in PhotoClerks,
         \/ \E k \in Photos : SubmitAvatar(c, k)
         \/ PutAvatar(c) \/ SetOwnAvatar(c) \/ DeletePreviousAvatar(c)
  PROVE  PhInvariant'
<1>1. PICK t \in PhRequest : t = phTx[c] /\ PhFits(t)
  BY DEF PhInvariant, PhTyped
<1>2. PICK row \in PhFiles, files \in SUBSET Photos : avatar = [row |-> row, files |-> files]
  BY DEF PhInvariant, PhTyped
<1>3. UNCHANGED <<bucket, aged, told, phVenue>>
  BY Zenon DEF SubmitAvatar, PutAvatar, SetOwnAvatar, DeletePreviousAvatar
<1>4. PictureKept /\ AvatarResolves /\ phTx \in [PhotoClerks -> PhRequest]
  BY DEF PhInvariant, ImagesAreSafe, PhTyped
<1>5. Quieter(t, PhFree) /\ PhFits(PhFree)
  BY PhFreeFits, PhotoConstants DEF Quieter, Aside
<1>6. ASSUME NEW k \in Photos, SubmitAvatar(c, k)
      PROVE  PhInvariant'
  <2>1. PICK q \in PhRequest : q = [PhFree EXCEPT !.pc = "put", !.file = k, !.prev = row]
    BY <1>2, PhFreeFits DEF PhRequest, PhPcs, PhFiles
  <2>2. /\ q.pc = "put" /\ q.file = k /\ q.prev = row /\ q.venue = Staged /\ q.urls = {}
        /\ q.before = {} /\ q.moves = {}
    BY <2>1, PhFreeFits DEF PhRequest
  <2>3. /\ phTx' = [phTx EXCEPT ![c] = q] /\ avatar' = avatar
        /\ k # row /\ \A d \in PhotoClerks : phTx[d].file # k /\ phTx[d].prev # k
    BY <1>2, <1>6, <2>1, Zenon DEF SubmitAvatar, PhStart, PhSay, NewFile
  <2>4. k # NoPicture
    BY PhotoConstants
  <2>5. \A d \in PhotoClerks : phTx'[d] = IF d = c THEN q ELSE phTx[d]
    BY <1>4, <2>3
  <2>6. PictureKept'
    BY <1>2, <1>4, <2>2, <2>3, <2>4, <2>5 DEF PictureKept
  <2>7. PhFits(q) /\ Quieter(phTx[c], q)
    BY <2>2, PhotoConstants DEF PhFits, VenuePcs, Quieter, Aside
  <2>8. AvatarResolves' /\ avatar' \in [row : PhFiles, files : SUBSET Photos]
    BY <1>2, <1>4, <2>3 DEF AvatarResolves
  <2> QED
    BY <1>3, <2>2, <2>3, <2>6, <2>7, <2>8, QuietButPicture
<1>7. ASSUME t.pc \in {"put", "picture", "previous"}, phTx' = [phTx EXCEPT ![c] = PhFree],
             NEW gone \in SUBSET {t.file, t.prev}, avatar' = [row |-> row, files |-> files \ gone],
             t.pc = "previous" => gone \subseteq {t.prev},
             t.pc \in {"put", "picture"} => gone \subseteq {t.file}
      PROVE  PhInvariant'
  <2>1. row # NoPicture => row \notin gone
    BY <1>1, <1>2, <1>4, <1>7 DEF PictureKept
  <2>2. \A d \in PhotoClerks : phTx'[d] = IF d = c THEN PhFree ELSE phTx[d]
    BY <1>4, <1>7
  <2>3. AvatarResolves' /\ avatar' \in [row : PhFiles, files : SUBSET Photos]
    BY <1>2, <1>4, <1>7, <2>1 DEF AvatarResolves
  <2>4. \A d \in PhotoClerks \ {c} : phTx[d].pc = "picture" => phTx[d].file \notin gone
    BY <1>1, <1>4, <1>7 DEF PictureKept
  <2>5. PictureKept'
    BY <1>1, <1>2, <1>4, <1>7, <2>2, <2>4, PhFreeFits DEF PictureKept
  <2> QED
    BY <1>1, <1>3, <1>5, <1>7, <2>3, <2>5, PhFreeFits, QuietButPicture
<1>8. ASSUME t.pc \in {"put", "picture"}, NEW q \in PhRequest, phTx' = [phTx EXCEPT ![c] = q],
             q.venue = t.venue, q.urls = t.urls, q.before = t.before, q.moves = t.moves,
             q.file = t.file, q.prev = t.prev, avatar' \in [row : PhFiles, files : SUBSET Photos],
             \/ /\ t.pc = "put" /\ q.pc = "picture"
                /\ avatar'.row = row /\ avatar'.files = files \cup {t.file}
             \/ /\ t.pc = "picture" /\ q.pc = "previous"
                /\ avatar'.row = t.file /\ avatar'.files = files
      PROVE  PhInvariant'
  <2>1. \A d \in PhotoClerks : phTx'[d] = IF d = c THEN q ELSE phTx[d]
    BY <1>4, <1>8
  <2>2. AvatarResolves'
    BY <1>1, <1>2, <1>4, <1>8 DEF AvatarResolves, PictureKept
  <2>3. PictureKept'
    <3>1. CASE t.pc = "put"
      BY <1>1, <1>2, <1>4, <1>8, <2>1, <3>1 DEF PictureKept
    <3>2. CASE t.pc = "picture"
      BY <1>1, <1>2, <1>4, <1>8, <2>1, <3>2 DEF PictureKept
    <3> QED
      BY <1>8, <3>1, <3>2
  <2>4. PhFits(q) /\ Quieter(t, q) /\ q.moves = {}
    <3>1. t.venue \notin PhotoVenues /\ t.moves = {}
      BY <1>1, <1>8 DEF PhFits, VenuePcs
    <3> QED
      BY <1>1, <1>8, <3>1 DEF PhFits, VenuePcs, Quieter, Aside
  <2> QED
    BY <1>1, <1>3, <1>8, <2>2, <2>3, <2>4, QuietButPicture
<1>9. avatar.row = row /\ avatar.files = files /\ avatar = [row |-> row, files |-> files \ {}]
  BY <1>2
<1>10. CASE PutAvatar(c)
  <2>1. CASE phTx' = [phTx EXCEPT ![c] = PhFree] /\ avatar' = avatar
    BY <1>1, <1>7, <1>9, <1>10, <2>1 DEF PutAvatar
  <2>2. CASE /\ avatar' = [avatar EXCEPT !.files = @ \cup {t.file}]
             /\ phTx' = [phTx EXCEPT ![c] = [t EXCEPT !.pc = "picture"]]
    <3>1. t.pc = "put" /\ t.file \in Photos
      BY <1>1, <1>4, <1>10 DEF PutAvatar, PictureKept, PhRequest, PhFiles
    <3>2. PICK fs \in SUBSET Photos : fs = files \cup {t.file}
      BY <3>1
    <3>3. avatar' = [row |-> row, files |-> fs]
      BY <1>2, <2>2, <3>2
    <3>4. PICK q \in PhRequest : q = [t EXCEPT !.pc = "picture"]
      BY DEF PhRequest, PhPcs
    <3>5. /\ q.pc = "picture" /\ q.venue = t.venue /\ q.urls = t.urls /\ q.before = t.before
          /\ q.moves = t.moves /\ q.file = t.file /\ q.prev = t.prev
      BY <3>4 DEF PhRequest
    <3>6. /\ avatar' \in [row : PhFiles, files : SUBSET Photos]
          /\ avatar'.row = row /\ avatar'.files = files \cup {t.file}
      BY <3>2, <3>3
    <3>7. phTx' = [phTx EXCEPT ![c] = q]
      BY <2>2, <3>4
    <3> QED
      BY <1>8, <3>1, <3>5, <3>6, <3>7
  <2> QED
    BY <1>1, <1>10, <2>1, <2>2 DEF PutAvatar, PhDone, PhSay
<1>11. CASE SetOwnAvatar(c)
  <2>1. CASE phTx' = [phTx EXCEPT ![c] = PhFree] /\ avatar' = avatar
    BY <1>1, <1>7, <1>9, <1>11, <2>1 DEF SetOwnAvatar
  <2>2. CASE /\ phTx' = [phTx EXCEPT ![c] = PhFree]
             /\ avatar' = [avatar EXCEPT !.files = @ \ {t.file}]
    <3>1. avatar' = [row |-> row, files |-> files \ {t.file}]
      BY <1>2, <2>2
    <3> QED
      BY <1>1, <1>7, <1>11, <2>2, <3>1 DEF SetOwnAvatar
  <2>3. CASE /\ avatar' = [avatar EXCEPT !.row = t.file]
             /\ phTx' = [phTx EXCEPT ![c] = [t EXCEPT !.pc = "previous"]]
    <3>1. t.pc = "picture" /\ t.file \in PhFiles
      BY <1>1, <1>11 DEF SetOwnAvatar, PhRequest
    <3>2. avatar' = [row |-> t.file, files |-> files]
      BY <1>2, <2>3
    <3>3. PICK q \in PhRequest : q = [t EXCEPT !.pc = "previous"]
      BY DEF PhRequest, PhPcs
    <3>4. /\ q.pc = "previous" /\ q.venue = t.venue /\ q.urls = t.urls /\ q.before = t.before
          /\ q.moves = t.moves /\ q.file = t.file /\ q.prev = t.prev
      BY <3>3 DEF PhRequest
    <3>5. /\ avatar' \in [row : PhFiles, files : SUBSET Photos]
          /\ avatar'.row = t.file /\ avatar'.files = files
      BY <3>1, <3>2
    <3>6. phTx' = [phTx EXCEPT ![c] = q]
      BY <2>3, <3>3
    <3> QED
      BY <1>8, <3>1, <3>4, <3>5, <3>6
  <2> QED
    BY <1>1, <1>11, <2>1, <2>2, <2>3 DEF SetOwnAvatar, PhDone, PhSay
<1>12. CASE DeletePreviousAvatar(c)
  <2>1. CASE avatar' = avatar
    BY <1>1, <1>7, <1>9, <1>12, <2>1 DEF DeletePreviousAvatar, PhDone, PhSay
  <2>2. CASE avatar' = [avatar EXCEPT !.files = @ \ {t.prev}]
    <3>1. avatar' = [row |-> row, files |-> files \ {t.prev}]
      BY <1>2, <2>2
    <3> QED
      BY <1>1, <1>7, <1>12, <3>1 DEF DeletePreviousAvatar, PhDone, PhSay
  <2> QED
    BY <1>1, <1>12, <2>1, <2>2 DEF DeletePreviousAvatar
<1> QED
  BY <1>6, <1>10, <1>11, <1>12

-----------------------------------------------------------------------------
LEMMA PhotoInitHolds == PhIdle => PhInvariant
<1> SUFFICES ASSUME PhIdle
             PROVE  PhInvariant
  OBVIOUS
<1>1. NoVenue \in VenueRow /\ NoVenue.urls = {} /\ NoVenue.shown = {}
  BY DEF NoVenue, VenueRow
<1>2. /\ \A v \in PhotoVenues : phVenue[v].urls = {} /\ phVenue[v].shown = {}
      /\ \A c \in PhotoClerks : phTx[c] = PhFree
  BY <1>1 DEF PhIdle
<1>3. avatar.row = NoPicture /\ avatar \in [row : PhFiles, files : SUBSET Photos]
  BY DEF PhIdle, PhFiles
<1>4. PhTyped
  BY <1>1, <1>3, PhFreeFits DEF PhIdle, PhTyped
<1>5. OneUser /\ SendsAlone
  BY <1>2, PhFreeFits DEF PhIdle, OneUser, SendsAlone, SendsUnshown, Names, Uploads, Discards
<1>6. MovesKept /\ PictureKept
  BY <1>2, PhFreeFits DEF MovesKept, PictureKept
<1>7. InOwnFolder /\ ImagesAreSafe
  BY <1>2, <1>3 DEF InOwnFolder, ImagesAreSafe, RehomeKeepsBytes, AvatarResolves
<1> QED
  BY <1>2, <1>4, <1>5, <1>6, <1>7, PhFreeFits DEF PhInvariant

LEMMA PhotoStepHolds ==
  ASSUME PhInvariant, [PhNext]_phVars
  PROVE  PhInvariant'
<1>1. CASE UNCHANGED phVars
  <2> USE <1>1 DEF phVars, PhInvariant
  <2>1. PhTyped' /\ InOwnFolder' /\ \A c \in PhotoClerks : PhFits(phTx[c])'
    BY DEF PhTyped, InOwnFolder, PhFits
  <2>2. OneUser' /\ SendsAlone'
    BY ClaimsKeep DEF RowsQuiet
  <2>3. MovesKept' /\ PictureKept' /\ ImagesAreSafe'
    BY DEF MovesKept, PictureKept, ImagesAreSafe, RehomeKeepsBytes, AvatarResolves, VenuePhotoKeyFor
  <2> QED
    BY <2>1, <2>2, <2>3
<1>2. CASE ListVenues \/ (\E v \in PhotoVenues : FindVenue(v)) \/ DayPasses \/ PhotoCrash
  BY <1>2, BystandersHold
<1>3. ASSUME NEW c \in PhotoClerks, NEW k \in Photos,
             SubmitUpload(c, k) \/ SubmitDiscard(c, k) \/ SubmitAvatar(c, k)
      PROVE  PhInvariant'
  BY <1>3, SubmitUploadHolds, SubmitDiscardHolds, AvatarsHold
<1>4. ASSUME NEW c \in PhotoClerks, NEW v \in PhotoVenues, NEW urls \in AssertOwnPhotoUrls(v),
             SubmitCreateVenue(c, v, urls) \/ SubmitUpdateVenue(c, v, urls)
      PROVE  PhInvariant'
  BY <1>4, SubmitSaveHolds
<1>5. ASSUME NEW c \in PhotoClerks,
             \/ SweepCron(c) \/ SweepScript(c)
             \/ \E v \in PhotoVenues :
                  SubmitClose(c, v) \/ SubmitReopen(c, v) \/ SubmitRemove(c, v) \/ PatchVenue(c, v)
      PROVE  PhInvariant'
  BY <1>5, BeginningsHold DEF SweepCron, SweepScript
<1>6. ASSUME NEW c \in PhotoClerks,
             \/ UploadPhoto(c) \/ Discard(c) \/ SweepStagedPhotos(c) \/ CreateVenue(c)
             \/ UpdateVenue(c) \/ DeleteObjectsFor(c) \/ RehomePhoto(c) \/ RehomeRows(c)
      PROVE  PhInvariant'
  BY <1>6, UploadHolds, DeletingHolds, SaveHolds, DeleteObjectsHolds, RehomePhotoHolds, RehomeRowsHolds
<1>7. ASSUME NEW c \in PhotoClerks,
             \/ CloseVenue(c) \/ ReopenVenue(c) \/ RemoveVenue(c)
             \/ PutAvatar(c) \/ SetOwnAvatar(c) \/ DeletePreviousAvatar(c)
      PROVE  PhInvariant'
  BY <1>7, TogglesHold, AvatarsHold
<1> QED
  BY <1>1, <1>2, <1>3, <1>4, <1>5, <1>6, <1>7 DEF PhNext

(* The invariant of the photos holds throughout.                           *)
THEOREM PhotoInvariantHolds == PhSpec => []PhInvariant
<1> QED
  BY PhotoInitHolds, PhotoStepHolds, PTL DEF PhSpec

(* Whatever a copy, a delete or the process does half-way, and however     *)
(* saves, uploads and sweeps interleave: the bytes of a photo that some    *)
(* venue names are in the bucket, unless a sweep or an overlapping save    *)
(* took them, and the account's picture is never a dead URL.               *)
THEOREM ImagesStaySafe == PhSpec => []ImagesAreSafe
<1>1. PhInvariant => ImagesAreSafe
  BY DEF PhInvariant
<1> QED
  BY <1>1, PhotoInvariantHolds, PTL

(***************************************************************************)
(* The notification triggers.                                              *)
(***************************************************************************)
TrPcs == {"free", "work", "create", "claim", "read", "first", "swap"}
TrUcs == {"U1", "U2", "U3", "B1", "B2", "B3", "B4", "B5", "F1", "F2", "C1", "C2", "C3", "C5"}
TrVersions == 0 .. LatestVersion
TrRequest ==
  [pc : TrPcs, uc : TrUcs, inst : Stores, store : Stores, version : TrVersions, seen : TrVersions]
TrDataTyped ==
  /\ trNow \in Nat /\ lastAnnounced \in TrVersions /\ IsABag(noticed)
  /\ claims \in [Stores -> [ClaimKeys -> Nat]] /\ rises \in [TrVersions -> Nat]
TrTyped == TrDataTyped /\ trTx \in [TrWorkers -> TrRequest]

(* Only the announcer speaks of a version, and only what a claim let       *)
(* through of a failure.                                                   *)
TrFits(t) ==
  /\ t.pc = "work" => t.uc \notin ClaimKeys /\ t.version = 0
  /\ t.pc = "claim" => t.uc \in ClaimKeys /\ t.version = 0 /\ t.store = "redis"
  /\ t.pc \in {"read", "first", "swap"} => t.uc = "C2" /\ t.store = "redis" /\ t.version # 0
  /\ t.pc = "swap" => t.seen # t.version

(* The rows there are of a kind, and those about to be created.            *)
About(u, s, v) ==
  {w \in TrWorkers : /\ trTx[w].pc = "create" /\ trTx[w].uc = u
                     /\ trTx[w].store = s /\ trTx[w].version = v}
Count(u, s, v) == ToldOf(u, s, v) + Cardinality(About(u, s, v))

(* Every row a store let through has pushed its claim on by a window.      *)
WindowsPaid ==
  \A k \in ClaimKeys : \A s \in Stores :
    Count(k, s, 0) * ClaimTtl <= claims[s][k] /\ claims[s][k] <= trNow + ClaimTtl
(* Every row about a version has its rise.                                 *)
RisesPaid == \A v \in 1 .. LatestVersion : Count("C2", "redis", v) <= rises[v]

TrInvariant ==
  /\ TrTyped /\ (\A w \in TrWorkers : TrFits(trTx[w])) /\ WindowsPaid /\ RisesPaid

Matches(t, u, s, v) == t.pc = "create" /\ t.uc = u /\ t.store = s /\ t.version = v

(* A bag holds one more of what is put into it, and of nothing else.       *)
LEMMA ToldAdded ==
  ASSUME IsABag(noticed), NEW x, noticed' = noticed (+) SetToBag({x})
  PROVE  /\ IsABag(noticed')
         /\ \A e : Told(e)' = Told(e) + (IF e = x THEN 1 ELSE 0)
<1>1. noticed' = [e \in DOMAIN noticed \cup {x} |->
             (IF e \in DOMAIN noticed THEN noticed[e] ELSE 0) + (IF e \in {x} THEN 1 ELSE 0)]
  BY DEF (+), SetToBag
<1>2. \A e \in DOMAIN noticed : noticed[e] \in Nat /\ noticed[e] > 0
  BY DEF IsABag
<1>3. \A e \in DOMAIN noticed \cup {x} : noticed'[e] \in Nat /\ noticed'[e] > 0
  BY <1>1, <1>2
<1>4. IsABag(noticed')
  <2>1. /\ noticed' \in [DOMAIN noticed \cup {x} -> {n \in Nat : n > 0}]
        /\ DOMAIN noticed' = DOMAIN noticed \cup {x}
    BY <1>1, <1>3
  <2> QED BY <2>1 DEF IsABag
<1>5. \A e : Told(e)' = Told(e) + (IF e = x THEN 1 ELSE 0)
  <2>1. TAKE e
  <2>2. DOMAIN noticed' = DOMAIN noticed \cup {x}
    BY <1>1
  <2>3. CASE e \in DOMAIN noticed \cup {x}
    BY <1>1, <1>2, <2>2, <2>3 DEF Told, BagIn, BagToSet
  <2>4. CASE e \notin DOMAIN noticed \cup {x}
    BY <2>2, <2>4 DEF Told, BagIn, BagToSet
  <2> QED BY <2>3, <2>4
<1> QED BY <1>4, <1>5

LEMMA ToldNat ==
  ASSUME IsABag(noticed)
  PROVE  \A u, s, v : ToldOf(u, s, v) \in Nat
BY DEF IsABag, Told, ToldOf, BagIn, BagToSet

(* The rows about to be created are counted: of a kind as many as before,  *)
(* one more or one fewer, as the one request that moves comes and goes.    *)
LEMMA AboutStep ==
  ASSUME TrTyped, NEW w \in TrWorkers, NEW t, trTx' = [trTx EXCEPT ![w] = t],
         NEW u, NEW s, NEW v
  PROVE  /\ Cardinality(About(u, s, v)) \in Nat /\ Cardinality(About(u, s, v))' \in Nat
         /\ Cardinality(About(u, s, v))' <= Cardinality(About(u, s, v)) + 1
         /\ ~Matches(t, u, s, v) =>
              Cardinality(About(u, s, v))' <= Cardinality(About(u, s, v))
         /\ ~Matches(t, u, s, v) /\ Matches(trTx[w], u, s, v) =>
              Cardinality(About(u, s, v))' < Cardinality(About(u, s, v))
<1> DEFINE A == About(u, s, v)
           Z == {x \in TrWorkers : Matches(trTx'[x], u, s, v)}
<1>1. A = {x \in TrWorkers : Matches(trTx[x], u, s, v)} /\ A' = Z
  BY DEF About, Matches
<1>2. \A x \in TrWorkers : trTx'[x] = IF x = w THEN t ELSE trTx[x]
  BY DEF TrTyped, TrDataTyped
<1>3. IsFiniteSet(A)
  BY <1>1, TriggerConstants, FS_Subset
<1>4. Z = IF Matches(t, u, s, v) THEN A \cup {w} ELSE A \ {w}
  BY <1>1, <1>2
<1>5. w \in A <=> Matches(trTx[w], u, s, v)
  BY <1>1
<1> HIDE DEF A, Z
<1>6. Cardinality(A) \in Nat
  BY <1>3, FS_CardinalityType
<1>7. /\ IsFiniteSet(A \cup {w}) /\ IsFiniteSet(A \ {w})
      /\ Cardinality(A \cup {w}) = IF w \in A THEN Cardinality(A) ELSE Cardinality(A) + 1
      /\ Cardinality(A \ {w}) = IF w \in A THEN Cardinality(A) - 1 ELSE Cardinality(A)
  BY <1>3, FS_AddElement, FS_RemoveElement
<1>8. Cardinality(A \cup {w}) \in Nat /\ Cardinality(A \ {w}) \in Nat
  BY <1>7, FS_CardinalityType
<1>9. Cardinality(A)' = Cardinality(Z)
  BY <1>1 DEF A
<1>10. /\ Cardinality(A) \in Nat /\ Cardinality(Z) \in Nat
       /\ Cardinality(Z) <= Cardinality(A) + 1
       /\ ~Matches(t, u, s, v) => Cardinality(Z) <= Cardinality(A)
       /\ ~Matches(t, u, s, v) /\ Matches(trTx[w], u, s, v) =>
            Cardinality(Z) < Cardinality(A)
  BY <1>4, <1>5, <1>6, <1>7, <1>8
<1> QED BY <1>9, <1>10 DEF A

LEMMA CountNat ==
  ASSUME TrTyped
  PROVE  \A u, s, v : Count(u, s, v) \in Nat
<1>1. \A u, s, v : IsFiniteSet(About(u, s, v))
  BY TriggerConstants, FS_Subset DEF About
<1> QED BY <1>1, ToldNat, FS_CardinalityType DEF Count, TrTyped, TrDataTyped

LEMMA CountNatNext ==
  ASSUME TrTyped'
  PROVE  \A u, s, v : Count(u, s, v)' \in Nat
<1>1. \A u, s, v : IsFiniteSet(About(u, s, v)')
  BY TriggerConstants, FS_Subset DEF About
<1>2. \A u, s, v : ToldOf(u, s, v)' \in Nat
  BY DEF TrTyped, TrDataTyped, IsABag, Told, ToldOf, BagIn, BagToSet
<1>3. \A u, s, v : Cardinality(About(u, s, v)') \in Nat
  BY <1>1, FS_CardinalityType
<1>4. \A u, s, v : Count(u, s, v)' = ToldOf(u, s, v)' + Cardinality(About(u, s, v)')
  BY DEF Count
<1> QED BY <1>2, <1>3, <1>4

(* The count of a kind grows only by a request that comes to create it.    *)
LEMMA CountStep ==
  ASSUME TrTyped, NEW w \in TrWorkers, NEW t, trTx' = [trTx EXCEPT ![w] = t],
         noticed' = noticed, NEW u, NEW s, NEW v
  PROVE  /\ Count(u, s, v)' <= Count(u, s, v) + 1
         /\ ~Matches(t, u, s, v) => Count(u, s, v)' <= Count(u, s, v)
         /\ Count(u, s, v) \in Nat /\ Count(u, s, v)' \in Nat
<1>1. ToldOf(u, s, v)' = ToldOf(u, s, v)
  BY DEF ToldOf, Told
<1>2. ToldOf(u, s, v) \in Nat
  BY ToldNat DEF TrTyped, TrDataTyped
<1>3. /\ Cardinality(About(u, s, v)) \in Nat /\ Cardinality(About(u, s, v))' \in Nat
      /\ Cardinality(About(u, s, v))' <= Cardinality(About(u, s, v)) + 1
      /\ ~Matches(t, u, s, v) =>
           Cardinality(About(u, s, v))' <= Cardinality(About(u, s, v))
  BY AboutStep
<1>4. /\ Count(u, s, v) = ToldOf(u, s, v) + Cardinality(About(u, s, v))
      /\ Count(u, s, v)' = ToldOf(u, s, v)' + Cardinality(About(u, s, v))'
  BY DEF Count
<1> QED BY <1>1, <1>2, <1>3, <1>4

LEMMA CountStill ==
  ASSUME trTx' = trTx, noticed' = noticed
  PROVE  \A u, s, v : Count(u, s, v)' = Count(u, s, v)
BY DEF Count, ToldOf, Told, About

LEMMA AboutLeft ==
  ASSUME TrTyped, NEW w \in TrWorkers, trTx' = [trTx EXCEPT ![w] = TrFree],
         NEW u, NEW s, NEW v
  PROVE  /\ Cardinality(About(u, s, v)) \in Nat /\ Cardinality(About(u, s, v))' \in Nat
         /\ Cardinality(About(u, s, v))' <= Cardinality(About(u, s, v))
         /\ Matches(trTx[w], u, s, v) =>
              Cardinality(About(u, s, v))' < Cardinality(About(u, s, v))
<1> DEFINE t == TrFree
<1>1. ~Matches(t, u, s, v)
  BY DEF Matches, TrFree
<1>2. trTx' = [trTx EXCEPT ![w] = t]
  OBVIOUS
<1> HIDE DEF t
<1>3. Cardinality(About(u, s, v)) \in Nat /\ Cardinality(About(u, s, v))' \in Nat
  BY <1>2, AboutStep
<1>4. ~Matches(t, u, s, v) =>
           Cardinality(About(u, s, v))' <= Cardinality(About(u, s, v))
  BY <1>2, AboutStep
<1>5. ~Matches(t, u, s, v) /\ Matches(trTx[w], u, s, v) =>
           Cardinality(About(u, s, v))' < Cardinality(About(u, s, v))
  BY <1>2, AboutStep
<1> QED BY <1>1, <1>3, <1>4, <1>5

(* A row is created by the request that was counted for it.                *)
LEMMA CountCreated ==
  ASSUME TrTyped, NEW w \in TrWorkers, CreateNotification(w), NEW u, NEW s, NEW v
  PROVE  Count(u, s, v)' <= Count(u, s, v)
<1> DEFINE t == trTx[w]
           x == [uc |-> t.uc, target |-> TargetRole[t.uc], store |-> t.store, version |-> t.version]
           e == [uc |-> u, target |-> TargetRole[u], store |-> s, version |-> v]
<1>1. trTx' = [trTx EXCEPT ![w] = TrFree] /\ t.pc = "create"
  BY DEF CreateNotification, TrDone, TrSay
<1>2. ~Matches(TrFree, u, s, v)
  BY DEF Matches, TrFree
<1>3. CASE noticed' = noticed
  BY <1>1, <1>2, <1>3, CountStep
<1>4. CASE noticed' = noticed (+) SetToBag({x})
  <2>1. \A d : Told(d)' = Told(d) + (IF d = x THEN 1 ELSE 0)
    BY <1>4, ToldAdded DEF TrTyped, TrDataTyped
  <2>2. ToldOf(u, s, v)' = ToldOf(u, s, v) + (IF e = x THEN 1 ELSE 0)
    BY <2>1 DEF ToldOf
  <2>3. e = x => Matches(t, u, s, v)
    BY <1>1 DEF Matches
  <2>4. ToldOf(u, s, v) \in Nat
    BY ToldNat DEF TrTyped, TrDataTyped
  <2>5. /\ Cardinality(About(u, s, v)) \in Nat /\ Cardinality(About(u, s, v))' \in Nat
        /\ Cardinality(About(u, s, v))' <= Cardinality(About(u, s, v))
        /\ Matches(t, u, s, v) =>
             Cardinality(About(u, s, v))' < Cardinality(About(u, s, v))
    <3>1. trTx' = [trTx EXCEPT ![w] = TrFree]
      BY <1>1
    <3> HIDE DEF x, e
    <3> QED BY <3>1, AboutLeft
  <2> HIDE DEF t, x, e
  <2>6. CASE e = x
    BY <2>2, <2>3, <2>4, <2>5, <2>6 DEF Count
  <2>7. CASE e # x
    BY <2>2, <2>4, <2>5, <2>7 DEF Count
  <2> QED BY <2>6, <2>7
<1> QED BY <1>3, <1>4 DEF CreateNotification

(* What a window more leaves room for.                                     *)
LEMMA WindowAdded ==
  ASSUME NEW a \in Nat, NEW b \in Nat, NEW c \in Nat, NEW d \in Nat,
         a * ClaimTtl <= c, (b <= a /\ d >= c) \/ (b <= a + 1 /\ d >= c + ClaimTtl)
  PROVE  b * ClaimTtl <= d
<1>1. ClaimTtl \in Nat
  BY TriggerConstants
<1>2. (a + 1) * ClaimTtl = a * ClaimTtl + ClaimTtl
  BY <1>1
<1>3. \A m, n \in Nat : m <= n => m * ClaimTtl <= n * ClaimTtl
  BY <1>1
<1>4. a * ClaimTtl \in Nat /\ b * ClaimTtl \in Nat /\ (a + 1) * ClaimTtl \in Nat
  BY <1>1
<1>5. CASE b <= a /\ d >= c
  <2>1. b * ClaimTtl <= a * ClaimTtl
    BY <1>3, <1>5
  <2> QED BY <1>4, <1>5, <2>1
<1>6. CASE b <= a + 1 /\ d >= c + ClaimTtl
  <2>1. b * ClaimTtl <= (a + 1) * ClaimTtl
    BY <1>3, <1>6
  <2> QED BY <1>1, <1>2, <1>4, <1>6, <2>1
<1> QED BY <1>5, <1>6

(* A step is paid for when whatever it adds to a count it adds to the      *)
(* claim or to the rises as well.                                          *)
ClaimsPay ==
  \A k \in ClaimKeys : \A s \in Stores :
    /\ claims'[s][k] <= trNow' + ClaimTtl
    /\ \/ Count(k, s, 0)' <= Count(k, s, 0) /\ claims'[s][k] >= claims[s][k]
       \/ /\ Count(k, s, 0)' <= Count(k, s, 0) + 1
          /\ claims'[s][k] >= claims[s][k] + ClaimTtl
RisesPay ==
  \A v \in 1 .. LatestVersion :
    \/ Count("C2", "redis", v)' <= Count("C2", "redis", v) /\ rises'[v] >= rises[v]
    \/ Count("C2", "redis", v)' <= Count("C2", "redis", v) + 1 /\ rises'[v] >= rises[v] + 1

LEMMA Paid ==
  ASSUME TrTyped, TrTyped', WindowsPaid, RisesPaid, ClaimsPay, RisesPay
  PROVE  WindowsPaid' /\ RisesPaid'
<1>1. \A u, s, v : Count(u, s, v) \in Nat
  BY CountNat
<1>2. \A u, s, v : Count(u, s, v)' \in Nat
  BY CountNatNext
<1>3. WindowsPaid'
  <2> SUFFICES ASSUME NEW k \in ClaimKeys, NEW s \in Stores
               PROVE  Count(k, s, 0)' * ClaimTtl <= claims'[s][k]
                        /\ claims'[s][k] <= trNow' + ClaimTtl
    BY DEF WindowsPaid
  <2>1. claims[s][k] \in Nat /\ claims'[s][k] \in Nat
    BY DEF TrTyped, TrDataTyped
  <2>2. Count(k, s, 0) * ClaimTtl <= claims[s][k]
    BY DEF WindowsPaid
  <2>3. \/ Count(k, s, 0)' <= Count(k, s, 0) /\ claims'[s][k] >= claims[s][k]
        \/ Count(k, s, 0)' <= Count(k, s, 0) + 1 /\ claims'[s][k] >= claims[s][k] + ClaimTtl
    BY DEF ClaimsPay
  <2>4. claims'[s][k] <= trNow' + ClaimTtl
    BY DEF ClaimsPay
  <2> QED BY <1>1, <1>2, <2>1, <2>2, <2>3, <2>4, WindowAdded
<1>4. RisesPaid'
  <2> SUFFICES ASSUME NEW v \in 1 .. LatestVersion
               PROVE  Count("C2", "redis", v)' <= rises'[v]
    BY DEF RisesPaid
  <2>1. rises[v] \in Nat /\ rises'[v] \in Nat
    BY TriggerConstants DEF TrTyped, TrDataTyped, TrVersions
  <2>2. Count("C2", "redis", v) <= rises[v]
    BY DEF RisesPaid
  <2>3. \/ Count("C2", "redis", v)' <= Count("C2", "redis", v) /\ rises'[v] >= rises[v]
        \/ /\ Count("C2", "redis", v)' <= Count("C2", "redis", v) + 1
           /\ rises'[v] >= rises[v] + 1
    BY DEF RisesPay
  <2> QED BY <1>1, <1>2, <2>1, <2>2, <2>3
<1> QED BY <1>3, <1>4

(* What a request becomes keeps the invariant, when the step is paid for.  *)
LEMMA Put ==
  ASSUME TrInvariant, NEW w \in TrWorkers, NEW t \in TrRequest, TrFits(t),
         trTx' = [trTx EXCEPT ![w] = t], TrDataTyped', ClaimsPay, RisesPay
  PROVE  TrInvariant'
<1>1. TrTyped'
  BY DEF TrTyped, TrInvariant
<1>2. \A x \in TrWorkers : trTx'[x] = IF x = w THEN t ELSE trTx[x]
  BY DEF TrTyped, TrInvariant
<1>3. \A x \in TrWorkers : TrFits(trTx[x])'
  BY <1>2 DEF TrInvariant, TrFits
<1>4. WindowsPaid' /\ RisesPaid'
  BY <1>1, Paid DEF TrInvariant
<1> QED BY <1>1, <1>3, <1>4 DEF TrInvariant

(* Nothing need be paid for by a request that has nothing to tell of a     *)
(* failure or a version.                                                   *)
LEMMA QuietPays ==
  ASSUME TrInvariant, NEW w \in TrWorkers, NEW t, trTx' = [trTx EXCEPT ![w] = t],
         t.pc = "create" => t.uc \notin ClaimKeys /\ t.version = 0,
         noticed' = noticed
  PROVE  /\ \A k \in ClaimKeys : \A s \in Stores : Count(k, s, 0)' <= Count(k, s, 0)
         /\ \A v \in 1 .. LatestVersion :
              Count("C2", "redis", v)' <= Count("C2", "redis", v)
<1>1. TrTyped
  BY DEF TrInvariant
<1>2. \A k \in ClaimKeys : \A s \in Stores : ~Matches(t, k, s, 0)
  BY DEF Matches
<1>3. \A v \in 1 .. LatestVersion : ~Matches(t, "C2", "redis", v)
  BY TriggerConstants DEF Matches
<1>4. \A k \in ClaimKeys : \A s \in Stores : Count(k, s, 0)' <= Count(k, s, 0)
  BY <1>1, <1>2, CountStep
<1>5. \A v \in 1 .. LatestVersion :
              Count("C2", "redis", v)' <= Count("C2", "redis", v)
  BY <1>1, <1>3, CountStep
<1> QED BY <1>4, <1>5

LEMMA Quiet ==
  ASSUME TrInvariant, NEW w \in TrWorkers, NEW t \in TrRequest, TrFits(t),
         trTx' = [trTx EXCEPT ![w] = t],
         t.pc = "create" => t.uc \notin ClaimKeys /\ t.version = 0,
         lastAnnounced' \in TrVersions, UNCHANGED <<trNow, claims, noticed, rises>>
  PROVE  TrInvariant'
<1>1. TrDataTyped'
  BY DEF TrInvariant, TrTyped, TrDataTyped
<1>2. /\ \A k \in ClaimKeys : \A s \in Stores : Count(k, s, 0)' <= Count(k, s, 0)
      /\ \A v \in 1 .. LatestVersion : Count("C2", "redis", v)' <= Count("C2", "redis", v)
  BY QuietPays
<1>3. \A k \in ClaimKeys : \A s \in Stores :
        claims[s][k] \in Nat /\ claims[s][k] <= trNow + ClaimTtl
  BY DEF TrInvariant, TrTyped, TrDataTyped, WindowsPaid
<1>4. \A v \in 1 .. LatestVersion : rises[v] \in Nat
  BY TriggerConstants DEF TrInvariant, TrTyped, TrDataTyped, TrVersions
<1>5. ClaimsPay
  BY <1>2, <1>3 DEF ClaimsPay
<1>6. RisesPay
  BY <1>2, <1>4 DEF RisesPay
<1> QED BY <1>1, <1>5, <1>6, Put

LEMMA FreeFits == TrFree \in TrRequest /\ TrFits(TrFree) /\ TrFree.pc = "free"
BY TriggerConstants DEF TrFree, TrRequest, TrPcs, TrUcs, Stores, TrVersions, TrFits

(* The triggers of the use cases.                                          *)
LEMMA Occurs ==
  ASSUME TrInvariant, NEW w \in TrWorkers, NEW i \in Stores, NEW u \in TrUcs,
         NEW pc \in {"create", "work", "claim"}, pc = "claim" <=> u \in ClaimKeys,
         Occur(w, i, pc, u), OccurRest
  PROVE  TrInvariant'
<1> DEFINE t == [TrFree EXCEPT !.pc = pc, !.uc = u, !.inst = i]
<1>1. t \in TrRequest
  <2>1. \A r \in TrRequest : [r EXCEPT !.pc = pc, !.uc = u, !.inst = i] \in TrRequest
    BY DEF TrRequest, TrPcs
  <2> QED BY <2>1, FreeFits
<1>2. TrFits(t) /\ (t.pc = "create" => t.uc \notin ClaimKeys /\ t.version = 0)
  BY DEF TrFits, TrFree
<1>3. trTx' = [trTx EXCEPT ![w] = t]
  BY DEF Occur, TrStart, TrSay
<1>4. lastAnnounced' \in TrVersions /\ UNCHANGED <<trNow, claims, noticed, rises>>
  BY DEF OccurRest, TrInvariant, TrTyped, TrDataTyped
<1> HIDE DEF t
<1> QED BY <1>1, <1>2, <1>3, <1>4, Quiet

LEMMA Ignores ==
  ASSUME TrInvariant, NEW w \in TrWorkers, trTx' = [trTx EXCEPT ![w] = TrFree],
         lastAnnounced' \in TrVersions, UNCHANGED <<trNow, claims, noticed, rises>>
  PROVE  TrInvariant'
<1> DEFINE t == TrFree
<1>1. t \in TrRequest /\ TrFits(t) /\ t.pc # "create" /\ trTx' = [trTx EXCEPT ![w] = t]
  BY FreeFits
<1> HIDE DEF t
<1> QED BY <1>1, Quiet

LEMMA TriggersKeep ==
  ASSUME TrInvariant, NEW w \in TrWorkers,
         \/ RegistrationSubmitted(w) \/ UnfollowedWithPending(w)
         \/ BookingRequested(w) \/ BookingCancelledByRequester(w)
         \/ DirectBookingCreated(w) \/ FeedbackSubmitted(w) \/ VenueClosed(w)
         \/ \E n \in 0 .. 1 : BookingsExpired(w, n) \/ BookingsAutoRejected(w, n)
         \/ \E i \in TrInstances :
              \/ \E kind \in {"TRANSIENT", "REJECTED"} : LineDeliveryFailed(w, i, kind)
              \/ \E err \in HandlerErrors : ServerError(w, i, err)
  PROVE  TrInvariant'
<1>1. \/ TrIgnore(w) /\ OccurRest
      \/ \E i \in Stores, u \in TrUcs, pc \in {"create", "work", "claim"} :
           (pc = "claim" <=> u \in ClaimKeys) /\ Occur(w, i, pc, u) /\ OccurRest
  <2>1. TrFree.inst \in Stores /\ \A i \in TrInstances : i \in Stores
    BY DEF TrFree, Stores
  <2>2. /\ {"U1", "U2", "U3", "B1", "B2", "B3", "B4", "B5", "F1", "F2", "C1", "C3", "C5"}
             \subseteq TrUcs
        /\ ClaimKeys = {"C1", "C5"} /\ DOMAIN FeedbackUcs = {"F1", "F2"}
    BY DEF TrUcs, ClaimKeys, FeedbackUcs
  <2>3. CASE RegistrationSubmitted(w) \/ UnfollowedWithPending(w)
    BY <2>1, <2>2, <2>3 DEF RegistrationSubmitted, UnfollowedWithPending
  <2>4. CASE BookingRequested(w) \/ BookingCancelledByRequester(w)
    BY <2>1, <2>2, <2>4 DEF BookingRequested, BookingCancelledByRequester
  <2>5. CASE DirectBookingCreated(w) \/ FeedbackSubmitted(w) \/ VenueClosed(w)
    BY <2>1, <2>2, <2>5 DEF DirectBookingCreated, FeedbackSubmitted, VenueClosed
  <2>6. CASE \E n \in 0 .. 1 : BookingsExpired(w, n) \/ BookingsAutoRejected(w, n)
    BY <2>1, <2>2, <2>6 DEF BookingsExpired, BookingsAutoRejected
  <2>7. CASE \E i \in TrInstances : \E kind \in {"TRANSIENT", "REJECTED"} :
               LineDeliveryFailed(w, i, kind)
    BY <2>1, <2>2, <2>7 DEF LineDeliveryFailed
  <2>8. CASE \E i \in TrInstances : \E err \in HandlerErrors : ServerError(w, i, err)
    BY <2>1, <2>2, <2>8 DEF ServerError
  <2> QED BY <2>3, <2>4, <2>5, <2>6, <2>7, <2>8
<1>2. CASE TrIgnore(w) /\ OccurRest
  <2>1. trTx' = [trTx EXCEPT ![w] = TrFree]
    BY <1>2 DEF TrIgnore, TrStart, TrSay
  <2>2. lastAnnounced' \in TrVersions /\ UNCHANGED <<trNow, claims, noticed, rises>>
    BY <1>2 DEF OccurRest, TrInvariant, TrTyped, TrDataTyped
  <2> QED BY <2>1, <2>2, Ignores
<1> QED BY <1>1, <1>2, Occurs

LEMMA BootKeeps ==
  ASSUME TrInvariant, NEW w \in TrWorkers, NEW v \in 0 .. LatestVersion, Boot(w, v)
  PROVE  TrInvariant'
<1>1. lastAnnounced' \in TrVersions /\ UNCHANGED <<trNow, claims, noticed, rises>>
  BY DEF Boot, TrInvariant, TrTyped, TrDataTyped
<1>2. CASE v = 0
  <2>1. trTx' = [trTx EXCEPT ![w] = TrFree]
    BY <1>2 DEF Boot, TrStart, TrSay
  <2> QED BY <1>1, <2>1, Ignores
<1>3. CASE v # 0
  <2> DEFINE t == [TrFree EXCEPT !.pc = "read", !.version = v]
  <2>1. t \in TrRequest
    <3>1. \A r \in TrRequest : [r EXCEPT !.pc = "read", !.version = v] \in TrRequest
      BY DEF TrRequest, TrPcs, TrVersions
    <3> QED BY <3>1, FreeFits
  <2>2. TrFits(t) /\ t.pc # "create"
    BY <1>3 DEF TrFits, TrFree
  <2>3. trTx' = [trTx EXCEPT ![w] = t]
    BY <1>3 DEF Boot, TrStart, TrSay
  <2> HIDE DEF t
  <2> QED BY <1>1, <2>1, <2>2, <2>3, Quiet
<1> QED BY <1>2, <1>3

(* What a request may become when it moves on.                             *)
LEMMA MovesOn ==
  ASSUME TrTyped, NEW w \in TrWorkers, NEW p \in TrPcs, NEW s \in Stores,
         NEW n \in TrVersions
  PROVE  /\ trTx[w] \in TrRequest
         /\ [trTx[w] EXCEPT !.pc = p] \in TrRequest
         /\ [trTx[w] EXCEPT !.pc = p, !.store = s] \in TrRequest
         /\ [trTx[w] EXCEPT !.pc = p, !.seen = n] \in TrRequest
<1>1. trTx[w] \in TrRequest
  BY DEF TrTyped
<1>2. \A r \in TrRequest :
        /\ [r EXCEPT !.pc = p] \in TrRequest
        /\ [r EXCEPT !.pc = p, !.store = s] \in TrRequest
        /\ [r EXCEPT !.pc = p, !.seen = n] \in TrRequest
  BY DEF TrRequest
<1> QED BY <1>1, <1>2

LEMMA WorkKeeps ==
  ASSUME TrInvariant, NEW w \in TrWorkers, Work(w)
  PROVE  TrInvariant'
<1>1. lastAnnounced' \in TrVersions /\ UNCHANGED <<trNow, claims, noticed, rises>>
  BY DEF Work, TrRest, TrInvariant, TrTyped, TrDataTyped
<1>2. CASE TrDone(w)
  BY <1>1, <1>2, Ignores DEF TrDone, TrSay
<1>3. CASE TrSay(w, [trTx[w] EXCEPT !.pc = "create"])
  <2> DEFINE t == [trTx[w] EXCEPT !.pc = "create"]
  <2>1. TrTyped /\ "create" \in TrPcs /\ "redis" \in Stores /\ 0 \in TrVersions
    BY TriggerConstants DEF TrInvariant, TrPcs, Stores, TrVersions
  <2>2. t \in TrRequest /\ trTx[w] \in TrRequest
    BY <2>1, MovesOn
  <2>3. t.pc = "create" /\ t.uc = trTx[w].uc /\ t.version = trTx[w].version
    BY <2>2 DEF TrRequest
  <2>4. trTx[w].uc \notin ClaimKeys /\ trTx[w].version = 0
    BY DEF Work, TrInvariant, TrFits
  <2>5. trTx' = [trTx EXCEPT ![w] = t]
    BY <1>3 DEF TrSay
  <2> HIDE DEF t
  <2>6. TrFits(t)
    BY <2>3 DEF TrFits
  <2> QED BY <1>1, <2>2, <2>3, <2>4, <2>5, <2>6, Quiet
<1> QED BY <1>2, <1>3 DEF Work

(* A claim let through pushes the claim on by a window, and so pays for    *)
(* the row it is taken for.                                                *)
LEMMA Grant ==
  ASSUME TrInvariant, NEW w \in TrWorkers, NEW k \in ClaimKeys, NEW s \in Stores,
         NEW t \in TrRequest, TrFits(t), trTx' = [trTx EXCEPT ![w] = t],
         t.pc = "create" => t.uc = k /\ t.store = s /\ t.version = 0 /\ claims[s][k] <= trNow
                              /\ claims'[s][k] = trNow + ClaimTtl,
         claims' \in [Stores -> [ClaimKeys -> Nat]],
         \A z \in Stores : \A j \in ClaimKeys :
           \/ claims'[z][j] = claims[z][j]
           \/ claims[z][j] <= trNow /\ claims'[z][j] = trNow + ClaimTtl,
         UNCHANGED <<trNow, lastAnnounced, noticed, rises>>
  PROVE  TrInvariant'
<1>1. TrTyped /\ TrDataTyped'
  BY DEF TrInvariant, TrTyped, TrDataTyped
<1>2. ClaimTtl \in Nat /\ trNow \in Nat
  BY TriggerConstants DEF TrInvariant, TrTyped, TrDataTyped
<1>3. ClaimsPay
  <2> SUFFICES ASSUME NEW j \in ClaimKeys, NEW z \in Stores
               PROVE  /\ claims'[z][j] <= trNow' + ClaimTtl
                      /\ \/ Count(j, z, 0)' <= Count(j, z, 0) /\ claims'[z][j] >= claims[z][j]
                         \/ /\ Count(j, z, 0)' <= Count(j, z, 0) + 1
                            /\ claims'[z][j] >= claims[z][j] + ClaimTtl
    BY DEF ClaimsPay
  <2>1. claims[z][j] \in Nat /\ claims[z][j] <= trNow + ClaimTtl
    BY DEF TrInvariant, TrTyped, TrDataTyped, WindowsPaid
  <2>2. claims'[z][j] <= trNow' + ClaimTtl /\ claims'[z][j] >= claims[z][j]
    BY <1>2, <2>1
  <2>3. /\ Count(j, z, 0)' <= Count(j, z, 0) + 1
        /\ ~Matches(t, j, z, 0) => Count(j, z, 0)' <= Count(j, z, 0)
    BY <1>1, CountStep
  <2>4. Matches(t, j, z, 0) => claims'[z][j] >= claims[z][j] + ClaimTtl
    BY <1>2, <2>1 DEF Matches
  <2> QED BY <2>2, <2>3, <2>4
<1>4. RisesPay
  <2> SUFFICES ASSUME NEW v \in 1 .. LatestVersion
               PROVE  /\ Count("C2", "redis", v)' <= Count("C2", "redis", v)
                      /\ rises'[v] >= rises[v]
    BY DEF RisesPay
  <2>1. ~Matches(t, "C2", "redis", v)
    BY DEF Matches
  <2>2. Count("C2", "redis", v)' <= Count("C2", "redis", v)
    BY <1>1, <2>1, CountStep
  <2>3. rises[v] \in Nat
    BY TriggerConstants DEF TrInvariant, TrTyped, TrDataTyped, TrVersions
  <2> QED BY <2>2, <2>3
<1> QED BY <1>1, <1>3, <1>4, Put

LEMMA ClaimInRedisKeeps ==
  ASSUME TrInvariant, NEW w \in TrWorkers, ClaimInRedis(w)
  PROVE  TrInvariant'
<1> DEFINE k == trTx[w].uc
           t == [trTx[w] EXCEPT !.pc = "create"]
<1>1. TrTyped /\ "create" \in TrPcs /\ "redis" \in Stores /\ 0 \in TrVersions
  BY TriggerConstants DEF TrInvariant, TrPcs, Stores, TrVersions
<1>2. trTx[w].pc = "claim" /\ UNCHANGED <<trNow, lastAnnounced, noticed, rises>>
  BY DEF ClaimInRedis, TrRest
<1>3. k \in ClaimKeys /\ trTx[w].version = 0 /\ trTx[w].store = "redis"
  BY <1>2 DEF TrInvariant, TrFits
<1>4. claims \in [Stores -> [ClaimKeys -> Nat]] /\ trNow + ClaimTtl \in Nat
      /\ lastAnnounced \in TrVersions
  BY <1>1, TriggerConstants DEF TrTyped, TrDataTyped
<1>5. CASE ClaimFree("redis", k) /\ claims' = Claimed(claims, "redis", k) /\ TrSay(w, t)
  <2>1. t \in TrRequest /\ trTx[w] \in TrRequest
    BY <1>1, MovesOn
  <2>2. t.pc = "create" /\ t.uc = k /\ t.version = 0 /\ t.store = "redis"
    BY <1>3, <2>1 DEF TrRequest
  <2>3. trTx' = [trTx EXCEPT ![w] = t]
    BY <1>5 DEF TrSay
  <2>4. claims["redis"][k] <= trNow
    BY <1>5 DEF ClaimFree
  <2>5. claims' = [claims EXCEPT !["redis"][k] = trNow + ClaimTtl]
    BY <1>5 DEF Claimed
  <2> HIDE DEF t, k
  <2>6. TrFits(t)
    BY <2>2 DEF TrFits
  <2>7. /\ claims' \in [Stores -> [ClaimKeys -> Nat]] /\ claims'["redis"][k] = trNow + ClaimTtl
        /\ \A z \in Stores : \A j \in ClaimKeys :
             \/ claims'[z][j] = claims[z][j]
             \/ claims[z][j] <= trNow /\ claims'[z][j] = trNow + ClaimTtl
    BY <1>1, <1>3, <1>4, <2>4, <2>5
  <2> QED BY <1>1, <1>2, <1>3, <2>1, <2>2, <2>3, <2>4, <2>6, <2>7, Grant
<1>6. CASE TrDone(w) /\ UNCHANGED claims
  BY <1>2, <1>4, <1>6, Ignores DEF TrDone, TrSay
<1> QED BY <1>5, <1>6 DEF ClaimInRedis

LEMMA ClaimLocallyKeeps ==
  ASSUME TrInvariant, NEW w \in TrWorkers, ClaimLocally(w)
  PROVE  TrInvariant'
<1> DEFINE k == trTx[w].uc
           i == trTx[w].inst
           t == [trTx[w] EXCEPT !.pc = "create", !.store = i]
           Spared(held) == \A z \in Stores : \A j \in ClaimKeys :
             \/ held[z][j] = claims[z][j]
             \/ claims[z][j] <= trNow /\ held[z][j] = trNow + ClaimTtl
<1>1. TrTyped /\ "create" \in TrPcs /\ "redis" \in Stores /\ 0 \in TrVersions
  BY TriggerConstants DEF TrInvariant, TrPcs, Stores, TrVersions
<1>2. trTx[w].pc = "claim" /\ UNCHANGED <<trNow, lastAnnounced, noticed, rises>>
  BY DEF ClaimLocally, TrRest
<1>3. k \in ClaimKeys /\ trTx[w].version = 0 /\ trTx[w].store = "redis"
  BY <1>2 DEF TrInvariant, TrFits
<1>4. claims \in [Stores -> [ClaimKeys -> Nat]] /\ trNow + ClaimTtl \in Nat
      /\ lastAnnounced \in TrVersions
  BY <1>1, TriggerConstants DEF TrTyped, TrDataTyped
<1>5. i \in Stores
  <2>1. trTx[w] \in TrRequest
    BY <1>1 DEF TrTyped
  <2> QED BY <2>1 DEF TrRequest
<1>6. PICK held : /\ \/ held = claims
                     \/ ClaimFree("redis", k) /\ held = Claimed(claims, "redis", k)
                  /\ \/ ClaimFree(i, k) /\ claims' = Claimed(held, i, k) /\ TrSay(w, t)
                     \/ ~ClaimFree(i, k) /\ claims' = held /\ TrDone(w)
  BY DEF ClaimLocally
<1>7. held \in [Stores -> [ClaimKeys -> Nat]] /\ Spared(held)
  <2> HIDE DEF k, i, t
  <2>1. CASE held = claims
    BY <1>4, <2>1
  <2>2. CASE ClaimFree("redis", k) /\ held = Claimed(claims, "redis", k)
    <3>1. held = [claims EXCEPT !["redis"][k] = trNow + ClaimTtl] /\ claims["redis"][k] <= trNow
      BY <2>2 DEF ClaimFree, Claimed
    <3> QED BY <1>1, <1>3, <1>4, <3>1
  <2> QED BY <1>6, <2>1, <2>2
<1>8. CASE ClaimFree(i, k) /\ claims' = Claimed(held, i, k) /\ TrSay(w, t)
  <2>1. t \in TrRequest /\ trTx[w] \in TrRequest
    BY <1>1, <1>5, MovesOn
  <2>2. t.pc = "create" /\ t.uc = k /\ t.version = 0 /\ t.store = i
    BY <1>3, <2>1 DEF TrRequest
  <2>3. trTx' = [trTx EXCEPT ![w] = t]
    BY <1>8 DEF TrSay
  <2>4. claims[i][k] <= trNow
    BY <1>8 DEF ClaimFree
  <2>5. claims' = [held EXCEPT ![i][k] = trNow + ClaimTtl]
    BY <1>8 DEF Claimed
  <2> HIDE DEF t, k, i
  <2>6. TrFits(t)
    BY <2>2 DEF TrFits
  <2>7. /\ claims' \in [Stores -> [ClaimKeys -> Nat]] /\ claims'[i][k] = trNow + ClaimTtl
        /\ \A z \in Stores : \A j \in ClaimKeys :
             \/ claims'[z][j] = claims[z][j]
             \/ claims[z][j] <= trNow /\ claims'[z][j] = trNow + ClaimTtl
    BY <1>3, <1>4, <1>5, <1>7, <2>4, <2>5
  <2> QED BY <1>2, <1>3, <1>5, <2>1, <2>2, <2>3, <2>4, <2>6, <2>7, Grant
<1>9. CASE ~ClaimFree(i, k) /\ claims' = held /\ TrDone(w)
  <2> DEFINE f == TrFree
  <2>1. f \in TrRequest /\ TrFits(f) /\ f.pc # "create" /\ trTx' = [trTx EXCEPT ![w] = f]
    BY <1>9, FreeFits DEF TrDone, TrSay
  <2>2. /\ claims' \in [Stores -> [ClaimKeys -> Nat]]
        /\ \A z \in Stores : \A j \in ClaimKeys :
             \/ claims'[z][j] = claims[z][j]
             \/ claims[z][j] <= trNow /\ claims'[z][j] = trNow + ClaimTtl
    BY <1>7, <1>9
  <2> HIDE DEF k, i, f
  <2> QED BY <1>2, <1>3, <1>5, <2>1, <2>2, Grant
<1> QED BY <1>6, <1>8, <1>9

LEMMA CreateKeeps ==
  ASSUME TrInvariant, NEW w \in TrWorkers, CreateNotification(w)
  PROVE  TrInvariant'
<1> DEFINE f == TrFree
<1>1. f \in TrRequest /\ TrFits(f) /\ trTx' = [trTx EXCEPT ![w] = f]
  BY FreeFits DEF CreateNotification, TrDone, TrSay
<1>2. UNCHANGED <<trNow, claims, lastAnnounced, rises>>
  BY DEF CreateNotification, TrRest
<1>3. TrTyped
  BY DEF TrInvariant
<1>4. IsABag(noticed')
  <2>1. CASE noticed' = noticed
    BY <1>3, <2>1 DEF TrTyped, TrDataTyped
  <2>2. CASE noticed' # noticed
    <3>1. PICK x : noticed' = noticed (+) SetToBag({x})
      BY <2>2 DEF CreateNotification
    <3> QED BY <1>3, <3>1, ToldAdded DEF TrTyped, TrDataTyped
  <2> QED BY <2>1, <2>2
<1>5. TrDataTyped'
  BY <1>2, <1>3, <1>4 DEF TrTyped, TrDataTyped
<1>6. \A u, s, v : Count(u, s, v)' <= Count(u, s, v)
  BY <1>3, CountCreated
<1>7. \A k \in ClaimKeys : \A s \in Stores :
        claims[s][k] \in Nat /\ claims[s][k] <= trNow + ClaimTtl
  BY DEF TrInvariant, TrTyped, TrDataTyped, WindowsPaid
<1>8. \A v \in 1 .. LatestVersion : rises[v] \in Nat
  BY TriggerConstants DEF TrInvariant, TrTyped, TrDataTyped, TrVersions
<1>9. ClaimsPay /\ RisesPay
  BY <1>2, <1>6, <1>7, <1>8 DEF ClaimsPay, RisesPay
<1> HIDE DEF f
<1> QED BY <1>1, <1>5, <1>9, Put

LEMMA ReadAnnouncedKeeps ==
  ASSUME TrInvariant, NEW w \in TrWorkers, ReadAnnounced(w)
  PROVE  TrInvariant'
<1>1. trTx[w].pc = "read" /\ UNCHANGED <<trNow, claims, noticed, rises>>
  BY DEF ReadAnnounced, TrRest
<1>2. lastAnnounced \in TrVersions /\ lastAnnounced' = lastAnnounced
  BY DEF ReadAnnounced, TrInvariant, TrTyped, TrDataTyped
<1>3. trTx[w].uc = "C2" /\ trTx[w].store = "redis" /\ trTx[w].version # 0
  BY <1>1 DEF TrInvariant, TrFits
<1>4. TrTyped /\ {"first", "swap"} \subseteq TrPcs /\ "redis" \in Stores /\ 0 \in TrVersions
  BY TriggerConstants DEF TrInvariant, TrPcs, Stores, TrVersions
<1>5. trTx[w] \in TrRequest
  BY <1>4 DEF TrTyped
<1>6. CASE TrDone(w)
  BY <1>1, <1>2, <1>6, Ignores DEF TrDone, TrSay
<1>7. CASE TrSay(w, [trTx[w] EXCEPT !.pc = "first"])
  <2> DEFINE t == [trTx[w] EXCEPT !.pc = "first"]
  <2>1. t \in TrRequest
    BY <1>4, MovesOn
  <2>2. t.pc = "first" /\ t.uc = "C2" /\ t.store = "redis" /\ t.version # 0
    BY <1>3, <1>5 DEF TrRequest
  <2>3. trTx' = [trTx EXCEPT ![w] = t]
    BY <1>7 DEF TrSay
  <2> HIDE DEF t
  <2>4. TrFits(t)
    BY <2>2 DEF TrFits
  <2> QED BY <1>1, <1>2, <2>1, <2>2, <2>3, <2>4, Quiet
<1>8. CASE /\ lastAnnounced \notin {0, trTx[w].version}
           /\ TrSay(w, [trTx[w] EXCEPT !.pc = "swap", !.seen = lastAnnounced])
  <2> DEFINE t == [trTx[w] EXCEPT !.pc = "swap", !.seen = lastAnnounced]
  <2>1. t \in TrRequest
    BY <1>2, <1>4, MovesOn
  <2>2. /\ t.pc = "swap" /\ t.uc = "C2" /\ t.store = "redis" /\ t.version # 0
        /\ t.seen # t.version
    BY <1>3, <1>5, <1>8 DEF TrRequest
  <2>3. trTx' = [trTx EXCEPT ![w] = t]
    BY <1>8 DEF TrSay
  <2> HIDE DEF t
  <2>4. TrFits(t)
    BY <2>2 DEF TrFits
  <2> QED BY <1>1, <1>2, <2>1, <2>2, <2>3, <2>4, Quiet
<1> QED BY <1>6, <1>7, <1>8 DEF ReadAnnounced

LEMMA FirstVersionKeeps ==
  ASSUME TrInvariant, NEW w \in TrWorkers, FirstVersion(w)
  PROVE  TrInvariant'
<1>1. trTx' = [trTx EXCEPT ![w] = TrFree] /\ UNCHANGED <<trNow, claims, noticed, rises>>
  BY DEF FirstVersion, TrDone, TrSay, TrRest
<1>2. trTx[w] \in TrRequest /\ lastAnnounced \in TrVersions
  BY DEF TrInvariant, TrTyped, TrDataTyped
<1>3. lastAnnounced' \in TrVersions
  BY <1>2 DEF FirstVersion, TrRequest
<1> QED BY <1>1, <1>3, Ignores

(* The instance that swaps the stored version for a later one is the only  *)
(* one to have made it rise: the row it will create is paid for.           *)
LEMMA SwapVersionKeeps ==
  ASSUME TrInvariant, NEW w \in TrWorkers, SwapVersion(w)
  PROVE  TrInvariant'
<1>1. trTx[w].pc = "swap" /\ UNCHANGED <<trNow, claims, noticed>>
  BY DEF SwapVersion
<1>2. /\ TrTyped /\ "create" \in TrPcs /\ "redis" \in Stores /\ 0 \in TrVersions
      /\ lastAnnounced \in TrVersions /\ rises \in [TrVersions -> Nat]
  BY TriggerConstants DEF TrInvariant, TrTyped, TrDataTyped, TrPcs, Stores, TrVersions
<1>3. /\ trTx[w].uc = "C2" /\ trTx[w].store = "redis" /\ trTx[w].version # 0
      /\ trTx[w].seen # trTx[w].version
  BY <1>1 DEF TrInvariant, TrFits
<1>4. trTx[w] \in TrRequest
  BY <1>2 DEF TrTyped
<1>5. trTx[w].version \in TrVersions /\ trTx[w].seen \in TrVersions
  BY <1>4 DEF TrRequest
<1>6. CASE TrDone(w) /\ UNCHANGED <<lastAnnounced, rises>>
  BY <1>1, <1>2, <1>6, Ignores DEF TrDone, TrSay
<1>7. CASE /\ StillAnnounced(trTx[w].seen) /\ lastAnnounced' = trTx[w].version
           /\ rises' = IF trTx[w].version > lastAnnounced
                         THEN [rises EXCEPT ![trTx[w].version] = @ + 1] ELSE rises
           /\ IF IsDowngrade(trTx[w].seen, trTx[w].version) THEN TrDone(w)
              ELSE TrSay(w, [trTx[w] EXCEPT !.pc = "create"])
  <2> DEFINE n == trTx[w].version
             t == IF IsDowngrade(trTx[w].seen, n) THEN TrFree
                  ELSE [trTx[w] EXCEPT !.pc = "create"]
  <2>1. lastAnnounced = trTx[w].seen
    BY <1>7 DEF StillAnnounced
  <2>2. trTx' = [trTx EXCEPT ![w] = t]
    BY <1>7 DEF TrDone, TrSay
  <2>3. t \in TrRequest
    BY <1>2, FreeFits, MovesOn
  <2>4. /\ t.pc \in {"free", "create"}
        /\ t.pc = "create" => t.uc = "C2" /\ t.version = n /\ n > lastAnnounced
    <3>1. CASE IsDowngrade(trTx[w].seen, n)
      BY <3>1, FreeFits
    <3>2. CASE ~IsDowngrade(trTx[w].seen, n)
      <4>1. t.pc = "create" /\ t.uc = "C2" /\ t.version = n
        BY <1>3, <1>4, <3>2 DEF TrRequest
      <4>2. n > lastAnnounced
        <5> HIDE DEF n
        <5>1. n # lastAnnounced /\ n \in Nat /\ lastAnnounced \in Nat
          BY <1>2, <1>3, <1>5, <2>1, TriggerConstants DEF TrVersions, n
        <5>2. ~(n < lastAnnounced)
          BY <2>1, <3>2 DEF IsDowngrade
        <5> QED BY <5>1, <5>2
      <4> QED BY <4>1, <4>2
    <3> QED BY <3>1, <3>2
  <2>5. n \in TrVersions /\ lastAnnounced' \in TrVersions
    BY <1>5, <1>7
  <2>6. rises' = IF n > lastAnnounced THEN [rises EXCEPT ![n] = @ + 1] ELSE rises
    BY <1>7
  <2> HIDE DEF t, n
  <2>7. TrFits(t)
    BY <2>4 DEF TrFits
  <2>8. /\ rises' \in [TrVersions -> Nat]
        /\ \A v \in TrVersions : rises'[v] >= rises[v]
        /\ n > lastAnnounced => rises'[n] >= rises[n] + 1
    BY <1>2, <2>5, <2>6
  <2>9. TrDataTyped'
    BY <1>1, <1>2, <2>5, <2>8 DEF TrTyped, TrDataTyped
  <2>10. ClaimsPay
    <3> SUFFICES ASSUME NEW j \in ClaimKeys, NEW z \in Stores
                 PROVE  /\ claims'[z][j] <= trNow' + ClaimTtl
                        /\ Count(j, z, 0)' <= Count(j, z, 0) /\ claims'[z][j] >= claims[z][j]
      BY DEF ClaimsPay
    <3>1. claims[z][j] \in Nat /\ claims[z][j] <= trNow + ClaimTtl
      BY DEF TrInvariant, TrTyped, TrDataTyped, WindowsPaid
    <3>2. ~Matches(t, j, z, 0)
      BY <2>4 DEF Matches, ClaimKeys
    <3>3. Count(j, z, 0)' <= Count(j, z, 0)
      BY <1>1, <1>2, <2>2, <3>2, CountStep
    <3> QED BY <1>1, <3>1, <3>3
  <2>11. RisesPay
    <3> SUFFICES ASSUME NEW v \in 1 .. LatestVersion
                 PROVE  \/ /\ Count("C2", "redis", v)' <= Count("C2", "redis", v)
                           /\ rises'[v] >= rises[v]
                        \/ /\ Count("C2", "redis", v)' <= Count("C2", "redis", v) + 1
                           /\ rises'[v] >= rises[v] + 1
      BY DEF RisesPay
    <3>1. v \in TrVersions
      BY TriggerConstants DEF TrVersions
    <3>2. /\ Count("C2", "redis", v)' <= Count("C2", "redis", v) + 1
          /\ ~Matches(t, "C2", "redis", v) =>
               Count("C2", "redis", v)' <= Count("C2", "redis", v)
      BY <1>1, <1>2, <2>2, CountStep
    <3>3. Matches(t, "C2", "redis", v) => rises'[v] >= rises[v] + 1
      BY <2>4, <2>8 DEF Matches
    <3> QED BY <2>8, <3>1, <3>2, <3>3
  <2> QED BY <2>2, <2>3, <2>7, <2>9, <2>10, <2>11, Put
<1> QED BY <1>6, <1>7 DEF SwapVersion

(* Time, and a step that leaves the requests and the rows alone.           *)
LEMMA TimeKeeps ==
  ASSUME TrInvariant, UNCHANGED <<claims, lastAnnounced, noticed, rises, trTx>>,
         trNow' \in Nat, trNow' >= trNow
  PROVE  TrInvariant'
<1>1. TrTyped /\ TrTyped' /\ trNow \in Nat /\ ClaimTtl \in Nat
  BY TriggerConstants DEF TrInvariant, TrTyped, TrDataTyped
<1>2. \A u, s, v : Count(u, s, v)' = Count(u, s, v)
  BY CountStill
<1>3. \A u, s, v : Count(u, s, v) \in Nat
  BY <1>1, CountNat
<1>4. \A k \in ClaimKeys : \A s \in Stores :
        claims[s][k] \in Nat /\ claims[s][k] <= trNow + ClaimTtl
  BY <1>1 DEF TrInvariant, TrTyped, TrDataTyped, WindowsPaid
<1>5. \A v \in 1 .. LatestVersion : rises[v] \in Nat
  BY TriggerConstants DEF TrInvariant, TrTyped, TrDataTyped, TrVersions
<1>6. ClaimsPay
  BY <1>1, <1>2, <1>3, <1>4 DEF ClaimsPay
<1>7. RisesPay
  BY <1>2, <1>3, <1>5 DEF RisesPay
<1>8. WindowsPaid' /\ RisesPaid'
  BY <1>1, <1>6, <1>7, Paid DEF TrInvariant
<1>9. \A w \in TrWorkers : TrFits(trTx[w])'
  BY DEF TrInvariant, TrFits
<1> QED BY <1>1, <1>8, <1>9 DEF TrInvariant

LEMMA TriggersStart == TrInit => TrInvariant
<1> SUFFICES ASSUME TrInit PROVE TrInvariant
  OBVIOUS
<1>1. IsABag(noticed)
  BY DEF TrInit, EmptyBag, SetToBag, IsABag
<1>2. /\ claims \in [Stores -> [ClaimKeys -> Nat]] /\ rises \in [TrVersions -> Nat]
      /\ trNow \in Nat /\ lastAnnounced \in TrVersions /\ trTx \in [TrWorkers -> TrRequest]
  BY FreeFits, TriggerConstants DEF TrInit, NoClaim, TrVersions
<1>3. TrTyped
  BY <1>1, <1>2 DEF TrTyped, TrDataTyped
<1>4. \A w \in TrWorkers : TrFits(trTx[w]) /\ trTx[w].pc = "free"
  BY FreeFits DEF TrInit
<1>5. \A u, s, v : Count(u, s, v) = 0
  <2> TAKE u, s, v
  <2>1. About(u, s, v) = {}
    BY <1>4 DEF About
  <2>2. ToldOf(u, s, v) = 0
    BY DEF TrInit, EmptyBag, SetToBag, ToldOf, Told, BagIn, BagToSet
  <2>3. Cardinality(About(u, s, v)) = 0
    BY <2>1, FS_EmptySet
  <2> QED BY <2>2, <2>3 DEF Count
<1>6. WindowsPaid
  <2> SUFFICES ASSUME NEW k \in ClaimKeys, NEW s \in Stores
               PROVE  Count(k, s, 0) * ClaimTtl <= claims[s][k] /\ claims[s][k] <= trNow + ClaimTtl
    BY DEF WindowsPaid
  <2>1. claims[s][k] = 0 /\ trNow = 0 /\ ClaimTtl \in Nat
    BY TriggerConstants DEF TrInit, NoClaim
  <2>2. 0 * ClaimTtl = 0
    BY <2>1
  <2> QED BY <1>5, <2>1, <2>2
<1>7. RisesPaid
  BY <1>2, <1>5, TriggerConstants DEF RisesPaid, TrVersions
<1> QED BY <1>3, <1>4, <1>6, <1>7 DEF TrInvariant

LEMMA TriggersNext == TrInvariant /\ [TrNext]_trVars => TrInvariant'
<1> SUFFICES ASSUME TrInvariant, [TrNext]_trVars PROVE TrInvariant'
  OBVIOUS
<1>1. trNow \in Nat
  BY DEF TrInvariant, TrTyped, TrDataTyped
<1>2. CASE RedisFlips \/ TrTick \/ UNCHANGED trVars
  <2>1. UNCHANGED <<claims, lastAnnounced, noticed, rises, trTx>>
    BY <1>2 DEF RedisFlips, TrTick, trVars
  <2>2. trNow' \in Nat /\ trNow' >= trNow
    BY <1>1, <1>2 DEF RedisFlips, TrTick, trVars
  <2> QED BY <2>1, <2>2, TimeKeeps
<1>3. ASSUME NEW w \in TrWorkers,
             \/ RegistrationSubmitted(w) \/ UnfollowedWithPending(w)
             \/ BookingRequested(w) \/ BookingCancelledByRequester(w)
             \/ DirectBookingCreated(w) \/ FeedbackSubmitted(w) \/ VenueClosed(w)
             \/ \E n \in 0 .. 1 : BookingsExpired(w, n) \/ BookingsAutoRejected(w, n)
             \/ \E i \in TrInstances :
                  \/ \E kind \in {"TRANSIENT", "REJECTED"} : LineDeliveryFailed(w, i, kind)
                  \/ \E err \in HandlerErrors : ServerError(w, i, err)
      PROVE  TrInvariant'
  BY <1>3, TriggersKeep
<1>4. ASSUME NEW w \in TrWorkers, NEW v \in 0 .. LatestVersion, Boot(w, v) PROVE TrInvariant'
  BY <1>4, BootKeeps
<1>5. ASSUME NEW w \in TrWorkers,
             Work(w) \/ ClaimInRedis(w) \/ ClaimLocally(w) \/ CreateNotification(w)
      PROVE  TrInvariant'
  BY <1>5, WorkKeeps, ClaimInRedisKeeps, ClaimLocallyKeeps, CreateKeeps
<1>6. ASSUME NEW w \in TrWorkers, ReadAnnounced(w) \/ FirstVersion(w) \/ SwapVersion(w)
      PROVE  TrInvariant'
  BY <1>6, ReadAnnouncedKeeps, FirstVersionKeeps, SwapVersionKeeps
<1> QED BY <1>2, <1>3, <1>4, <1>5, <1>6 DEF TrNext

(* In every state what a claim or a rise of the version allowed is paid    *)
(* for, whatever the number of instances and however often Redis is away.  *)
THEOREM TriggerInvariantHolds == TrSpec => []TrInvariant
BY TriggersStart, TriggersNext, PTL DEF TrSpec

(* NoticesOnce: instances that boot together tell of a version once, and a *)
(* failure is told by one store no oftener than its windows.               *)
THEOREM NoticesToldOnce == TrSpec => []NoticesOnce
<1>1. TrInvariant => NoticesOnce
  <2> SUFFICES ASSUME TrInvariant PROVE NoticesOnce
    OBVIOUS
  <2>1. TrTyped
    BY DEF TrInvariant
  <2>2. \A u, s, v : Count(u, s, v) \in Nat /\ ToldOf(u, s, v) \in Nat
    BY <2>1, CountNat, ToldNat DEF TrTyped, TrDataTyped
  <2>3. \A u, s, v : ToldOf(u, s, v) <= Count(u, s, v)
    <3> TAKE u, s, v
    <3>1. IsFiniteSet(About(u, s, v))
      BY TriggerConstants, FS_Subset DEF About
    <3>2. Cardinality(About(u, s, v)) \in Nat
      BY <3>1, FS_CardinalityType
    <3> QED BY <2>2, <3>2 DEF Count
  <2>4. VersionToldOnce
    <3> SUFFICES ASSUME NEW v \in 1 .. LatestVersion PROVE ToldOf("C2", "redis", v) <= rises[v]
      BY DEF VersionToldOnce
    <3>1. rises[v] \in Nat
      BY <2>1, TriggerConstants DEF TrTyped, TrDataTyped, TrVersions
    <3>2. Count("C2", "redis", v) <= rises[v]
      BY DEF TrInvariant, RisesPaid
    <3> QED BY <2>2, <2>3, <3>1, <3>2
  <2>5. ToldOncePerWindow
    <3> SUFFICES ASSUME NEW k \in ClaimKeys, NEW s \in Stores
                 PROVE  ToldOf(k, s, 0) * ClaimTtl <= trNow + ClaimTtl
      BY DEF ToldOncePerWindow
    <3>1. claims[s][k] \in Nat /\ trNow \in Nat /\ ClaimTtl \in Nat
      BY <2>1, TriggerConstants DEF TrTyped, TrDataTyped
    <3>2. Count(k, s, 0) * ClaimTtl <= claims[s][k] /\ claims[s][k] <= trNow + ClaimTtl
      BY DEF TrInvariant, WindowsPaid
    <3>3. ToldOf(k, s, 0) * ClaimTtl <= claims[s][k]
      BY <2>2, <2>3, <3>1, <3>2, WindowAdded
    <3>4. ToldOf(k, s, 0) * ClaimTtl \in Nat
      BY <2>2, <3>1
    <3> QED BY <3>1, <3>2, <3>3, <3>4
  <2> QED BY <2>4, <2>5 DEF NoticesOnce
<1> QED BY <1>1, TriggerInvariantHolds, PTL

(***************************************************************************)
(* Incidents.                                                              *)
(***************************************************************************)
Records == SUBSET Nat
WindowType == [there : BOOLEAN, over : BOOLEAN, count : 0 .. SignatureLimit, held : Records]
CountsType == [req : Nat, err : Nat]
ContextType == [open : BOOLEAN, counted : BOOLEAN, drafts : Seq(Nat)]
IncLogType == [seq : Nat, seen : SUBSET Nat, sent : SUBSET Records, stored : SUBSET Records,
               capped : SUBSET Nat, overflows : Nat]

LogTyped ==
  /\ incLog \in IncLogType /\ IsFiniteSet(incLog.seen) /\ IsFiniteSet(incLog.sent)
BufferTyped ==
  /\ fifo \in Seq(Records) /\ flight \in SUBSET Records
  /\ flush \in [pc : {"off", "next", "add"}, rec : Records]
  /\ flush.pc = "add" => fifo # <<>>
RequestsTyped ==
  /\ ctx \in [IncRequests -> ContextType] /\ signature \in WindowType
  /\ \A q \in IncRequests : ~ctx[q].open => ctx[q].drafts = <<>>
RedisTyped ==
  /\ upstream \in [ready : BOOLEAN, downRecorded : BOOLEAN] /\ incLeft \in Nat
  /\ metric \in [redis : CountsType, pending : CountsType, pipes : Seq(CountsType)]
RingEntry == [no : Nat, of : Records, age : 0 .. 2]
RingTyped == ring \in Seq(RingEntry)
IncTyped == LogTyped /\ BufferTyped /\ RequestsTyped /\ RedisTyped /\ RingTyped

(* Where an occurrence is.                                                 *)
Drafted(o) == \E q \in IncRequests : o \in Range(ctx[q].drafts)
Recorded(o) == o \in signature.held \/ \E r \in incLog.sent : o \in r
OccurrencesKept ==
  \A o : o \in incLog.seen <=> Drafted(o) \/ Recorded(o) \/ o \in incLog.capped

(* A flush adds the head of the buffer, and then shifts the head.  When    *)
(* the one it adds was dropped for lack of room in between, the overflow   *)
(* that was counted for it pays for the one that is shifted.               *)
Missing == incLog.sent \ (incLog.stored \cup flight \cup Range(fifo))
HeadDropped == flush.pc = "add" /\ fifo[1] # flush.rec
MissingPaid ==
  IF HeadDropped THEN Cardinality(Missing \ {flush.rec}) < incLog.overflows
  ELSE Cardinality(Missing) <= incLog.overflows

RingKept ==
  /\ detail = {ring[i].no : i \in DOMAIN ring} /\ Len(ring) <= IncidentCap
  /\ \A i \in DOMAIN ring : ring[i].no < incLog.seq
  /\ \A i, j \in DOMAIN ring : ring[i].no = ring[j].no => i = j
CountersKept ==
  /\ metric.redis.err <= metric.redis.req /\ metric.pending.err <= metric.pending.req
  /\ \A i \in DOMAIN metric.pipes : metric.pipes[i].err <= metric.pipes[i].req
IncInvariant == IncTyped /\ OccurrencesKept /\ MissingPaid /\ RingKept /\ CountersKept

-----------------------------------------------------------------------------
(* A function takes no more values than it has arguments.                  *)
LEMMA FewValues ==
  ASSUME NEW f, IsFiniteSet(DOMAIN f), f = [x \in DOMAIN f |-> f[x]]
  PROVE  /\ IsFiniteSet(Range(f)) /\ Cardinality(Range(f)) <= Cardinality(DOMAIN f)
<1>1. f \in Surjection(DOMAIN f, Range(f))
  BY DEF Surjection, Range
<1> QED BY <1>1, FS_Surjection

(* What a full buffer drops: no more than it counts, its head first.       *)
LEMMA SuffixIs ==
  ASSUME NEW T, NEW s \in Seq(T), NEW n \in Nat, n = Len(s), NEW v \in Nat, v <= n
  PROVE  /\ SubSeq(s, v + 1, n) \in Seq(T) /\ Len(SubSeq(s, v + 1, n)) = n - v
         /\ \A i \in 1 .. n - v : SubSeq(s, v + 1, n)[i] = s[v + i]
<1>1. Len(SubSeq(s, v + 1, n)) = n - v
  OBVIOUS
<1>2. \A i \in 1 .. n - v : SubSeq(s, v + 1, n)[i] = s[v + i]
  <2> SUFFICES ASSUME NEW i \in 1 .. n - v PROVE SubSeq(s, v + 1, n)[i] = s[v + i]
    OBVIOUS
  <2>1. SubSeq(s, v + 1, n)[i] = s[(v + 1) + i - 1]
    OBVIOUS
  <2>2. (v + 1) + i - 1 = v + i
    OBVIOUS
  <2> QED BY <2>1, <2>2
<1>3. SubSeq(s, v + 1, n) \in Seq(T)
  OBVIOUS
<1> QED BY <1>1, <1>2, <1>3

LEMMA PushDrops ==
  ASSUME IncidentConstants, BufferTyped, NEW records \in Seq(Records),
         NEW p, p = PushFifo(records)
  PROVE  /\ p.fifo \in Seq(Records) /\ p.over \in Nat
         /\ fifo # <<>> => p.fifo # <<>>
         /\ p.over = 0 /\ fifo # <<>> => p.fifo[1] = fifo[1]
         /\ \E D : /\ IsFiniteSet(D) /\ Cardinality(D) <= p.over
                   /\ Range(fifo) \cup Range(records) \subseteq Range(p.fifo) \cup D
                   /\ fifo # <<>> /\ p.over > 0 =>
                        /\ IsFiniteSet(D \ {fifo[1]}) /\ Cardinality(D \ {fifo[1]}) < p.over
<1> DEFINE all == fifo \o records
<1>1. /\ all \in Seq(Records) /\ IncidentFifo \in Nat \ {0} /\ Len(all) = Len(fifo) + Len(records)
  BY DEF BufferTyped, IncidentConstants
<1>2. PICK over \in Nat :
        /\ p.over = over /\ p.fifo = SubSeq(all, over + 1, Len(all))
        /\ over <= Len(all) /\ (Len(all) > 0 => over < Len(all))
  <2>1. /\ p.over = (IF Len(all) > IncidentFifo THEN Len(all) - IncidentFifo ELSE 0)
        /\ p.fifo = SubSeq(all, p.over + 1, Len(all))
    BY DEF PushFifo
  <2> HIDE DEF all
  <2>2. PICK n \in Nat : n = Len(all)
    BY <1>1
  <2>3. PICK m \in Nat \ {0} : m = IncidentFifo
    BY <1>1
  <2>4. p.over = (IF n > m THEN n - m ELSE 0)
    BY <2>1, <2>2, <2>3
  <2>5. p.over \in Nat /\ p.over <= n /\ (n > 0 => p.over < n)
    BY <2>4
  <2> QED BY <2>1, <2>2, <2>5
<1>3. over \in Nat /\ over <= Len(all) /\ (Len(all) > 0 => over < Len(all))
  BY <1>2
<1>4. /\ p.fifo \in Seq(Records) /\ Len(p.fifo) = Len(all) - over
      /\ \A i \in 1 .. Len(p.fifo) : p.fifo[i] = all[over + i]
  <2> HIDE DEF all
  <2>1. PICK s \in Seq(Records) : s = all
    BY <1>1
  <2>2. PICK n \in Nat : n = Len(s)
    OBVIOUS
  <2>3. /\ SubSeq(s, over + 1, n) \in Seq(Records) /\ Len(SubSeq(s, over + 1, n)) = n - over
        /\ \A i \in 1 .. n - over : SubSeq(s, over + 1, n)[i] = s[over + i]
    BY <2>1, <2>2, <1>2, SuffixIs
  <2> QED BY <2>1, <2>2, <2>3, <1>2
<1>5. \A i \in 1 .. Len(p.fifo) : p.fifo[i] = all[over + i]
  BY <1>4
<1>6. fifo # <<>> => Len(all) > 0 /\ fifo[1] = all[1]
  BY <1>1 DEF BufferTyped
<1>7. fifo # <<>> => p.fifo # <<>>
  BY <1>3, <1>4, <1>6
<1>8. over = 0 /\ fifo # <<>> => p.fifo[1] = fifo[1]
  <2> SUFFICES ASSUME over = 0, fifo # <<>> PROVE p.fifo[1] = fifo[1]
    OBVIOUS
  <2>1. 1 \in 1 .. Len(p.fifo) /\ p.fifo[1] = all[over + 1]
    BY <1>1, <1>3, <1>4, <1>5, <1>6
  <2> QED BY <2>1, <1>6
<1> DEFINE f == [i \in 1 .. over |-> all[i]]
           g == [i \in 2 .. over |-> all[i]]
           D == Range(f)
<1>9. /\ IsFiniteSet(1 .. over) /\ Cardinality(1 .. over) = over
      /\ IsFiniteSet(2 .. over) /\ (over > 0 => Cardinality(2 .. over) = over - 1)
  <2>1. over \in Int /\ 1 \in Int /\ 2 \in Int
    OBVIOUS
  <2>2. IsFiniteSet(1 .. over) /\ Cardinality(1 .. over) = IF 1 > over THEN 0 ELSE over - 1 + 1
    BY <2>1, FS_Interval, Zenon
  <2>3. IsFiniteSet(2 .. over) /\ Cardinality(2 .. over) = IF 2 > over THEN 0 ELSE over - 2 + 1
    BY <2>1, FS_Interval, Zenon
  <2> QED BY <2>2, <2>3
<1>10. IsFiniteSet(D) /\ Cardinality(D) <= over
  <2>1. DOMAIN f = 1 .. over /\ f = [x \in DOMAIN f |-> f[x]]
    OBVIOUS
  <2> QED BY <2>1, <1>9, FewValues
<1>11. Range(fifo) \cup Range(records) \subseteq Range(p.fifo) \cup D
  <2> SUFFICES ASSUME NEW r \in Range(fifo) \cup Range(records)
               PROVE  r \in Range(p.fifo) \cup D
    OBVIOUS
  <2>1. PICK i \in 1 .. Len(all) : r = all[i]
    <3>1. CASE r \in Range(fifo)
      <4>1. PICK i \in 1 .. Len(fifo) : r = fifo[i]
        BY <3>1 DEF Range, BufferTyped
      <4>2. i \in 1 .. Len(all) /\ all[i] = fifo[i]
        BY <4>1, <1>1 DEF BufferTyped
      <4> QED BY <4>1, <4>2
    <3>2. CASE r \in Range(records)
      <4>1. PICK i \in 1 .. Len(records) : r = records[i]
        BY <3>2 DEF Range
      <4>2. Len(fifo) + i \in 1 .. Len(all) /\ all[Len(fifo) + i] = records[i]
        BY <4>1, <1>1 DEF BufferTyped
      <4> QED BY <4>1, <4>2
    <3> QED BY <3>1, <3>2
  <2>2. CASE i <= over
    <3>1. i \in DOMAIN f /\ f[i] = r
      BY <2>1, <2>2, <1>3
    <3> QED BY <3>1 DEF Range
  <2>3. CASE ~(i <= over)
    <3>1. PICK m \in Nat : m = Len(all)
      BY <1>1
    <3>2. i - over \in 1 .. m - over /\ over + (i - over) = i
      BY <3>1, <2>1, <2>3
    <3>4. p.fifo[i - over] = all[over + (i - over)]
      BY <3>1, <3>2, <1>4
    <3>5. DOMAIN p.fifo = 1 .. m - over
      BY <3>1, <1>4
    <3>3. i - over \in DOMAIN p.fifo /\ p.fifo[i - over] = r
      BY <3>2, <3>4, <3>5, <2>1
    <3> QED BY <3>3 DEF Range
  <2> QED BY <2>2, <2>3
<1>12. ASSUME fifo # <<>>, over > 0
       PROVE  IsFiniteSet(D \ {fifo[1]}) /\ Cardinality(D \ {fifo[1]}) < over
  <2>1. DOMAIN g = 2 .. over /\ g = [x \in DOMAIN g |-> g[x]]
    OBVIOUS
  <2> HIDE DEF g
  <2>2. IsFiniteSet(Range(g)) /\ Cardinality(Range(g)) <= over - 1
    BY <2>1, <1>9, <1>12, FewValues
  <2> USE DEF g
  <2>3. D \ {fifo[1]} \subseteq Range(g)
    <3> SUFFICES ASSUME NEW r \in D, r # fifo[1] PROVE r \in Range(g)
      OBVIOUS
    <3>1. PICK i \in 1 .. over : r = all[i]
      BY DEF Range
    <3>2. i \in 2 .. over
      BY <3>1, <1>3, <1>6, <1>12
    <3>3. i \in DOMAIN g /\ g[i] = r
      BY <3>1, <3>2
    <3> QED BY <3>3 DEF Range
  <2>4. IsFiniteSet(D \ {fifo[1]}) /\ Cardinality(D \ {fifo[1]}) <= Cardinality(Range(g))
    BY <2>2, <2>3, FS_Subset
  <2>5. Cardinality(Range(g)) \in Nat /\ Cardinality(D \ {fifo[1]}) \in Nat
    BY <2>2, <2>4, FS_CardinalityType
  <2> HIDE DEF D, g
  <2>6. PICK c \in Nat : c = Cardinality(D \ {fifo[1]})
    BY <2>5
  <2>7. PICK d \in Nat : d = Cardinality(Range(g))
    BY <2>5
  <2>8. c <= d /\ d <= over - 1
    BY <2>2, <2>4, <2>6, <2>7
  <2>9. c < over
    BY <2>8
  <2> QED BY <2>4, <2>6, <2>9
<1> HIDE DEF D
<1> QED BY <1>2, <1>3, <1>4, <1>7, <1>8, <1>10, <1>11, <1>12

LEMMA AtMostBoth ==
  ASSUME NEW S, NEW D, IsFiniteSet(S), IsFiniteSet(D), NEW T \in SUBSET (S \cup D)
  PROVE  /\ IsFiniteSet(T) /\ Cardinality(T) \in Nat
         /\ Cardinality(S) \in Nat /\ Cardinality(D) \in Nat
         /\ Cardinality(T) <= Cardinality(S) + Cardinality(D)
<1>1. /\ IsFiniteSet(S \cup D)
      /\ Cardinality(S \cup D) = Cardinality(S) + Cardinality(D) - Cardinality(S \cap D)
  BY FS_Union
<1>2. IsFiniteSet(S \cap D)
  BY FS_Intersection
<1>3. IsFiniteSet(T) /\ Cardinality(T) <= Cardinality(S \cup D)
  BY <1>1, FS_Subset
<1>4. /\ Cardinality(S) \in Nat /\ Cardinality(D) \in Nat /\ Cardinality(T) \in Nat
      /\ Cardinality(S \cap D) \in Nat /\ Cardinality(S \cup D) \in Nat
  BY <1>1, <1>2, <1>3, FS_CardinalityType
<1> QED BY <1>1, <1>3, <1>4

(* What is missing when nothing leaves the buffer.                         *)
LEMMA NothingLost ==
  ASSUME LogTyped, MissingPaid, Missing' \subseteq Missing,
         UNCHANGED <<fifo, flush>>, incLog'.overflows = incLog.overflows
  PROVE  MissingPaid'
<1>1. IsFiniteSet(Missing) /\ IsFiniteSet(Missing \ {flush.rec})
  BY FS_Difference DEF LogTyped, Missing
<1>2. Missing' \ {flush.rec} \subseteq Missing \ {flush.rec}
  OBVIOUS
<1> DEFINE A == Missing'
           B == Missing' \ {flush.rec}
<1>3. /\ IsFiniteSet(A) /\ Cardinality(A) <= Cardinality(Missing)
      /\ IsFiniteSet(B) /\ Cardinality(B) <= Cardinality(Missing \ {flush.rec})
  BY <1>1, <1>2, FS_Subset
<1>4. /\ Cardinality(A) \in Nat /\ Cardinality(Missing) \in Nat
      /\ Cardinality(B) \in Nat /\ Cardinality(Missing \ {flush.rec}) \in Nat
  BY <1>1, <1>3, FS_CardinalityType
<1>5. incLog.overflows \in Nat
  BY DEF LogTyped, IncLogType
<1>6. MissingPaid' <=> IF HeadDropped THEN Cardinality(B) < incLog.overflows
                       ELSE Cardinality(A) <= incLog.overflows
  BY DEF MissingPaid, HeadDropped
<1> HIDE DEF A, B
<1> QED BY <1>3, <1>4, <1>5, <1>6 DEF MissingPaid

(* What is missing when records are pushed: what the buffer drops is paid  *)
(* for, and when it drops what a flush is adding, that is paid for ahead.  *)
LEMMA DroppedPaid ==
  ASSUME IncidentConstants, LogTyped, BufferTyped, MissingPaid, LogTyped',
         NEW records \in Seq(Records), UNCHANGED flush,
         fifo' = PushFifo(records).fifo,
         incLog'.overflows = incLog.overflows + PushFifo(records).over,
         incLog'.sent \subseteq incLog.sent \cup Range(records),
         incLog.stored \subseteq incLog'.stored,
         flight \subseteq flight' \cup Range(records)
  PROVE  MissingPaid' /\ fifo' \in Seq(Records) /\ (fifo # <<>> => fifo' # <<>>)
<1> DEFINE p == PushFifo(records)
           r == flush.rec
<1>1. /\ p.fifo \in Seq(Records) /\ p.over \in Nat
      /\ fifo # <<>> => p.fifo # <<>>
      /\ p.over = 0 /\ fifo # <<>> => p.fifo[1] = fifo[1]
      /\ \E D : /\ IsFiniteSet(D) /\ Cardinality(D) <= p.over
                /\ Range(fifo) \cup Range(records) \subseteq Range(p.fifo) \cup D
                /\ fifo # <<>> /\ p.over > 0 =>
                     /\ IsFiniteSet(D \ {fifo[1]}) /\ Cardinality(D \ {fifo[1]}) < p.over
  BY PushDrops
<1>2. PICK D : /\ IsFiniteSet(D) /\ Cardinality(D) <= p.over
               /\ Range(fifo) \cup Range(records) \subseteq Range(p.fifo) \cup D
               /\ fifo # <<>> /\ p.over > 0 =>
                    /\ IsFiniteSet(D \ {fifo[1]}) /\ Cardinality(D \ {fifo[1]}) < p.over
  BY <1>1
<1>3. PICK n \in Nat : n = p.over
  BY <1>1
<1>4. PICK v \in Nat : v = incLog.overflows
  BY DEF LogTyped, IncLogType
<1> DEFINE M == Missing'
<1>5. M \subseteq Missing \cup D
  BY <1>2 DEF Missing
<1>6. IsFiniteSet(Missing) /\ IsFiniteSet(Missing \ {r}) /\ IsFiniteSet(M)
  BY FS_Difference DEF LogTyped, Missing
<1>7. MissingPaid' <=> IF flush.pc = "add" /\ p.fifo[1] # r
                       THEN Cardinality(M \ {r}) < v + n ELSE Cardinality(M) <= v + n
  BY <1>3, <1>4 DEF MissingPaid, HeadDropped
<1>10. fifo' \in Seq(Records) /\ (fifo # <<>> => fifo' # <<>>)
  BY <1>1
<1> HIDE DEF M, p
<1>8. ASSUME HeadDropped PROVE MissingPaid'
  <2>1. PICK c \in Nat : c = Cardinality(Missing \ {r}) /\ c < v
    BY <1>4, <1>6, <1>8, FS_CardinalityType DEF MissingPaid
  <2>2. M \ {r} \in SUBSET ((Missing \ {r}) \cup D)
    BY <1>5
  <2>7. /\ Cardinality(M \ {r}) \in Nat /\ Cardinality(D) \in Nat
        /\ Cardinality(M \ {r}) <= Cardinality(Missing \ {r}) + Cardinality(D)
    BY <1>2, <1>6, <2>2, AtMostBoth
  <2>3. PICK m, d \in Nat : m = Cardinality(M \ {r}) /\ d = Cardinality(D) /\ m <= c + d
    BY <2>1, <2>7
  <2>8. d <= n
    BY <1>2, <1>3, <2>3
  <2>4. m < v + n
    BY <2>1, <2>3, <2>8
  <2>5. CASE p.fifo[1] # r
    BY <1>7, <2>3, <2>4, <2>5, <1>8 DEF HeadDropped
  <2>6. CASE p.fifo[1] = r
    <3>1. p.fifo # <<>>
      BY <1>1, <1>8 DEF HeadDropped, BufferTyped
    <3>2. 1 \in DOMAIN p.fifo
      BY <3>1, <1>1
    <3>3. r \in Range(p.fifo)
      BY <3>2, <2>6 DEF Range
    <3>4. M \ {r} = M
      BY <3>3 DEF M, Missing, p
    <3>7. Cardinality(M) = m
      BY <3>4, <2>3, Zenon
    <3>5. Cardinality(M) = m /\ m <= v + n
      BY <3>7, <2>3, <2>4
    <3>6. MissingPaid' <=> Cardinality(M) <= v + n
      BY <1>7, <2>6
    <3> QED BY <3>5, <3>6
  <2> QED BY <2>5, <2>6
<1>9. ASSUME ~HeadDropped PROVE MissingPaid'
  <2>1. PICK c \in Nat : c = Cardinality(Missing) /\ c <= v
    BY <1>4, <1>6, <1>9, FS_CardinalityType DEF MissingPaid
  <2>5. /\ Cardinality(M) \in Nat /\ Cardinality(D) \in Nat
        /\ Cardinality(M) <= Cardinality(Missing) + Cardinality(D)
    BY <1>2, <1>5, <1>6, AtMostBoth
  <2>2. PICK m, d \in Nat : m = Cardinality(M) /\ d = Cardinality(D) /\ m <= c + d
    BY <2>1, <2>5
  <2>6. d <= n
    BY <1>2, <1>3, <2>2
  <2>3. m <= v + n
    BY <2>1, <2>2, <2>6
  <2>4. ASSUME flush.pc = "add", p.fifo[1] # r PROVE Cardinality(M \ {r}) < v + n
    <3>1. fifo # <<>> /\ fifo[1] = r
      BY <1>9, <2>4 DEF HeadDropped, BufferTyped
    <3>2. n > 0
      BY <1>1, <1>3, <2>4, <3>1
    <3>3. PICK E : E = D \ {r}
      OBVIOUS
    <3>4. IsFiniteSet(E) /\ Cardinality(E) < n
      BY <1>2, <1>3, <3>1, <3>2, <3>3
    <3>5. M \ {r} \in SUBSET (Missing \cup E)
      BY <1>5, <3>3
    <3>6. /\ Cardinality(M \ {r}) \in Nat /\ Cardinality(E) \in Nat
          /\ Cardinality(M \ {r}) <= Cardinality(Missing) + Cardinality(E)
      BY <1>6, <3>4, <3>5, AtMostBoth
    <3>7. PICK k, e \in Nat : k = Cardinality(M \ {r}) /\ e = Cardinality(E) /\ k <= c + e
      BY <2>1, <3>6
    <3>8. e < n
      BY <3>4, <3>7
    <3> QED BY <2>1, <3>7, <3>8
  <2> QED BY <1>7, <2>2, <2>3, <2>4
<1> QED BY <1>8, <1>9, <1>10

LEMMA SendAccounts ==
  ASSUME IncidentConstants, LogTyped, BufferTyped, MissingPaid, UNCHANGED flush,
         NEW records \in Seq(Records), NEW g \in IncLogType, IsFiniteSet(g.seen),
         g.sent = incLog.sent, g.stored = incLog.stored, g.overflows = incLog.overflows,
         Send(records, g)
  PROVE  /\ LogTyped' /\ BufferTyped' /\ MissingPaid'
         /\ incLog'.sent = incLog.sent \cup Range(records)
         /\ incLog'.seen = g.seen /\ incLog'.capped = g.capped
         /\ incLog'.stored = g.stored /\ incLog'.seq = g.seq
<1>1. IsFiniteSet(Range(records)) /\ Range(records) \subseteq Records
  <2>3. Range(records) \subseteq Records
    BY DEF Range
  <2>1. IsFiniteSet(DOMAIN records)
    <3>1. PICK n \in Nat : n = Len(records)
      OBVIOUS
    <3>2. DOMAIN records = 1 .. n /\ 1 \in Int /\ n \in Int
      BY <3>1
    <3> QED BY <3>2, FS_Interval, Zenon
  <2>2. records = [i \in DOMAIN records |-> records[i]]
    OBVIOUS
  <2> QED BY <2>1, <2>2, <2>3, FewValues
<1>2. /\ g.sent \cup Range(records) \in SUBSET Records
      /\ IsFiniteSet(g.sent \cup Range(records))
  BY <1>1, FS_Union DEF LogTyped, IncLogType
<1>3. CASE RedisIsReady
  <2>1. /\ flight' = flight \cup Range(records) /\ UNCHANGED fifo
        /\ incLog' = [g EXCEPT !.sent = @ \cup Range(records)]
    BY <1>3 DEF Send
  <2>2. /\ incLog'.sent = g.sent \cup Range(records) /\ incLog'.overflows = g.overflows
        /\ incLog'.seen = g.seen /\ incLog'.capped = g.capped
        /\ incLog'.stored = g.stored /\ incLog'.seq = g.seq /\ incLog' \in IncLogType
    BY <2>1, <1>2 DEF IncLogType
  <2>3. LogTyped' /\ BufferTyped'
    BY <2>1, <2>2, <1>1, <1>2 DEF LogTyped, BufferTyped
  <2>4. Missing' \subseteq Missing
    BY <2>1, <2>2 DEF Missing
  <2> QED BY <2>1, <2>2, <2>3, <2>4, NothingLost
<1>4. CASE ~RedisIsReady
  <2>1. /\ fifo' = PushFifo(records).fifo /\ UNCHANGED flight
        /\ incLog' = [g EXCEPT !.sent = @ \cup Range(records),
                              !.overflows = @ + PushFifo(records).over]
    BY <1>4 DEF Send
  <2>2. PushFifo(records).over \in Nat
    BY PushDrops
  <2>7. PICK n \in Nat : n = PushFifo(records).over
    BY <2>2
  <2>8. g.overflows + n \in Nat
    BY <2>7 DEF IncLogType
  <2>9. PICK m \in Nat : m = g.overflows + n
    BY <2>8
  <2>10. incLog' = [g EXCEPT !.sent = g.sent \cup Range(records), !.overflows = m]
    BY <2>1, <2>7, <2>9
  <2>3. /\ incLog'.sent = g.sent \cup Range(records)
        /\ incLog'.overflows = g.overflows + PushFifo(records).over
        /\ incLog'.seen = g.seen /\ incLog'.capped = g.capped
        /\ incLog'.stored = g.stored /\ incLog'.seq = g.seq /\ incLog' \in IncLogType
    BY <2>7, <2>9, <2>10, <1>2 DEF IncLogType
  <2>4. LogTyped'
    BY <2>3, <1>2 DEF LogTyped
  <2>5. MissingPaid' /\ fifo' \in Seq(Records) /\ (fifo # <<>> => fifo' # <<>>)
    BY <2>1, <2>3, <2>4, DroppedPaid
  <2>6. BufferTyped'
    BY <2>1, <2>5 DEF BufferTyped
  <2> QED BY <2>3, <2>4, <2>5, <2>6
<1> QED BY <1>3, <1>4

LEMMA RangeOfBoth ==
  ASSUME NEW S, NEW s \in Seq(S), NEW t \in Seq(S)
  PROVE  Range(s \o t) = Range(s) \cup Range(t)
<1>1. /\ Len(s) \in Nat /\ Len(t) \in Nat /\ Len(s \o t) = Len(s) + Len(t)
      /\ \A i \in 1 .. Len(s) : (s \o t)[i] = s[i]
      /\ \A i \in 1 .. Len(t) : (s \o t)[Len(s) + i] = t[i]
      /\ DOMAIN s = 1 .. Len(s) /\ DOMAIN t = 1 .. Len(t)
      /\ DOMAIN (s \o t) = 1 .. Len(s) + Len(t)
  OBVIOUS
<1>2. ASSUME NEW x \in Range(s \o t) PROVE x \in Range(s) \cup Range(t)
  <2>1. PICK i \in 1 .. Len(s) + Len(t) : x = (s \o t)[i]
    BY <1>1 DEF Range
  <2>2. CASE i <= Len(s)
    BY <2>1, <2>2, <1>1 DEF Range
  <2>3. CASE ~(i <= Len(s))
    <3>1. i - Len(s) \in 1 .. Len(t) /\ Len(s) + (i - Len(s)) = i
      BY <2>1, <2>3, <1>1
    <3>2. x = t[i - Len(s)]
      BY <3>1, <2>1, <1>1
    <3> QED BY <3>1, <3>2, <1>1 DEF Range
  <2> QED BY <2>2, <2>3
<1>3. ASSUME NEW x \in Range(s) PROVE x \in Range(s \o t)
  <2>1. PICK i \in 1 .. Len(s) : x = s[i]
    BY <1>1 DEF Range
  <2>2. i \in DOMAIN (s \o t) /\ x = (s \o t)[i]
    BY <2>1, <1>1
  <2> QED BY <2>2 DEF Range
<1>4. ASSUME NEW x \in Range(t) PROVE x \in Range(s \o t)
  <2>1. PICK i \in 1 .. Len(t) : x = t[i]
    BY <1>1 DEF Range
  <2>2. Len(s) + i \in DOMAIN (s \o t) /\ x = (s \o t)[Len(s) + i]
    BY <2>1, <1>1
  <2> QED BY <2>2 DEF Range
<1> QED BY <1>2, <1>3, <1>4

(* What is admitted is sent or held back, and so is what was held before.  *)
LEMMA AdmitKeeps ==
  ASSUME IncidentConstants, signature \in WindowType, NEW records \in Seq(Records)
  PROVE  LET a == Admit(records) IN
         /\ a.sig \in WindowType /\ a.send \in Seq(Records)
         /\ \A o : (o \in a.sig.held \/ \E r \in Range(a.send) : o \in r)
                     <=> (o \in signature.held \/ \E r \in Range(records) : o \in r)
<1> DEFINE fresh == ~signature.there \/ signature.over
           before == IF fresh THEN NoWindow ELSE signature
           early == IF fresh THEN EmitSuppressed(signature) ELSE <<>>
<1>1. PICK n \in Nat : n = Len(records)
  OBVIOUS
<1>2. PICK k \in Nat : k = before.count /\ k <= SignatureLimit
  BY DEF WindowType, NoWindow, IncidentConstants
<1>3. PICK l \in Nat : l = SignatureLimit
  BY DEF IncidentConstants
<1> DEFINE count == IF k + n < l THEN k + n ELSE l
           sent == count - k
           late == UNION {records[i] : i \in sent + 1 .. Len(records)}
<1>4. /\ Admit(records).sig = [there |-> TRUE, over |-> FALSE, count |-> count,
                              held |-> before.held \cup late]
      /\ Admit(records).send = early \o SubSeq(records, 1, sent)
  BY <1>1, <1>2, <1>3 DEF Admit
<1>5. sent \in Nat /\ sent <= n /\ count \in 0 .. l
  <2>1. k <= l
    BY <1>2, <1>3
  <2> QED BY <2>1
<1>6. before.held \in Records /\ early \in Seq(Records)
  <2>1. signature.held \in Records /\ {} \in Records
    BY DEF WindowType, Records
  <2>2. before.held \in Records
    BY <2>1 DEF NoWindow
  <2>3. <<signature.held>> \in Seq(Records) /\ <<>> \in Seq(Records)
    BY <2>1
  <2> QED BY <2>2, <2>3 DEF EmitSuppressed
<1>7. late \in Records
  BY <1>1, <1>5 DEF Records
<1> HIDE DEF count
<1>8. Admit(records).sig \in WindowType
  BY <1>3, <1>4, <1>5, <1>6, <1>7 DEF WindowType, Records
<1> HIDE DEF sent, late
<1>9. /\ SubSeq(records, 1, sent) \in Seq(Records) /\ Len(SubSeq(records, 1, sent)) = sent
      /\ \A i \in 1 .. sent : SubSeq(records, 1, sent)[i] = records[i]
  BY <1>1, <1>5
<1>10. Range(SubSeq(records, 1, sent)) = {records[i] : i \in 1 .. sent}
  <2>1. DOMAIN SubSeq(records, 1, sent) = 1 .. sent
    BY <1>9
  <2> QED BY <2>1, <1>9 DEF Range
<1>11. \A s, t \in Seq(Records) : Range(s \o t) = Range(s) \cup Range(t)
  BY RangeOfBoth
<1>12. Range(Admit(records).send) = Range(early) \cup {records[i] : i \in 1 .. sent}
  <2> HIDE DEF early
  <2> QED BY <1>4, <1>6, <1>9, <1>10, <1>11
<1>13. Admit(records).send \in Seq(Records)
  BY <1>4, <1>6, <1>9
<1>14. \A o : (o \in before.held \/ \E r \in Range(early) : o \in r) <=> o \in signature.held
  <2>1. CASE fresh
    <3>1. before.held = {} /\ early = EmitSuppressed(signature)
      BY <2>1 DEF NoWindow
    <3>2. CASE signature.held = {}
      BY <3>1, <3>2 DEF EmitSuppressed, Range
    <3>3. CASE signature.held # {}
      <4>1. early = <<signature.held>>
        BY <3>1, <3>3 DEF EmitSuppressed
      <4>2. Range(early) = {signature.held}
        BY <4>1 DEF Range
      <4> QED BY <3>1, <4>2
    <3> QED BY <3>2, <3>3
  <2>2. CASE ~fresh
    BY <2>2 DEF Range
  <2> QED BY <2>1, <2>2
<1>15. \A o : (o \in late \/ \E r \in {records[i] : i \in 1 .. sent} : o \in r)
                <=> \E r \in Range(records) : o \in r
  <2>1. DOMAIN records = 1 .. n
    BY <1>1
  <2>2. \A i : i \in 1 .. n <=> i \in 1 .. sent \/ i \in sent + 1 .. n
    BY <1>5
  <2>3. late = UNION {records[i] : i \in sent + 1 .. n}
    BY <1>1 DEF late
  <2> QED BY <2>1, <2>2, <2>3 DEF Range
<1>16. Admit(records).sig.held = before.held \cup late
  BY <1>4
<1> HIDE DEF fresh, before, early
<1>17. \A o : (o \in Admit(records).sig.held \/ \E r \in Range(Admit(records).send) : o \in r)
                <=> (o \in signature.held \/ \E r \in Range(records) : o \in r)
  BY <1>12, <1>14, <1>15, <1>16
<1> QED BY <1>8, <1>13, <1>17

LEMMA PersistAccounts ==
  ASSUME IncidentConstants, LogTyped, BufferTyped, MissingPaid, UNCHANGED flush,
         signature \in WindowType, NEW records \in Seq(Records),
         NEW g \in IncLogType, IsFiniteSet(g.seen),
         g.sent = incLog.sent, g.stored = incLog.stored, g.overflows = incLog.overflows,
         Persist(records, g)
  PROVE  /\ LogTyped' /\ BufferTyped' /\ MissingPaid' /\ signature' \in WindowType
         /\ incLog'.seen = g.seen /\ incLog'.capped = g.capped
         /\ incLog'.stored = g.stored /\ incLog'.seq = g.seq
         /\ \A o : Recorded(o)' <=> Recorded(o) \/ \E r \in Range(records) : o \in r
<1>1. CASE records = <<>>
  <2>1. UNCHANGED <<signature, flight, fifo>> /\ incLog' = g
    BY <1>1 DEF Persist
  <2>2. Range(records) = {}
    BY <1>1 DEF Range
  <2>3. Missing' = Missing
    BY <2>1 DEF Missing
  <2>4. MissingPaid'
    BY <2>1, <2>3, NothingLost
  <2>5. LogTyped' /\ BufferTyped'
    BY <2>1 DEF LogTyped, BufferTyped
  <2> QED BY <2>1, <2>2, <2>4, <2>5 DEF Recorded
<1>2. CASE records # <<>>
  <2>1. PICK a : a = Admit(records)
    OBVIOUS
  <2>2. signature' = a.sig /\ Send(a.send, g)
    BY <1>2, <2>1 DEF Persist
  <2>3. /\ a.sig \in WindowType /\ a.send \in Seq(Records)
        /\ \A o : (o \in a.sig.held \/ \E r \in Range(a.send) : o \in r)
                    <=> (o \in signature.held \/ \E r \in Range(records) : o \in r)
    BY <2>1, AdmitKeeps
  <2>4. /\ LogTyped' /\ BufferTyped' /\ MissingPaid'
        /\ incLog'.sent = incLog.sent \cup Range(a.send)
        /\ incLog'.seen = g.seen /\ incLog'.capped = g.capped
        /\ incLog'.stored = g.stored /\ incLog'.seq = g.seq
    BY <2>2, <2>3, SendAccounts
  <2>5. \A o : Recorded(o)' <=> Recorded(o) \/ \E r \in Range(records) : o \in r
    BY <2>2, <2>3, <2>4 DEF Recorded
  <2> QED BY <2>2, <2>3, <2>4, <2>5
<1> QED BY <1>1, <1>2

LEMMA NewOccurrence ==
  ASSUME LogTyped
  PROVE  /\ NextOccurrence \in Nat /\ SeenNow \in IncLogType /\ IsFiniteSet(SeenNow.seen)
         /\ SeenNow.seen = incLog.seen \cup {NextOccurrence}
         /\ SeenNow.sent = incLog.sent /\ SeenNow.stored = incLog.stored
         /\ SeenNow.overflows = incLog.overflows /\ SeenNow.capped = incLog.capped
         /\ SeenNow.seq = incLog.seq
<1>1. NextOccurrence \in Nat
  BY FS_CardinalityType DEF LogTyped, NextOccurrence
<1>2. IsFiniteSet(incLog.seen \cup {NextOccurrence})
  BY FS_AddElement DEF LogTyped
<1> HIDE DEF NextOccurrence
<1> QED BY <1>1, <1>2 DEF LogTyped, IncLogType, SeenNow

(* Each request counts, at most once, as a failure among the requests.     *)
LEMMA CountKeeps ==
  ASSUME RequestsTyped, RedisTyped, CountersKept, NEW q \in IncRequests,
         NEW e \in {0, 1}, CountRequest(q, [req |-> 1, err |-> e])
  PROVE  /\ metric' \in [redis : CountsType, pending : CountsType, pipes : Seq(CountsType)]
         /\ CountersKept'
<1> DEFINE d == [req |-> 1, err |-> e]
<1>1. d \in CountsType /\ d.err <= d.req
  BY DEF CountsType
<1>2. CASE metric' = metric
  BY <1>2 DEF RedisTyped, CountersKept
<1>3. CASE metric' = [metric EXCEPT !.pipes = Append(@, d)]
  <2>4. Append(metric.pipes, d) \in Seq(CountsType)
    BY <1>1 DEF RedisTyped
  <2>1. metric' \in [redis : CountsType, pending : CountsType, pipes : Seq(CountsType)]
    BY <2>4, <1>3 DEF RedisTyped
  <2>2. /\ metric'.redis = metric.redis /\ metric'.pending = metric.pending
        /\ metric'.pipes = Append(metric.pipes, d)
    BY <1>3 DEF RedisTyped
  <2>3. \A i \in DOMAIN metric'.pipes : metric'.pipes[i].err <= metric'.pipes[i].req
    BY <1>1, <2>2 DEF RedisTyped, CountersKept
  <2> QED BY <2>1, <2>2, <2>3 DEF CountersKept
<1>4. CASE metric' = [metric EXCEPT !.pending = AddCounts(@, d)]
  <2>1. AddCounts(metric.pending, d) \in CountsType
    BY <1>1 DEF RedisTyped, CountsType, AddCounts
  <2>2. AddCounts(metric.pending, d).err <= AddCounts(metric.pending, d).req
    BY <1>1 DEF RedisTyped, CountsType, AddCounts, CountersKept
  <2>3. /\ metric'.redis = metric.redis /\ metric'.pipes = metric.pipes
        /\ metric'.pending = AddCounts(metric.pending, d)
        /\ metric' \in [redis : CountsType, pending : CountsType, pipes : Seq(CountsType)]
    BY <1>4, <2>1 DEF RedisTyped
  <2> QED BY <2>2, <2>3 DEF CountersKept
<1> QED BY <1>2, <1>3, <1>4 DEF CountRequest

(* The steps of the requests, of the windows and of the error event.       *)
LEMMA RingUntouched ==
  ASSUME RingTyped, RingKept, UNCHANGED <<ring, detail>>, incLog'.seq = incLog.seq
  PROVE  RingTyped' /\ RingKept'
BY DEF RingTyped, RingKept

LEMMA OpenKeeps ==
  ASSUME IncidentConstants, IncInvariant, NEW q \in IncRequests, OpenRequest(q)
  PROVE  IncInvariant'
<1>1. PICK c \in BOOLEAN :
        ctx' = [ctx EXCEPT ![q] = [open |-> TRUE, counted |-> c, drafts |-> <<>>]]
  BY DEF OpenRequest
<1>2. /\ UNCHANGED <<signature, flight, fifo, flush, ring, detail, metric, upstream, incLog>>
      /\ ~ctx[q].open /\ incLeft' \in Nat
  BY DEF OpenRequest, SpendInc, IncInvariant, IncTyped, RedisTyped
<1>3. RequestsTyped'
  <2>1. [open |-> TRUE, counted |-> c, drafts |-> <<>>] \in ContextType
    BY DEF ContextType
  <2> QED BY <1>1, <1>2, <2>1 DEF RequestsTyped, IncInvariant, IncTyped, ContextType
<1>4. \A o : Drafted(o)' <=> Drafted(o)
  <2>1. \A p \in IncRequests : ctx'[p].drafts = ctx[p].drafts
    BY <1>1, <1>2 DEF RequestsTyped, IncInvariant, IncTyped
  <2> QED BY <2>1 DEF Drafted
<1>5. OccurrencesKept'
  BY <1>2, <1>4 DEF OccurrencesKept, Recorded, IncInvariant
<1>6. LogTyped' /\ BufferTyped' /\ RedisTyped' /\ RingTyped'
  BY <1>2 DEF IncInvariant, IncTyped, LogTyped, BufferTyped, RedisTyped, RingTyped
<1>7. MissingPaid' /\ RingKept' /\ CountersKept'
  BY <1>2 DEF IncInvariant, MissingPaid, HeadDropped, Missing, RingKept, CountersKept
<1> QED BY <1>3, <1>5, <1>6, <1>7 DEF IncInvariant, IncTyped

LEMMA DraftKeeps ==
  ASSUME IncidentConstants, IncInvariant, NEW q \in IncRequests, ExternalInRequest(q)
  PROVE  IncInvariant'
<1> DEFINE n == NextOccurrence
<1>1. /\ UNCHANGED <<signature, flight, fifo, flush, ring, detail, metric, upstream, incLeft>>
      /\ ctx[q].open
  BY DEF ExternalInRequest
<1>2. /\ n \in Nat /\ SeenNow \in IncLogType /\ IsFiniteSet(SeenNow.seen)
      /\ SeenNow.seen = incLog.seen \cup {n}
      /\ SeenNow.sent = incLog.sent /\ SeenNow.stored = incLog.stored
      /\ SeenNow.overflows = incLog.overflows /\ SeenNow.capped = incLog.capped
      /\ SeenNow.seq = incLog.seq
  BY NewOccurrence DEF IncInvariant, IncTyped
<1> HIDE DEF n
<1>3. /\ incLog' \in IncLogType /\ incLog'.seen = incLog.seen \cup {n}
      /\ incLog'.sent = incLog.sent /\ incLog'.stored = incLog.stored
      /\ incLog'.overflows = incLog.overflows /\ incLog'.seq = incLog.seq
      /\ \/ /\ ctx' = [ctx EXCEPT ![q].drafts = Append(@, n)]
            /\ incLog'.capped = incLog.capped
         \/ ctx' = ctx /\ incLog'.capped = incLog.capped \cup {n}
  <2>1. CASE Len(ctx[q].drafts) < DraftsMax
    BY <2>1, <1>2 DEF ExternalInRequest, n
  <2>2. CASE ~(Len(ctx[q].drafts) < DraftsMax)
    BY <2>2, <1>2 DEF ExternalInRequest, n, IncLogType
  <2> QED BY <2>1, <2>2
<1>4. /\ RequestsTyped'
      /\ \A o : Drafted(o)' \/ o \in incLog'.capped
                  <=> Drafted(o) \/ o \in incLog.capped \/ o = n
  <2>1. CASE ctx' = [ctx EXCEPT ![q].drafts = Append(@, n)] /\ incLog'.capped = incLog.capped
    <3>1. PICK t \in Seq(Nat) : t = ctx[q].drafts
      BY DEF RequestsTyped, IncInvariant, IncTyped, ContextType
    <3>2. Append(t, n) \in Seq(Nat) /\ Range(Append(t, n)) = Range(t) \cup {n}
      <4>1. /\ Append(t, n) \in Seq(Nat) /\ Len(Append(t, n)) = Len(t) + 1 /\ Len(t) \in Nat
            /\ \A i \in 1 .. Len(t) : Append(t, n)[i] = t[i]
            /\ Append(t, n)[Len(t) + 1] = n
            /\ DOMAIN t = 1 .. Len(t) /\ DOMAIN Append(t, n) = 1 .. Len(t) + 1
        BY <1>2
      <4>2. PICK m \in Nat : m = Len(t)
        BY <4>1
      <4>3. \A i : i \in 1 .. m + 1 <=> i \in 1 .. m \/ i = m + 1
        BY <4>2
      <4> QED BY <4>1, <4>2, <4>3 DEF Range
    <3>3. /\ ctx' \in [IncRequests -> ContextType] /\ ctx'[q].drafts = Append(t, n)
          /\ ctx'[q].open = ctx[q].open
          /\ \A p \in IncRequests \ {q} : ctx'[p] = ctx[p]
      BY <2>1, <3>1, <3>2 DEF RequestsTyped, IncInvariant, IncTyped, ContextType
    <3>4. RequestsTyped'
      BY <3>3, <1>1 DEF RequestsTyped, IncInvariant, IncTyped
    <3>5. \A o : Drafted(o)' <=> Drafted(o) \/ o = n
      BY <3>1, <3>2, <3>3 DEF Drafted
    <3> QED BY <3>4, <3>5, <2>1
  <2>2. CASE ctx' = ctx /\ incLog'.capped = incLog.capped \cup {n}
    BY <2>2, <1>1 DEF RequestsTyped, IncInvariant, IncTyped, Drafted
  <2> QED BY <1>3, <2>1, <2>2
<1>5. \A o : Recorded(o)' <=> Recorded(o)
  BY <1>1, <1>3 DEF Recorded
<1>6. OccurrencesKept'
  <2>1. \A o : o \in incLog'.seen <=> o \in incLog.seen \/ o = n
    BY <1>3
  <2> QED BY <2>1, <1>4, <1>5 DEF OccurrencesKept, IncInvariant
<1>7. LogTyped' /\ BufferTyped' /\ RedisTyped'
  BY <1>1, <1>2, <1>3 DEF IncInvariant, IncTyped, LogTyped, BufferTyped, RedisTyped
<1>8. MissingPaid' /\ CountersKept'
  BY <1>1, <1>3 DEF IncInvariant, MissingPaid, HeadDropped, Missing, CountersKept
<1>9. RingTyped' /\ RingKept'
  BY <1>1, <1>3, RingUntouched DEF IncInvariant, IncTyped
<1> QED BY <1>4, <1>6, <1>7, <1>8, <1>9 DEF IncInvariant, IncTyped

LEMMA PersistKeeps ==
  ASSUME IncidentConstants, IncInvariant, UNCHANGED <<flush, ring, detail>>,
         NEW records \in Seq(Records), NEW g \in {incLog, SeenNow}, Persist(records, g)
  PROVE  /\ LogTyped' /\ BufferTyped' /\ RingTyped' /\ MissingPaid' /\ RingKept'
         /\ signature' \in WindowType
         /\ incLog'.seen = g.seen /\ incLog'.capped = incLog.capped
         /\ \A o : Recorded(o)' <=> Recorded(o) \/ \E r \in Range(records) : o \in r
<1>1. /\ LogTyped /\ BufferTyped /\ MissingPaid /\ signature \in WindowType /\ RingTyped /\ RingKept
  BY DEF IncInvariant, IncTyped, RequestsTyped
<1>2. /\ g \in IncLogType /\ IsFiniteSet(g.seen) /\ g.sent = incLog.sent
      /\ g.stored = incLog.stored /\ g.overflows = incLog.overflows
      /\ g.capped = incLog.capped /\ g.seq = incLog.seq
  BY <1>1, NewOccurrence DEF LogTyped
<1>3. /\ LogTyped' /\ BufferTyped' /\ MissingPaid' /\ signature' \in WindowType
      /\ incLog'.seen = g.seen /\ incLog'.capped = g.capped
      /\ incLog'.stored = g.stored /\ incLog'.seq = g.seq
      /\ \A o : Recorded(o)' <=> Recorded(o) \/ \E r \in Range(records) : o \in r
  BY <1>1, <1>2, PersistAccounts
<1>4. RingTyped' /\ RingKept'
  BY <1>1, <1>2, <1>3, RingUntouched
<1> QED BY <1>2, <1>3, <1>4

(* A record of its own, outside a request.                                 *)
LEMMA AloneKeeps ==
  ASSUME IncidentConstants, IncInvariant, Persist(<<{NextOccurrence}>>, SeenNow),
         UNCHANGED <<ctx, flush, ring, detail, metric, incLeft>>,
         upstream' \in [ready : BOOLEAN, downRecorded : BOOLEAN]
  PROVE  IncInvariant'
<1> DEFINE n == NextOccurrence
           records == <<{n}>>
<1>1. n \in Nat /\ SeenNow.seen = incLog.seen \cup {n}
  BY NewOccurrence DEF IncInvariant, IncTyped
<1> HIDE DEF n
<1>2. records \in Seq(Records) /\ Range(records) = {{n}}
  BY <1>1 DEF Records, Range
<1>3. /\ LogTyped' /\ BufferTyped' /\ RingTyped' /\ MissingPaid' /\ RingKept'
      /\ signature' \in WindowType
      /\ incLog'.seen = SeenNow.seen /\ incLog'.capped = incLog.capped
      /\ \A o : Recorded(o)' <=> Recorded(o) \/ \E r \in Range(records) : o \in r
  BY <1>2, PersistKeeps DEF n
<1>4. \A o : Recorded(o)' <=> Recorded(o) \/ o = n
  <2>1. \A o : (\E r \in Range(records) : o \in r) <=> o = n
    BY <1>2
  <2> QED BY <2>1, <1>3
<1>5. \A o : Drafted(o)' <=> Drafted(o)
  BY DEF Drafted
<1>6. OccurrencesKept'
  BY <1>1, <1>3, <1>4, <1>5 DEF OccurrencesKept, IncInvariant
<1>7. RequestsTyped' /\ RedisTyped' /\ CountersKept'
  BY <1>3 DEF IncInvariant, IncTyped, RequestsTyped, RedisTyped, CountersKept
<1> QED BY <1>3, <1>6, <1>7 DEF IncInvariant, IncTyped

(* A request is settled: its drafts go into the records.                   *)
LEMMA SettleKeeps ==
  ASSUME IncidentConstants, IncInvariant, NEW q \in IncRequests, NEW e \in {0, 1},
         NEW records \in Seq(Records), NEW g \in {incLog, SeenNow}, Persist(records, g),
         ctx' = [ctx EXCEPT ![q] = ClosedContext], CountRequest(q, [req |-> 1, err |-> e]),
         UNCHANGED <<flush, ring, detail, upstream, incLeft>>,
         \A o : o \in g.seen \/ o \in Range(ctx[q].drafts)
                  <=> o \in incLog.seen \/ \E r \in Range(records) : o \in r,
         \A o \in Range(ctx[q].drafts) : \E r \in Range(records) : o \in r
  PROVE  IncInvariant'
<1>1. /\ LogTyped' /\ BufferTyped' /\ RingTyped' /\ MissingPaid' /\ RingKept'
      /\ signature' \in WindowType
      /\ incLog'.seen = g.seen /\ incLog'.capped = incLog.capped
      /\ \A o : Recorded(o)' <=> Recorded(o) \/ \E r \in Range(records) : o \in r
  BY PersistKeeps
<1>2. /\ metric' \in [redis : CountsType, pending : CountsType, pipes : Seq(CountsType)]
      /\ CountersKept'
  BY CountKeeps DEF IncInvariant, IncTyped
<1>3. RequestsTyped' /\ ctx'[q].drafts = <<>>
  <2>1. ClosedContext \in ContextType
    BY DEF ClosedContext, ContextType
  <2> QED BY <2>1, <1>1 DEF RequestsTyped, IncInvariant, IncTyped, ClosedContext
<1>4. \A o : Drafted(o) <=> Drafted(o)' \/ o \in Range(ctx[q].drafts)
  <2>1. /\ Range(<<>>) = {}
        /\ \A p \in IncRequests : p # q => ctx'[p] = ctx[p]
    BY DEF Range, RequestsTyped, IncInvariant, IncTyped
  <2> QED BY <2>1, <1>3 DEF Drafted
<1>5. OccurrencesKept'
  <2>1. \A o : o \in incLog.seen <=> Drafted(o) \/ Recorded(o) \/ o \in incLog.capped
    BY DEF OccurrencesKept, IncInvariant
  <2>2. \A o : o \in incLog'.seen <=> o \in g.seen
    BY <1>1
  <2>3. incLog.seen \subseteq g.seen
    BY NewOccurrence DEF IncInvariant, IncTyped
  <2> QED BY <1>1, <1>4, <2>1, <2>2, <2>3 DEF OccurrencesKept
<1>6. RedisTyped'
  BY <1>2 DEF IncInvariant, IncTyped, RedisTyped
<1> QED BY <1>1, <1>2, <1>3, <1>5, <1>6 DEF IncInvariant, IncTyped

LEMMA SettleFailedKeeps ==
  ASSUME IncidentConstants, IncInvariant, NEW q \in IncRequests, SettleFailed(q)
  PROVE  IncInvariant'
<1> DEFINE n == NextOccurrence
           D == Range(ctx[q].drafts)
           records == <<D \cup {n}>>
<1>1. n \in Nat /\ SeenNow.seen = incLog.seen \cup {n}
  BY NewOccurrence DEF IncInvariant, IncTyped
<1>2. D \in Records
  <2>1. ctx[q].drafts \in Seq(Nat)
    BY DEF IncInvariant, IncTyped, RequestsTyped, ContextType
  <2> QED BY <2>1 DEF Range, Records
<1>3. D \subseteq incLog.seen
  BY DEF IncInvariant, OccurrencesKept, Drafted
<1>4. /\ Persist(records, SeenNow) /\ ctx' = [ctx EXCEPT ![q] = ClosedContext]
      /\ CountRequest(q, [req |-> 1, err |-> 1])
      /\ UNCHANGED <<flush, ring, detail, upstream, incLeft>>
  BY DEF SettleFailed
<1> HIDE DEF n, D
<1>5. records \in Seq(Records) /\ Range(records) = {D \cup {n}}
  <2>1. D \cup {n} \in Records
    BY <1>1, <1>2 DEF Records
  <2>2. DOMAIN records = {1} /\ records[1] = D \cup {n}
    OBVIOUS
  <2> QED BY <2>1, <2>2 DEF Range
<1>6. /\ \A o : o \in SeenNow.seen \/ o \in D
                  <=> o \in incLog.seen \/ \E r \in Range(records) : o \in r
      /\ \A o \in D : \E r \in Range(records) : o \in r
  BY <1>1, <1>3, <1>5
<1> HIDE DEF records
<1> QED BY <1>4, <1>5, <1>6, SettleKeeps DEF D

LEMMA SettleOkKeeps ==
  ASSUME IncidentConstants, IncInvariant, NEW q \in IncRequests, SettleOk(q)
  PROVE  IncInvariant'
<1>1. PICK drafts \in Seq(Nat) : drafts = ctx[q].drafts
  BY DEF IncInvariant, IncTyped, RequestsTyped, ContextType
<1> DEFINE records == [i \in DOMAIN drafts |-> {drafts[i]}]
<1>2. /\ Persist(records, incLog) /\ ctx' = [ctx EXCEPT ![q] = ClosedContext]
      /\ CountRequest(q, [req |-> 1, err |-> 0])
      /\ UNCHANGED <<flush, ring, detail, upstream, incLeft>>
  BY <1>1 DEF SettleOk
<1>3. records \in Seq(Records)
  <2>1. PICK m \in Nat : m = Len(drafts)
    OBVIOUS
  <2>2. records \in [1 .. m -> Records]
    BY <2>1 DEF Records
  <2> QED BY <2>2
<1>4. \A o : o \in Range(drafts) <=> \E r \in Range(records) : o \in r
  <2>1. DOMAIN records = DOMAIN drafts /\ \A i \in DOMAIN drafts : records[i] = {drafts[i]}
    OBVIOUS
  <2> HIDE DEF records
  <2>2. /\ \A o : o \in Range(drafts) <=> \E i \in DOMAIN drafts : o = drafts[i]
        /\ \A r : r \in Range(records) <=> \E i \in DOMAIN drafts : r = {drafts[i]}
    BY <2>1 DEF Range
  <2>3. ASSUME NEW o, NEW r \in Range(records), o \in r PROVE o \in Range(drafts)
    BY <2>2, <2>3
  <2>4. ASSUME NEW o \in Range(drafts) PROVE \E r \in Range(records) : o \in r
    <3>1. PICK i \in DOMAIN drafts : o = drafts[i]
      BY <2>2
    <3>2. {drafts[i]} \in Range(records)
      BY <2>2
    <3> QED BY <3>1, <3>2
  <2> QED BY <2>3, <2>4
<1>5. Range(drafts) \subseteq incLog.seen
  BY <1>1 DEF IncInvariant, OccurrencesKept, Drafted
<1> HIDE DEF records
<1>6. /\ \A o : o \in incLog.seen \/ o \in Range(ctx[q].drafts)
                  <=> o \in incLog.seen \/ \E r \in Range(records) : o \in r
      /\ \A o \in Range(ctx[q].drafts) : \E r \in Range(records) : o \in r
  BY <1>1, <1>4, <1>5
<1> QED BY <1>2, <1>3, <1>6, SettleKeeps

LEMMA WindowKeeps ==
  ASSUME IncidentConstants, IncInvariant, WindowEnds \/ SweepSignatures
  PROVE  IncInvariant'
<1>1. CASE WindowEnds
  <2>1. /\ UNCHANGED <<ctx, flight, fifo, flush, ring, detail, metric, upstream, incLog>>
        /\ signature' = [signature EXCEPT !.over = TRUE] /\ incLeft' \in Nat
    BY <1>1 DEF WindowEnds, SpendInc, IncInvariant, IncTyped, RedisTyped
  <2>2. signature' \in WindowType /\ signature'.held = signature.held
    BY <2>1 DEF IncInvariant, IncTyped, RequestsTyped, WindowType
  <2>3. OccurrencesKept'
    BY <2>1, <2>2 DEF OccurrencesKept, Recorded, Drafted, IncInvariant
  <2>4. IncTyped'
    BY <2>1, <2>2 DEF IncInvariant, IncTyped, LogTyped, BufferTyped, RequestsTyped,
                      RedisTyped, RingTyped
  <2>5. MissingPaid' /\ RingKept' /\ CountersKept'
    BY <2>1 DEF IncInvariant, MissingPaid, HeadDropped, Missing, RingKept, CountersKept
  <2> QED BY <2>3, <2>4, <2>5 DEF IncInvariant
<1>2. CASE SweepSignatures
  <2>1. PICK records : records = EmitSuppressed(signature)
    OBVIOUS
  <2>2. /\ signature' = NoWindow /\ Send(records, incLog)
        /\ UNCHANGED <<ctx, flush, ring, detail, metric, upstream, incLeft>>
    BY <1>2, <2>1 DEF SweepSignatures
  <2>3. /\ records \in Seq(Records)
        /\ \A o : (\E r \in Range(records) : o \in r) <=> o \in signature.held
    <3>1. CASE signature.held = {}
      BY <2>1, <3>1 DEF EmitSuppressed, Range
    <3>2. CASE signature.held # {}
      <4>1. records = <<signature.held>> /\ signature.held \in Records
        BY <2>1, <3>2 DEF EmitSuppressed, IncInvariant, IncTyped, RequestsTyped, WindowType
      <4> QED BY <4>1 DEF Range
    <3> QED BY <3>1, <3>2
  <2>4. /\ LogTyped' /\ BufferTyped' /\ MissingPaid'
        /\ incLog'.sent = incLog.sent \cup Range(records)
        /\ incLog'.seen = incLog.seen /\ incLog'.capped = incLog.capped
        /\ incLog'.stored = incLog.stored /\ incLog'.seq = incLog.seq
    BY <2>2, <2>3, SendAccounts DEF IncInvariant, IncTyped, LogTyped
  <2>5. signature' \in WindowType /\ signature'.held = {}
    BY <2>2 DEF NoWindow, WindowType, Records, IncidentConstants
  <2>6. OccurrencesKept'
    <3>1. \A o : Drafted(o)' <=> Drafted(o)
      BY <2>2 DEF Drafted
    <3>2. \A o : Recorded(o)' <=> Recorded(o)
      BY <2>3, <2>4, <2>5 DEF Recorded
    <3> QED BY <3>1, <3>2, <2>4 DEF OccurrencesKept, IncInvariant
  <2>7. RequestsTyped' /\ RedisTyped' /\ CountersKept'
    BY <2>2, <2>5 DEF IncInvariant, IncTyped, RequestsTyped, RedisTyped, CountersKept
  <2>8. RingTyped' /\ RingKept'
    BY <2>2, <2>4, RingUntouched DEF IncInvariant, IncTyped
  <2> QED BY <2>4, <2>6, <2>7, <2>8 DEF IncInvariant, IncTyped
<1> QED BY <1>1, <1>2

(* An add: the new record has a number of its own, and whatever is trimmed *)
(* takes its detail along.                                                 *)
LEMMA AddedKeeps ==
  ASSUME IncidentConstants, LogTyped, RingTyped, RingKept, NEW r \in Records, Added(r),
         incLog'.seq = incLog.seq + 1
  PROVE  RingTyped' /\ RingKept'
<1> DEFINE new == [no |-> incLog.seq, of |-> r, age |-> 0]
           longer == <<new>> \o ring
<1>1. PICK s \in Nat : s = incLog.seq
  BY DEF LogTyped, IncLogType
<1>2. PICK m \in Nat : m = Len(ring)
  BY DEF RingTyped
<1>3. new \in RingEntry
  BY <1>1 DEF RingEntry
<1>15. \A i \in 1 .. m : ring[i] \in RingEntry /\ ring[i].no \in Nat /\ ring[i].no < s
  <2> SUFFICES ASSUME NEW i \in 1 .. m
               PROVE  ring[i] \in RingEntry /\ ring[i].no \in Nat /\ ring[i].no < s
    OBVIOUS
  <2>1. i \in DOMAIN ring /\ ring[i] \in RingEntry
    BY <1>2 DEF RingTyped
  <2>2. ring[i].no < s
    BY <2>1, <1>1 DEF RingKept
  <2> QED BY <2>1, <2>2 DEF RingEntry
<1>4. /\ longer \in Seq(RingEntry) /\ Len(longer) = m + 1 /\ longer[1] = new
      /\ \A i \in 1 .. m : longer[i + 1] = ring[i]
  BY <1>2, <1>3 DEF RingTyped
<1>5. \A i \in 1 .. m + 1 : longer[i].no <= s
  <2> SUFFICES ASSUME NEW i \in 1 .. m + 1 PROVE longer[i].no <= s
    OBVIOUS
  <2>1. CASE i = 1
    BY <2>1, <1>1, <1>4
  <2>2. CASE i # 1
    <3>1. i - 1 \in 1 .. m /\ (i - 1) + 1 = i
      BY <2>2
    <3> HIDE DEF longer
    <3>2. longer[i] = ring[i - 1]
      BY <3>1, <1>4
    <3>3. PICK x \in Nat : x = longer[i].no /\ x < s
      BY <3>1, <3>2, <1>15
    <3> QED BY <3>3
  <2> QED BY <2>1, <2>2
<1>6. \A i, j \in 1 .. m + 1 : longer[i].no = longer[j].no => i = j
  <2>1. \A i \in 1 .. m + 1 : i # 1 =>
          /\ i - 1 \in 1 .. m /\ longer[i] = ring[i - 1] /\ longer[i].no < s
    <3> SUFFICES ASSUME NEW i \in 1 .. m + 1, i # 1
                 PROVE  i - 1 \in 1 .. m /\ longer[i] = ring[i - 1] /\ longer[i].no < s
      OBVIOUS
    <3>1. i - 1 \in 1 .. m /\ (i - 1) + 1 = i
      OBVIOUS
    <3> HIDE DEF longer
    <3>2. longer[i] = ring[i - 1]
      BY <3>1, <1>4
    <3> QED BY <3>1, <3>2, <1>1, <1>2 DEF RingKept, RingTyped
  <2>2. longer[1].no = s
    BY <1>1, <1>4
  <2> HIDE DEF longer
  <2> SUFFICES ASSUME NEW i \in 1 .. m + 1, NEW j \in 1 .. m + 1, longer[i].no = longer[j].no
               PROVE  i = j
    OBVIOUS
  <2>3. CASE i # 1 /\ j # 1
    <3>3. DOMAIN ring = 1 .. m
      BY <1>2 DEF RingTyped
    <3>1. ring[i - 1].no = ring[j - 1].no /\ i - 1 \in DOMAIN ring /\ j - 1 \in DOMAIN ring
      BY <2>1, <2>3, <3>3
    <3>2. i - 1 = j - 1
      BY <3>1 DEF RingKept
    <3> QED BY <3>2
  <2>4. CASE i = 1 \/ j = 1
    <3>1. i # 1 => longer[i].no < s
      BY <2>1
    <3>2. j # 1 => longer[j].no < s
      BY <2>1
    <3> QED BY <2>2, <2>4, <3>1, <3>2
  <2> QED BY <2>3, <2>4
<1>7. {longer[i].no : i \in 1 .. m + 1} = detail \cup {s}
  <2>1. detail = {ring[i].no : i \in 1 .. m}
    BY <1>2 DEF RingKept, RingTyped
  <2>2. \A i \in 1 .. m + 1 : i = 1 \/ (i - 1 \in 1 .. m /\ longer[i] = ring[i - 1])
    <3> SUFFICES ASSUME NEW i \in 1 .. m + 1, i # 1
                 PROVE  i - 1 \in 1 .. m /\ longer[i] = ring[i - 1]
      OBVIOUS
    <3>1. i - 1 \in 1 .. m /\ (i - 1) + 1 = i
      OBVIOUS
    <3> HIDE DEF longer
    <3> QED BY <3>1, <1>4
  <2>3. \A i \in 1 .. m : i + 1 \in 1 .. m + 1 /\ longer[i + 1] = ring[i]
    BY <1>4
  <2>4. longer[1].no = s /\ 1 \in 1 .. m + 1
    BY <1>1, <1>4
  <2> HIDE DEF longer
  <2> QED BY <2>1, <2>2, <2>3, <2>4
<1>8. PICK live \in 1 .. m + 1 :
        LET k == IF live > IncidentCap THEN IncidentCap ELSE live IN
        /\ ring' = SubSeq(longer, 1, k)
        /\ detail' = (detail \cup {s}) \ {longer[i].no : i \in k + 1 .. m + 1}
  <2>1. longer = <<[no |-> s, of |-> r, age |-> 0]>> \o ring /\ Len(longer) = m + 1
        /\ DOMAIN longer = 1 .. m + 1
    BY <1>1, <1>4
  <2>2. \E live \in DOMAIN longer :
          LET k == IF live > IncidentCap THEN IncidentCap ELSE live IN
          /\ ring' = SubSeq(longer, 1, k)
          /\ detail' = (detail \cup {s}) \ {longer[i].no : i \in k + 1 .. Len(longer)}
    BY <1>1 DEF Added
  <2> HIDE DEF longer
  <2> QED BY <2>1, <2>2
<1>9. PICK k \in 1 .. m + 1 :
        /\ k <= IncidentCap /\ ring' = SubSeq(longer, 1, k)
        /\ detail' = (detail \cup {s}) \ {longer[i].no : i \in k + 1 .. m + 1}
  <2>1. IncidentCap \in Nat \ {0}
    BY DEF IncidentConstants
  <2>2. (IF live > IncidentCap THEN IncidentCap ELSE live) \in 1 .. m + 1
    BY <2>1
  <2>3. (IF live > IncidentCap THEN IncidentCap ELSE live) <= IncidentCap
    BY <2>1
  <2> HIDE DEF longer
  <2> QED BY <2>2, <2>3, <1>8
<1> HIDE DEF longer 
<1>10. /\ ring' \in Seq(RingEntry) /\ Len(ring') = k /\ DOMAIN ring' = 1 .. k
       /\ \A i \in 1 .. k : ring'[i] = longer[i] /\ i \in 1 .. m + 1
  BY <1>4, <1>9
<1>11. RingTyped'
  BY <1>10 DEF RingTyped
<1>12. detail' = {ring'[i].no : i \in DOMAIN ring'}
  <2>1. \A x : x \in detail' <=> \E i \in 1 .. m + 1 : x = longer[i].no /\ ~(\E j \in k + 1 .. m + 1 : x = longer[j].no)
    BY <1>7, <1>9
  <2>2. \A i \in 1 .. m + 1 : (~\E j \in k + 1 .. m + 1 : longer[i].no = longer[j].no) <=> i \in 1 .. k
    BY <1>6
  <2>3. \A x : x \in detail' <=> \E i \in 1 .. k : x = longer[i].no
    <3>1. \A i \in 1 .. k : i \in 1 .. m + 1
      BY <1>10
    <3> QED BY <2>1, <2>2, <3>1, Zenon
  <2>4. \A i \in 1 .. k : ring'[i].no = longer[i].no
    BY <1>10
  <2>5. {ring'[i].no : i \in 1 .. k} = {longer[i].no : i \in 1 .. k}
    BY <2>4, Zenon
  <2>6. detail' = {longer[i].no : i \in 1 .. k}
    BY <2>3
  <2> QED BY <2>5, <2>6, <1>10, Zenon
<1>13. \A i \in DOMAIN ring' : ring'[i].no < incLog'.seq
  <2> SUFFICES ASSUME NEW i \in DOMAIN ring' PROVE ring'[i].no < incLog'.seq
    OBVIOUS
  <2>1. ring'[i].no <= s
    BY <1>5, <1>10
  <2>2. ring'[i].no \in Nat
    <3>1. ring'[i] \in RingEntry
      BY <1>10
    <3> QED BY <3>1 DEF RingEntry
  <2>3. PICK x \in Nat : x = ring'[i].no
    BY <2>2
  <2> QED BY <2>1, <2>3, <1>1
<1>14. \A i, j \in DOMAIN ring' : ring'[i].no = ring'[j].no => i = j
  BY <1>6, <1>10
<1> QED BY <1>9, <1>10, <1>11, <1>12, <1>13, <1>14 DEF RingKept

(* Records grow old, or are purged with their details.                     *)
LEMMA AgeKeeps ==
  ASSUME IncidentConstants, IncInvariant, RecordsAge
  PROVE  IncInvariant'
<1>1. /\ UNCHANGED <<ctx, signature, flight, fifo, flush, detail, metric, upstream, incLog>>
      /\ ring' = [i \in DOMAIN ring |-> [ring[i] EXCEPT !.age = IF @ = 2 THEN 2 ELSE @ + 1]]
      /\ incLeft' \in Nat
  BY DEF RecordsAge, SpendInc, IncInvariant, IncTyped, RedisTyped
<1>2. PICK m \in Nat : m = Len(ring) /\ DOMAIN ring = 1 .. m
  BY DEF IncInvariant, IncTyped, RingTyped
<1>3. \A i \in 1 .. m : /\ ring[i] \in RingEntry
                        /\ ring'[i] \in RingEntry
                        /\ ring'[i].no = ring[i].no
  <2> SUFFICES ASSUME NEW i \in 1 .. m
               PROVE  ring[i] \in RingEntry /\ ring'[i] \in RingEntry /\ ring'[i].no = ring[i].no
    OBVIOUS
  <2>1. ring[i] \in RingEntry
    BY <1>2 DEF IncInvariant, IncTyped, RingTyped
  <2>2. ring'[i] = [ring[i] EXCEPT !.age = IF ring[i].age = 2 THEN 2 ELSE ring[i].age + 1]
    BY <1>1, <1>2
  <2>3. (IF ring[i].age = 2 THEN 2 ELSE ring[i].age + 1) \in 0 .. 2
    BY <2>1 DEF RingEntry
  <2> QED BY <2>1, <2>2, <2>3 DEF RingEntry
<1>4. DOMAIN ring' = 1 .. m /\ ring' = [i \in 1 .. m |-> ring'[i]]
  BY <1>1, <1>2
<1>5. ring' \in Seq(RingEntry) /\ Len(ring') = m
  <2>1. ring' \in [1 .. m -> RingEntry]
    BY <1>3, <1>4
  <2> QED BY <2>1, <1>2
<1>6. RingKept'
  <2>1. {ring'[i].no : i \in DOMAIN ring'} = {ring[i].no : i \in DOMAIN ring}
    BY <1>2, <1>3, <1>4
  <2>2. \A i \in DOMAIN ring' : i \in DOMAIN ring /\ ring'[i].no = ring[i].no
    BY <1>2, <1>3, <1>4
  <2>3. Len(ring') = Len(ring)
    BY <1>2, <1>5
  <2> QED BY <1>1, <2>1, <2>2, <2>3 DEF RingKept, IncInvariant
<1>7. IncTyped'
  BY <1>1, <1>5 DEF IncInvariant, IncTyped, LogTyped, BufferTyped, RequestsTyped,
                    RedisTyped, RingTyped
<1>8. OccurrencesKept' /\ MissingPaid' /\ CountersKept'
  BY <1>1 DEF IncInvariant, OccurrencesKept, Recorded, Drafted, MissingPaid, HeadDropped,
              Missing, CountersKept
<1> QED BY <1>6, <1>7, <1>8 DEF IncInvariant

LEMMA PurgeKeeps ==
  ASSUME IncidentConstants, IncInvariant, Purge
  PROVE  IncInvariant'
<1> DEFINE young == {i \in DOMAIN ring : ring[i].age = 0}
<1>11. PICK n \in 0 .. Len(ring) : \E at \in [1 .. n -> young] :
        /\ young = {at[i] : i \in 1 .. n} /\ \A i, j \in 1 .. n : i < j => at[i] < at[j]
        /\ ring' = [i \in 1 .. n |-> ring[at[i]]]
  BY DEF Purge
<1>1. PICK at \in [1 .. n -> young] :
        /\ young = {at[i] : i \in 1 .. n} /\ \A i, j \in 1 .. n : i < j => at[i] < at[j]
        /\ ring' = [i \in 1 .. n |-> ring[at[i]]]
  BY <1>11
<1>2. /\ detail' = detail \ {ring[i].no : i \in DOMAIN ring \ young}
      /\ UNCHANGED <<ctx, signature, flight, fifo, flush, metric, upstream, incLog, incLeft>>
  BY DEF Purge
<1>3. PICK m \in Nat : m = Len(ring) /\ DOMAIN ring = 1 .. m
  BY DEF IncInvariant, IncTyped, RingTyped
<1>4. n \in Nat /\ n <= m /\ \A i \in 1 .. n : at[i] \in DOMAIN ring
  BY <1>1, <1>3
<1>5. /\ ring' \in Seq(RingEntry) /\ Len(ring') = n
      /\ DOMAIN ring' = 1 .. n /\ \A i \in 1 .. n : ring'[i] = ring[at[i]]
  <2>1. \A i \in 1 .. n : ring[at[i]] \in RingEntry
    <3>1. \A j \in DOMAIN ring : ring[j] \in RingEntry
      BY DEF IncInvariant, IncTyped, RingTyped
    <3> QED BY <3>1, <1>4
  <2>2. ring' \in [1 .. n -> RingEntry]
    BY <1>1, <2>1
  <2>3. DOMAIN ring' = 1 .. n /\ \A i \in 1 .. n : ring'[i] = ring[at[i]]
    BY <1>1
  <2>4. ring' \in Seq(RingEntry) /\ Len(ring') = n
    BY <2>2, <1>4
  <2> QED BY <2>3, <2>4
<1>6. \A i, j \in 1 .. n : at[i] = at[j] => i = j
  <2> SUFFICES ASSUME NEW i \in 1 .. n, NEW j \in 1 .. n, at[i] = at[j], i # j PROVE FALSE
    OBVIOUS
  <2>1. at[i] \in Int /\ at[j] \in Int
    BY <1>3, <1>4
  <2>2. i < j \/ j < i
    BY <1>4
  <2> QED BY <2>1, <2>2, <1>1
<1> HIDE DEF young
<1>7. detail' = {ring'[i].no : i \in DOMAIN ring'}
  <2>1. detail = {ring[i].no : i \in DOMAIN ring}
    BY DEF IncInvariant, RingKept
  <2>2. young \subseteq DOMAIN ring
    BY DEF young
  <2>3. \A i, j \in DOMAIN ring : ring[i].no = ring[j].no => i = j
    BY DEF IncInvariant, RingKept
  <2>4. detail' = {ring[i].no : i \in young}
    BY <1>2, <2>1, <2>2, <2>3
  <2>5. \A i \in young : \E j \in 1 .. n : i = at[j]
    BY <1>1
  <2>6. \A j \in 1 .. n : at[j] \in young
    BY <1>1
  <2>7. \A x : x \in detail' <=> \E j \in 1 .. n : x = ring[at[j]].no
    <3>1. ASSUME NEW x \in detail' PROVE \E j \in 1 .. n : x = ring[at[j]].no
      BY <2>4, <2>5
    <3>2. ASSUME NEW j \in 1 .. n PROVE ring[at[j]].no \in detail'
      BY <2>4, <2>6
    <3> QED BY <3>1, <3>2
  <2>8. \A x : x \in {ring'[i].no : i \in DOMAIN ring'} <=> \E j \in 1 .. n : x = ring[at[j]].no
    BY <1>5
  <2> QED BY <2>7, <2>8
<1>8. RingKept'
  <2>1. \A i \in DOMAIN ring' : ring'[i].no < incLog'.seq
    BY <1>2, <1>4, <1>5 DEF IncInvariant, RingKept
  <2>2. \A i, j \in DOMAIN ring' : ring'[i].no = ring'[j].no => i = j
    BY <1>4, <1>5, <1>6 DEF IncInvariant, RingKept
  <2>3. Len(ring') <= IncidentCap
    <3>1. m <= IncidentCap /\ IncidentCap \in Nat
      BY <1>3 DEF IncInvariant, RingKept, IncidentConstants
    <3> QED BY <3>1, <1>4, <1>5
  <2> QED BY <1>7, <2>1, <2>2, <2>3 DEF RingKept
<1>9. IncTyped'
  BY <1>2, <1>5 DEF IncInvariant, IncTyped, LogTyped, BufferTyped, RequestsTyped,
                    RedisTyped, RingTyped
<1>10. OccurrencesKept' /\ MissingPaid' /\ CountersKept'
  BY <1>2 DEF IncInvariant, OccurrencesKept, Recorded, Drafted, MissingPaid, HeadDropped,
              Missing, CountersKept
<1> QED BY <1>8, <1>9, <1>10 DEF IncInvariant

LEMMA StoredLog ==
  ASSUME LogTyped, NEW r \in Records, NEW g \in IncLogType, IsFiniteSet(g.seen),
         IsFiniteSet(g.sent)
  PROVE  LET h == Stored(r, g) IN
         /\ h \in IncLogType /\ h.seq = g.seq + 1 /\ h.stored = g.stored \cup {r}
         /\ h.seen = g.seen /\ h.sent = g.sent /\ h.capped = g.capped
         /\ h.overflows = g.overflows
<1>1. g.seq + 1 \in Nat /\ g.stored \cup {r} \in SUBSET Records
  BY DEF IncLogType
<1> QED BY <1>1 DEF Stored, IncLogType

LEMMA AnswerKeeps ==
  ASSUME IncidentConstants, IncInvariant, NEW r \in flight, AddAnswered(r)
  PROVE  IncInvariant'
<1> USE DEF IncInvariant, IncTyped
<1>1. /\ flight' = flight \ {r} /\ r \in Records
      /\ UNCHANGED <<ctx, signature, flush, metric, upstream, incLeft>>
  BY DEF AddAnswered, BufferTyped
<1> DEFINE p == PushFifo(<<r>>)
           g == [incLog EXCEPT !.overflows = @ + p.over]
<1>2. <<r>> \in Seq(Records) /\ Range(<<r>>) = {r}
  BY <1>1 DEF Range
<1>3. p.over \in Nat
  BY <1>2, PushDrops
<1>4. /\ g \in IncLogType /\ g.overflows = incLog.overflows + p.over
      /\ g.seen = incLog.seen /\ g.sent = incLog.sent /\ g.capped = incLog.capped
      /\ g.stored = incLog.stored /\ g.seq = incLog.seq
  <2>1. PICK n \in Nat : n = p.over
    BY <1>3
  <2>2. PICK v \in Nat : v = incLog.overflows + n
    BY <2>1 DEF LogTyped, IncLogType
  <2>3. g = [incLog EXCEPT !.overflows = v]
    BY <2>1, <2>2
  <2> QED BY <2>1, <2>2, <2>3 DEF LogTyped, IncLogType
<1>5. \/ /\ Added(r) /\ incLog' = Stored(r, incLog) /\ UNCHANGED fifo
      \/ fifo' = p.fifo /\ Added(r) /\ incLog' = Stored(r, g)
      \/ fifo' = p.fifo /\ incLog' = g /\ UNCHANGED <<ring, detail>>
  BY DEF AddAnswered
<1> HIDE DEF g
<1>6. /\ LogTyped' /\ RingTyped' /\ RingKept' /\ MissingPaid'
      /\ fifo' \in Seq(Records) /\ (fifo # <<>> => fifo' # <<>>)
      /\ incLog'.seen = incLog.seen /\ incLog'.sent = incLog.sent /\ incLog'.capped = incLog.capped
  <2>1. CASE Added(r) /\ incLog' = Stored(r, incLog) /\ UNCHANGED fifo
    <3>1. /\ incLog' \in IncLogType /\ incLog'.seq = incLog.seq + 1
          /\ incLog'.stored = incLog.stored \cup {r}
          /\ incLog'.seen = incLog.seen /\ incLog'.sent = incLog.sent
          /\ incLog'.capped = incLog.capped /\ incLog'.overflows = incLog.overflows
      BY <1>1, <2>1, StoredLog DEF LogTyped
    <3>2. Missing' \subseteq Missing
      BY <1>1, <2>1, <3>1 DEF Missing
    <3>3. LogTyped' /\ MissingPaid'
      BY <1>1, <2>1, <3>1, <3>2, NothingLost DEF LogTyped
    <3>4. RingTyped' /\ RingKept'
      BY <1>1, <2>1, <3>1, AddedKeeps
    <3> QED BY <2>1, <3>1, <3>3, <3>4 DEF BufferTyped
  <2>2. CASE fifo' = p.fifo /\ Added(r) /\ incLog' = Stored(r, g)
    <3>1. /\ incLog' \in IncLogType /\ incLog'.seq = incLog.seq + 1
          /\ incLog'.stored = incLog.stored \cup {r}
          /\ incLog'.seen = incLog.seen /\ incLog'.sent = incLog.sent
          /\ incLog'.capped = incLog.capped /\ incLog'.overflows = incLog.overflows + p.over
      BY <1>1, <1>4, <2>2, StoredLog DEF LogTyped
    <3>2. LogTyped'
      BY <3>1 DEF LogTyped
    <3>3. MissingPaid' /\ fifo' \in Seq(Records) /\ (fifo # <<>> => fifo' # <<>>)
      BY <1>1, <1>2, <2>2, <3>1, <3>2, DroppedPaid
    <3>4. RingTyped' /\ RingKept'
      BY <1>1, <2>2, <3>1, AddedKeeps
    <3> QED BY <3>1, <3>2, <3>3, <3>4
  <2>3. CASE fifo' = p.fifo /\ incLog' = g /\ UNCHANGED <<ring, detail>>
    <3>1. LogTyped'
      BY <1>4, <2>3 DEF LogTyped
    <3>2. MissingPaid' /\ fifo' \in Seq(Records) /\ (fifo # <<>> => fifo' # <<>>)
      BY <1>1, <1>2, <1>4, <2>3, <3>1, DroppedPaid
    <3>3. RingTyped' /\ RingKept'
      BY <1>4, <2>3, RingUntouched
    <3> QED BY <1>4, <2>3, <3>1, <3>2, <3>3
  <2> QED BY <1>5, <2>1, <2>2, <2>3
<1>7. BufferTyped'
  BY <1>1, <1>6 DEF BufferTyped
<1>8. RequestsTyped' /\ RedisTyped' /\ CountersKept'
  BY <1>1 DEF RequestsTyped, RedisTyped, CountersKept
<1>9. OccurrencesKept'
  BY <1>1, <1>6 DEF OccurrencesKept, Recorded, Drafted
<1> QED BY <1>6, <1>7, <1>8, <1>9

LEMMA MissingBounded ==
  ASSUME LogTyped, MissingPaid
  PROVE  /\ IsFiniteSet(Missing) /\ Cardinality(Missing) \in Nat
         /\ Cardinality(Missing) <= incLog.overflows
<1>1. IsFiniteSet(Missing) /\ Cardinality(Missing) \in Nat
  BY FS_Difference, FS_CardinalityType DEF LogTyped, Missing
<1>2. /\ IsFiniteSet(Missing \ {flush.rec}) /\ Cardinality(Missing \ {flush.rec}) \in Nat
      /\ Cardinality(Missing \ {flush.rec}) \in {Cardinality(Missing), Cardinality(Missing) - 1}
  BY <1>1, FS_RemoveElement, FS_CardinalityType
<1>3. incLog.overflows \in Nat
  BY DEF LogTyped, IncLogType
<1> QED BY <1>1, <1>2, <1>3 DEF MissingPaid

LEMMA FlushKeeps ==
  ASSUME IncidentConstants, IncInvariant, FlushNext \/ FlushAnswered
  PROVE  IncInvariant'
<1> USE DEF IncInvariant, IncTyped
<1>1. CASE FlushNext
  <2>1. /\ flush = FlushFrom
        /\ UNCHANGED <<ctx, signature, flight, fifo, ring, detail, metric, upstream, incLog, incLeft>>
        /\ \/ fifo # <<>> /\ flush' = [pc |-> "add", rec |-> fifo[1]]
           \/ flush' = NotFlushing
    BY <1>1 DEF FlushNext
  <2>2. /\ flush' \in [pc : {"off", "next", "add"}, rec : Records]
        /\ (flush'.pc = "add" => fifo # <<>>) /\ ~HeadDropped'
    <3>1. fifo # <<>> => fifo[1] \in Records
      BY DEF BufferTyped
    <3> QED BY <2>1, <3>1 DEF NotFlushing, Records, HeadDropped
  <2>3. BufferTyped'
    BY <2>1, <2>2 DEF BufferTyped
  <2>4. MissingPaid'
    BY <2>1, <2>2, MissingBounded DEF MissingPaid, Missing
  <2>5. LogTyped' /\ RequestsTyped' /\ RedisTyped' /\ CountersKept' /\ RingTyped' /\ RingKept'
    BY <2>1 DEF LogTyped, RequestsTyped, RedisTyped, CountersKept, RingTyped, RingKept
  <2>6. OccurrencesKept'
    BY <2>1 DEF OccurrencesKept, Recorded, Drafted
  <2> QED BY <2>3, <2>4, <2>5, <2>6
<1>2. CASE FlushAnswered
  <2> DEFINE r == flush.rec
  <2>1. /\ flush.pc = "add" /\ r \in Records /\ fifo # <<>> /\ fifo \in Seq(Records)
        /\ UNCHANGED <<ctx, signature, flight, metric, upstream, incLeft>>
    BY <1>2 DEF FlushAnswered, BufferTyped
  <2>2. /\ Tail(fifo) \in Seq(Records) /\ fifo[1] \in Records
        /\ Range(fifo) = {fifo[1]} \cup Range(Tail(fifo))
    <3>1. PICK m \in Nat : m = Len(fifo) /\ m # 0
      BY <2>1
    <3>2. /\ Tail(fifo) \in Seq(Records) /\ DOMAIN Tail(fifo) = 1 .. m - 1
          /\ DOMAIN fifo = 1 .. m /\ \A i \in 1 .. m - 1 : Tail(fifo)[i] = fifo[i + 1]
      BY <2>1, <3>1
    <3>3. /\ \A i \in 1 .. m : i = 1 \/ (i - 1 \in 1 .. m - 1 /\ Tail(fifo)[i - 1] = fifo[i])
          /\ \A i \in 1 .. m - 1 : i + 1 \in 1 .. m
          /\ 1 \in 1 .. m
      BY <3>1, <3>2
    <3>4. fifo[1] \in Records
      BY <2>1, <3>2, <3>3
    <3>5. ASSUME NEW x \in Range(fifo) PROVE x \in {fifo[1]} \cup Range(Tail(fifo))
      <4>1. PICK i \in 1 .. m : x = fifo[i]
        BY <3>2 DEF Range
      <4> QED BY <4>1, <3>2, <3>3 DEF Range
    <3>6. ASSUME NEW x \in Range(Tail(fifo)) PROVE x \in Range(fifo)
      <4>1. PICK i \in 1 .. m - 1 : x = fifo[i + 1]
        BY <3>2 DEF Range
      <4> QED BY <4>1, <3>2, <3>3 DEF Range
    <3>7. fifo[1] \in Range(fifo)
      BY <3>2, <3>3 DEF Range
    <3> QED BY <3>2, <3>4, <3>5, <3>6, <3>7
  <2>3. /\ LogTyped' /\ RingTyped' /\ RingKept'
        /\ incLog'.overflows = incLog.overflows
        /\ incLog'.seen = incLog.seen /\ incLog'.sent = incLog.sent /\ incLog'.capped = incLog.capped
        /\ \/ /\ fifo' = Tail(fifo) /\ flush' = FlushFrom
              /\ incLog'.stored = incLog.stored \cup {r}
           \/ /\ fifo' = fifo /\ flush' = NotFlushing
              /\ incLog.stored \subseteq incLog'.stored
    <3>1. \/ /\ Added(r) /\ incLog' = Stored(r, incLog)
             /\ \/ fifo' = Tail(fifo) /\ flush' = FlushFrom
                \/ fifo' = fifo /\ flush' = NotFlushing
          \/ fifo' = fifo /\ flush' = NotFlushing /\ UNCHANGED <<ring, detail, incLog>>
      BY <1>2 DEF FlushAnswered, Unflushed
    <3>2. CASE Added(r) /\ incLog' = Stored(r, incLog)
      <4>1. /\ incLog' \in IncLogType /\ incLog'.seq = incLog.seq + 1
            /\ incLog'.stored = incLog.stored \cup {r}
            /\ incLog'.seen = incLog.seen /\ incLog'.sent = incLog.sent
            /\ incLog'.capped = incLog.capped /\ incLog'.overflows = incLog.overflows
        BY <2>1, <3>2, StoredLog DEF LogTyped
      <4>2. LogTyped' /\ RingTyped' /\ RingKept'
        BY <2>1, <3>2, <4>1, AddedKeeps DEF LogTyped
      <4>3. \/ fifo' = Tail(fifo) /\ flush' = FlushFrom
            \/ fifo' = fifo /\ flush' = NotFlushing
        BY <3>1
      <4> QED BY <4>1, <4>2, <4>3
    <3>3. CASE fifo' = fifo /\ flush' = NotFlushing /\ UNCHANGED <<ring, detail, incLog>>
      BY <3>3, RingUntouched DEF LogTyped
    <3> QED BY <3>1, <3>2, <3>3
  <2>4. BufferTyped' /\ ~HeadDropped'
    <3>1. /\ flush' \in [pc : {"off", "next", "add"}, rec : Records] /\ flush'.pc # "add"
      BY <2>3 DEF FlushFrom, NotFlushing, Records
    <3>2. fifo' \in Seq(Records) /\ flight' = flight
      BY <2>1, <2>2, <2>3
    <3> QED BY <3>1, <3>2 DEF BufferTyped, HeadDropped
  <2>5. PICK v \in Nat : v = incLog.overflows
    BY DEF LogTyped, IncLogType
  <2> DEFINE M == Missing'
  <2>6. Cardinality(M) <= v
    <3>1. CASE M \subseteq Missing
      <4>1. IsFiniteSet(M) /\ Cardinality(M) <= Cardinality(Missing)
        BY <3>1, MissingBounded, FS_Subset
      <4>2. Cardinality(M) \in Nat /\ Cardinality(Missing) \in Nat /\ Cardinality(Missing) <= v
        BY <4>1, <2>5, MissingBounded, FS_CardinalityType
      <4> HIDE DEF M
      <4> QED BY <4>1, <4>2, <2>5
    <3>2. CASE ~(M \subseteq Missing)
      <4>1. fifo' = Tail(fifo) /\ incLog'.stored = incLog.stored \cup {r}
        BY <2>1, <2>3, <3>2 DEF Missing
      <4>2. M \subseteq (Missing \ {r}) \cup {fifo[1]}
        BY <2>1, <2>2, <2>3, <4>1 DEF Missing
      <4>3. HeadDropped
        BY <2>1, <2>2, <2>3, <3>2, <4>1, <4>2 DEF Missing, HeadDropped
      <4>4. IsFiniteSet(Missing \ {r}) /\ IsFiniteSet({fifo[1]}) /\ Cardinality({fifo[1]}) = 1
        BY MissingBounded, FS_Difference, FS_Singleton
      <4> HIDE DEF M
      <4>5. /\ Cardinality(M) \in Nat /\ Cardinality(Missing \ {r}) \in Nat
            /\ Cardinality(M) <= Cardinality(Missing \ {r}) + 1
        BY <4>2, <4>4, AtMostBoth
      <4>6. Cardinality(Missing \ {r}) < v
        BY <2>5, <4>3 DEF MissingPaid
      <4> QED BY <2>5, <4>5, <4>6
    <3> QED BY <3>1, <3>2
  <2>7. MissingPaid'
    BY <2>3, <2>4, <2>5, <2>6 DEF MissingPaid
  <2>8. RequestsTyped' /\ RedisTyped' /\ CountersKept'
    BY <2>1 DEF RequestsTyped, RedisTyped, CountersKept
  <2>9. OccurrencesKept'
    BY <2>1, <2>3 DEF OccurrencesKept, Recorded, Drafted
  <2> QED BY <2>3, <2>4, <2>7, <2>8, <2>9
<1> QED BY <1>1, <1>2

LEMMA RedisKeeps ==
  ASSUME IncidentConstants, IncInvariant, RedisLost \/ RedisReady
  PROVE  IncInvariant'
<1> USE DEF IncInvariant, IncTyped
<1>1. CASE RedisLost
  <2>1. /\ UNCHANGED <<ctx, signature, flight, fifo, flush, ring, detail, metric, incLog>>
        /\ upstream' \in [ready : BOOLEAN, downRecorded : BOOLEAN] /\ incLeft' \in Nat
    <3>1. /\ UNCHANGED <<ctx, signature, flight, fifo, flush, ring, detail, metric, incLog>>
          /\ upstream' = [upstream EXCEPT !.ready = FALSE]
          /\ incLeft > 0 /\ incLeft' = incLeft - 1
      BY <1>1 DEF RedisLost, SpendInc
    <3>2. upstream \in [ready : BOOLEAN, downRecorded : BOOLEAN] /\ incLeft \in Nat
      BY DEF RedisTyped
    <3>3. incLeft' \in Nat
      BY <3>1, <3>2
    <3>4. upstream' \in [ready : BOOLEAN, downRecorded : BOOLEAN]
      BY <3>1, <3>2
    <3> QED BY <3>1, <3>3, <3>4
  <2>2. LogTyped' /\ BufferTyped' /\ RequestsTyped' /\ RedisTyped' /\ RingTyped'
    BY <2>1 DEF LogTyped, BufferTyped, RequestsTyped, RedisTyped, RingTyped
  <2>3. MissingPaid' /\ RingKept' /\ CountersKept'
    BY <2>1 DEF MissingPaid, HeadDropped, Missing, RingKept, CountersKept
  <2>4. OccurrencesKept'
    BY <2>1 DEF OccurrencesKept, Recorded, Drafted
  <2> QED BY <2>2, <2>3, <2>4
<1>2. CASE RedisReady
  <2>1. /\ UNCHANGED <<ctx, signature, flight, fifo, ring, detail, incLog, incLeft>>
        /\ upstream' = [ready |-> TRUE, downRecorded |-> FALSE]
        /\ flush' = IF flush = NotFlushing THEN FlushFrom ELSE flush
        /\ metric' = IF metric.pending = NoCounts THEN metric
                     ELSE [metric EXCEPT !.pending = NoCounts, !.pipes = Append(@, metric.pending)]
    BY <1>2 DEF RedisReady
  <2>2. /\ metric' \in [redis : CountsType, pending : CountsType, pipes : Seq(CountsType)]
        /\ CountersKept'
    <3>1. CASE metric' = metric
      BY <3>1 DEF RedisTyped, CountersKept
    <3>2. CASE metric' = [metric EXCEPT !.pending = NoCounts, !.pipes = Append(@, metric.pending)]
      <4>1. /\ Append(metric.pipes, metric.pending) \in Seq(CountsType) /\ NoCounts \in CountsType
        BY DEF RedisTyped, NoCounts, CountsType
      <4>2. /\ metric'.redis = metric.redis /\ metric'.pending = NoCounts
            /\ metric'.pipes = Append(metric.pipes, metric.pending)
            /\ metric' \in [redis : CountsType, pending : CountsType, pipes : Seq(CountsType)]
        BY <3>2, <4>1 DEF RedisTyped
      <4>3. \A i \in DOMAIN metric'.pipes : metric'.pipes[i].err <= metric'.pipes[i].req
        BY <4>2 DEF RedisTyped, CountersKept
      <4> QED BY <4>2, <4>3 DEF CountersKept, NoCounts
    <3> QED BY <2>1, <3>1, <3>2
  <2>3. LogTyped' /\ RequestsTyped' /\ RedisTyped' /\ RingTyped'
    BY <2>1, <2>2 DEF LogTyped, RequestsTyped, RedisTyped, RingTyped
  <2>4. BufferTyped' /\ (HeadDropped' <=> HeadDropped) /\ (HeadDropped => flush' = flush)
    BY <2>1 DEF BufferTyped, HeadDropped, NotFlushing, FlushFrom, Records
  <2>5. MissingPaid'
    BY <2>1, <2>4 DEF MissingPaid, Missing
  <2>6. OccurrencesKept' /\ RingKept'
    BY <2>1 DEF OccurrencesKept, Recorded, Drafted, RingKept
  <2> QED BY <2>2, <2>3, <2>4, <2>5, <2>6
<1> QED BY <1>1, <1>2

(* Whatever part of a pipeline ran, and whether it is sent again or not.   *)
LEMMA CountsAre ==
  ASSUME NEW c \in CountsType, c.err <= c.req
  PROVE  \E a, b \in Nat : c = [req |-> a, err |-> b] /\ b <= a
<1>1. c.req \in Nat /\ c.err \in Nat /\ c = [req |-> c.req, err |-> c.err]
  BY DEF CountsType
<1> QED BY <1>1

LEMMA CountsAdd ==
  ASSUME NEW c \in CountsType, NEW d \in CountsType, c.err <= c.req, d.err <= d.req
  PROVE  AddCounts(c, d) \in CountsType /\ AddCounts(c, d).err <= AddCounts(c, d).req
<1>1. PICK a, b \in Nat : c = [req |-> a, err |-> b] /\ b <= a
  BY CountsAre
<1>2. PICK x, y \in Nat : d = [req |-> x, err |-> y] /\ y <= x
  BY CountsAre
<1>3. AddCounts(c, d) = [req |-> a + x, err |-> b + y]
  BY <1>1, <1>2 DEF AddCounts
<1>4. a + x \in Nat /\ b + y \in Nat /\ b + y <= a + x
  BY <1>1, <1>2
<1> QED BY <1>3, <1>4 DEF CountsType

LEMMA PipeKeeps ==
  ASSUME IncidentConstants, IncInvariant, PipeAnswered
  PROVE  IncInvariant'
<1> USE DEF IncInvariant, IncTyped
<1> DEFINE d == Head(metric.pipes)
           MetricType == [redis : CountsType, pending : CountsType, pipes : Seq(CountsType)]
<1>1. /\ UNCHANGED <<ctx, signature, flight, fifo, flush, ring, detail, upstream, incLog, incLeft>>
      /\ metric.pipes # <<>> /\ metric.pipes \in Seq(CountsType) /\ metric \in MetricType
  BY DEF PipeAnswered, RedisTyped
<1>2. /\ d \in CountsType /\ d.err <= d.req /\ Tail(metric.pipes) \in Seq(CountsType)
      /\ \A i \in DOMAIN Tail(metric.pipes) :
           Tail(metric.pipes)[i].err <= Tail(metric.pipes)[i].req
  <2>1. PICK m \in Nat : m = Len(metric.pipes) /\ m # 0
    BY <1>1
  <2>2. /\ Tail(metric.pipes) \in Seq(CountsType) /\ DOMAIN Tail(metric.pipes) = 1 .. m - 1
        /\ DOMAIN metric.pipes = 1 .. m /\ d = metric.pipes[1]
        /\ \A i \in 1 .. m - 1 : Tail(metric.pipes)[i] = metric.pipes[i + 1]
    BY <1>1, <2>1
  <2>3. /\ \A i \in 1 .. m - 1 : i + 1 \in 1 .. m
        /\ 1 \in 1 .. m
    BY <2>1
  <2>4. d \in CountsType
    BY <1>1, <2>2, <2>3
  <2> QED BY <2>2, <2>3, <2>4 DEF CountersKept
<1>3. PICK part \in {NoCounts, [d EXCEPT !.err = 0], d} :
        LET rest == [metric EXCEPT !.pipes = Tail(@)] IN
        \/ metric' = [rest EXCEPT !.redis = AddCounts(@, part)]
        \/ metric' = [rest EXCEPT !.redis = AddCounts(@, part), !.pending = AddCounts(@, Retried(d))]
  BY DEF PipeAnswered
<1>4. part \in CountsType /\ part.err <= part.req
  <2>1. PICK a, b \in Nat : d = [req |-> a, err |-> b] /\ b <= a
    BY <1>2, CountsAre
  <2> HIDE DEF d
  <2>2. CASE part = NoCounts
    BY <2>2 DEF NoCounts, CountsType
  <2>3. CASE part = [d EXCEPT !.err = 0]
    <3>1. part = [req |-> a, err |-> 0]
      BY <2>1, <2>3
    <3> QED BY <2>1, <3>1 DEF CountsType
  <2>4. CASE part = d
    BY <1>2, <2>4
  <2> QED BY <1>3, <2>2, <2>3, <2>4
<1> HIDE DEF d
<1>5. /\ AddCounts(metric.redis, part) \in CountsType
      /\ AddCounts(metric.redis, part).err <= AddCounts(metric.redis, part).req
      /\ AddCounts(metric.pending, d) \in CountsType
      /\ AddCounts(metric.pending, d).err <= AddCounts(metric.pending, d).req
  <2>1. /\ metric.redis \in CountsType /\ metric.redis.err <= metric.redis.req
        /\ metric.pending \in CountsType /\ metric.pending.err <= metric.pending.req
    BY <1>1 DEF CountersKept
  <2> QED BY <1>2, <1>4, <2>1, CountsAdd
<1>6. /\ metric' \in MetricType /\ metric'.pipes = Tail(metric.pipes)
      /\ metric'.redis = AddCounts(metric.redis, part)
      /\ metric'.pending \in {metric.pending, AddCounts(metric.pending, d)}
  BY <1>1, <1>2, <1>3, <1>5 DEF Retried
<1>7. CountersKept'
  BY <1>2, <1>5, <1>6 DEF CountersKept
<1>8. LogTyped' /\ BufferTyped' /\ RequestsTyped' /\ RedisTyped' /\ RingTyped'
  BY <1>1, <1>6 DEF LogTyped, BufferTyped, RequestsTyped, RedisTyped, RingTyped
<1>9. MissingPaid' /\ RingKept'
  BY <1>1 DEF MissingPaid, HeadDropped, Missing, RingKept
<1>10. OccurrencesKept'
  BY <1>1 DEF OccurrencesKept, Recorded, Drafted
<1> QED BY <1>7, <1>8, <1>9, <1>10

-----------------------------------------------------------------------------
LEMMA IncidentsInit ==
  ASSUME IncidentConstants, IncInit
  PROVE  IncInvariant
<1> USE DEF IncInit
<1>1. /\ IsFiniteSet({}) /\ Cardinality({}) = 0
  BY FS_EmptySet
<1>2. LogTyped
  BY <1>1 DEF LogTyped, IncLogType
<1>3. BufferTyped
  BY DEF BufferTyped, NotFlushing, Records
<1>4. RequestsTyped
  BY DEF RequestsTyped, ClosedContext, ContextType, NoWindow, WindowType, Records,
         IncidentConstants
<1>5. RedisTyped /\ CountersKept
  BY DEF RedisTyped, CountersKept, NoCounts, CountsType, IncidentConstants
<1>6. RingTyped /\ RingKept
  BY DEF RingTyped, RingKept, IncidentConstants
<1>7. OccurrencesKept
  BY DEF OccurrencesKept, Drafted, Recorded, NoWindow, ClosedContext, Range
<1>8. MissingPaid
  <2>1. Missing = {} /\ ~HeadDropped /\ incLog.overflows = 0
    BY DEF Missing, HeadDropped, NotFlushing
  <2> QED BY <2>1, <1>1 DEF MissingPaid
<1> QED BY <1>2, <1>3, <1>4, <1>5, <1>6, <1>7, <1>8 DEF IncInvariant, IncTyped

LEMMA IncidentsNext ==
  ASSUME IncidentConstants, IncInvariant, [IncNext]_incVars
  PROVE  IncInvariant'
<1>1. CASE \E q \in IncRequests : OpenRequest(q) \/ SettleFailed(q) \/ SettleOk(q)
  BY <1>1, OpenKeeps, SettleFailedKeeps, SettleOkKeeps
<1>2. CASE External
  <2>1. CASE ExternalAlone
    <3>1. /\ Persist(<<{NextOccurrence}>>, SeenNow)
          /\ UNCHANGED <<ctx, flush, ring, detail, metric, upstream, incLeft>>
      BY <2>1 DEF ExternalAlone
    <3>2. upstream' \in [ready : BOOLEAN, downRecorded : BOOLEAN]
      BY <3>1 DEF IncInvariant, IncTyped, RedisTyped
    <3> QED BY <3>1, <3>2, AloneKeeps
  <2>2. CASE \E q \in IncRequests : ExternalInRequest(q)
    BY <2>2, DraftKeeps
  <2> QED BY <1>2, <2>1, <2>2 DEF External
<1>3. CASE WindowEnds \/ SweepSignatures
  BY <1>3, WindowKeeps
<1>4. CASE \E r \in flight : AddAnswered(r)
  BY <1>4, AnswerKeeps
<1>5. CASE FlushNext \/ FlushAnswered
  BY <1>5, FlushKeeps
<1>6. CASE RecordsAge
  BY <1>6, AgeKeeps
<1>7. CASE Purge
  BY <1>7, PurgeKeeps
<1>8. CASE RedisLost \/ RedisReady
  BY <1>8, RedisKeeps
<1>9. CASE RedisErrorEvent
  <2>1. /\ Persist(<<{NextOccurrence}>>, SeenNow)
        /\ UNCHANGED <<ctx, flush, ring, detail, metric, incLeft>>
        /\ upstream' = [upstream EXCEPT !.downRecorded = TRUE]
    BY <1>9 DEF RedisErrorEvent
  <2>2. upstream' \in [ready : BOOLEAN, downRecorded : BOOLEAN]
    BY <2>1 DEF IncInvariant, IncTyped, RedisTyped
  <2> QED BY <2>1, <2>2, AloneKeeps
<1>10. CASE PipeAnswered
  BY <1>10, PipeKeeps
<1>11. CASE UNCHANGED incVars
  <2> USE <1>11 DEF incVars, IncInvariant, IncTyped
  <2>1. LogTyped' /\ BufferTyped' /\ RequestsTyped' /\ RedisTyped' /\ RingTyped'
    BY DEF LogTyped, BufferTyped, RequestsTyped, RedisTyped, RingTyped
  <2>2. MissingPaid' /\ RingKept' /\ CountersKept' /\ OccurrencesKept'
    BY DEF MissingPaid, HeadDropped, Missing, RingKept, CountersKept, OccurrencesKept,
           Recorded, Drafted
  <2> QED BY <2>1, <2>2
<1> QED BY <1>1, <1>2, <1>3, <1>4, <1>5, <1>6, <1>7, <1>8, <1>9, <1>10, <1>11 DEF IncNext

LEMMA InvariantAccounts ==
  ASSUME IncidentConstants, IncInvariant
  PROVE  IncidentsAccounted
<1> USE DEF IncInvariant, IncTyped
<1>1. RecordsAccounted
  <2>1. incLog.seen = (UNION {Range(ctx[q].drafts) : q \in IncRequests}) \cup signature.held
                        \cup (UNION incLog.sent) \cup incLog.capped
    BY DEF OccurrencesKept, Drafted, Recorded
  <2>2. Cardinality(incLog.sent \ (incLog.stored \cup flight \cup Range(fifo)))
          <= incLog.overflows
    BY MissingBounded DEF Missing
  <2> QED BY <2>1, <2>2 DEF RecordsAccounted
<1>2. RingMatchesDetail
  <2>1. detail = {e.no : e \in Range(ring)}
    BY DEF RingKept, Range
  <2>2. Listed \subseteq detail /\ Purgeable \subseteq Listed
    <3>1. \A e \in Range(ring) : e.age = 1 => e.age < 2
      BY DEF Range
    <3> QED BY <2>1, <3>1 DEF Listed, Purgeable
  <2>3. \A no \in Listed : DetailOf(no) = "detail"
    BY <2>2 DEF DetailOf
  <2>4. Cardinality(Listed) <= IncidentCap
    <3>1. PICK m \in Nat : m = Len(ring) /\ DOMAIN ring = 1 .. m
      BY DEF RingTyped
    <3> DEFINE f == [i \in 1 .. m |-> ring[i].no]
    <3>2. IsFiniteSet(1 .. m) /\ Cardinality(1 .. m) = m
      <4>1. IsFiniteSet(1 .. m) /\ Cardinality(1 .. m) = IF 1 > m THEN 0 ELSE m - 1 + 1
        <5>1. 1 \in Int /\ m \in Int
          BY <3>1
        <5> QED BY <5>1, FS_Interval, Zenon
      <4> QED BY <4>1
    <3>3. IsFiniteSet(Range(f)) /\ Cardinality(Range(f)) <= m
      <4>1. DOMAIN f = 1 .. m /\ f = [i \in DOMAIN f |-> f[i]]
        OBVIOUS
      <4> HIDE DEF f
      <4> QED BY <4>1, <3>2, FewValues
    <3>4. Listed \subseteq Range(f)
      BY <3>1 DEF Listed, Range
    <3>5. IsFiniteSet(Listed) /\ Cardinality(Listed) <= Cardinality(Range(f))
      BY <3>3, <3>4, FS_Subset
    <3>6. PICK a, b \in Nat : a = Cardinality(Listed) /\ b = Cardinality(Range(f))
      BY <3>3, <3>5, FS_CardinalityType
    <3>7. a <= b /\ b <= m /\ m <= IncidentCap /\ IncidentCap \in Nat
      BY <3>1, <3>3, <3>5, <3>6 DEF RingKept, IncidentConstants
    <3> QED BY <3>6, <3>7
  <2> QED BY <2>1, <2>2, <2>3, <2>4 DEF RingMatchesDetail, Kpis, RingKept
<1>3. CountersAreSane
  <2>1. \A d \in {metric.pending} \cup Range(metric.pipes) : d.err <= d.req
    BY DEF CountersKept, Range
  <2>2. metric.redis.req \in Nat /\ metric.redis.err \in Nat /\ metric.redis.err <= metric.redis.req
    BY DEF CountersKept, RedisTyped, CountsType
  <2>3. metric.redis.req = 0 => metric.redis.err = 0
    BY <2>2
  <2> QED BY <2>1, <2>2, <2>3 DEF CountersAreSane, Kpis, Read
<1> QED BY <1>1, <1>2, <1>3 DEF IncidentsAccounted

(* The incident log's invariant: types, what becomes of an occurrence, the *)
(* overflow that pays for each missing record, the ring and its detail,    *)
(* and the counters on their way to Redis.                                 *)
THEOREM IncidentInvariantHolds == IncSpec => []IncInvariant
<1>1. IncInit => IncInvariant
  BY IncidentConstants, IncidentsInit
<1>2. IncInvariant /\ [IncNext]_incVars => IncInvariant'
  BY IncidentConstants, IncidentsNext
<1> QED BY <1>1, <1>2, PTL DEF IncSpec

(* Whatever Redis does: no occurrence is lost but to the buffer's overflow *)
(* and to the cap on drafts, each listed incident has its detail, and no   *)
(* day has more failures than requests.                                    *)
THEOREM NoIncidentLost == IncSpec => []IncidentsAccounted
<1>1. IncInvariant => IncidentsAccounted
  BY IncidentConstants, InvariantAccounts
<1> QED BY <1>1, IncidentInvariantHolds, PTL
=============================================================================
