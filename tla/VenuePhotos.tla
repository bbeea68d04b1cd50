---------------------------- MODULE VenuePhotos ----------------------------
(* The venues and their photos, and the avatars: rows in the database that *)
(* point at objects in the bucket, which no transaction spans.             *)
(*                                                                         *)
(* A photo is uploaded into the staging folder, bound to a venue when the  *)
(* venue is saved, then copied into the venue's folder, its staged object  *)
(* deleted and its row pointed at the copy.  A sweep deletes what has been *)
(* staged for a day, without looking at the rows.                          *)
EXTENDS Naturals, FiniteSets

CONSTANTS
  Photos,         \* files an operator uploads
  PhotoVenues,    \* ids of venues
  PhotoClerks,    \* requests, and the sweep, that can be under way at once
  Staged,         \* the staging folder venues/_new/
  MaxPhotoRequests \* bound: requests


VARIABLES
  bucket,     \* the keys there are: <<folder, file>>
  aged,       \* files staged for more than STAGED_PHOTO_MIN_AGE_MS
  told,       \* files whose staged URL the operator still has
  phVenue,    \* venues, with the URLs of their venue_photos rows
  avatar,     \* [row, files]: the staff account's picture and its objects
  phLeft,     \* requests still to come
  phTx        \* the requests under way

phVars == <<bucket, aged, told, phVenue, avatar, phLeft, phTx>>

(* A venue's rows are replaced as a whole: gen is the generation their ids *)
(* belong to.  (Ghosts: the URLs answers have shown, and those that lost   *)
(* their bytes to a sweep or to another save.)                             *)
NoVenue == [there |-> FALSE, open |-> TRUE, deleted |-> FALSE, urls |-> {},
            gen |-> 0, shown |-> {}, lost |-> {}]
NoPicture == 0

ASSUME PhotoConstants ==
  Staged \notin PhotoVenues /\ NoPicture \notin Photos /\ MaxPhotoRequests \in Nat

IsStagedVenuePhotoKey(url) == url[1] = Staged
VenuePhotoKeyFor(v, url) == <<v, url[2]>>
LiveVenue(v) == phVenue[v].there /\ ~phVenue[v].deleted

PhFree == [pc |-> "free", venue |-> Staged, urls |-> {}, before |-> {}, moves |-> {},
           gen |-> 0, file |-> 0, prev |-> NoPicture]
PhSay(c, t) == phTx' = [phTx EXCEPT ![c] = t]
PhStart(c, t) == /\ phTx[c] = PhFree /\ phLeft > 0 /\ phLeft' = phLeft - 1 /\ PhSay(c, t)
PhDone(c) == PhSay(c, PhFree)

(* deleteObject: best effort.                                              *)
DeleteObject(keys) == \E gone \in SUBSET keys : bucket' = bucket \ gone

-----------------------------------------------------------------------------
(* upload: a sniffed image at a new random key; a failed put is the 502.   *)
BuildVenuePhotoKey(k) == <<Staged, k>>
NewFile(k) ==
  \A d \in PhotoClerks : k \notin {phTx[d].file, phTx[d].prev}
Fresh(k, urls) == \A u \in urls : u[2] # k
NewKey(k) ==
  /\ NewFile(k) /\ k \notin told \cup aged /\ Fresh(k, bucket)
  /\ \A v \in PhotoVenues : Fresh(k, phVenue[v].urls \cup phVenue[v].shown)
  /\ \A d \in PhotoClerks : Fresh(k, phTx[d].urls \cup phTx[d].before)
SubmitUpload(c, k) ==
  /\ NewKey(k)
  /\ PhStart(c, [PhFree EXCEPT !.pc = "upload", !.file = k])
  /\ UNCHANGED <<bucket, aged, told, phVenue, avatar>>
PutImage(key) == bucket' = bucket \cup {key}
UploadPhoto(c) ==
  LET k == phTx[c].file IN
  /\ phTx[c].pc = "upload"
  /\ \/ PutImage(BuildVenuePhotoKey(k)) /\ told' = told \cup {k}
     \/ UNCHANGED <<bucket, told>>
  /\ PhDone(c) /\ UNCHANGED <<aged, phVenue, avatar, phLeft>>

(* discard: refused while a row has the URL, then the object is deleted.   *)
(* The URL is known to its one operator only, who is done with it.         *)
SubmitDiscard(c, k) ==
  /\ k \in told /\ told' = told \ {k}
  /\ \A v \in PhotoVenues : <<Staged, k>> \notin phVenue[v].urls
  /\ \A d \in PhotoClerks : <<Staged, k>> \notin phTx[d].urls
  /\ PhStart(c, [PhFree EXCEPT !.pc = "discard", !.urls = {<<Staged, k>>}])
  /\ UNCHANGED <<bucket, aged, phVenue, avatar>>

Discard(c) ==
  /\ phTx[c].pc = "discard" /\ DeleteObject(phTx[c].urls) /\ PhDone(c)
  /\ UNCHANGED <<aged, told, phVenue, avatar, phLeft>>

(* The URLs a save can send: new ones of its operator, and the venue's own *)
(* as some answer showed them, each photo once.  (assertOwnPhotoUrls       *)
(* refuses what is not under venues/.)                                     *)
AssertOwnPhotoUrls(v) ==
  LET known == ({Staged} \X (told \ aged)) \cup phVenue[v].shown
  IN  {urls \in SUBSET known : \A u, w \in urls : u[2] = w[2] => u = w}

SubmitCreateVenue(c, v, urls) ==
  /\ ~phVenue[v].there /\ urls \in AssertOwnPhotoUrls(v)
  /\ PhStart(c, [PhFree EXCEPT !.pc = "create", !.venue = v, !.urls = urls])
  /\ told' = {k \in told : <<Staged, k>> \notin urls}
  /\ UNCHANGED <<bucket, aged, phVenue, avatar>>

(* update: the URLs before are read outside the transaction.               *)
SubmitUpdateVenue(c, v, urls) ==
  /\ LiveVenue(v) /\ urls \in AssertOwnPhotoUrls(v)
  /\ PhStart(c, [PhFree EXCEPT !.pc = "update", !.venue = v, !.urls = urls,
                               !.before = phVenue[v].urls])
  /\ told' = {k \in told : <<Staged, k>> \notin urls}
  /\ UNCHANGED <<bucket, aged, phVenue, avatar>>

(* The transaction: the rows are replaced; an unknown option or a taken    *)
(* name refuses it, and the operator may try again.                        *)
SaveVenue(c) ==
  LET t == phTx[c]  v == phVenue[t.venue] IN
  /\ \/ /\ told' = told \cup {k \in Photos : <<Staged, k>> \in t.urls \ v.shown}
        /\ PhDone(c) /\ UNCHANGED phVenue
     \/ /\ UNCHANGED told
        /\ phVenue' = [phVenue EXCEPT ![t.venue] =
             [v EXCEPT !.there = TRUE, !.urls = t.urls, !.gen = @ + 1,
                       !.lost = (@ \cap t.urls) \cup (t.urls \ bucket)]]
        /\ PhSay(c, [t EXCEPT !.pc = "clear", !.gen = v.gen + 1])
  /\ UNCHANGED <<bucket, aged, avatar, phLeft>>

CreateVenue(c) == phTx[c].pc = "create" /\ SaveVenue(c)
UpdateVenue(c) == phTx[c].pc = "update" /\ SaveVenue(c)

(* A PATCH without photoUrls leaves the rows, and still re-homes them.     *)
PatchVenue(c, v) ==
  /\ LiveVenue(v)
  /\ PhStart(c, [PhFree EXCEPT !.pc = "rehome", !.venue = v, !.urls = phVenue[v].urls,
                               !.gen = phVenue[v].gen])
  /\ UNCHANGED <<bucket, aged, told, phVenue, avatar>>

(* The objects the save dropped.  (Ghost: a URL another save has bound in  *)
(* the meantime loses its object here.)                                    *)
DeleteObjectsFor(c) ==
  LET t == phTx[c]  keys == t.before \ t.urls IN
  /\ t.pc = "clear"
  /\ DeleteObject(keys)
  /\ phVenue' = [phVenue EXCEPT ![t.venue].lost = @ \cup
       {u \in phVenue[t.venue].urls : {u, VenuePhotoKeyFor(t.venue, u)} \cap keys # {}}]
  /\ PhSay(c, [t EXCEPT !.pc = "rehome"])
  /\ UNCHANGED <<aged, told, avatar, phLeft>>

-----------------------------------------------------------------------------
(* rehomePhotos, one staged photo after the other.  A copy that fails      *)
(* leaves the row on the staged object.                                    *)
(* Mutant of CopyObject: the staged object is deleted whatever the copy    *)
(* did.                                                                    *)
CopyOrNot(url, key) ==
  \/ bucket' = (bucket \cup {key}) \ {url}
  \/ bucket' = bucket \ {url}
CopyObject(url, key) ==
  /\ url \in bucket
  /\ \/ bucket' = (bucket \cup {key}) \ {url}
     \/ bucket' = bucket \cup {key}

RehomePhoto(c) ==
  LET t == phTx[c] IN
  /\ t.pc = "rehome"
  /\ \E url \in {u \in t.urls : IsStagedVenuePhotoKey(u)} :
       \/ /\ CopyObject(url, VenuePhotoKeyFor(t.venue, url))
          /\ PhSay(c, [t EXCEPT !.urls = @ \ {url}, !.moves = @ \cup {url}])
       \/ UNCHANGED bucket /\ PhSay(c, [t EXCEPT !.urls = @ \ {url}])
  /\ UNCHANGED <<aged, told, phVenue, avatar, phLeft>>

(* Then the rows, by id and all together: a save in between has replaced   *)
(* them and nothing is written, as when the database fails.                *)
Repoint(v, moves) ==
  LET To(us) == (us \ moves) \cup {VenuePhotoKeyFor(v, u) : u \in us \cap moves} IN
  [phVenue[v] EXCEPT !.urls = To(@), !.lost = To(@)]

RehomeRows(c) ==
  LET t == phTx[c] IN
  /\ t.pc = "rehome" /\ \A u \in t.urls : ~IsStagedVenuePhotoKey(u)
  /\ \/ UNCHANGED phVenue
     \/ /\ t.moves # {} /\ phVenue[t.venue].gen = t.gen
        /\ phVenue' = [phVenue EXCEPT ![t.venue] = Repoint(t.venue, t.moves)]
  /\ PhDone(c) /\ UNCHANGED <<bucket, aged, told, avatar, phLeft>>

-----------------------------------------------------------------------------
(* Answers show a venue's URLs to the operators: the answer of a save, as  *)
(* the lists, which filter, and the single read.                           *)
ToDto(v) == phVenue[v].urls
Show(vs) ==
  /\ \E v \in vs : ~(ToDto(v) \subseteq phVenue[v].shown)
  /\ phVenue' = [v \in PhotoVenues |->
       [phVenue[v] EXCEPT !.shown = IF v \in vs THEN @ \cup ToDto(v) ELSE @]]
  /\ UNCHANGED <<bucket, aged, told, avatar, phLeft, phTx>>
VenueListWhere(status) ==
  {v \in PhotoVenues : LiveVenue(v) /\ (status = "any" \/ phVenue[v].open = (status = "open"))}
ListVenues == \E status \in {"any", "open", "closed"} : Show(VenueListWhere(status))
FindVenue(v) == LiveVenue(v) /\ Show({v})

-----------------------------------------------------------------------------
(* close, reopen, softDelete: a read, then a write by id.                  *)
SubmitToggle(c, v, to) ==
  /\ LiveVenue(v) /\ PhStart(c, [PhFree EXCEPT !.pc = to, !.venue = v])
  /\ UNCHANGED <<bucket, aged, told, phVenue, avatar>>
SubmitClose(c, v) == phVenue[v].open /\ SubmitToggle(c, v, "close")
SubmitReopen(c, v) == ~phVenue[v].open /\ SubmitToggle(c, v, "reopen")
SubmitRemove(c, v) == SubmitToggle(c, v, "remove")

CloseVenue(c) ==
  /\ phTx[c].pc = "close" /\ phVenue' = [phVenue EXCEPT ![phTx[c].venue].open = FALSE]
  /\ PhDone(c) /\ UNCHANGED <<bucket, aged, told, avatar, phLeft>>
ReopenVenue(c) ==
  /\ phTx[c].pc = "reopen" /\ phVenue' = [phVenue EXCEPT ![phTx[c].venue].open = TRUE]
  /\ PhDone(c) /\ UNCHANGED <<bucket, aged, told, avatar, phLeft>>
(* The rows and the objects stay.                                          *)
RemoveVenue(c) ==
  /\ phTx[c].pc = "remove" /\ phVenue' = [phVenue EXCEPT ![phTx[c].venue].deleted = TRUE]
  /\ PhDone(c) /\ UNCHANGED <<bucket, aged, told, avatar, phLeft>>

-----------------------------------------------------------------------------
(* sweepStagedPhotos, at three in the morning or from the script: the      *)
(* staged objects past their age are listed, then deleted in batches, of   *)
(* which the bucket may refuse some.                                       *)
Eligible == ({Staged} \X aged) \cap bucket
ListStaged(c) ==
  /\ phTx[c] = PhFree /\ Eligible # {}
  /\ PhSay(c, [PhFree EXCEPT !.pc = "sweep", !.urls = Eligible])
  /\ UNCHANGED <<bucket, aged, told, phVenue, avatar, phLeft>>
SweepCron(c) == ListStaged(c)
SweepScript(c) == ListStaged(c)
SweepStagedPhotos(c) ==
  /\ phTx[c].pc = "sweep" /\ DeleteObject(phTx[c].urls) /\ PhDone(c)
  /\ phVenue' = [v \in PhotoVenues |->
       [phVenue[v] EXCEPT !.lost = @ \cup (phVenue[v].urls \cap phTx[c].urls)]]
  /\ UNCHANGED <<aged, told, avatar, phLeft>>

(* A day passes: no request lasts that long.                               *)
DayPasses ==
  /\ \A c \in PhotoClerks : phTx[c] = PhFree
  /\ \E k \in Photos : <<Staged, k>> \in bucket /\ k \notin aged
  /\ aged' = aged \cup {k \in Photos : <<Staged, k>> \in bucket}
  /\ UNCHANGED <<bucket, told, phVenue, avatar, phLeft, phTx>>

-----------------------------------------------------------------------------
(* The avatar: put the new object, write the row, delete the object that   *)
(* was the picture when the session guard read the account.                *)
SubmitAvatar(c, k) ==
  /\ NewFile(k) /\ k \notin avatar.files \cup {avatar.row}
  /\ PhStart(c, [PhFree EXCEPT !.pc = "put", !.file = k, !.prev = avatar.row])
  /\ UNCHANGED <<bucket, aged, told, phVenue, avatar>>
PutAvatar(c) ==
  /\ phTx[c].pc = "put"
  /\ \/ PhDone(c) /\ UNCHANGED avatar
     \/ /\ avatar' = [avatar EXCEPT !.files = @ \cup {phTx[c].file}]
        /\ PhSay(c, [phTx[c] EXCEPT !.pc = "picture"])
  /\ UNCHANGED <<bucket, aged, told, phVenue, phLeft>>
SetOwnAvatar(c) ==
  /\ phTx[c].pc = "picture"
  /\ \/ /\ avatar' = [avatar EXCEPT !.row = phTx[c].file]
        /\ PhSay(c, [phTx[c] EXCEPT !.pc = "previous"])
     \/ /\ \/ UNCHANGED avatar
           \/ avatar' = [avatar EXCEPT !.files = @ \ {phTx[c].file}]
        /\ PhDone(c)
  /\ UNCHANGED <<bucket, aged, told, phVenue, phLeft>>
DeletePreviousAvatar(c) ==
  /\ phTx[c].pc = "previous"
  /\ \/ avatar' = [avatar EXCEPT !.files = @ \ {phTx[c].prev}]
     \/ UNCHANGED avatar
  /\ PhDone(c) /\ UNCHANGED <<bucket, aged, told, phVenue, phLeft>>

(* The process stops: what is written is written.                          *)
PhotoCrash ==
  /\ \E c \in PhotoClerks : phTx[c] # PhFree
  /\ phTx' = [c \in PhotoClerks |-> PhFree]
  /\ UNCHANGED <<bucket, aged, told, phVenue, avatar, phLeft>>

-----------------------------------------------------------------------------
PhIdle ==
  /\ bucket = {} /\ aged = {} /\ told = {} /\ phLeft = MaxPhotoRequests
  /\ phVenue = [v \in PhotoVenues |-> NoVenue]
  /\ avatar = [row |-> NoPicture, files |-> {}]
  /\ phTx = [c \in PhotoClerks |-> PhFree]

PhNext ==
  \/ \E c \in PhotoClerks :
       \/ \E k \in Photos : SubmitUpload(c, k) \/ SubmitDiscard(c, k) \/ SubmitAvatar(c, k)
       \/ \E v \in PhotoVenues :
            \/ \E urls \in AssertOwnPhotoUrls(v) :
                 SubmitCreateVenue(c, v, urls) \/ SubmitUpdateVenue(c, v, urls)
            \/ SubmitClose(c, v) \/ SubmitReopen(c, v)
            \/ SubmitRemove(c, v) \/ PatchVenue(c, v)
       \/ UploadPhoto(c) \/ Discard(c) \/ CreateVenue(c) \/ UpdateVenue(c) \/ DeleteObjectsFor(c)
       \/ RehomePhoto(c) \/ RehomeRows(c)
       \/ CloseVenue(c) \/ ReopenVenue(c) \/ RemoveVenue(c)
       \/ SweepCron(c) \/ SweepScript(c) \/ SweepStagedPhotos(c)
       \/ PutAvatar(c) \/ SetOwnAvatar(c) \/ DeletePreviousAvatar(c)
  \/ ListVenues \/ \E v \in PhotoVenues : FindVenue(v)
  \/ DayPasses \/ PhotoCrash

PhSpec == PhIdle /\ [][PhNext]_phVars

-----------------------------------------------------------------------------
(* Whatever a copy, a delete or the process does half-way: the bytes of a  *)
(* photo some row names are in the bucket, at its URL or already in the    *)
(* venue's folder, unless a sweep or an overlapping save took them.        *)
RehomeKeepsBytes ==
  \A v \in PhotoVenues : \A u \in phVenue[v].urls \ phVenue[v].lost :
    u \in bucket \/ VenuePhotoKeyFor(v, u) \in bucket

(* "The worst case is a photo that stays in _new/, which still resolves    *)
(* and still renders": a row left on a staged object keeps its bytes.      *)
StagedStillRenders ==
  \A v \in PhotoVenues : \A u \in phVenue[v].urls :
    IsStagedVenuePhotoKey(u) => u \in bucket \/ VenuePhotoKeyFor(v, u) \in bucket

(* The account's picture is never a dead URL, however uploads and failures *)
(* interleave.                                                             *)
AvatarResolves == avatar.row # NoPicture => avatar.row \in avatar.files

ImagesAreSafe == RehomeKeepsBytes /\ AvatarResolves
=============================================================================
