----------------------------- MODULE LineUsers -----------------------------
(* One LINE user: the follow and unfollow webhooks, the LIFF registration, *)
(* the operator's access decisions, the copy of the LINE profile and the   *)
(* cached status every LIFF screen is routed by.                           *)
(*                                                                         *)
(* lineUserId is unique and rows are never removed, so a person has one    *)
(* row for ever and one row stands for each.  An action is a statement or  *)
(* an awaited call; a transaction takes effect in its last statement.      *)
EXTENDS Naturals, FiniteSets

CONSTANTS
  Workers,       \* requests and webhook events that can be under way at once
  Filings,       \* what a registration form can hold
  None,          \* null
  Miss,          \* no status in the cache
  MaxName,       \* bound: the names the user has on LINE, 1 .. MaxName
  MaxRequests    \* bound: requests and events

ASSUME LineConstants ==
  /\ None \notin Filings /\ None \notin Nat
  /\ MaxName \in Nat \ {0} /\ MaxRequests \in Nat /\ IsFiniteSet(Workers)

VARIABLES
  row,       \* the line_users row
  reg,       \* its line_user_registrations row, or None
  cache,     \* the status key in Redis, or Miss
  mark,      \* the profile-refresh marker is set
  name,      \* the display name on LINE
  menu,      \* the rich menu linked on LINE
  listed,    \* an open back-office list shows the user
  owed,      \* disappearances the back office has not been told of
  forced,    \* a SUPER_ADMIN has made a move that is not in ADMIN's matrix
  left,      \* requests still to come
  tx         \* the handlers under way

outside == <<mark, name, menu, listed, owed, forced>>
vars == <<row, reg, cache, left, tx, outside>>

Access == {"UNREGISTERED", "PENDING", "ALLOWED", "BLOCKED", "REJECTED"}
Menus == {"TYPE_1", "TYPE_2"}
Roles == {"ADMIN", "SUPER_ADMIN"}
Names == 1 .. MaxName

Fresh == [there |-> TRUE, deleted |-> FALSE, access |-> "UNREGISTERED",
          menu |-> "TYPE_1", rej |-> FALSE, block |-> FALSE, dated |-> FALSE,
          name |-> None]
NoRow == [Fresh EXCEPT !.there = FALSE]
Live == row.there /\ ~row.deleted
Statuses == [access : Access, reg : Filings \cup {None}, rej : BOOLEAN]
(* toStatusDto: what the LIFF routes its screens by.                       *)
Status(r, f) == [access |-> r.access, reg |-> f, rej |-> r.rej]

(* A handler: where it is, what it has read, what it was asked.  `then` is *)
(* what follows the publish.                                               *)
Pcs == {"idle", "upsert", "unfollow", "tell", "fetch", "sync", "claims",
        "create", "registration", "fill", "register", "edit", "access", "menu",
        "adminEdit", "publish", "emit", "drop"}
Unseen == [access |-> "UNREGISTERED", rej |-> FALSE, name |-> None]
Seen == [access |-> row.access, rej |-> row.rej, name |-> row.name]
Idle == [pc |-> "idle", seen |-> Unseen, new |-> FALSE, gone |-> FALSE, file |-> None, to |-> "UNREGISTERED",
         why |-> FALSE, name |-> None, then |-> "drop"]

Begin(w, t) ==
  /\ tx[w].pc = "idle" /\ left > 0 /\ left' = left - 1
  /\ tx' = [tx EXCEPT ![w] = t]
Go(w, t) == tx' = [tx EXCEPT ![w] = t] /\ UNCHANGED left
Step(w, pc) == Go(w, [tx[w] EXCEPT !.pc = pc])
End(w) == Go(w, Idle)
Onward(w) == IF tx[w].then = "idle" THEN End(w) ELSE Step(w, tx[w].then)
Published(w) == [Idle EXCEPT !.pc = "publish"]

-----------------------------------------------------------------------------
(* follow: the profile is fetched, and the user stored without one when    *)
(* that fails; the upsert restores a deleted row and keeps its access.     *)
Follow(w) ==
  /\ \E n \in {name, None} : Begin(w, [Idle EXCEPT !.pc = "upsert", !.name = n])
  /\ UNCHANGED <<row, reg, cache, outside>>

UpsertOnFollow(w) ==
  /\ tx[w].pc = "upsert"
  /\ row' = [row EXCEPT !.there = TRUE, !.deleted = FALSE, !.name = tx[w].name]
  /\ Go(w, Published(w))
  /\ UNCHANGED <<reg, cache, outside>>

(* unfollow: find the live row, then tombstone it on the condition that it *)
(* is still live.                                                          *)
Unfollow(w) ==
  /\ Live /\ Begin(w, [Idle EXCEPT !.pc = "unfollow"])
  /\ UNCHANGED <<row, reg, cache, outside>>

(* Mutant of StillLive: the tombstone is written by id alone.              *)
FoundOnce == row.there
StillLive == row.there /\ ~row.deleted

SoftDelete(w) ==
  /\ tx[w].pc = "unfollow"
  /\ IF StillLive
     THEN /\ row' = [row EXCEPT !.deleted = TRUE]
          /\ owed' = IF row.deleted THEN owed ELSE owed + 1
          /\ Step(w, "tell")
     ELSE UNCHANGED <<row, owed>> /\ End(w)
  /\ UNCHANGED <<reg, cache, mark, name, menu, listed, forced>>

TellDeleted(w) ==
  /\ tx[w].pc = "tell"
  /\ listed' = FALSE /\ owed' = IF owed = 0 THEN 0 ELSE owed - 1
  /\ Step(w, "drop")
  /\ UNCHANGED <<row, reg, cache, mark, name, menu, forced>>

-----------------------------------------------------------------------------
(* message, postback: a live user's profile is fetched at most once per    *)
(* marker, and the marker is set before the fetch (or lost, Redis down).   *)
Chat(w) ==
  /\ ~mark /\ Live
  /\ mark' \in BOOLEAN
  /\ Begin(w, [Idle EXCEPT !.pc = "fetch", !.seen = Seen, !.then = "idle"])
  /\ UNCHANGED <<row, reg, cache, name, menu, listed, owed, forced>>

FetchProfile(w) ==
  /\ tx[w].pc = "fetch"
  /\ \/ End(w)                                     \* getProfile failed
     \/ Go(w, [tx[w] EXCEPT !.pc = "sync", !.name = name])
  /\ UNCHANGED <<row, reg, cache, outside>>

(* syncProfile: only a name that is there and differs is written.          *)
News(w) == tx[w].name # None /\ tx[w].name # tx[w].seen.name

(* The UPDATE returns the whole row, which the status goes on with.        *)
SyncProfile(w) ==
  /\ tx[w].pc = "sync"
  /\ IF News(w)
     THEN /\ row' = [row EXCEPT !.name = tx[w].name]
          /\ Go(w, [tx[w] EXCEPT !.pc = "publish", !.name = None,
                                !.seen = [Seen EXCEPT !.name = tx[w].name]])
     ELSE UNCHANGED row /\ Onward(w)
  /\ UNCHANGED <<reg, cache, outside>>

(* publish: the row is re-read, and only a live one reaches the screens.   *)
Publish(w) ==
  /\ tx[w].pc = "publish"
  /\ IF Live THEN Step(w, "emit") ELSE Onward(w)
  /\ UNCHANGED <<row, reg, cache, outside>>

Emit(w) ==
  /\ tx[w].pc = "emit" /\ listed' = TRUE
  /\ Onward(w)
  /\ UNCHANGED <<row, reg, cache, mark, name, menu, owed, forced>>

(* The status key is dropped; a Redis that is down keeps it.               *)
Drop(w) ==
  /\ tx[w].pc = "drop" /\ cache' \in {Miss, cache} /\ End(w)
  /\ UNCHANGED <<row, reg, outside>>

-----------------------------------------------------------------------------
(* GET status on a cache miss: the row is found, or created ...            *)
GetStatus(w) ==
  /\ cache = Miss
  /\ \E n \in Names \cup {None} :
       /\ n # None => n <= name      \* the ID token's claim may be an old name
       /\ Begin(w, [Idle EXCEPT !.pc = IF Live THEN "sync" ELSE "create",
                      !.seen = Seen, !.name = n, !.then = "registration"])
  /\ UNCHANGED <<row, reg, cache, outside>>

(* ... which the unique lineUserId refuses when a row is there by now, a   *)
(* deleted one too ...                                                     *)
CreateRow(w) ==
  /\ tx[w].pc = "create"
  /\ IF row.there
     THEN UNCHANGED row /\ End(w)
     ELSE row' = Fresh /\ Go(w, [tx[w] EXCEPT !.pc = "sync", !.seen = Unseen])
  /\ UNCHANGED <<reg, cache, outside>>

(* ... the registration is read, and what was read is cached.              *)
ReadRegistration(w) ==
  /\ tx[w].pc = "registration"
  /\ Go(w, [tx[w] EXCEPT !.pc = "fill", !.file = reg, !.name = None])
  /\ UNCHANGED <<row, reg, cache, outside>>

FillCache(w) ==
  /\ tx[w].pc = "fill"
  /\ cache' \in {Status(tx[w].seen, tx[w].file), cache}
  /\ End(w)
  /\ UNCHANGED <<row, reg, outside>>

(* Mutant of Expires: the key is written without a time to live.           *)
NeverExpires == FALSE
Expires == cache # Miss
ExpireStatus ==
  /\ Expires /\ cache' = Miss /\ UNCHANGED <<row, reg, left, tx, outside>>

ExpireMark ==
  /\ mark /\ mark' = FALSE
  /\ UNCHANGED <<row, reg, cache, left, tx, name, menu, listed, owed, forced>>

Rename ==
  /\ name < MaxName /\ name' = name + 1
  /\ UNCHANGED <<row, reg, cache, left, tx, mark, menu, listed, owed, forced>>

-----------------------------------------------------------------------------
(* register: only an UNREGISTERED user, or one without a row ...           *)
Register(w, f) ==
  /\ ~Live \/ row.access = "UNREGISTERED"
  /\ Begin(w, [Idle EXCEPT !.pc = "register", !.file = f,
                 !.new = ~Live])
  /\ UNCHANGED <<row, reg, cache, outside>>

(* The two unique keys: the row's lineUserId and the registration's.       *)
Unique(w) == (~tx[w].new \/ ~row.there) /\ reg = None

(* What the transaction makes of the row.                                  *)
Registered == [row EXCEPT !.there = TRUE, !.access = "PENDING", !.dated = TRUE]

(* ... whose options may be referenced (400) and who has no registration   *)
(* yet (409).                                                              *)
RegisterCommit(w) ==
  /\ tx[w].pc = "register"
  /\ \/ End(w) /\ UNCHANGED <<row, reg>>
     \/ /\ Unique(w)
        /\ reg' = tx[w].file /\ row' = Registered
        /\ Go(w, Published(w))
  /\ UNCHANGED <<cache, outside>>

(* PATCH by its owner, while PENDING or REJECTED when it is read.          *)
UpdateRegistration(w, f) ==
  /\ Live /\ row.access \in {"PENDING", "REJECTED"}
  /\ Begin(w, [Idle EXCEPT !.pc = "edit", !.file = f, !.seen = Seen])
  /\ UNCHANGED <<row, reg, cache, outside>>

(* Mutant of Resubmitted: the reason survives the resubmission.            *)
ResubmittedAsWas(r) == [r EXCEPT !.access = "PENDING"]
Resubmitted(r) == [r EXCEPT !.access = "PENDING", !.rej = FALSE]

(* The transaction: the options, the registration, and a REJECTED user is  *)
(* back in review.                                                         *)
UpdateRegistrationCommit(w) ==
  /\ tx[w].pc = "edit"
  /\ \/ End(w) /\ UNCHANGED <<row, reg>>
     \/ /\ reg # None /\ reg' = tx[w].file
        /\ row' = IF tx[w].seen.access = "REJECTED" THEN Resubmitted(row) ELSE row
        /\ Go(w, Published(w))
  /\ UNCHANGED <<cache, outside>>

(* PATCH by an operator: the row of any state, a deleted one only for a    *)
(* SUPER_ADMIN.                                                            *)
UpdateRegistrationByAdmin(w, role, f) ==
  /\ row.there /\ (role = "ADMIN" => ~row.deleted) /\ reg # None
  /\ Begin(w, [Idle EXCEPT !.pc = "adminEdit", !.file = f])
  /\ UNCHANGED <<row, reg, cache, outside>>

UpdateRegistrationByAdminCommit(w) ==
  /\ tx[w].pc = "adminEdit"
  /\ \/ End(w) /\ UNCHANGED reg
     \/ reg' = tx[w].file /\ Go(w, Published(w))
  /\ UNCHANGED <<row, cache, outside>>

-----------------------------------------------------------------------------
(* Mutant of CanAdminSetAccess: somebody who never registered is let in.   *)
CanAdminSetAccessAnyone(from, to) ==
  IF to = "REJECTED" THEN from \in {"PENDING", "ALLOWED", "BLOCKED"}
                     ELSE to \in {"ALLOWED", "BLOCKED"}
CanAdminSetAccess(from, to) ==
  IF to = "REJECTED" THEN from \in {"PENDING", "ALLOWED", "BLOCKED"}
                     ELSE to \in {"ALLOWED", "BLOCKED"} /\ from # "UNREGISTERED"

AccessToRichMenuType(access) == IF access = "ALLOWED" THEN "TYPE_2" ELSE "TYPE_1"

(* PATCH access: 404, then 403, then the two guards of a rejection.        *)
UpdateAccess(w, role, to, why) ==
  /\ row.there
  /\ role = "ADMIN" => ~row.deleted /\ CanAdminSetAccess(row.access, to)
  /\ to = "REJECTED" => row.access # "UNREGISTERED" /\ why
  /\ Begin(w, [Idle EXCEPT !.pc = "access", !.gone = row.deleted,
                 !.to = to, !.why = why])
  /\ forced' = (forced \/ ~CanAdminSetAccess(row.access, to))
  /\ UNCHANGED <<row, reg, cache, mark, name, menu, listed, owed>>

Decided(r, to, why) ==
  [r EXCEPT !.access = to, !.menu = AccessToRichMenuType(to),
            !.rej = (to = "REJECTED"), !.block = (to = "BLOCKED" /\ why)]

(* The write is by id; a user who was deleted when read is out of LINE's   *)
(* reach.                                                                  *)
WriteAccess(w) ==
  /\ tx[w].pc = "access"
  /\ row' = Decided(row, tx[w].to, tx[w].why)
  /\ IF tx[w].gone THEN End(w) ELSE Step(w, "menu")
  /\ UNCHANGED <<reg, cache, outside>>

(* A menu that cannot be linked answers 502: nothing is published, pushed  *)
(* or dropped.                                                             *)
ApplyRichMenu(w) ==
  /\ tx[w].pc = "menu"
  /\ \/ menu' = AccessToRichMenuType(tx[w].to) /\ Go(w, Published(w))
     \/ UNCHANGED menu /\ End(w)
  /\ UNCHANGED <<row, reg, cache, mark, name, listed, owed, forced>>

-----------------------------------------------------------------------------
(* Nobody, somebody who only follows, or a registered user in any state    *)
(* the operators have brought them to.                                     *)
Starts ==
  [r : {NoRow, Fresh}, f : {None}] \cup
  [r : {Decided([Fresh EXCEPT !.dated = TRUE, !.name = 1], a, FALSE) :
          a \in Access \ {"UNREGISTERED"}}, f : Filings]

Init ==
  /\ \E s \in Starts : row = s.r /\ reg = s.f
  /\ cache = Miss /\ mark = FALSE /\ name = 1
  /\ menu = row.menu /\ listed = row.there /\ owed = 0 /\ forced = FALSE
  /\ left = MaxRequests /\ tx = [w \in Workers |-> Idle]

Arrive(w) ==
  \/ Follow(w) \/ Unfollow(w) \/ Chat(w) \/ GetStatus(w)
  \/ \E f \in Filings :
       \/ Register(w, f) \/ UpdateRegistration(w, f)
       \/ \E role \in Roles : UpdateRegistrationByAdmin(w, role, f)
  \/ \E role \in Roles, to \in Access, why \in BOOLEAN :
       (why => to \in {"REJECTED", "BLOCKED"}) /\ UpdateAccess(w, role, to, why)

Proceed(w) ==
  \/ UpsertOnFollow(w) \/ SoftDelete(w) \/ TellDeleted(w) \/ FetchProfile(w)
  \/ SyncProfile(w) \/ Publish(w) \/ Emit(w) \/ Drop(w) \/ CreateRow(w)
  \/ ReadRegistration(w) \/ FillCache(w) \/ RegisterCommit(w)
  \/ UpdateRegistrationCommit(w) \/ UpdateRegistrationByAdminCommit(w)
  \/ WriteAccess(w) \/ ApplyRichMenu(w)

Next ==
  \/ \E w \in Workers : Arrive(w) \/ Proceed(w)
  \/ ExpireStatus \/ ExpireMark \/ Rename

(* A request under way goes on, and Redis expires its keys.                *)
Fairness ==
  /\ \A w \in Workers : WF_vars(Proceed(w))
  /\ WF_vars(ExpireStatus)

Spec == Init /\ [][Next]_vars /\ Fairness

-----------------------------------------------------------------------------
(* register writes the date in the transaction that writes the             *)
(* registration, so the two never disagree whoever races whom; and unless  *)
(* a SUPER_ADMIN has forced a move, exactly the registered users have left *)
(* UNREGISTERED.                                                           *)
AccessFollowsRegistration ==
  /\ row.dated <=> reg # None
  /\ ~forced => (row.access = "UNREGISTERED" <=> reg = None)

(* The rejection note goes with the state: updateAccess, register and the  *)
(* resubmission write it by id from what they read earlier, and still no   *)
(* interleaving leaves a note on another state or a rejection without one, *)
(* unless a SUPER_ADMIN has forced a move.                                 *)
ReasonIffRejected == ~forced => (row.rej <=> row.access = "REJECTED")

(* The state, the date and the note that a registration leaves on a user.  *)
RegistrationsAreSound == AccessFollowsRegistration /\ ReasonIffRejected

(* Two unfollow events for one user: the back office hears of each         *)
(* disappearance once.                                                     *)
DeletionToldOnce == owed = Cardinality({w \in Workers : tx[w].pc = "tell"})

(* A status read that a write overtook is cached all the same, and a drop  *)
(* can be lost; the wrong answer does not outlive the key.                 *)
StatusRecovers == []<>(cache = Miss \/ cache = Status(row, reg))
=============================================================================
