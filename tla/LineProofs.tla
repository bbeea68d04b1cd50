----------------------------- MODULE LineProofs -----------------------------
(***************************************************************************)
(* What is proved about a LINE user, for any number of requests and        *)
(* webhook events at once: the types, that the registration, its date, the *)
(* access state and the rejection note agree, and that each disappearance  *)
(* is told once.                                                           *)
(***************************************************************************)
EXTENDS LineUsers, FiniteSetTheorems, TLAPS

RowType == [there : BOOLEAN, deleted : BOOLEAN, access : Access, menu : Menus,
            rej : BOOLEAN, block : BOOLEAN, dated : BOOLEAN, name : Names \cup {None}]
SeenType == [access : Access, rej : BOOLEAN, name : Names \cup {None}]
HandlerType == [pc : Pcs, seen : SeenType, new : BOOLEAN, gone : BOOLEAN,
                file : Filings \cup {None}, to : Access, why : BOOLEAN,
                name : Names \cup {None}, then : {"drop", "registration", "idle"}]

OutsideTyped ==
  /\ cache \in Statuses \cup {Miss} /\ mark \in BOOLEAN /\ name \in Names
  /\ menu \in Menus /\ listed \in BOOLEAN /\ left \in Nat
UserTyped ==
  /\ row \in RowType /\ reg \in Filings \cup {None} /\ owed \in Nat /\ forced \in BOOLEAN
LineTyped == OutsideTyped /\ UserTyped /\ tx \in [Workers -> HandlerType]

(* What a handler relies on when it writes by id: a form it carries is one *)
(* that can be filed; a registration it found stays; and a decision that   *)
(* ADMIN's matrix allows is about somebody who has registered.             *)
HandlerFits(t, f, fo) ==
  /\ t.pc \in {"register", "edit", "adminEdit"} => t.file \in Filings
  /\ t.pc = "adminEdit" => f # None
  /\ t.pc = "access" /\ ~fo => t.to # "UNREGISTERED" /\ f # None

Tellers == {w \in Workers : tx[w].pc = "tell"}

LineInvariant ==
  /\ LineTyped
  /\ RegistrationsAreSound
  /\ reg # None => row.there
  /\ DeletionToldOnce
  /\ \A w \in Workers : HandlerFits(tx[w], reg, forced)

-----------------------------------------------------------------------------
(* The constants of the types.                                             *)
LEMMA LineFacts ==
  /\ None \notin Names /\ 1 \in Names
  /\ {"UNREGISTERED", "PENDING", "ALLOWED", "BLOCKED", "REJECTED"} = Access
  /\ \A a \in Access : AccessToRichMenuType(a) \in Menus
BY LineConstants DEF Names, Access, AccessToRichMenuType, Menus

LEMMA IdleFits ==
  /\ Idle \in HandlerType
  /\ \A f, fo : HandlerFits(Idle, f, fo)
  /\ Idle.pc = "idle" /\ Idle.then = "drop"
<1>1. Unseen \in SeenType
  BY DEF Unseen, SeenType, Access
<1>2. Idle \in HandlerType
  BY <1>1 DEF Idle, HandlerType, Pcs, Access
<1>3. Idle.pc = "idle" /\ Idle.then = "drop"
  BY DEF Idle
<1> QED
  BY <1>2, <1>3 DEF HandlerFits

(* Who is about to tell is who was, when one handler moves elsewhere.      *)
LEMMA TellersKept ==
  ASSUME LineTyped, NEW w \in Workers, NEW t, tx' = [tx EXCEPT ![w] = t],
         tx[w].pc # "tell", t.pc # "tell"
  PROVE  Tellers' = Tellers
BY DEF LineTyped, Tellers

LEMMA TellersFinite == IsFiniteSet(Tellers) /\ Cardinality(Tellers) \in Nat
<1>1. IsFiniteSet(Tellers)
  BY LineConstants, FS_Subset DEF Tellers
<1> QED
  BY <1>1, FS_CardinalityType

(* One handler's step: what the others rely on stays, a registration once  *)
(* there is there for good, and so is a forced move.                       *)
LEMMA HandlerStep ==
  ASSUME LineInvariant, NEW w \in Workers, NEW t \in HandlerType,
         tx' = [tx EXCEPT ![w] = t], HandlerFits(t, reg', forced'),
         OutsideTyped', UserTyped', RegistrationsAreSound', DeletionToldOnce',
         reg # None => reg' # None, reg' # None => row'.there, forced => forced'
  PROVE  LineInvariant'
<1>1. tx \in [Workers -> HandlerType] /\ UserTyped
  BY DEF LineInvariant, LineTyped
<1>2. tx' \in [Workers -> HandlerType]
  BY <1>1
<1>3. ASSUME NEW x \in Workers PROVE HandlerFits(tx'[x], reg', forced')
  <2>1. tx'[x] = IF x = w THEN t ELSE tx[x]
    BY <1>1
  <2>2. HandlerFits(tx[x], reg, forced)
    BY DEF LineInvariant
  <2> QED
    BY <2>1, <2>2 DEF HandlerFits
<1> QED
  BY <1>2, <1>3 DEF LineInvariant, LineTyped

(* One that tells nobody and forces nothing ...                            *)
LEMMA RowStep ==
  ASSUME LineInvariant, NEW w \in Workers, NEW t \in HandlerType,
         tx' = [tx EXCEPT ![w] = t], HandlerFits(t, reg', forced),
         tx[w].pc # "tell", t.pc # "tell", OutsideTyped',
         row' \in RowType, reg' \in Filings \cup {None}, UNCHANGED <<owed, forced>>,
         RegistrationsAreSound', reg # None => reg' # None, reg' # None => row'.there
  PROVE  LineInvariant'
<1>1. Tellers' = Tellers
  BY TellersKept DEF LineInvariant
<1>2. DeletionToldOnce'
  BY <1>1 DEF LineInvariant, DeletionToldOnce, Tellers
<1>3. UserTyped'
  BY DEF LineInvariant, LineTyped, UserTyped
<1> QED
  BY <1>2, <1>3, HandlerStep

(* ... and one that writes neither the row nor the registration.           *)
LEMMA QuietStep ==
  ASSUME LineInvariant, NEW w \in Workers, NEW t \in HandlerType,
         tx' = [tx EXCEPT ![w] = t], HandlerFits(t, reg, forced),
         tx[w].pc # "tell", t.pc # "tell", OutsideTyped',
         UNCHANGED <<row, reg, owed, forced>>
  PROVE  LineInvariant'
<1>1. RegistrationsAreSound'
  BY DEF LineInvariant, RegistrationsAreSound, AccessFollowsRegistration, ReasonIffRejected
<1>2. row' \in RowType /\ reg' \in Filings \cup {None} /\ (reg' # None => row'.there)
  BY DEF LineInvariant, LineTyped, UserTyped
<1> QED
  BY <1>1, <1>2, RowStep

(* What a handler under way is.                                            *)
LEMMA HandlerTyped ==
  ASSUME LineInvariant, NEW w \in Workers
  PROVE  /\ tx[w] \in HandlerType /\ HandlerFits(tx[w], reg, forced)
         /\ OutsideTyped /\ UserTyped
BY DEF LineInvariant, LineTyped

(* A handler that has nothing more to do, and one that goes on.            *)
LEMMA EndStep ==
  ASSUME LineInvariant, NEW w \in Workers, End(w), tx[w].pc # "tell", OutsideTyped',
         UNCHANGED <<row, reg, owed, forced>>
  PROVE  LineInvariant'
BY IdleFits, QuietStep DEF End, Go

LEMMA MoveOn ==
  ASSUME LineInvariant, NEW w \in Workers,
         NEW pc \in {"emit", "drop", "registration", "idle", "menu"},
         Step(w, pc), tx[w].pc # "tell", OutsideTyped', UNCHANGED <<row, reg, owed, forced>>
  PROVE  LineInvariant'
<1> DEFINE t == [tx[w] EXCEPT !.pc = pc]
<1>1. t \in HandlerType /\ t.pc = pc
  BY HandlerTyped DEF HandlerType, Pcs
<1> HIDE DEF t
<1>2. HandlerFits(t, reg, forced)
  BY <1>1 DEF HandlerFits
<1>3. tx' = [tx EXCEPT ![w] = t]
  BY DEF Step, Go, t
<1> QED
  BY <1>1, <1>2, <1>3, QuietStep

LEMMA OnwardStep ==
  ASSUME LineInvariant, NEW w \in Workers, Onward(w), tx[w].pc # "tell", OutsideTyped',
         UNCHANGED <<row, reg, owed, forced>>
  PROVE  LineInvariant'
<1>1. tx[w].then \in {"drop", "registration", "idle"}
  BY HandlerTyped DEF HandlerType
<1> QED
  BY <1>1, EndStep, MoveOn DEF Onward

-----------------------------------------------------------------------------
(* A request or an event comes in.                                         *)
LEMMA BeginStep ==
  ASSUME LineInvariant, NEW w \in Workers, NEW t \in HandlerType, Begin(w, t),
         t.pc # "tell", HandlerFits(t, reg, forced), UNCHANGED <<row, reg, cache>>,
         mark' \in BOOLEAN, UNCHANGED <<name, menu, listed, owed, forced>>
  PROVE  LineInvariant'
<1>1. left > 0 /\ left' = left - 1 /\ left \in Nat
  BY DEF Begin, LineInvariant, LineTyped, OutsideTyped
<1>2. left' \in Nat
  BY <1>1
<1>3. OutsideTyped'
  BY <1>2 DEF LineInvariant, LineTyped, OutsideTyped
<1> QED
  BY <1>3, QuietStep DEF Begin

LEMMA SeenFits == ASSUME LineInvariant PROVE Seen \in SeenType
BY DEF LineInvariant, LineTyped, UserTyped, RowType, Seen, SeenType

(* What a handler begins with.                                             *)
LEMMA StartFits ==
  ASSUME LineInvariant, NEW pc \in Pcs
  PROVE  /\ [Idle EXCEPT !.pc = pc] \in HandlerType
         /\ [Idle EXCEPT !.pc = pc].pc = pc
<1>1. Idle \in HandlerType
  BY IdleFits
<1> QED
  BY <1>1 DEF HandlerType

LEMMA EventStep ==
  ASSUME LineInvariant, NEW w \in Workers,
         Follow(w) \/ Unfollow(w) \/ Chat(w) \/ GetStatus(w)
  PROVE  LineInvariant'
<1>1. mark \in BOOLEAN /\ name \in Names /\ Seen \in SeenType /\ Idle \in HandlerType
  BY SeenFits, IdleFits DEF LineInvariant, LineTyped, OutsideTyped
<1>2. CASE Follow(w)
  <2>1. PICK n \in {name, None} : Begin(w, [Idle EXCEPT !.pc = "upsert", !.name = n])
    BY <1>2 DEF Follow
  <2> DEFINE t == [Idle EXCEPT !.pc = "upsert", !.name = n]
  <2>2. t \in HandlerType /\ t.pc = "upsert"
    BY <1>1 DEF HandlerType, Pcs
  <2> HIDE DEF t
  <2>3. HandlerFits(t, reg, forced)
    BY <2>2 DEF HandlerFits
  <2>4. Begin(w, t)
    BY <2>1 DEF t
  <2> QED
    BY <1>1, <1>2, <2>2, <2>3, <2>4, BeginStep DEF Follow, outside
<1>3. CASE Unfollow(w)
  <2> DEFINE t == [Idle EXCEPT !.pc = "unfollow"]
  <2>1. t \in HandlerType /\ t.pc = "unfollow"
    BY StartFits DEF Pcs
  <2>2. Begin(w, t)
    BY <1>3 DEF Unfollow
  <2> HIDE DEF t
  <2>3. HandlerFits(t, reg, forced)
    BY <2>1 DEF HandlerFits
  <2> QED
    BY <1>1, <1>3, <2>1, <2>2, <2>3, BeginStep DEF Unfollow, outside
<1>4. CASE Chat(w)
  <2> DEFINE t == [Idle EXCEPT !.pc = "fetch", !.seen = Seen, !.then = "idle"]
  <2>1. t \in HandlerType /\ t.pc = "fetch"
    BY <1>1 DEF HandlerType, Pcs
  <2>2. Begin(w, t)
    BY <1>4 DEF Chat
  <2> HIDE DEF t
  <2>3. HandlerFits(t, reg, forced)
    BY <2>1 DEF HandlerFits
  <2> QED
    BY <1>4, <2>1, <2>2, <2>3, BeginStep DEF Chat
<1>5. CASE GetStatus(w)
  <2>1. PICK n \in Names \cup {None} :
          Begin(w, [Idle EXCEPT !.pc = IF Live THEN "sync" ELSE "create",
                      !.seen = Seen, !.name = n, !.then = "registration"])
    BY <1>5 DEF GetStatus
  <2> DEFINE pc == IF Live THEN "sync" ELSE "create"
             t == [Idle EXCEPT !.pc = pc, !.seen = Seen, !.name = n, !.then = "registration"]
  <2>2. pc \in {"sync", "create"}
    OBVIOUS
  <2>3. Begin(w, t)
    BY <2>1
  <2> HIDE DEF pc
  <2>4. t \in HandlerType /\ t.pc = pc
    BY <1>1, <2>2 DEF HandlerType, Pcs
  <2> HIDE DEF t
  <2>5. HandlerFits(t, reg, forced)
    BY <2>2, <2>4 DEF HandlerFits
  <2> QED
    BY <1>1, <1>5, <2>2, <2>3, <2>4, <2>5, BeginStep DEF GetStatus, outside
<1> QED
  BY <1>2, <1>3, <1>4, <1>5

LEMMA FormStep ==
  ASSUME LineInvariant, NEW w \in Workers, NEW f \in Filings,
         \/ Register(w, f) \/ UpdateRegistration(w, f)
         \/ \E role \in Roles : UpdateRegistrationByAdmin(w, role, f)
  PROVE  LineInvariant'
<1>1. mark \in BOOLEAN /\ Seen \in SeenType /\ Idle \in HandlerType
  BY SeenFits, IdleFits DEF LineInvariant, LineTyped, OutsideTyped
<1>2. CASE Register(w, f)
  <2> DEFINE t == [Idle EXCEPT !.pc = "register", !.file = f, !.new = ~Live]
  <2>1. t \in HandlerType
    BY <1>1 DEF HandlerType, Pcs
  <2>2. t.pc = "register" /\ t.file = f
    BY <1>1 DEF HandlerType
  <2>3. Begin(w, t)
    BY <1>2 DEF Register
  <2> HIDE DEF t
  <2>4. HandlerFits(t, reg, forced)
    BY <2>2 DEF HandlerFits
  <2> QED
    BY <1>1, <1>2, <2>1, <2>2, <2>3, <2>4, BeginStep DEF Register, outside
<1>3. CASE UpdateRegistration(w, f)
  <2> DEFINE t == [Idle EXCEPT !.pc = "edit", !.file = f, !.seen = Seen]
  <2>1. t \in HandlerType
    BY <1>1 DEF HandlerType, Pcs
  <2>2. t.pc = "edit" /\ t.file = f
    BY <1>1 DEF HandlerType
  <2>3. Begin(w, t)
    BY <1>3 DEF UpdateRegistration
  <2> HIDE DEF t
  <2>4. HandlerFits(t, reg, forced)
    BY <2>2 DEF HandlerFits
  <2> QED
    BY <1>1, <1>3, <2>1, <2>2, <2>3, <2>4, BeginStep DEF UpdateRegistration, outside
<1>4. ASSUME NEW role \in Roles, UpdateRegistrationByAdmin(w, role, f)
      PROVE  LineInvariant'
  <2> DEFINE t == [Idle EXCEPT !.pc = "adminEdit", !.file = f]
  <2>1. t \in HandlerType
    BY <1>1 DEF HandlerType, Pcs
  <2>2. t.pc = "adminEdit" /\ t.file = f
    BY <1>1 DEF HandlerType
  <2>3. Begin(w, t) /\ reg # None
    BY <1>4 DEF UpdateRegistrationByAdmin
  <2> HIDE DEF t
  <2>4. HandlerFits(t, reg, forced)
    BY <2>2, <2>3 DEF HandlerFits
  <2> QED
    BY <1>1, <1>4, <2>1, <2>2, <2>3, <2>4, BeginStep DEF UpdateRegistrationByAdmin, outside
<1> QED
  BY <1>2, <1>3, <1>4

(* A move that is not forced is about somebody who has registered, because *)
(* nobody else has left UNREGISTERED.                                      *)
LEMMA UpdateAccessStep ==
  ASSUME LineInvariant, NEW w \in Workers, NEW role \in Roles, NEW to \in Access,
         NEW why \in BOOLEAN, UpdateAccess(w, role, to, why)
  PROVE  LineInvariant'
<1> DEFINE t == [Idle EXCEPT !.pc = "access", !.gone = row.deleted, !.to = to, !.why = why]
<1>1. UserTyped /\ OutsideTyped /\ RegistrationsAreSound /\ (reg # None => row.there)
      /\ DeletionToldOnce
  BY DEF LineInvariant, LineTyped
<1>2. t \in HandlerType
  BY <1>1, IdleFits DEF UserTyped, RowType, HandlerType, Pcs
<1>3. t.pc = "access" /\ t.to = to
  BY IdleFits DEF HandlerType
<1>4. Begin(w, t) /\ forced' = (forced \/ ~CanAdminSetAccess(row.access, to))
      /\ UNCHANGED <<row, reg, cache, mark, name, menu, listed, owed>>
  BY DEF UpdateAccess
<1>5. forced' \in BOOLEAN /\ (forced => forced') /\ (~forced' => ~forced)
  BY <1>4
<1>6. ~forced' => to # "UNREGISTERED" /\ reg # None
  <2>1. ~forced' => CanAdminSetAccess(row.access, to)
    BY <1>4
  <2>2. CanAdminSetAccess(row.access, to) => to # "UNREGISTERED" /\ row.access # "UNREGISTERED"
    BY DEF CanAdminSetAccess
  <2>3. ~forced /\ row.access # "UNREGISTERED" => reg # None
    BY <1>1 DEF RegistrationsAreSound, AccessFollowsRegistration
  <2> QED
    BY <1>5, <2>1, <2>2, <2>3
<1> HIDE DEF t
<1>7. HandlerFits(t, reg', forced')
  BY <1>3, <1>4, <1>6 DEF HandlerFits
<1>8. tx' = [tx EXCEPT ![w] = t] /\ tx[w].pc = "idle"
  BY <1>4 DEF Begin
<1>9. OutsideTyped'
  <2>1. left > 0 /\ left' = left - 1 /\ left \in Nat
    BY <1>1, <1>4 DEF Begin, OutsideTyped
  <2>2. left' \in Nat
    BY <2>1
  <2> QED
    BY <1>1, <1>4, <2>2 DEF OutsideTyped
<1>10. UserTyped' /\ RegistrationsAreSound'
  BY <1>1, <1>4, <1>5 DEF UserTyped, RegistrationsAreSound, AccessFollowsRegistration,
                          ReasonIffRejected
<1>11. DeletionToldOnce'
  <2>1. Tellers' = Tellers
    BY <1>3, <1>8, TellersKept DEF LineInvariant
  <2> QED
    BY <1>1, <1>4, <2>1 DEF DeletionToldOnce, Tellers
<1> QED
  BY <1>1, <1>2, <1>4, <1>5, <1>7, <1>8, <1>9, <1>10, <1>11, HandlerStep

-----------------------------------------------------------------------------
(* The steps that write neither the row nor the registration.              *)
LEMMA ReadingStep ==
  ASSUME LineInvariant, NEW w \in Workers,
         \/ FetchProfile(w) \/ Publish(w) \/ Emit(w) \/ Drop(w) \/ ReadRegistration(w)
         \/ FillCache(w) \/ ApplyRichMenu(w)
  PROVE  LineInvariant'
<1> DEFINE s == tx[w]
<1>1. s \in HandlerType /\ HandlerFits(s, reg, forced) /\ OutsideTyped /\ UserTyped
  BY HandlerTyped
<1>2. CASE FetchProfile(w)
  <2>1. OutsideTyped' /\ s.pc # "tell" /\ UNCHANGED <<row, reg, owed, forced>>
    BY <1>1, <1>2 DEF FetchProfile, OutsideTyped, outside, End, Go
  <2>2. CASE Go(w, [s EXCEPT !.pc = "sync", !.name = name])
    <3> DEFINE t == [s EXCEPT !.pc = "sync", !.name = name]
    <3>1. t \in HandlerType /\ t.pc = "sync"
      BY <1>1 DEF HandlerType, Pcs, OutsideTyped
    <3> HIDE DEF t
    <3>2. HandlerFits(t, reg, forced)
      BY <3>1 DEF HandlerFits
    <3>3. tx' = [tx EXCEPT ![w] = t]
      BY <2>2 DEF Go, t
    <3> QED
      BY <2>1, <3>1, <3>2, <3>3, QuietStep
  <2> QED
    BY <1>2, <2>1, <2>2, EndStep DEF FetchProfile
<1>3. CASE Publish(w)
  <2>1. UNCHANGED left
    BY <1>3 DEF Publish, Onward, Step, End, Go
  <2>2. OutsideTyped' /\ s.pc # "tell" /\ UNCHANGED <<row, reg, owed, forced>>
    BY <1>1, <1>3, <2>1 DEF Publish, OutsideTyped, outside
  <2> QED
    BY <1>3, <2>2, OnwardStep, MoveOn DEF Publish
<1>4. CASE Emit(w)
  <2>1. UNCHANGED left
    BY <1>4 DEF Emit, Onward, Step, End, Go
  <2>2. OutsideTyped' /\ s.pc # "tell" /\ UNCHANGED <<row, reg, owed, forced>>
    BY <1>1, <1>4, <2>1 DEF Emit, OutsideTyped
  <2> QED
    BY <1>4, <2>2, OnwardStep DEF Emit
<1>5. CASE Drop(w)
  <2>1. OutsideTyped' /\ s.pc # "tell" /\ UNCHANGED <<row, reg, owed, forced>>
    BY <1>1, <1>5 DEF Drop, OutsideTyped, outside, End, Go
  <2> QED
    BY <1>5, <2>1, EndStep DEF Drop
<1>6. CASE ReadRegistration(w)
  <2> DEFINE t == [s EXCEPT !.pc = "fill", !.file = reg, !.name = None]
  <2>1. t \in HandlerType /\ t.pc = "fill"
    BY <1>1 DEF HandlerType, Pcs, UserTyped
  <2>2. OutsideTyped' /\ s.pc # "tell" /\ UNCHANGED <<row, reg, owed, forced>>
        /\ tx' = [tx EXCEPT ![w] = t]
    BY <1>1, <1>6 DEF ReadRegistration, OutsideTyped, outside, Go
  <2> HIDE DEF t
  <2>3. HandlerFits(t, reg, forced)
    BY <2>1 DEF HandlerFits
  <2> QED
    BY <2>1, <2>2, <2>3, QuietStep
<1>7. CASE FillCache(w)
  <2>1. Status(s.seen, s.file) \in Statuses
    BY <1>1 DEF HandlerType, SeenType, Status, Statuses
  <2>2. cache' \in Statuses \cup {Miss}
    BY <1>1, <1>7, <2>1 DEF FillCache, OutsideTyped
  <2>3. OutsideTyped' /\ s.pc # "tell" /\ UNCHANGED <<row, reg, owed, forced>>
    BY <1>1, <1>7, <2>2 DEF FillCache, OutsideTyped, outside, End, Go
  <2> QED
    BY <1>7, <2>3, EndStep DEF FillCache
<1>8. CASE ApplyRichMenu(w)
  <2>1. menu' \in Menus
    BY <1>1, <1>8, LineFacts DEF ApplyRichMenu, HandlerType, OutsideTyped
  <2>2. UNCHANGED left
    BY <1>8 DEF ApplyRichMenu, End, Go
  <2>3. OutsideTyped' /\ s.pc # "tell" /\ UNCHANGED <<row, reg, owed, forced>>
    BY <1>1, <1>8, <2>1, <2>2 DEF ApplyRichMenu, OutsideTyped
  <2>4. CASE Go(w, Published(w))
    <3>1. Published(w) \in HandlerType /\ Published(w).pc = "publish"
      BY StartFits DEF Published, Pcs
    <3>2. HandlerFits(Published(w), reg, forced)
      BY <3>1 DEF HandlerFits
    <3> QED
      BY <2>3, <2>4, <3>1, <3>2, QuietStep DEF Go
  <2> QED
    BY <1>8, <2>3, <2>4, EndStep DEF ApplyRichMenu
<1> QED
  BY <1>2, <1>3, <1>4, <1>5, <1>6, <1>7, <1>8

-----------------------------------------------------------------------------
(* The writes of the row and of the registration.                          *)

(* A write of the row that keeps its state, its date and its note.         *)
LEMMA ProfileWrite ==
  ASSUME LineInvariant, NEW w \in Workers, NEW t \in HandlerType, tx' = [tx EXCEPT ![w] = t],
         HandlerFits(t, reg, forced), tx[w].pc # "tell", t.pc # "tell",
         row' \in RowType, UNCHANGED <<reg, cache, outside, left>>, row.there => row'.there,
         row'.access = row.access, row'.rej = row.rej, row'.dated = row.dated
  PROVE  LineInvariant'
<1>1. RegistrationsAreSound' /\ (reg' # None => row'.there)
  BY DEF LineInvariant, RegistrationsAreSound, AccessFollowsRegistration, ReasonIffRejected,
         outside
<1>2. OutsideTyped' /\ reg' \in Filings \cup {None}
  BY DEF LineInvariant, LineTyped, OutsideTyped, UserTyped, outside
<1> QED
  BY <1>1, <1>2, RowStep DEF outside

LEMMA PublishedFits ==
  ASSUME LineInvariant, NEW w \in Workers
  PROVE  /\ Published(w) \in HandlerType /\ Published(w).pc = "publish"
         /\ \A f, fo : HandlerFits(Published(w), f, fo)
<1>1. Published(w) \in HandlerType /\ Published(w).pc = "publish"
  BY StartFits DEF Published, Pcs
<1> QED
  BY <1>1 DEF HandlerFits

(* The profile, and the row somebody gets who follows or opens the LIFF.   *)
LEMMA ProfileStep ==
  ASSUME LineInvariant, NEW w \in Workers,
         UpsertOnFollow(w) \/ SyncProfile(w) \/ CreateRow(w)
  PROVE  LineInvariant'
<1> DEFINE s == tx[w]
<1>1. s \in HandlerType /\ HandlerFits(s, reg, forced) /\ OutsideTyped /\ UserTyped
  BY HandlerTyped
<1>2. CASE UpsertOnFollow(w)
  <2>1. row' = [row EXCEPT !.there = TRUE, !.deleted = FALSE, !.name = s.name]
        /\ tx' = [tx EXCEPT ![w] = Published(w)] /\ s.pc = "upsert"
        /\ UNCHANGED <<reg, cache, outside, left>>
    BY <1>2 DEF UpsertOnFollow, Go
  <2>2. row' \in RowType /\ row'.there
        /\ row'.access = row.access /\ row'.rej = row.rej /\ row'.dated = row.dated
    BY <1>1, <2>1 DEF UserTyped, RowType, HandlerType
  <2> QED
    BY <2>1, <2>2, PublishedFits, ProfileWrite
<1>3. CASE SyncProfile(w)
  <2>1. UNCHANGED left /\ s.pc = "sync" /\ UNCHANGED <<reg, cache, outside>>
    BY <1>3 DEF SyncProfile, Onward, Step, End, Go
  <2>2. CASE News(w)
    <3> DEFINE seen == [Seen EXCEPT !.name = s.name]
               t == [s EXCEPT !.pc = "publish", !.name = None, !.seen = seen]
    <3>1. row' = [row EXCEPT !.name = s.name] /\ tx' = [tx EXCEPT ![w] = t]
      BY <1>3, <2>2 DEF SyncProfile, Go
    <3>2. seen \in SeenType
      BY <1>1, SeenFits DEF SeenType, HandlerType
    <3>3. t \in HandlerType /\ t.pc = "publish"
      BY <1>1, <3>2 DEF HandlerType, Pcs
    <3>4. row' \in RowType /\ row'.there = row.there
          /\ row'.access = row.access /\ row'.rej = row.rej /\ row'.dated = row.dated
      BY <1>1, <3>1 DEF UserTyped, RowType, HandlerType
    <3> HIDE DEF t
    <3>5. HandlerFits(t, reg, forced)
      BY <3>3 DEF HandlerFits
    <3> QED
      BY <2>1, <3>1, <3>3, <3>4, <3>5, ProfileWrite
  <2>3. CASE ~News(w)
    <3>1. OutsideTyped' /\ UNCHANGED <<row, reg, owed, forced>> /\ Onward(w)
      BY <1>1, <1>3, <2>1, <2>3 DEF SyncProfile, OutsideTyped, outside
    <3> QED
      BY <2>1, <3>1, OnwardStep
  <2> QED
    BY <2>2, <2>3
<1>4. CASE CreateRow(w)
  <2>1. UNCHANGED left /\ s.pc = "create" /\ UNCHANGED <<reg, cache, outside>>
    BY <1>4 DEF CreateRow, End, Go
  <2>2. OutsideTyped'
    BY <1>1, <2>1 DEF OutsideTyped, outside
  <2>3. CASE row.there
    BY <1>4, <2>1, <2>2, <2>3, EndStep DEF CreateRow, outside
  <2>4. CASE ~row.there
    <3> DEFINE t == [s EXCEPT !.pc = "sync", !.seen = Unseen]
    <3>1. row' = Fresh /\ tx' = [tx EXCEPT ![w] = t]
      BY <1>4, <2>4 DEF CreateRow, Go
    <3>2. Unseen \in SeenType /\ Fresh \in RowType
      BY DEF Unseen, SeenType, Access, Fresh, RowType, Menus
    <3>3. t \in HandlerType /\ t.pc = "sync"
      BY <1>1, <3>2 DEF HandlerType, Pcs
    <3> HIDE DEF t
    <3>4. HandlerFits(t, reg', forced)
      BY <3>3 DEF HandlerFits
    <3>5. reg = None
      BY <2>4 DEF LineInvariant
    <3>6. RegistrationsAreSound'
      BY <2>1, <3>1, <3>5 DEF RegistrationsAreSound, AccessFollowsRegistration,
                              ReasonIffRejected, Fresh
    <3> QED
      BY <1>1, <2>1, <2>2, <3>1, <3>2, <3>3, <3>4, <3>5, <3>6, RowStep DEF outside, UserTyped
  <2> QED
    BY <2>3, <2>4
<1> QED
  BY <1>2, <1>3, <1>4

(* register: who has no registration is UNREGISTERED, so has no note.      *)
LEMMA RegisterStep ==
  ASSUME LineInvariant, NEW w \in Workers, RegisterCommit(w)
  PROVE  LineInvariant'
<1> DEFINE s == tx[w]
<1>1. s \in HandlerType /\ HandlerFits(s, reg, forced) /\ OutsideTyped /\ UserTyped
  BY HandlerTyped
<1>2. UNCHANGED left /\ s.pc = "register" /\ UNCHANGED <<cache, outside>>
  BY DEF RegisterCommit, End, Go
<1>3. OutsideTyped' /\ s.pc # "tell" /\ UNCHANGED <<owed, forced>>
  BY <1>1, <1>2 DEF OutsideTyped, outside
<1>4. CASE End(w) /\ UNCHANGED <<row, reg>>
  BY <1>3, <1>4, EndStep
<1>5. CASE Unique(w) /\ reg' = s.file /\ row' = Registered /\ Go(w, Published(w))
  <2>1. reg = None /\ reg' \in Filings /\ reg' # None
    BY <1>1, <1>2, <1>5, LineConstants DEF Unique, HandlerFits
  <2>2. row' \in RowType /\ row'.there /\ row'.access = "PENDING" /\ row'.dated
        /\ row'.rej = row.rej
    BY <1>1, <1>5 DEF UserTyped, RowType, Registered, Access
  <2>3. ~forced => ~row.rej
    BY <2>1 DEF LineInvariant, RegistrationsAreSound, AccessFollowsRegistration,
                ReasonIffRejected
  <2>4. RegistrationsAreSound'
    BY <1>3, <2>1, <2>2, <2>3 DEF RegistrationsAreSound, AccessFollowsRegistration,
                                  ReasonIffRejected
  <2>5. tx' = [tx EXCEPT ![w] = Published(w)]
    BY <1>5 DEF Go
  <2> QED
    BY <1>3, <2>1, <2>2, <2>4, <2>5, PublishedFits, RowStep
<1> QED
  BY <1>4, <1>5 DEF RegisterCommit

(* The two edits of a registration, and a resubmission's new state.        *)
LEMMA EditStep ==
  ASSUME LineInvariant, NEW w \in Workers,
         UpdateRegistrationCommit(w) \/ UpdateRegistrationByAdminCommit(w)
  PROVE  LineInvariant'
<1> DEFINE s == tx[w]
<1>1. s \in HandlerType /\ HandlerFits(s, reg, forced) /\ OutsideTyped /\ UserTyped
  BY HandlerTyped
<1>2. UNCHANGED left /\ s.pc \in {"edit", "adminEdit"} /\ UNCHANGED <<cache, outside>>
  BY DEF UpdateRegistrationCommit, UpdateRegistrationByAdminCommit, End, Go
<1>3. OutsideTyped' /\ s.pc # "tell" /\ UNCHANGED <<owed, forced>>
  BY <1>1, <1>2 DEF OutsideTyped, outside
<1>4. CASE End(w) /\ UNCHANGED <<row, reg>>
  BY <1>3, <1>4, EndStep
<1>5. CASE /\ reg # None /\ reg' = s.file /\ row' \in {row, Resubmitted(row)}
           /\ Go(w, Published(w))
  <2>1. reg' \in Filings /\ reg' # None
    BY <1>1, <1>2, <1>5, LineConstants DEF HandlerFits
  <2>2. row' \in RowType /\ row'.there = row.there /\ row'.dated = row.dated
        /\ (row' = row \/ (row'.access = "PENDING" /\ ~row'.rej))
    BY <1>1, <1>5 DEF UserTyped, RowType, Resubmitted, Access
  <2>3. RegistrationsAreSound' /\ row'.there
    BY <1>3, <1>5, <2>1, <2>2 DEF LineInvariant, RegistrationsAreSound,
                                  AccessFollowsRegistration, ReasonIffRejected
  <2>4. tx' = [tx EXCEPT ![w] = Published(w)]
    BY <1>5 DEF Go
  <2> QED
    BY <1>3, <2>1, <2>2, <2>3, <2>4, PublishedFits, RowStep
<1>6. CASE UpdateRegistrationCommit(w)
  BY <1>4, <1>5, <1>6 DEF UpdateRegistrationCommit
<1>7. CASE UpdateRegistrationByAdminCommit(w)
  <2>1. reg # None
    BY <1>1, <1>7 DEF UpdateRegistrationByAdminCommit, HandlerFits
  <2> QED
    BY <1>4, <1>5, <1>7, <2>1 DEF UpdateRegistrationByAdminCommit
<1> QED
  BY <1>6, <1>7

(* updateAccess writes by id what was decided on what it read.             *)
LEMMA WriteAccessStep ==
  ASSUME LineInvariant, NEW w \in Workers, WriteAccess(w)
  PROVE  LineInvariant'
<1> DEFINE s == tx[w]
<1>1. s \in HandlerType /\ HandlerFits(s, reg, forced) /\ OutsideTyped /\ UserTyped
  BY HandlerTyped
<1>2. UNCHANGED left /\ s.pc = "access" /\ UNCHANGED <<reg, cache, outside>>
      /\ row' = Decided(row, s.to, s.why)
  BY DEF WriteAccess, End, Go, Step
<1>3. OutsideTyped' /\ s.pc # "tell" /\ UNCHANGED <<owed, forced>>
  BY <1>1, <1>2 DEF OutsideTyped, outside
<1>4. s.to \in Access /\ s.why \in BOOLEAN
  BY <1>1 DEF HandlerType
<1>5. row' \in RowType /\ row'.there = row.there /\ row'.dated = row.dated
      /\ row'.access = s.to /\ row'.rej = (s.to = "REJECTED")
  BY <1>1, <1>2, <1>4, LineFacts DEF UserTyped, RowType, Decided
<1>6. RegistrationsAreSound'
  BY <1>1, <1>2, <1>3, <1>5 DEF LineInvariant, RegistrationsAreSound, HandlerFits,
                                AccessFollowsRegistration, ReasonIffRejected
<1>7. reg' \in Filings \cup {None} /\ (reg' # None => row'.there)
  BY <1>1, <1>2, <1>5 DEF LineInvariant, UserTyped
<1>8. PICK t \in HandlerType : /\ tx' = [tx EXCEPT ![w] = t] /\ t.pc # "tell"
                               /\ HandlerFits(t, reg', forced)
  <2>1. CASE s.gone
    <3>1. tx' = [tx EXCEPT ![w] = Idle]
      BY <2>1 DEF WriteAccess, End, Go
    <3> QED
      BY <3>1, IdleFits
  <2>2. CASE ~s.gone
    <3> DEFINE t == [s EXCEPT !.pc = "menu"]
    <3>1. tx' = [tx EXCEPT ![w] = t]
      BY <2>2 DEF WriteAccess, Step, Go
    <3>2. t \in HandlerType /\ t.pc = "menu"
      BY <1>1 DEF HandlerType, Pcs
    <3> HIDE DEF t
    <3>3. HandlerFits(t, reg', forced)
      BY <3>2 DEF HandlerFits
    <3> QED
      BY <3>1, <3>2, <3>3
  <2> QED
    BY <2>1, <2>2
<1> QED
  BY <1>2, <1>3, <1>5, <1>6, <1>7, <1>8, RowStep

-----------------------------------------------------------------------------
(* unfollow: a live row is deleted by one handler, which will tell.        *)
LEMMA SoftDeleteStep ==
  ASSUME LineInvariant, NEW w \in Workers, SoftDelete(w)
  PROVE  LineInvariant'
<1> DEFINE s == tx[w]
<1>1. s \in HandlerType /\ OutsideTyped /\ UserTyped /\ tx \in [Workers -> HandlerType]
  BY HandlerTyped DEF LineInvariant, LineTyped
<1>2. UNCHANGED left /\ s.pc = "unfollow" /\ UNCHANGED <<reg, cache, mark, name, menu, listed, forced>>
  BY DEF SoftDelete, End, Go, Step
<1>3. OutsideTyped'
  BY <1>1, <1>2 DEF OutsideTyped
<1>4. CASE ~StillLive
  BY <1>2, <1>3, <1>4, EndStep DEF SoftDelete
<1>5. CASE StillLive
  <2> DEFINE t == [s EXCEPT !.pc = "tell"]
  <2>1. row' = [row EXCEPT !.deleted = TRUE] /\ owed' = owed + 1
        /\ tx' = [tx EXCEPT ![w] = t]
    BY <1>5 DEF SoftDelete, StillLive, Step, Go
  <2>2. t \in HandlerType /\ t.pc = "tell"
    BY <1>1 DEF HandlerType, Pcs
  <2>3. row' \in RowType /\ row'.there = row.there /\ row'.access = row.access
        /\ row'.rej = row.rej /\ row'.dated = row.dated
    BY <1>1, <2>1 DEF UserTyped, RowType
  <2> HIDE DEF t
  <2>4. HandlerFits(t, reg', forced')
    BY <2>2 DEF HandlerFits
  <2>5. RegistrationsAreSound' /\ (reg' # None => row'.there) /\ (reg # None => reg' # None)
    BY <1>2, <2>3 DEF LineInvariant, RegistrationsAreSound, AccessFollowsRegistration,
                      ReasonIffRejected
  <2>6. UserTyped'
    BY <1>1, <1>2, <2>1, <2>3 DEF UserTyped
  <2>7. DeletionToldOnce'
    <3>1. Tellers' = Tellers \cup {w} /\ w \notin Tellers
      BY <1>1, <1>2, <2>1, <2>2 DEF Tellers
    <3>2. Cardinality(Tellers \cup {w}) = Cardinality(Tellers) + 1
      BY <3>1, TellersFinite, FS_AddElement
    <3>3. owed = Cardinality(Tellers)
      BY DEF LineInvariant, DeletionToldOnce, Tellers
    <3>4. owed' = Cardinality(Tellers')
      BY <2>1, <3>1, <3>2, <3>3
    <3> QED
      BY <3>4 DEF DeletionToldOnce, Tellers
  <2> QED
    BY <1>2, <1>3, <2>1, <2>2, <2>4, <2>5, <2>6, <2>7, HandlerStep
<1> QED
  BY <1>4, <1>5

LEMMA TellStep ==
  ASSUME LineInvariant, NEW w \in Workers, TellDeleted(w)
  PROVE  LineInvariant'
<1> DEFINE s == tx[w]
           t == [s EXCEPT !.pc = "drop"]
<1>1. s \in HandlerType /\ OutsideTyped /\ UserTyped /\ tx \in [Workers -> HandlerType]
  BY HandlerTyped DEF LineInvariant, LineTyped
<1>2. UNCHANGED left /\ s.pc = "tell" /\ UNCHANGED <<row, reg, cache, mark, name, menu, forced>>
      /\ listed' = FALSE /\ tx' = [tx EXCEPT ![w] = t]
  BY DEF TellDeleted, Step, Go
<1>3. t \in HandlerType /\ t.pc = "drop"
  BY <1>1 DEF HandlerType, Pcs
<1> HIDE DEF t
<1>4. HandlerFits(t, reg', forced')
  BY <1>3 DEF HandlerFits
<1>5. Tellers' = Tellers \ {w} /\ w \in Tellers
  BY <1>1, <1>2, <1>3 DEF Tellers
<1>6. Cardinality(Tellers \ {w}) = Cardinality(Tellers) - 1
  BY <1>5, TellersFinite, FS_RemoveElement
<1>7. owed = Cardinality(Tellers) /\ owed \in Nat
  BY <1>1 DEF LineInvariant, DeletionToldOnce, Tellers, UserTyped
<1>8. Cardinality(Tellers) # 0
  BY <1>5, TellersFinite, FS_EmptySet
<1>9. owed' = Cardinality(Tellers') /\ owed' \in Nat
  BY <1>5, <1>6, <1>7, <1>8 DEF TellDeleted
<1>10. DeletionToldOnce' /\ UserTyped' /\ OutsideTyped'
  BY <1>1, <1>2, <1>9 DEF DeletionToldOnce, Tellers, UserTyped, OutsideTyped
<1>11. RegistrationsAreSound' /\ (reg' # None => row'.there)
  BY <1>2 DEF LineInvariant, RegistrationsAreSound, AccessFollowsRegistration, ReasonIffRejected
<1> QED
  BY <1>2, <1>3, <1>4, <1>10, <1>11, HandlerStep

-----------------------------------------------------------------------------
(* Nobody's handler: the keys expire, the user takes another name.         *)
LEMMA WorldStep ==
  ASSUME LineInvariant, ExpireStatus \/ ExpireMark \/ Rename
  PROVE  LineInvariant'
<1>1. UNCHANGED <<row, reg, owed, forced, tx, menu, listed, left>>
  BY DEF ExpireStatus, ExpireMark, Rename, outside
<1>2. cache' \in Statuses \cup {Miss} /\ mark' \in BOOLEAN
  BY DEF LineInvariant, LineTyped, OutsideTyped, ExpireStatus, ExpireMark, Rename, outside
<1>3. name' \in Names
  <2>1. name \in Nat /\ 1 <= name /\ name <= MaxName /\ MaxName \in Nat
    BY LineConstants DEF LineInvariant, LineTyped, OutsideTyped, Names
  <2>2. CASE name < MaxName /\ name' = name + 1
    BY <2>1, <2>2 DEF Names
  <2>3. CASE name' = name
    BY <2>1, <2>3 DEF Names
  <2> QED
    BY <2>2, <2>3 DEF ExpireStatus, ExpireMark, Rename, outside
<1>4. LineTyped'
  BY <1>1, <1>2, <1>3 DEF LineInvariant, LineTyped, OutsideTyped, UserTyped
<1> QED
  BY <1>1, <1>4 DEF LineInvariant, RegistrationsAreSound, AccessFollowsRegistration,
                    ReasonIffRejected, DeletionToldOnce

LEMMA LineStarted == Init => LineInvariant
<1> SUFFICES ASSUME Init PROVE LineInvariant
  OBVIOUS
<1>1. PICK s \in Starts : row = s.r /\ reg = s.f
  BY DEF Init
<1>2. 1 \in Names
  BY LineConstants DEF Names
<1>3. \A r \in {NoRow, Fresh} : r \in RowType /\ ~r.dated /\ ~r.rej /\ r.access = "UNREGISTERED"
  <2>1. Fresh \in RowType /\ ~Fresh.dated /\ ~Fresh.rej /\ Fresh.access = "UNREGISTERED"
    BY DEF Fresh, RowType, Access, Menus
  <2>2. NoRow \in RowType /\ ~NoRow.dated /\ ~NoRow.rej /\ NoRow.access = "UNREGISTERED"
    BY <2>1 DEF NoRow, RowType
  <2> QED
    BY <2>1, <2>2
<1> DEFINE filed == [Fresh EXCEPT !.dated = TRUE, !.name = 1]
<1>4. filed \in RowType /\ filed.there /\ filed.dated
  BY <1>2 DEF Fresh, RowType, Access, Menus
<1>5. \/ s.r \in {NoRow, Fresh} /\ s.f = None
      \/ s.f \in Filings /\ \E a \in Access \ {"UNREGISTERED"} : s.r = Decided(filed, a, FALSE)
  BY DEF Starts
<1> HIDE DEF filed
<1>6. row \in RowType /\ reg \in Filings \cup {None} /\ RegistrationsAreSound
      /\ (reg # None => row.there)
  <2>1. CASE s.r \in {NoRow, Fresh} /\ s.f = None
    <3>1. row \in RowType /\ ~row.dated /\ ~row.rej /\ row.access = "UNREGISTERED" /\ reg = None
      BY <1>1, <1>3, <2>1
    <3> QED
      BY <3>1 DEF RegistrationsAreSound, AccessFollowsRegistration, ReasonIffRejected
  <2>2. ASSUME s.f \in Filings, NEW a \in Access \ {"UNREGISTERED"}, s.r = Decided(filed, a, FALSE)
        PROVE  /\ row \in RowType /\ reg \in Filings \cup {None} /\ RegistrationsAreSound
               /\ (reg # None => row.there)
    <3>1. AccessToRichMenuType(a) \in Menus
      BY LineFacts
    <3>2. row = Decided(filed, a, FALSE)
      BY <1>1, <2>2
    <3>3. row \in RowType /\ row.there /\ row.dated /\ row.access = a
          /\ row.rej = (a = "REJECTED")
      BY <1>4, <3>1, <3>2 DEF Decided, RowType
    <3>4. reg \in Filings /\ reg # None
      BY <1>1, <2>2, LineConstants
    <3> QED
      BY <3>3, <3>4 DEF RegistrationsAreSound, AccessFollowsRegistration, ReasonIffRejected
  <2> QED
    BY <1>5, <2>1, <2>2
<1>7. tx \in [Workers -> HandlerType] /\ \A w \in Workers : tx[w] = Idle
  BY IdleFits DEF Init
<1>8. LineTyped
  BY <1>2, <1>6, <1>7, LineConstants DEF Init, LineTyped, OutsideTyped, UserTyped, RowType
<1>9. DeletionToldOnce
  <2>1. {w \in Workers : tx[w].pc = "tell"} = {}
    BY <1>7, IdleFits
  <2> QED
    BY <2>1, FS_EmptySet DEF DeletionToldOnce, Init
<1> QED
  BY <1>6, <1>7, <1>8, <1>9, IdleFits DEF LineInvariant

LEMMA LineStep == LineInvariant /\ [Next]_vars => LineInvariant'
<1> SUFFICES ASSUME LineInvariant, [Next]_vars PROVE LineInvariant'
  OBVIOUS
<1>1. CASE UNCHANGED vars
  BY <1>1 DEF vars, outside, LineInvariant, LineTyped, OutsideTyped, UserTyped,
              RegistrationsAreSound, AccessFollowsRegistration, ReasonIffRejected,
              DeletionToldOnce
<1>2. ASSUME NEW w \in Workers, Arrive(w) PROVE LineInvariant'
  <2>1. CASE Follow(w) \/ Unfollow(w) \/ Chat(w) \/ GetStatus(w)
    BY <2>1, EventStep
  <2>2. ASSUME NEW f \in Filings,
               \/ Register(w, f) \/ UpdateRegistration(w, f)
               \/ \E role \in Roles : UpdateRegistrationByAdmin(w, role, f)
        PROVE  LineInvariant'
    BY <2>2, FormStep
  <2>3. ASSUME NEW role \in Roles, NEW to \in Access, NEW why \in BOOLEAN,
               UpdateAccess(w, role, to, why)
        PROVE  LineInvariant'
    BY <2>3, UpdateAccessStep
  <2> QED
    BY <1>2, <2>1, <2>2, <2>3 DEF Arrive
<1>3. ASSUME NEW w \in Workers, Proceed(w) PROVE LineInvariant'
  BY <1>3, ReadingStep, ProfileStep, RegisterStep, EditStep, WriteAccessStep,
     SoftDeleteStep, TellStep DEF Proceed
<1> QED
  BY <1>1, <1>2, <1>3, WorldStep DEF Next

(* The inductive invariant of a LINE user holds in every behaviour.        *)
THEOREM LineInvariantHolds == Spec => []LineInvariant
<1> QED
  BY LineStarted, LineStep, PTL DEF Spec

(* register, updateRegistration and updateAccess (line-user.service.ts):   *)
(* whatever filings, resubmissions, decisions, follows and unfollows of    *)
(* one user overlap, the registration and its date come together; and as   *)
(* long as no SUPER_ADMIN has forced a move, the registered are those who  *)
(* have left UNREGISTERED and the rejected those with a rejection note.    *)
THEOREM RegistrationsSound == Spec => []RegistrationsAreSound
<1>1. LineInvariant => RegistrationsAreSound
  BY DEF LineInvariant
<1> QED
  BY <1>1, LineInvariantHolds, PTL

(* softDeleteByLineUserId (line-user.service.ts): of any number of         *)
(* unfollow events at once, one deletes the row, and the back office is    *)
(* told of each disappearance once.                                        *)
THEOREM ToldOnce == Spec => []DeletionToldOnce
<1>1. LineInvariant => DeletionToldOnce
  BY DEF LineInvariant
<1> QED
  BY <1>1, LineInvariantHolds, PTL
=============================================================================
