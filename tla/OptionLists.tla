----------------------------- MODULE OptionLists -----------------------------
(* The four curated lists of the back office (departments, personnel roles,*)
(* venue types, amenities) and the rows that hold an option: a staff       *)
(* account, a registration, a venue.  One behaviour is about one list.     *)
(*                                                                         *)
(* Every transaction is READ COMMITTED.  A holder's foreign key locks the  *)
(* option's KEY only, which the UPDATE of deletedAt does not wait for.     *)
EXTENDS Naturals, FiniteSets

CONSTANTS
  OptIds,         \* ids of options there are or will be
  OptHolders,     \* rows that hold an option
  OptClerks,      \* requests that can be under way at once
  NoOpt,          \* null
  MaxOptRequests  \* bound: requests

ASSUME OptConstants ==
  /\ OptIds # {} /\ NoOpt \notin OptIds /\ MaxOptRequests \in Nat
  /\ IsFiniteSet(OptHolders)

VARIABLES
  optKind,    \* the list this behaviour is about
  optRow,     \* its table, by id
  optHold,    \* the holders' rows
  optCache,   \* the cached lists, or NoOpt, by key
  optAnswer,  \* the list answered last, and under which key
  optLeft,    \* requests still to come
  optTx       \* the requests under way

optVars == <<optKind, optRow, optHold, optCache, optAnswer, optLeft, optTx>>

OptionModel == {"department", "personnelRole"}
OptKinds == OptionModel \cup {"venueType", "amenity"}
TombstoneName == "tombstone"
OptNames == {"plain", TombstoneName}

NoOption == [there |-> FALSE, name |-> "plain", reserved |-> FALSE, deleted |-> FALSE]
OptActive(o) == o \in OptIds /\ optRow[o].there /\ ~optRow[o].deleted
(* The partial unique index on the name of the active rows.                *)
NameTaken(o, n) == \E p \in OptIds \ {o} : OptActive(p) /\ optRow[p].name = n
(* The rows that update and softDelete find.                               *)
Curated(o) == OptActive(o) /\ ~optRow[o].reserved

-----------------------------------------------------------------------------
OptFree == [pc |-> "free", opt |-> NoOpt, to |-> NoOpt, name |-> "plain",
         holder |-> NoOpt, moved |-> {}, raced |-> FALSE, key |-> "public", list |-> {}]

OptSay(c, t) == optTx' = [optTx EXCEPT ![c] = t]
OptStart(c, t) ==
  /\ optTx[c] = OptFree /\ optLeft > 0 /\ optLeft' = optLeft - 1
  /\ OptSay(c, t) /\ UNCHANGED <<optKind, optRow, optHold, optCache, optAnswer>>
OptDone(c) == OptSay(c, OptFree)
OptGo(c, pc) == OptSay(c, [optTx[c] EXCEPT !.pc = pc])

OptSubmitCreate(c, n) == OptStart(c, [OptFree EXCEPT !.pc = "insert", !.name = n])
OptSubmitRename(c, o, n) ==
  Curated(o) /\ OptStart(c, [OptFree EXCEPT !.pc = "rename", !.opt = o, !.name = n])
OptSubmitDelete(c, o) ==
  /\ Curated(o)
  /\ OptStart(c, [OptFree EXCEPT !.pc = IF optKind = "amenity" THEN "move" ELSE "tomb",
                              !.opt = o])

(* create, of each service: one INSERT; a taken name is the 409.           *)
MapWriteError(o, n) == NameTaken(o, n)
InsertOption(c) ==
  LET n == optTx[c].name IN
  /\ optTx[c].pc = "insert"
  /\ \/ MapWriteError(NoOpt, n) /\ OptDone(c) /\ UNCHANGED optRow
     \/ /\ ~MapWriteError(NoOpt, n)
        /\ \E o \in OptIds : /\ ~optRow[o].there
                             /\ optRow' = [optRow EXCEPT ![o] =
                                  [NoOption EXCEPT !.there = TRUE, !.name = n]]
        /\ OptGo(c, "drop")
  /\ UNCHANGED <<optKind, optHold, optCache, optAnswer, optLeft>>

CreateOption(c) == optKind \in OptionModel /\ InsertOption(c)
CreateVenueType(c) == optKind = "venueType" /\ InsertOption(c)
CreateAmenity(c) == optKind = "amenity" /\ InsertOption(c)

(* update: the UPDATE is by id, so it also renames a row deleted since.    *)
RenameOption(c) ==
  LET t == optTx[c] IN
  /\ t.pc = "rename"
  /\ \/ /\ OptActive(t.opt) /\ MapWriteError(t.opt, t.name)
        /\ OptDone(c) /\ UNCHANGED optRow
     \/ /\ OptActive(t.opt) => ~MapWriteError(t.opt, t.name)
        /\ optRow' = [optRow EXCEPT ![t.opt].name = t.name]
        /\ OptGo(c, "drop")
  /\ UNCHANGED <<optKind, optHold, optCache, optAnswer, optLeft>>

UpdateOption(c) == optKind \in OptionModel /\ RenameOption(c)
UpdateVenueType(c) == optKind = "venueType" /\ RenameOption(c)
UpdateAmenity(c) == optKind = "amenity" /\ RenameOption(c)

-----------------------------------------------------------------------------
(* softDelete: first the row the holders will move to.                     *)
Tombstones == {o \in OptIds : OptActive(o) /\ optRow[o].reserved
                              /\ optRow[o].name = TombstoneName}
ToTombstone(c) ==
  \E o \in Tombstones : OptSay(c, [optTx[c] EXCEPT !.pc = "move", !.to = o])

(* A department or a personnel role without one is an error; the venue     *)
(* types make it.                                                          *)
ResolveTombstoneId(c) ==
  /\ optTx[c].pc = "tomb" /\ optKind \in OptionModel
  /\ ToTombstone(c) \/ (Tombstones = {} /\ OptDone(c))
  /\ UNCHANGED <<optKind, optRow, optHold, optCache, optAnswer, optLeft>>
FindTombstoneId(c) ==
  /\ optTx[c].pc = "tomb" /\ optKind = "venueType"
  /\ ToTombstone(c) \/ (Tombstones = {} /\ OptGo(c, "make"))
  /\ UNCHANGED <<optKind, optRow, optHold, optCache, optAnswer, optLeft>>

(* On P2002 somebody else has made it, or an ordinary row has the name and *)
(* the error is thrown.                                                    *)
MakeTombstone(c) ==
  /\ optTx[c].pc = "make"
  /\ \/ /\ ~NameTaken(NoOpt, TombstoneName)
        /\ \E o \in OptIds :
             /\ ~optRow[o].there
             /\ optRow' = [optRow EXCEPT ![o] =
                  [there |-> TRUE, name |-> TombstoneName,
                   reserved |-> TRUE, deleted |-> FALSE]]
             /\ OptSay(c, [optTx[c] EXCEPT !.pc = "move", !.to = o])
     \/ /\ NameTaken(NoOpt, TombstoneName) /\ UNCHANGED optRow
        /\ ToTombstone(c) \/ (Tombstones = {} /\ OptDone(c))
  /\ UNCHANGED <<optKind, optHold, optCache, optAnswer, optLeft>>

(* create-super-admin makes the reserved rows that are missing, unless an  *)
(* ordinary row has the name.  It drops no cache.                          *)
ResolveOrCreateReserved ==
  /\ optKind \in OptionModel /\ optLeft > 0 /\ optLeft' = optLeft - 1
  /\ ~NameTaken(NoOpt, TombstoneName)
  /\ \E o \in OptIds :
       /\ ~optRow[o].there
       /\ optRow' = [optRow EXCEPT ![o] = [there |-> TRUE, name |-> TombstoneName,
                                          reserved |-> TRUE, deleted |-> FALSE]]
  /\ UNCHANGED <<optKind, optHold, optCache, optAnswer, optTx>>

(* The UPDATE of the holders: the rows committed by now, deleted ones too, *)
(* locked until the commit.                                                *)
(* Mutant of HoldersToMove: only the holders the screen counts.            *)
CountedHolders(o) ==
  {h \in OptHolders : optHold[h].opt = o /\ ~optHold[h].deleted}
HoldersToMove(o) == {h \in OptHolders : optHold[h].opt = o}
OptLocked(h, c) == \E d \in OptClerks \ {c} : h \in optTx[d].moved

LockHolders(c) ==
  LET hs == HoldersToMove(optTx[c].opt) IN
  /\ optTx[c].pc = "move" /\ \A h \in hs : ~OptLocked(h, c)
  /\ OptSay(c, [optTx[c] EXCEPT !.pc = "commit", !.moved = hs])
  /\ UNCHANGED <<optKind, optRow, optHold, optCache, optAnswer, optLeft>>

MoveHolders(c) == optKind \in OptionModel /\ LockHolders(c)
MoveVenues(c) == optKind = "venueType" /\ LockHolders(c)
(* The join rows of an amenity are deleted: its holders hold nothing.      *)
ReleaseVenues(c) == optKind = "amenity" /\ LockHolders(c)

(* deletedAt and the commit.  (Ghost: requests past their check are raced.)*)
OptDelete(c) ==
  LET t == optTx[c] IN
  /\ t.pc = "commit"
  /\ optHold' = [h \in OptHolders |->
       IF h \in t.moved
         THEN [optHold[h] EXCEPT !.opt = t.to, !.raced = FALSE] ELSE optHold[h]]
  /\ optRow' = [optRow EXCEPT ![t.opt].deleted = TRUE]
  /\ optTx' = [d \in OptClerks |->
       IF d = c THEN [t EXCEPT !.pc = "drop", !.moved = {}]
       ELSE [optTx[d] EXCEPT !.raced = @ \/ (optTx[d].pc = "hold" /\ optTx[d].opt = t.opt)]]
  /\ UNCHANGED <<optKind, optCache, optAnswer, optLeft>>

-----------------------------------------------------------------------------
(* Whoever writes a holder checks the option first, in the same            *)
(* transaction: a staff account, where a SUPER_ADMIN may take a reserved   *)
(* one, a registration and a venue, where nobody may.                      *)
MayUseSystemReservedOptions(super) == super /\ optKind \in OptionModel
Assignable(o, super) ==
  OptActive(o) /\ (optRow[o].reserved => MayUseSystemReservedOptions(super))

CheckOption(c, h, o, super) ==
  /\ ~optHold[h].deleted /\ Assignable(o, super)
  /\ OptStart(c, [OptFree EXCEPT !.pc = "hold", !.holder = h, !.opt = o])
AssertOptionsAssignable(c, h, o) ==
  optKind \in OptionModel /\ \E s \in BOOLEAN : CheckOption(c, h, o, s)
AssertActiveOptions(c, h, o) == optKind \in OptionModel /\ CheckOption(c, h, o, FALSE)
AssertAssignableVenueType(c, h, o) ==
  optKind = "venueType" /\ CheckOption(c, h, o, FALSE)
AssertActiveAmenities(c, h, o) == optKind = "amenity" /\ CheckOption(c, h, o, FALSE)

WriteHolder(c) ==
  LET t == optTx[c] IN
  /\ t.pc = "hold" /\ ~OptLocked(t.holder, c)
  /\ optHold' = [optHold EXCEPT ![t.holder].opt = t.opt,
       ![t.holder].raced = t.raced \/ \E d \in OptClerks :
                             optTx[d].pc = "commit" /\ optTx[d].opt = t.opt]
  /\ OptGo(c, "dropCounts")
  /\ UNCHANGED <<optKind, optRow, optCache, optAnswer, optLeft>>

(* The holder itself is soft-deleted, or restored as it was.               *)
HideHolder(c, h) ==
  /\ optTx[c] = OptFree /\ optLeft > 0 /\ optLeft' = optLeft - 1 /\ ~OptLocked(h, NoOpt)
  /\ optHold' = [optHold EXCEPT ![h].deleted = ~@]
  /\ OptSay(c, [OptFree EXCEPT !.pc = "dropCounts"])
  /\ UNCHANGED <<optKind, optRow, optCache, optAnswer>>

-----------------------------------------------------------------------------
(* The lists are cached, one key per view: with the reserved rows,         *)
(* without, and the LINE app's.  The amenities have one.                   *)
OptKeys == {"public", "all", "liff"}
(* Mutant of OptionListKey: the dimension is forgotten.                    *)
OneListKey(inc) == "public"
OptionListKey(inc) == IF inc THEN "all" ELSE "public"

(* A row of a list.  The screen counts the holders that are not deleted; a *)
(* reserved row of the tombstone's name is the fallback.                   *)
HolderCount(o) == Cardinality(CountedHolders(o))
OptionDto(o) == [opt |-> o, holderCount |-> HolderCount(o),
                 isFallback |-> optRow[o].reserved /\ optRow[o].name = TombstoneName]
VenueTypeDto(o) == OptionDto(o)
AmenityDto(o) == [opt |-> o, holderCount |-> HolderCount(o), isFallback |-> FALSE]
LiffDto(o) == [opt |-> o, holderCount |-> 0, isFallback |-> FALSE]

Visible(inc) == {o \in OptIds : OptActive(o) /\ (inc \/ ~optRow[o].reserved)}
ReadList(c, key, list) ==
  /\ optTx[c] = OptFree /\ optLeft > 0 /\ optLeft' = optLeft - 1
  /\ IF optCache[key] # NoOpt
       THEN optAnswer' = [key |-> key, list |-> optCache[key]] /\ UNCHANGED optTx
       ELSE /\ OptSay(c, [OptFree EXCEPT !.pc = "fill", !.key = key, !.list = list])
            /\ UNCHANGED optAnswer
  /\ UNCHANGED <<optKind, optRow, optHold, optCache>>

(* The routes: a SUPER_ADMIN gets the reserved rows, nobody else does.     *)
ListOptions(c) ==
  /\ optKind \in OptionModel
  /\ \E inc \in BOOLEAN : ReadList(c, OptionListKey(inc), {OptionDto(o) : o \in Visible(inc)})
ListVenueTypes(c) ==
  /\ optKind = "venueType"
  /\ \E inc \in BOOLEAN : ReadList(c, OptionListKey(inc), {VenueTypeDto(o) : o \in Visible(inc)})
ListAmenities(c) ==
  optKind = "amenity" /\ ReadList(c, "public", {AmenityDto(o) : o \in Visible(FALSE)})
LiffOptions(c) ==
  optKind \in OptionModel /\ ReadList(c, "liff", {LiffDto(o) : o \in Visible(FALSE)})

(* setJson and del are skipped when Redis is away, and never fail.         *)
FillList(c) ==
  LET t == optTx[c] IN
  /\ t.pc = "fill"
  /\ optAnswer' = [key |-> t.key, list |-> t.list]
  /\ optCache' = [optCache EXCEPT ![t.key] = t.list] \/ UNCHANGED optCache
  /\ OptDone(c) /\ UNCHANGED <<optKind, optRow, optHold, optLeft>>

(* A written option drops every list, a written holder those with counts.  *)
DropKeys(c, pc, keys) ==
  /\ optTx[c].pc = pc
  /\ \/ optCache' = [k \in OptKeys |-> IF k \in keys THEN NoOpt ELSE optCache[k]]
     \/ UNCHANGED optCache
  /\ OptDone(c) /\ UNCHANGED <<optKind, optRow, optHold, optAnswer, optLeft>>
DropOptionCache(c) == DropKeys(c, "drop", OptKeys)
DropOptionCounts(c) == DropKeys(c, "dropCounts", {"public", "all"})

ListExpires(k) ==
  /\ optCache[k] # NoOpt /\ optCache' = [optCache EXCEPT ![k] = NoOpt]
  /\ UNCHANGED <<optKind, optRow, optHold, optAnswer, optLeft, optTx>>

-----------------------------------------------------------------------------
OptIdle ==
  /\ optCache = [k \in OptKeys |-> NoOpt] /\ optAnswer = [key |-> "all", list |-> {}]
  /\ optLeft = MaxOptRequests /\ optTx = [c \in OptClerks |-> OptFree]

(* A seeded list: one ordinary row everybody holds, and the tombstone,     *)
(* which a database that was never seeded lacks.                           *)
Seeded(p, t) ==
  /\ optRow = [o \in OptIds |->
       CASE o = p -> [NoOption EXCEPT !.there = TRUE]
         [] o = t -> [there |-> TRUE, name |-> TombstoneName,
                      reserved |-> TRUE, deleted |-> FALSE]
         [] OTHER -> NoOption]
  /\ optHold = [h \in OptHolders |-> [opt |-> p, deleted |-> FALSE, raced |-> FALSE]]
SomeOpt == CHOOSE o \in OptIds : TRUE
OtherOpt == CHOOSE o \in OptIds : o # SomeOpt
SeedOptions == optKind \in OptionModel /\ \E t \in {OtherOpt, NoOpt} : Seeded(SomeOpt, t)
SeedVenueTypes == optKind = "venueType" /\ \E t \in {OtherOpt, NoOpt} : Seeded(SomeOpt, t)
SeedAmenities == optKind = "amenity" /\ Seeded(SomeOpt, NoOpt)
OptInit == OptIdle /\ optKind \in OptKinds /\ (SeedOptions \/ SeedVenueTypes \/ SeedAmenities)

(* The routes that change a list, of each controller.                      *)
OptRoutes(c) ==
  \/ \E n \in OptNames : OptSubmitCreate(c, n)
  \/ \E o \in OptIds : OptSubmitDelete(c, o)
  \/ \E o \in OptIds, n \in OptNames : OptSubmitRename(c, o, n)
DepartmentRoutes(c) == optKind = "department" /\ OptRoutes(c)
PersonnelRoleRoutes(c) == optKind = "personnelRole" /\ OptRoutes(c)
VenueTypeRoutes(c) == optKind = "venueType" /\ OptRoutes(c)
AmenityRoutes(c) == optKind = "amenity" /\ OptRoutes(c)

OptNext ==
  \/ \E c \in OptClerks :
       \/ DepartmentRoutes(c) \/ PersonnelRoleRoutes(c)
       \/ VenueTypeRoutes(c) \/ AmenityRoutes(c)
       \/ \E h \in OptHolders, o \in OptIds :
            \/ AssertOptionsAssignable(c, h, o) \/ AssertActiveOptions(c, h, o)
            \/ AssertAssignableVenueType(c, h, o) \/ AssertActiveAmenities(c, h, o)
       \/ ListOptions(c) \/ ListVenueTypes(c) \/ ListAmenities(c) \/ LiffOptions(c)
       \/ CreateOption(c) \/ CreateVenueType(c) \/ CreateAmenity(c)
       \/ UpdateOption(c) \/ UpdateVenueType(c) \/ UpdateAmenity(c)
       \/ ResolveTombstoneId(c) \/ FindTombstoneId(c) \/ MakeTombstone(c)
       \/ MoveHolders(c) \/ MoveVenues(c) \/ ReleaseVenues(c) \/ OptDelete(c)
       \/ WriteHolder(c) \/ FillList(c)
       \/ DropOptionCache(c) \/ DropOptionCounts(c)
       \/ \E h \in OptHolders : HideHolder(c, h)
  \/ ResolveOrCreateReserved \/ \E k \in OptKeys : ListExpires(k)

OptSpec == OptInit /\ [][OptNext]_optVars

-----------------------------------------------------------------------------
(* A soft delete leaves nobody on the deleted option: not a deleted holder *)
(* that may be restored, not one the screen does not count.  Who is on one *)
(* was past its check when the option went.                                *)
OrphansAreRaced ==
  \A h \in OptHolders :
    LET o == optHold[h].opt IN
    o # NoOpt /\ optRow[o].deleted => optHold[h].raced

(* "Inside the transaction, so an option cannot be soft-deleted between    *)
(* check and write": of staff accounts, none is ever on a deleted          *)
(* department or personnel role.                                           *)
NoOrphanHolders ==
  optKind \in OptionModel => \A h \in OptHolders :
    optHold[h].opt # NoOpt => ~optRow[optHold[h].opt].deleted

(* Who may not see the reserved rows is never answered one, whoever filled *)
(* the cache.                                                              *)
ReservedStaysHidden ==
  optAnswer.key # "all" => \A d \in optAnswer.list : ~optRow[d.opt].reserved

OptionsAreSafe == OrphansAreRaced /\ ReservedStaysHidden
=============================================================================
