--------------------------- MODULE StaffAccounts ---------------------------
(* The back-office accounts: creation, patches, deletion, restoration, the *)
(* two password writes and the break-glass script.                         *)
(*                                                                         *)
(* The session guard reads the actor before the handler's transaction, so  *)
(* every decision is made on the actor of then and the target of now.      *)
(* Writes that can take a SUPER_ADMIN away run at Serializable; the others *)
(* at READ COMMITTED, a read and a write by id.                            *)
EXTENDS Naturals, FiniteSets

CONSTANTS
  Officers,          \* ids of rows there are or will be
  Staffers,       \* requests that can be under way at once
  NoOfficer,         \* null
  MaxStaffWrites  \* bound: requests

ASSUME StaffConstants ==
  Officers # {} /\ NoOfficer \notin Officers /\ MaxStaffWrites \in Nat

VARIABLES
  acct,     \* system_users, by id
  committed,\* Serializable transactions that wrote and committed
  sleft,    \* requests still to come
  stx       \* the requests under way

staffVars == <<acct, committed, sleft, stx>>

SystemRole == {"VIEWER", "ADMIN", "SUPER_ADMIN"}
Account == [there : BOOLEAN, role : SystemRole, active : BOOLEAN,
            deleted : BOOLEAN, must : BOOLEAN, by : Officers \cup {NoOfficer}]
(* UpdateSystemUserDto, as far as the policy reads it: NoOfficer is a key *)
(* that is absent, and a patch with neither key is a profile edit.  (Both  *)
(* keys at once are bounded away.)                                         *)
Patch == [role : SystemRole, active : {NoOfficer}]
         \cup [role : {NoOfficer}, active : BOOLEAN \cup {NoOfficer}]
ProfileOnly == [role |-> NoOfficer, active |-> NoOfficer]
TouchesInvariant(p) == p # ProfileOnly

NoAccount == [there |-> FALSE, role |-> "VIEWER", active |-> TRUE,
           deleted |-> FALSE, must |-> TRUE, by |-> NoOfficer]
Present(a, u) == a[u].there /\ ~a[u].deleted
ActiveSuperAdmin(a) ==
  {u \in Officers : Present(a, u) /\ a[u].active /\ a[u].role = "SUPER_ADMIN"}

-----------------------------------------------------------------------------
(* The policy: an actor is [id, role, by], a target an id and the role its *)
(* row has in the transaction.                                             *)
(* Mutant of MayNotManageOwnCreator: the rule is dropped.                  *)
MayManageAnyone(actor, u) == FALSE
MayNotManageOwnCreator(actor, u) == actor.by # NoOfficer /\ actor.by = u

CanPatch(actor, u, role, p) ==
  /\ ~MayNotManageOwnCreator(actor, u)
  /\ actor.id = u => ~TouchesInvariant(p)
  /\ p.role # NoOfficer => actor.role = "SUPER_ADMIN"
  /\ \/ actor.role = "SUPER_ADMIN"
     \/ actor.role = "ADMIN" /\ (role = "VIEWER" \/ actor.id = u)

CanDelete(actor, u) ==
  /\ actor.id # u /\ ~MayNotManageOwnCreator(actor, u)
  /\ actor.role = "SUPER_ADMIN"

CanResetPassword(actor, u) ==
  /\ actor.id # u /\ ~MayNotManageOwnCreator(actor, u)
  /\ actor.role = "SUPER_ADMIN"

-----------------------------------------------------------------------------
NoActor == [id |-> NoOfficer, role |-> "VIEWER", by |-> NoOfficer]
Waiting == [pc |-> "idle", actor |-> NoActor, target |-> NoOfficer,
            patch |-> ProfileOnly, snap |-> [u \in Officers |-> NoAccount], since |-> 0]

Sent(w, t) == stx' = [stx EXCEPT ![w] = t] /\ UNCHANGED sleft
Answer(w) == Sent(w, Waiting)

(* SessionGuard and RolesGuard: the actor's row, read before the handler   *)
(* runs; a suspended or deleted actor, or one who must change the          *)
(* password, is turned away.                                               *)
Admitted(a, roles) ==
  /\ Present(acct, a) /\ acct[a].active /\ ~acct[a].must /\ acct[a].role \in roles

Submit(w, a, roles, u, p, pc) ==
  /\ stx[w].pc = "idle" /\ sleft > 0 /\ sleft' = sleft - 1
  /\ Admitted(a, roles)
  /\ stx' = [stx EXCEPT ![w] =
       [Waiting EXCEPT !.pc = pc, !.target = u, !.patch = p,
          !.actor = [id |-> a, role |-> acct[a].role, by |-> acct[a].by]]]
  /\ UNCHANGED <<acct, committed>>

Admins == {"ADMIN", "SUPER_ADMIN"}
SuperAdmins == {"SUPER_ADMIN"}
SubmitCreate(w, a, u, r) ==
  ~acct[u].there /\ Submit(w, a, SuperAdmins, u, [ProfileOnly EXCEPT !.role = r], "create")
SubmitPatch(w, a, u, p) ==
  Submit(w, a, Admins, u, p, IF TouchesInvariant(p) THEN "begin" ELSE "profile")
SubmitDelete(w, a, u) == Submit(w, a, SuperAdmins, u, ProfileOnly, "beginDelete")
SubmitReset(w, a, u) == Submit(w, a, SuperAdmins, u, ProfileOnly, "reset")
SubmitRestore(w, a, u) == Submit(w, a, SuperAdmins, u, ProfileOnly, "restore")

(* POST password is open to whoever must change it.                        *)
SubmitOwnPassword(w, a) ==
  /\ stx[w].pc = "idle" /\ sleft > 0 /\ sleft' = sleft - 1
  /\ Present(acct, a) /\ acct[a].active
  /\ stx' = [stx EXCEPT ![w] = [Waiting EXCEPT !.pc = "ownPassword", !.target = a]]
  /\ UNCHANGED <<acct, committed>>

(* create: the unique email refuses a second row; the role is the body's.  *)
CreateAccount(w) ==
  /\ stx[w].pc = "create"
  /\ IF acct[stx[w].target].there
     THEN UNCHANGED acct
     ELSE acct' = [acct EXCEPT ![stx[w].target] =
            [NoAccount EXCEPT !.there = TRUE, !.role = stx[w].patch.role,
                           !.by = stx[w].actor.id]]
  /\ Answer(w) /\ UNCHANGED committed

-----------------------------------------------------------------------------
(* Serializable: the first statement takes the snapshot, 404 and 403 come  *)
(* from it ...                                                             *)
Permits(t, a) ==
  IF t.pc = "beginDelete" THEN CanDelete(t.actor, t.target)
                          ELSE CanPatch(t.actor, t.target, a[t.target].role, t.patch)

TakeSnapshot(w) ==
  /\ stx[w].pc \in {"begin", "beginDelete"}
  /\ IF Present(acct, stx[w].target) /\ Permits(stx[w], acct)
     THEN Sent(w, [stx[w] EXCEPT !.snap = acct, !.since = committed,
                     !.pc = IF @ = "begin" THEN "patch" ELSE "delete"])
     ELSE Answer(w)
  /\ UNCHANGED <<acct, committed>>

Patched(r, p) ==
  [r EXCEPT !.role = IF p.role = NoOfficer THEN @ ELSE p.role,
            !.active = IF p.active = NoOfficer THEN @ ELSE p.active]
Written(t) ==
  IF t.pc = "patch" THEN Patched(t.snap[t.target], t.patch)
                    ELSE [t.snap[t.target] EXCEPT !.deleted = TRUE]

(* Mutant of Conflicts: READ COMMITTED, nothing conflicts.                 *)
NeverConflicts(t) == FALSE
(* ... every such transaction counts the whole table, so one that          *)
(* committed meanwhile is a conflict; so is any write to the row since.    *)
Conflicts(t) == committed # t.since \/ acct[t.target] # t.snap[t.target]

(* Mutant of AssertActiveSuperAdminRemains: the count is not made.         *)
AssertNothing(t) == TRUE
(* The count is made after the write, on the snapshot with it.             *)
AssertActiveSuperAdminRemains(t) ==
  ActiveSuperAdmin([t.snap EXCEPT ![t.target] = Written(t)]) # {}

(* ... and the commit writes, or everything is rolled back with a 409.     *)
CommitWrite(w) ==
  /\ stx[w].pc \in {"patch", "delete"}
  /\ ~Conflicts(stx[w]) /\ AssertActiveSuperAdminRemains(stx[w])
  /\ acct' = [acct EXCEPT ![stx[w].target] = Written(stx[w])]
  /\ committed' = committed + 1 /\ Answer(w)

StaffRollback(w) ==
  /\ stx[w].pc \in {"patch", "delete"} /\ Answer(w) /\ UNCHANGED <<acct, committed>>

-----------------------------------------------------------------------------
(* READ COMMITTED: the target is read and judged, then written by id.      *)
Judge(w) ==
  LET t == stx[w] IN
  /\ t.pc \in {"profile", "reset", "restore", "ownPassword"}
  /\ IF CASE t.pc = "profile" ->
               Present(acct, t.target)
               /\ CanPatch(t.actor, t.target, acct[t.target].role, t.patch)
          [] t.pc = "reset" ->
               Present(acct, t.target) /\ CanResetPassword(t.actor, t.target)
          [] t.pc = "restore" -> acct[t.target].there /\ acct[t.target].deleted
          [] t.pc = "ownPassword" -> acct[t.target].there
     THEN Sent(w, [t EXCEPT !.pc = CASE @ = "profile" -> "writeProfile"
                                     [] @ = "reset" -> "writeReset"
                                     [] @ = "restore" -> "writeRestore"
                                     [] @ = "ownPassword" -> "writePassword"])
     ELSE Answer(w)
  /\ UNCHANGED <<acct, committed>>

WriteProfile(w) ==
  stx[w].pc = "writeProfile" /\ Answer(w) /\ UNCHANGED <<acct, committed>>
(* An argon2 mismatch, or the same password again, is a 400.               *)
WritePassword(w) ==
  /\ stx[w].pc = "writePassword"
  /\ acct' \in {acct, [acct EXCEPT ![stx[w].target].must = FALSE]}
  /\ Answer(w) /\ UNCHANGED committed
WriteReset(w) ==
  /\ stx[w].pc = "writeReset"
  /\ acct' = [acct EXCEPT ![stx[w].target].must = TRUE]
  /\ Answer(w) /\ UNCHANGED committed
WriteRestore(w) ==
  /\ stx[w].pc = "writeRestore"
  /\ acct' = [acct EXCEPT ![stx[w].target].deleted = FALSE]
  /\ Answer(w) /\ UNCHANGED committed

(* create-super-admin --force: an existing SUPER_ADMIN comes back as it    *)
(* was, reactivated; an address nobody has becomes one; anybody else is    *)
(* refused.  Without --force it does nothing while a SUPER_ADMIN is there. *)
AssertTargetIsSuperAdminOrAbsent(u) == acct[u].there => acct[u].role = "SUPER_ADMIN"
Refuses(force) ==
  ~force /\ \E u \in Officers : Present(acct, u) /\ acct[u].role = "SUPER_ADMIN"

SubmitBreakGlass(w, u, force) ==
  /\ stx[w].pc = "idle" /\ sleft > 0 /\ sleft' = sleft - 1
  /\ ~Refuses(force) /\ AssertTargetIsSuperAdminOrAbsent(u)
  /\ stx' = [stx EXCEPT ![w] = [Waiting EXCEPT !.pc = "breakGlass", !.target = u]]
  /\ UNCHANGED <<acct, committed>>

(* The upsert: of a row that is there, everything but the role.            *)
CreateSuperAdmin(w) ==
  LET u == stx[w].target IN
  /\ stx[w].pc = "breakGlass"
  /\ acct' = [acct EXCEPT ![u] =
       [@ EXCEPT !.there = TRUE, !.active = TRUE, !.deleted = FALSE, !.must = FALSE,
                 !.role = IF acct[u].there THEN acct[u].role ELSE "SUPER_ADMIN"]]
  /\ Answer(w) /\ UNCHANGED committed

-----------------------------------------------------------------------------
(* Established staff: a SUPER_ADMIN nobody created, who created the others *)
(* unless the break-glass script did.  Whichever user the first one is,    *)
(* the behaviours are the same.                                            *)
Root == CHOOSE u \in Officers : TRUE
Founder == [NoAccount EXCEPT !.there = TRUE, !.must = FALSE, !.role = "SUPER_ADMIN"]
StaffStarts ==
  {[a EXCEPT ![Root] = Founder] :
     a \in [Officers -> {NoAccount, Founder} \cup {[Founder EXCEPT !.role = r, !.by = Root] :
                                                r \in SystemRole}]}

StaffIdle ==
  committed = 0 /\ sleft = MaxStaffWrites /\ stx = [w \in Staffers |-> Waiting]
StaffInit == acct \in StaffStarts /\ StaffIdle

StaffNext ==
  \E w \in Staffers :
    \/ \E a \in Officers, u \in Officers :
         \/ \E r \in SystemRole : SubmitCreate(w, a, u, r)
         \/ \E p \in Patch : SubmitPatch(w, a, u, p)
         \/ SubmitDelete(w, a, u) \/ SubmitReset(w, a, u) \/ SubmitRestore(w, a, u)
    \/ \E a \in Officers : SubmitOwnPassword(w, a)
    \/ \E u \in Officers, force \in BOOLEAN : SubmitBreakGlass(w, u, force)
    \/ CreateAccount(w) \/ TakeSnapshot(w) \/ CommitWrite(w) \/ StaffRollback(w)
    \/ Judge(w) \/ WriteProfile(w) \/ WritePassword(w) \/ WriteReset(w)
    \/ WriteRestore(w) \/ CreateSuperAdmin(w)

StaffSpec == StaffInit /\ [][StaffNext]_staffVars

-----------------------------------------------------------------------------
(* The last-active-SUPER_ADMIN invariant: whatever patches and deletions   *)
(* race, on actors the guard admitted earlier, somebody is left who can    *)
(* manage the staff.                                                       *)
SuperAdminRemains == ActiveSuperAdmin(acct) # {}

(* Who may take or give privilege.  A row's role, suspension or deletion   *)
(* changes only by the request of somebody else who was not created by it, *)
(* its role only by a SUPER_ADMIN's; and what an ADMIN changes is a VIEWER *)
(* at the moment of the write, not only when it was judged.  Restoring     *)
(* and the break-glass script take nothing away.                           *)
Takes(u) ==
  /\ acct[u].there
  /\ \/ acct'[u].role # acct[u].role
     \/ acct[u].active /\ ~acct'[u].active
     \/ ~acct[u].deleted /\ acct'[u].deleted
AuthorisedBy(w, u) ==
  LET a == stx[w].actor IN
  /\ stx[w].pc # "idle" /\ stx'[w].pc = "idle" /\ stx[w].target = u
  /\ a.id \notin {u, NoOfficer} /\ acct[a.id].by # u
  /\ acct'[u].role # acct[u].role => a.role = "SUPER_ADMIN"
  /\ a.role = "ADMIN" => acct[u].role = "VIEWER"
PrivilegeIsTakenByRight ==
  [][\A u \in Officers : Takes(u) => \E w \in Staffers : AuthorisedBy(w, u)]_staffVars
=============================================================================
