---------------------------- MODULE StaffProofs ----------------------------
(***************************************************************************)
(* What is proved about the back-office accounts and about the sessions of *)
(* their owners, for any number of accounts, sessions, requests and        *)
(* sockets: a SUPER_ADMIN remains, and privilege is taken by right; "sign  *)
(* out everywhere" reaches every session that was put in its owner's       *)
(* index, and a session that is gone stays gone.                           *)
(***************************************************************************)
EXTENDS StaffAccounts, StaffSessions, TLAPS

(***************************************************************************)
(* The accounts.                                                           *)
(***************************************************************************)
StaffPcs == {"idle", "create", "begin", "beginDelete", "patch", "delete",
             "profile", "reset", "restore", "ownPassword", "writeProfile",
             "writeReset", "writeRestore", "writePassword", "breakGlass"}
Actors == [id : Officers \cup {NoOfficer}, role : SystemRole,
           by : Officers \cup {NoOfficer}]
StaffTx == [pc : StaffPcs, actor : Actors, target : Officers \cup {NoOfficer},
            patch : Patch, snap : [Officers -> Account], since : Nat]

AccountsTyped ==
  /\ acct \in [Officers -> Account] /\ committed \in Nat /\ sleft \in Nat
  /\ stx \in [Staffers -> StaffTx]

(* A request under way names an account, and one that takes something away *)
(* names its actor: a row that is there and that was created by whom the   *)
(* guard read.  Neither ever changes.  A creation has a role.              *)
Judged == {"create", "begin", "beginDelete", "patch", "delete"}
ActorKnown(t) ==
  /\ t.pc # "idle" => t.target \in Officers
  /\ t.pc \in Judged => /\ t.actor.id \in Officers /\ acct[t.actor.id].there
                        /\ acct[t.actor.id].by = t.actor.by
  /\ t.pc = "create" => t.patch.role \in SystemRole

(* A Serializable transaction was permitted on its snapshot; and as long   *)
(* as no other such transaction has committed, every active SUPER_ADMIN of *)
(* the snapshot is one still, because the other writes take none away.     *)
SnapshotHolds(t) ==
  /\ t.pc \in {"begin", "patch"} => TouchesInvariant(t.patch)
  /\ t.pc = "patch" => CanPatch(t.actor, t.target, t.snap[t.target].role, t.patch)
  /\ t.pc = "delete" => CanDelete(t.actor, t.target)
  /\ t.pc \in {"patch", "delete"} =>
       /\ t.since <= committed
       /\ t.since = committed => ActiveSuperAdmin(t.snap) \subseteq ActiveSuperAdmin(acct)

StaffInvariant ==
  /\ AccountsTyped /\ SuperAdminRemains
  /\ \A w \in Staffers : ActorKnown(stx[w]) /\ SnapshotHolds(stx[w])

-----------------------------------------------------------------------------
(* Nothing under way.                                                      *)
LEMMA WaitingFits == Waiting \in StaffTx /\ ActorKnown(Waiting) /\ SnapshotHolds(Waiting)
<1>1. NoAccount \in Account
  BY DEF NoAccount, Account, SystemRole
<1>2. NoActor \in Actors /\ ProfileOnly \in Patch
  BY DEF NoActor, Actors, SystemRole, ProfileOnly, Patch
<1>3. Waiting \in StaffTx
  BY <1>1, <1>2 DEF Waiting, StaffTx, StaffPcs
<1>4. ActorKnown(Waiting) /\ SnapshotHolds(Waiting)
  BY DEF Waiting, ActorKnown, SnapshotHolds, Judged
<1> QED
  BY <1>3, <1>4

(* An account keeps its creator and stays there; an active SUPER_ADMIN     *)
(* stays one.                                                              *)
TakesNothing ==
  /\ \A u \in Officers : acct[u].there => acct'[u].there /\ acct'[u].by = acct[u].by
  /\ ActiveSuperAdmin(acct) \subseteq ActiveSuperAdmin(acct')

(* No role, suspension or deletion that PrivilegeIsTakenByRight is about.  *)
NothingTaken == \A u \in Officers : ~Takes(u)

(* A step of one request that takes nothing from any account.              *)
LEMMA GentleStep ==
  ASSUME StaffInvariant, NEW w \in Staffers, NEW t \in StaffTx,
         ActorKnown(t), SnapshotHolds(t), stx' = [stx EXCEPT ![w] = t],
         acct' \in [Officers -> Account], TakesNothing,
         committed' = committed, sleft' \in Nat
  PROVE  StaffInvariant'
<1>1. \A x \in Staffers : stx'[x] = IF x = w THEN t ELSE stx[x]
  BY DEF StaffInvariant, AccountsTyped
<1>2. AccountsTyped'
  BY DEF StaffInvariant, AccountsTyped
<1>3. SuperAdminRemains'
  BY DEF StaffInvariant, SuperAdminRemains, TakesNothing
<1>4. ASSUME NEW x \in Staffers PROVE ActorKnown(stx[x])'
  <2>1. ActorKnown(stx'[x])
    BY <1>1 DEF StaffInvariant
  <2> QED
    BY <2>1 DEF ActorKnown, TakesNothing
<1>5. ASSUME NEW x \in Staffers PROVE SnapshotHolds(stx[x])'
  <2>1. SnapshotHolds(stx'[x])
    BY <1>1 DEF StaffInvariant
  <2> QED
    BY <2>1 DEF SnapshotHolds, TakesNothing
<1> QED
  BY <1>2, <1>3, <1>4, <1>5 DEF StaffInvariant

(* A step that only moves a request on.                                    *)
LEMMA MoveStep ==
  ASSUME StaffInvariant, NEW w \in Staffers, NEW t \in StaffTx,
         ActorKnown(t), SnapshotHolds(t), stx' = [stx EXCEPT ![w] = t],
         UNCHANGED <<acct, committed>>, sleft' \in Nat
  PROVE  StaffInvariant'
<1>1. acct' \in [Officers -> Account] /\ TakesNothing
  BY DEF StaffInvariant, AccountsTyped, TakesNothing
<1> QED
  BY <1>1, GentleStep

(* An answer, with what was written before it.                             *)
LEMMA AnswerStep ==
  ASSUME StaffInvariant, NEW w \in Staffers, Answer(w),
         acct' \in [Officers -> Account], TakesNothing, UNCHANGED committed
  PROVE  StaffInvariant'
<1>1. stx' = [stx EXCEPT ![w] = Waiting] /\ sleft' \in Nat
  BY DEF Answer, Sent, StaffInvariant, AccountsTyped
<1> QED
  BY <1>1, WaitingFits, GentleStep

-----------------------------------------------------------------------------
(* The guard admits an actor that is there; what it read of it is true.    *)
LEMMA SubmitStep ==
  ASSUME StaffInvariant, NEW w \in Staffers, NEW a \in Officers, NEW roles,
         NEW u \in Officers, NEW p \in Patch, NEW pc \in StaffPcs,
         pc \notin {"patch", "delete"}, pc = "begin" => TouchesInvariant(p),
         pc = "create" => p.role \in SystemRole,
         Submit(w, a, roles, u, p, pc)
  PROVE  StaffInvariant'
<1> DEFINE actor == [id |-> a, role |-> acct[a].role, by |-> acct[a].by]
           t == [Waiting EXCEPT !.pc = pc, !.target = u, !.patch = p, !.actor = actor]
<1>1. actor \in Actors
  BY DEF StaffInvariant, AccountsTyped, Account, Actors
<1>2. t \in StaffTx
  BY <1>1, WaitingFits DEF StaffTx
<1>3. t.pc = pc /\ t.target = u /\ t.patch = p /\ t.actor = actor
  BY WaitingFits DEF StaffTx
<1>4. acct[a].there
  BY DEF Submit, Admitted, Present
<1>5. ActorKnown(t)
  BY <1>3, <1>4 DEF ActorKnown
<1>6. SnapshotHolds(t)
  BY <1>3 DEF SnapshotHolds
<1>7. stx' = [stx EXCEPT ![w] = t] /\ sleft' \in Nat /\ UNCHANGED <<acct, committed>>
  BY DEF Submit, StaffInvariant, AccountsTyped
<1> HIDE DEF t
<1> QED
  BY <1>2, <1>5, <1>6, <1>7, MoveStep

(* Every way for a request to come in.                                     *)
LEMMA ArrivalStep ==
  ASSUME StaffInvariant, NEW w \in Staffers,
         \/ \E a \in Officers, u \in Officers :
              \/ \E r \in SystemRole : SubmitCreate(w, a, u, r)
              \/ \E p \in Patch : SubmitPatch(w, a, u, p)
              \/ SubmitDelete(w, a, u) \/ SubmitReset(w, a, u) \/ SubmitRestore(w, a, u)
         \/ \E a \in Officers : SubmitOwnPassword(w, a)
         \/ \E u \in Officers, force \in BOOLEAN : SubmitBreakGlass(w, u, force)
  PROVE  StaffInvariant'
<1>0. ProfileOnly \in Patch
  BY DEF ProfileOnly, Patch
<1>1. ASSUME NEW a \in Officers, NEW u \in Officers, NEW r \in SystemRole,
             SubmitCreate(w, a, u, r)
      PROVE  StaffInvariant'
  <2> DEFINE p == [ProfileOnly EXCEPT !.role = r]
  <2>1. p \in Patch /\ p.role = r
    BY DEF ProfileOnly, Patch
  <2>2. Submit(w, a, SuperAdmins, u, p, "create")
    BY <1>1 DEF SubmitCreate
  <2> HIDE DEF p
  <2>3. "create" \in StaffPcs
    BY DEF StaffPcs
  <2> QED
    BY <2>1, <2>2, <2>3, SubmitStep
<1>2. ASSUME NEW a \in Officers, NEW u \in Officers, NEW p \in Patch,
             SubmitPatch(w, a, u, p)
      PROVE  StaffInvariant'
  <2> DEFINE pc == IF TouchesInvariant(p) THEN "begin" ELSE "profile"
  <2>1. pc \in StaffPcs /\ pc \notin {"patch", "delete", "create"}
    BY DEF StaffPcs
  <2>2. pc = "begin" => TouchesInvariant(p)
    OBVIOUS
  <2>3. Submit(w, a, Admins, u, p, pc)
    BY <1>2 DEF SubmitPatch
  <2> HIDE DEF pc
  <2> QED
    BY <2>1, <2>2, <2>3, SubmitStep
<1>3. ASSUME NEW a \in Officers, NEW u \in Officers,
             SubmitDelete(w, a, u) \/ SubmitReset(w, a, u) \/ SubmitRestore(w, a, u)
      PROVE  StaffInvariant'
  <2>1. PICK pc \in {"beginDelete", "reset", "restore"} :
          Submit(w, a, SuperAdmins, u, ProfileOnly, pc)
    BY <1>3 DEF SubmitDelete, SubmitReset, SubmitRestore
  <2>2. pc \in StaffPcs /\ pc \notin {"patch", "delete", "begin", "create"}
    BY DEF StaffPcs
  <2> QED
    BY <1>0, <2>1, <2>2, SubmitStep
<1>4. ASSUME NEW u \in Officers, NEW pc \in {"ownPassword", "breakGlass"},
             stx' = [stx EXCEPT ![w] = [Waiting EXCEPT !.pc = pc, !.target = u]],
             sleft' \in Nat, UNCHANGED <<acct, committed>>
      PROVE  StaffInvariant'
  <2> DEFINE t == [Waiting EXCEPT !.pc = pc, !.target = u]
  <2>1. t \in StaffTx
    BY WaitingFits DEF StaffTx, StaffPcs
  <2>2. t.pc = pc /\ t.target = u
    BY WaitingFits DEF StaffTx
  <2>3. ActorKnown(t) /\ SnapshotHolds(t)
    BY <2>2 DEF ActorKnown, SnapshotHolds, Judged
  <2> HIDE DEF t
  <2>4. stx' = [stx EXCEPT ![w] = t]
    BY <1>4 DEF t
  <2> QED
    BY <1>4, <2>1, <2>3, <2>4, MoveStep
<1>5. ASSUME NEW a \in Officers, SubmitOwnPassword(w, a) PROVE StaffInvariant'
  <2>1. sleft > 0 /\ sleft' = sleft - 1 /\ sleft \in Nat
    BY <1>5 DEF SubmitOwnPassword, StaffInvariant, AccountsTyped
  <2>2. sleft' \in Nat
    BY <2>1
  <2> QED
    BY <1>4, <1>5, <2>2 DEF SubmitOwnPassword
<1>6. ASSUME NEW u \in Officers, NEW force \in BOOLEAN, SubmitBreakGlass(w, u, force)
      PROVE  StaffInvariant'
  <2>1. sleft > 0 /\ sleft' = sleft - 1 /\ sleft \in Nat
    BY <1>6 DEF SubmitBreakGlass, StaffInvariant, AccountsTyped
  <2>2. sleft' \in Nat
    BY <2>1
  <2> QED
    BY <1>4, <1>6, <2>2 DEF SubmitBreakGlass
<1> QED
  BY <1>1, <1>2, <1>3, <1>5, <1>6

-----------------------------------------------------------------------------
(* Writes outside Serializable.                                            *)

(* create: a row there is left alone, and nobody was at the others.        *)
LEMMA CreateStep ==
  ASSUME StaffInvariant, NEW w \in Staffers, CreateAccount(w)
  PROVE  StaffInvariant' /\ NothingTaken
<1> DEFINE t == stx[w]
           row == [NoAccount EXCEPT !.there = TRUE, !.role = t.patch.role, !.by = t.actor.id]
<1>1. t \in StaffTx /\ t.target \in Officers /\ t.patch.role \in SystemRole
      /\ t.actor.id \in Officers
  BY DEF StaffInvariant, AccountsTyped, ActorKnown, CreateAccount, Judged
<1>2. row \in Account
  BY <1>1 DEF NoAccount, Account, SystemRole
<1>3. CASE acct[t.target].there
  <2>1. acct' = acct
    BY <1>3 DEF CreateAccount
  <2>2. acct' \in [Officers -> Account] /\ TakesNothing
    BY <2>1 DEF StaffInvariant, AccountsTyped, TakesNothing
  <2>3. NothingTaken
    BY <2>1 DEF NothingTaken, Takes
  <2> QED
    BY <2>2, <2>3, AnswerStep DEF CreateAccount
<1>4. CASE ~acct[t.target].there
  <2>1. acct' = [acct EXCEPT ![t.target] = row]
    BY <1>4 DEF CreateAccount
  <2>2. acct' \in [Officers -> Account]
    BY <1>1, <1>2, <2>1 DEF StaffInvariant, AccountsTyped
  <2>3. \A u \in Officers \ {t.target} : acct'[u] = acct[u]
    BY <2>1 DEF StaffInvariant, AccountsTyped
  <2>4. TakesNothing
    BY <1>4, <2>3 DEF TakesNothing, ActiveSuperAdmin, Present
  <2>5. NothingTaken
    BY <1>4, <2>3 DEF NothingTaken, Takes
  <2> QED
    BY <2>2, <2>4, <2>5, AnswerStep DEF CreateAccount
<1> QED
  BY <1>3, <1>4

(* The password writes, the restoration and the break-glass script write   *)
(* the row they name and leave its creator, its suspension lifted or as it *)
(* was, and of a row that is there the role.                               *)
LEMMA RowGrows ==
  ASSUME StaffInvariant, NEW w \in Staffers, Answer(w), UNCHANGED committed,
         NEW u \in Officers, NEW row \in Account, acct' = [acct EXCEPT ![u] = row],
         acct[u].there => row.there, row.by = acct[u].by,
         acct[u].there => row.role = acct[u].role,
         acct[u].active => row.active, ~acct[u].deleted => ~row.deleted
  PROVE  StaffInvariant' /\ NothingTaken
<1>1. acct' \in [Officers -> Account]
  BY DEF StaffInvariant, AccountsTyped
<1>2. \A v \in Officers : acct'[v] = IF v = u THEN row ELSE acct[v]
  BY DEF StaffInvariant, AccountsTyped
<1>3. TakesNothing
  BY <1>2 DEF TakesNothing, ActiveSuperAdmin, Present
<1>4. NothingTaken
  <2>1. acct[u] \in Account
    BY DEF StaffInvariant, AccountsTyped
  <2> QED
    BY <1>2, <2>1 DEF NothingTaken, Takes, Account
<1> QED
  BY <1>1, <1>3, <1>4, AnswerStep

LEMMA PlainWriteStep ==
  ASSUME StaffInvariant, NEW w \in Staffers,
         \/ WriteProfile(w) \/ WritePassword(w) \/ WriteReset(w)
         \/ WriteRestore(w) \/ CreateSuperAdmin(w)
  PROVE  StaffInvariant' /\ NothingTaken
<1> DEFINE u == stx[w].target
<1>1. u \in Officers
  BY DEF StaffInvariant, ActorKnown, WriteProfile, WritePassword, WriteReset,
         WriteRestore, CreateSuperAdmin
<1>2. acct \in [Officers -> Account] /\ acct[u] \in Account
  BY <1>1 DEF StaffInvariant, AccountsTyped
<1>3. CASE acct' = acct /\ Answer(w) /\ UNCHANGED committed
  <2>1. acct' = [acct EXCEPT ![u] = acct[u]]
    BY <1>1, <1>2, <1>3
  <2> QED
    BY <1>1, <1>2, <1>3, <2>1, RowGrows
<1>4. CASE WriteProfile(w)
  BY <1>3, <1>4 DEF WriteProfile
<1>5. ASSUME NEW must \in BOOLEAN, acct' = [acct EXCEPT ![u].must = must],
             Answer(w), UNCHANGED committed
      PROVE  StaffInvariant' /\ NothingTaken
  <2> DEFINE row == [acct[u] EXCEPT !.must = must]
  <2>1. row \in Account /\ acct' = [acct EXCEPT ![u] = row]
    BY <1>2, <1>5 DEF Account
  <2>2. row.there = acct[u].there /\ row.by = acct[u].by /\ row.role = acct[u].role
        /\ row.active = acct[u].active /\ row.deleted = acct[u].deleted
    BY <1>2 DEF Account
  <2> HIDE DEF row
  <2> QED
    BY <1>1, <1>5, <2>1, <2>2, RowGrows
<1>6. CASE WritePassword(w)
  BY <1>3, <1>5, <1>6 DEF WritePassword
<1>7. CASE WriteReset(w)
  BY <1>5, <1>7 DEF WriteReset
<1>8. CASE WriteRestore(w)
  <2> DEFINE row == [acct[u] EXCEPT !.deleted = FALSE]
  <2>1. row \in Account /\ acct' = [acct EXCEPT ![u] = row]
    BY <1>2, <1>8 DEF Account, WriteRestore
  <2>2. row.there = acct[u].there /\ row.by = acct[u].by /\ row.role = acct[u].role
        /\ row.active = acct[u].active /\ ~row.deleted
    BY <1>2 DEF Account
  <2> HIDE DEF row
  <2> QED
    BY <1>1, <1>8, <2>1, <2>2, RowGrows DEF WriteRestore
<1>9. CASE CreateSuperAdmin(w)
  <2> DEFINE role == IF acct[u].there THEN acct[u].role ELSE "SUPER_ADMIN"
             row == [acct[u] EXCEPT !.there = TRUE, !.active = TRUE, !.deleted = FALSE,
                                    !.must = FALSE, !.role = role]
  <2>1. row \in Account /\ acct' = [acct EXCEPT ![u] = row]
    BY <1>2, <1>9 DEF Account, SystemRole, CreateSuperAdmin
  <2>2. row.there /\ row.by = acct[u].by /\ row.active /\ ~row.deleted /\ row.role = role
    BY <1>2 DEF Account
  <2> HIDE DEF row
  <2> QED
    BY <1>1, <1>9, <2>1, <2>2, RowGrows DEF CreateSuperAdmin
<1> QED
  BY <1>4, <1>6, <1>7, <1>8, <1>9

-----------------------------------------------------------------------------
(* Reads and judgements, and what is rolled back.                          *)
LEMMA TurnedAway ==
  ASSUME StaffInvariant, NEW w \in Staffers, Answer(w), UNCHANGED <<acct, committed>>
  PROVE  StaffInvariant'
<1>1. acct' \in [Officers -> Account] /\ TakesNothing
  BY DEF StaffInvariant, AccountsTyped, TakesNothing
<1> QED
  BY <1>1, AnswerStep

LEMMA SnapshotStep ==
  ASSUME StaffInvariant, NEW w \in Staffers, TakeSnapshot(w)
  PROVE  StaffInvariant'
<1> DEFINE s == stx[w]
           pc == IF s.pc = "begin" THEN "patch" ELSE "delete"
           t == [s EXCEPT !.snap = acct, !.since = committed, !.pc = pc]
<1>1. CASE Answer(w)
  BY <1>1, TurnedAway DEF TakeSnapshot
<1>2. CASE Permits(s, acct) /\ Sent(w, t)
  <2>1. s \in StaffTx /\ ActorKnown(s) /\ SnapshotHolds(s) /\ s.pc \in {"begin", "beginDelete"}
    BY DEF StaffInvariant, AccountsTyped, TakeSnapshot
  <2>2. acct \in [Officers -> Account] /\ committed \in Nat /\ sleft \in Nat
    BY DEF StaffInvariant, AccountsTyped
  <2>3. pc \in {"patch", "delete"} /\ (pc = "patch" <=> s.pc = "begin")
    BY <2>1
  <2>4. t \in StaffTx
    BY <2>1, <2>2, <2>3 DEF StaffTx, StaffPcs
  <2>5. t.pc = pc /\ t.snap = acct /\ t.since = committed
        /\ t.actor = s.actor /\ t.target = s.target /\ t.patch = s.patch
    BY <2>1 DEF StaffTx
  <2>6. ActorKnown(t)
    BY <2>1, <2>3, <2>5 DEF ActorKnown, Judged
  <2>7. pc = "patch" => TouchesInvariant(s.patch)
                        /\ CanPatch(s.actor, s.target, acct[s.target].role, s.patch)
    BY <1>2, <2>1, <2>3 DEF Permits, SnapshotHolds
  <2>8. pc = "delete" => CanDelete(s.actor, s.target)
    BY <1>2, <2>1, <2>3 DEF Permits
  <2>9. SnapshotHolds(t)
    BY <2>2, <2>3, <2>5, <2>7, <2>8 DEF SnapshotHolds
  <2> HIDE DEF t
  <2>10. stx' = [stx EXCEPT ![w] = t] /\ sleft' \in Nat /\ UNCHANGED <<acct, committed>>
    BY <1>2, <2>2 DEF Sent, TakeSnapshot
  <2> QED
    BY <2>4, <2>6, <2>9, <2>10, MoveStep
<1> QED
  BY <1>1, <1>2 DEF TakeSnapshot

LEMMA JudgeStep ==
  ASSUME StaffInvariant, NEW w \in Staffers, Judge(w)
  PROVE  StaffInvariant'
<1> DEFINE s == stx[w]
<1>1. CASE Answer(w)
  BY <1>1, TurnedAway DEF Judge
<1>2. ASSUME NEW pc \in {"writeProfile", "writeReset", "writeRestore", "writePassword"},
             Sent(w, [s EXCEPT !.pc = pc])
      PROVE  StaffInvariant'
  <2> DEFINE t == [s EXCEPT !.pc = pc]
  <2>1. s \in StaffTx /\ ActorKnown(s) /\ s.pc # "idle"
    BY DEF StaffInvariant, AccountsTyped, Judge
  <2>2. t \in StaffTx
    BY <2>1 DEF StaffTx, StaffPcs
  <2>3. t.pc = pc /\ t.target = s.target
    BY <2>1 DEF StaffTx
  <2>4. ActorKnown(t) /\ SnapshotHolds(t)
    BY <2>1, <2>3 DEF ActorKnown, SnapshotHolds, Judged
  <2> HIDE DEF t
  <2>5. stx' = [stx EXCEPT ![w] = t] /\ sleft' \in Nat /\ UNCHANGED <<acct, committed>>
    BY <1>2 DEF t, Sent, Judge, StaffInvariant, AccountsTyped
  <2> QED
    BY <2>2, <2>4, <2>5, MoveStep
<1> QED
  BY <1>1, <1>2 DEF Judge

-----------------------------------------------------------------------------
(* The commit of a Serializable write.  Nobody committed since the         *)
(* snapshot, so the SUPER_ADMIN the count found is there: the row written  *)
(* is as counted, and the others have lost nothing since.                  *)
LEMMA WrittenRow ==
  ASSUME StaffInvariant, NEW w \in Staffers, stx[w].pc \in {"patch", "delete"}
  PROVE  /\ Written(stx[w]) \in Account
         /\ Written(stx[w]).there = stx[w].snap[stx[w].target].there
         /\ Written(stx[w]).by = stx[w].snap[stx[w].target].by
<1> DEFINE t == stx[w]
<1>1. t \in StaffTx /\ t.target \in Officers
  BY DEF StaffInvariant, AccountsTyped, ActorKnown
<1>2. t.snap[t.target] \in Account /\ t.patch \in Patch
  BY <1>1 DEF StaffTx
<1>3. (IF t.patch.role = NoOfficer THEN t.snap[t.target].role ELSE t.patch.role) \in SystemRole
  BY <1>2 DEF Patch, Account
<1>4. (IF t.patch.active = NoOfficer THEN t.snap[t.target].active ELSE t.patch.active) \in BOOLEAN
  BY <1>2 DEF Patch, Account
<1>5. CASE t.pc = "patch"
  BY <1>2, <1>3, <1>4, <1>5 DEF Written, Patched, Account
<1>6. CASE t.pc = "delete"
  BY <1>2, <1>6 DEF Written, Account
<1> QED
  BY <1>5, <1>6

LEMMA CommitStep ==
  ASSUME StaffInvariant, NEW w \in Staffers, CommitWrite(w)
  PROVE  StaffInvariant'
<1> DEFINE t == stx[w]
           u == t.target
<1>1. t \in StaffTx /\ u \in Officers /\ ActorKnown(t) /\ SnapshotHolds(t)
      /\ t.pc \in {"patch", "delete"}
  BY DEF StaffInvariant, AccountsTyped, ActorKnown, CommitWrite
<1>2. acct' = [acct EXCEPT ![u] = Written(t)] /\ committed' = committed + 1
      /\ committed = t.since /\ acct[u] = t.snap[u]
      /\ stx' = [stx EXCEPT ![w] = Waiting] /\ sleft' = sleft
  BY DEF CommitWrite, Conflicts, Answer, Sent
<1>3. acct \in [Officers -> Account] /\ committed \in Nat /\ Written(t) \in Account
      /\ Written(t).there = acct[u].there /\ Written(t).by = acct[u].by
  BY <1>1, <1>2, WrittenRow DEF StaffInvariant, AccountsTyped
<1>4. \A v \in Officers : acct'[v] = IF v = u THEN Written(t) ELSE acct[v]
  BY <1>1, <1>2, <1>3
<1>5. \A x \in Staffers : stx'[x] = IF x = w THEN Waiting ELSE stx[x]
  BY <1>2 DEF StaffInvariant, AccountsTyped
<1>6. AccountsTyped'
  <2>1. acct' \in [Officers -> Account]
    BY <1>2, <1>3
  <2>2. committed' \in Nat
    BY <1>2, <1>3
  <2>3. sleft' \in Nat
    BY <1>2 DEF StaffInvariant, AccountsTyped
  <2>4. stx' \in [Staffers -> StaffTx]
    BY <1>2, WaitingFits DEF StaffInvariant, AccountsTyped
  <2> QED
    BY <2>1, <2>2, <2>3, <2>4 DEF AccountsTyped
<1>7. SuperAdminRemains'
  <2> DEFINE after == [t.snap EXCEPT ![u] = Written(t)]
  <2>1. ActiveSuperAdmin(after) # {}
    BY DEF CommitWrite, AssertActiveSuperAdminRemains
  <2>2. PICK v \in Officers : /\ Present(after, v) /\ after[v].active
                              /\ after[v].role = "SUPER_ADMIN"
    BY <2>1 DEF ActiveSuperAdmin
  <2>3. \A x \in Officers : after[x] = IF x = u THEN Written(t) ELSE t.snap[x]
    BY <1>1 DEF StaffTx
  <2> HIDE DEF after
  <2>4. CASE v = u
    <3>1. v \in ActiveSuperAdmin(acct')
      BY <1>4, <2>2, <2>3, <2>4 DEF ActiveSuperAdmin, Present
    <3> QED
      BY <3>1 DEF SuperAdminRemains
  <2>5. CASE v # u
    <3>1. v \in ActiveSuperAdmin(t.snap)
      BY <2>2, <2>3, <2>5 DEF ActiveSuperAdmin, Present
    <3>2. v \in ActiveSuperAdmin(acct)
      BY <1>1, <1>2, <3>1 DEF SnapshotHolds
    <3>3. v \in ActiveSuperAdmin(acct')
      BY <1>4, <2>5, <3>2 DEF ActiveSuperAdmin, Present
    <3> QED
      BY <3>3 DEF SuperAdminRemains
  <2> QED
    BY <2>4, <2>5
<1>8. ASSUME NEW x \in Staffers PROVE ActorKnown(stx[x])'
  <2>1. ActorKnown(stx'[x])
    BY <1>5, WaitingFits DEF StaffInvariant
  <2>2. \A v \in Officers : acct[v].there => acct'[v].there /\ acct'[v].by = acct[v].by
    BY <1>3, <1>4
  <2> QED
    BY <2>1, <2>2 DEF ActorKnown
<1>9. ASSUME NEW x \in Staffers PROVE SnapshotHolds(stx[x])'
  <2>1. SnapshotHolds(stx'[x]) /\ stx'[x] \in StaffTx
    BY <1>5, <1>6, WaitingFits DEF StaffInvariant, AccountsTyped
  <2>2. stx'[x].since \in Nat
    BY <2>1 DEF StaffTx
  <2>3. stx'[x].since <= committed =>
          stx'[x].since <= committed' /\ stx'[x].since # committed'
    BY <1>2, <1>3, <2>2
  <2> QED
    BY <2>1, <2>3 DEF SnapshotHolds
<1> QED
  BY <1>6, <1>7, <1>8, <1>9 DEF StaffInvariant

-----------------------------------------------------------------------------
(* The founder is an active SUPER_ADMIN of every start.                    *)
LEMMA StaffStarted == StaffInit => StaffInvariant
<1> SUFFICES ASSUME StaffInit PROVE StaffInvariant
  OBVIOUS
<1>1. Root \in Officers
  BY StaffConstants DEF Root
<1>2. NoAccount \in Account /\ Founder \in Account
      /\ \A r \in SystemRole : [Founder EXCEPT !.role = r, !.by = Root] \in Account
  BY <1>1 DEF NoAccount, Founder, Account, SystemRole
<1>3. acct \in [Officers -> Account] /\ acct[Root] = Founder
  <2> DEFINE Rows == {NoAccount, Founder}
                     \cup {[Founder EXCEPT !.role = r, !.by = Root] : r \in SystemRole}
  <2>1. PICK a \in [Officers -> Rows] : acct = [a EXCEPT ![Root] = Founder]
    BY DEF StaffInit, StaffStarts
  <2>2. \A row \in Rows : row \in Account
    BY <1>2
  <2> HIDE DEF Rows
  <2>3. a \in [Officers -> Account]
    BY <2>2
  <2> QED
    BY <1>1, <1>2, <2>1, <2>3
<1>4. AccountsTyped
  BY <1>3, WaitingFits, StaffConstants DEF StaffInit, StaffIdle, AccountsTyped
<1>5. Root \in ActiveSuperAdmin(acct)
  BY <1>1, <1>3 DEF ActiveSuperAdmin, Present, Founder, NoAccount
<1>6. \A w \in Staffers : ActorKnown(stx[w]) /\ SnapshotHolds(stx[w])
  BY WaitingFits DEF StaffInit, StaffIdle
<1> QED
  BY <1>4, <1>5, <1>6 DEF StaffInvariant, SuperAdminRemains

LEMMA StaffStep == StaffInvariant /\ [StaffNext]_staffVars => StaffInvariant'
<1> SUFFICES ASSUME StaffInvariant, [StaffNext]_staffVars PROVE StaffInvariant'
  OBVIOUS
<1>1. CASE UNCHANGED staffVars
  BY <1>1 DEF staffVars, StaffInvariant, AccountsTyped, SuperAdminRemains,
              ActorKnown, SnapshotHolds
<1>2. CASE StaffNext
  <2>1. PICK w \in Staffers :
          \/ \E a \in Officers, u \in Officers :
               \/ \E r \in SystemRole : SubmitCreate(w, a, u, r)
               \/ \E p \in Patch : SubmitPatch(w, a, u, p)
               \/ SubmitDelete(w, a, u) \/ SubmitReset(w, a, u) \/ SubmitRestore(w, a, u)
          \/ \E a \in Officers : SubmitOwnPassword(w, a)
          \/ \E u \in Officers, force \in BOOLEAN : SubmitBreakGlass(w, u, force)
          \/ CreateAccount(w) \/ TakeSnapshot(w) \/ CommitWrite(w) \/ StaffRollback(w)
          \/ Judge(w) \/ WriteProfile(w) \/ WritePassword(w) \/ WriteReset(w)
          \/ WriteRestore(w) \/ CreateSuperAdmin(w)
    BY <1>2 DEF StaffNext
  <2>2. CASE StaffRollback(w)
    BY <2>2, TurnedAway DEF StaffRollback
  <2> QED
    BY <2>1, <2>2, ArrivalStep, CreateStep, SnapshotStep, CommitStep, JudgeStep, PlainWriteStep
<1> QED
  BY <1>1, <1>2

(* What a commit takes, it takes by right: the row is as it was judged on  *)
(* the snapshot, and the actor's creator as the guard read it.             *)
LEMMA CommitByRight ==
  ASSUME StaffInvariant, NEW w \in Staffers, CommitWrite(w),
         NEW u \in Officers, Takes(u)
  PROVE  AuthorisedBy(w, u)
<1> DEFINE t == stx[w]
<1>1. t \in StaffTx /\ t.target \in Officers /\ ActorKnown(t) /\ SnapshotHolds(t)
      /\ t.pc \in {"patch", "delete"} /\ acct \in [Officers -> Account]
  BY DEF StaffInvariant, AccountsTyped, ActorKnown, CommitWrite
<1>2. acct' = [acct EXCEPT ![t.target] = Written(t)] /\ acct[t.target] = t.snap[t.target]
      /\ stx' = [stx EXCEPT ![w] = Waiting]
  BY DEF CommitWrite, Conflicts, Answer, Sent
<1>3. t.target = u
  BY <1>1, <1>2 DEF Takes
<1>4. stx[w].pc # "idle" /\ stx'[w].pc = "idle"
  BY <1>1, <1>2 DEF StaffInvariant, AccountsTyped, Waiting
<1>5. t.actor.id \in Officers /\ acct[t.actor.id].by = t.actor.by
  BY <1>1 DEF ActorKnown, Judged
<1>6. t.actor.id # NoOfficer /\ u # NoOfficer
  BY <1>5, StaffConstants
<1>7. acct'[u] = Written(t) /\ acct[u] = t.snap[u] /\ acct[u] \in Account
  BY <1>1, <1>2, <1>3
<1>8. CASE t.pc = "patch"
  <2>1. TouchesInvariant(t.patch) /\ CanPatch(t.actor, u, acct[u].role, t.patch)
    BY <1>1, <1>3, <1>7, <1>8 DEF SnapshotHolds
  <2>2. t.actor.id # u /\ acct[t.actor.id].by # u
    BY <1>5, <1>6, <2>1 DEF CanPatch, MayNotManageOwnCreator
  <2>3. acct'[u].role # acct[u].role => t.patch.role # NoOfficer
    BY <1>3, <1>7, <1>8 DEF Written, Patched, Account
  <2>4. /\ acct'[u].role # acct[u].role => t.actor.role = "SUPER_ADMIN"
        /\ t.actor.role = "ADMIN" => acct[u].role = "VIEWER"
    BY <2>1, <2>2, <2>3 DEF CanPatch
  <2> QED
    BY <1>3, <1>4, <1>6, <2>2, <2>4 DEF AuthorisedBy
<1>9. CASE t.pc = "delete"
  <2>1. CanDelete(t.actor, u)
    BY <1>1, <1>3, <1>9 DEF SnapshotHolds
  <2>2. t.actor.id # u /\ acct[t.actor.id].by # u /\ t.actor.role = "SUPER_ADMIN"
    BY <1>5, <1>6, <2>1 DEF CanDelete, MayNotManageOwnCreator
  <2> QED
    BY <1>3, <1>4, <1>6, <2>2 DEF AuthorisedBy
<1> QED
  BY <1>1, <1>8, <1>9

LEMMA StepByRight ==
  ASSUME StaffInvariant, StaffNext, NEW u \in Officers, Takes(u)
  PROVE  \E w \in Staffers : AuthorisedBy(w, u)
<1>1. acct' # acct
  BY DEF Takes, StaffInvariant, AccountsTyped
<1>2. PICK w \in Staffers :
        \/ CreateAccount(w) \/ CommitWrite(w) \/ WriteProfile(w) \/ WritePassword(w)
        \/ WriteReset(w) \/ WriteRestore(w) \/ CreateSuperAdmin(w)
  <2>1. \A w \in Staffers : \A x, y, r, p, pc : ~Submit(w, x, r, y, p, pc)
    BY <1>1 DEF Submit
  <2>2. \A w \in Staffers : \A x, y :
          /\ \A r : ~SubmitCreate(w, x, y, r)
          /\ \A p : ~SubmitPatch(w, x, y, p)
          /\ ~SubmitDelete(w, x, y) /\ ~SubmitReset(w, x, y)
          /\ ~SubmitRestore(w, x, y)
    BY <2>1 DEF SubmitCreate, SubmitPatch, SubmitDelete, SubmitReset, SubmitRestore
  <2>3. \A w \in Staffers : \A x, y : ~SubmitOwnPassword(w, x) /\ ~SubmitBreakGlass(w, x, y)
    BY <1>1 DEF SubmitOwnPassword, SubmitBreakGlass
  <2>4. \A w \in Staffers : ~TakeSnapshot(w) /\ ~StaffRollback(w) /\ ~Judge(w)
    BY <1>1 DEF TakeSnapshot, StaffRollback, Judge
  <2> QED
    BY <2>2, <2>3, <2>4 DEF StaffNext
<1>3. ~NothingTaken
  BY DEF NothingTaken
<1>4. CommitWrite(w)
  BY <1>2, <1>3, CreateStep, PlainWriteStep
<1> QED
  BY <1>4, CommitByRight

(* The inductive invariant of the accounts holds in every behaviour.       *)
THEOREM StaffInvariantHolds == StaffSpec => []StaffInvariant
<1> QED
  BY StaffStarted, StaffStep, PTL DEF StaffSpec

(* assertActiveSuperAdminRemains (system-users.service.ts): whatever       *)
(* patches, deletions, restorations and break-glass runs overlap, however  *)
(* many, an active SUPER_ADMIN remains.                                    *)
THEOREM SomebodyManages == StaffSpec => []SuperAdminRemains
<1>1. StaffInvariant => SuperAdminRemains
  BY DEF StaffInvariant
<1> QED
  BY <1>1, StaffInvariantHolds, PTL

(* assertMayPatch, assertMayDelete and assertMayNotManageOwnCreator        *)
(* (system-users.policy.ts): nobody loses a role or is suspended or        *)
(* deleted but by the request of another, whom the row did not create and  *)
(* whose role allows it on the row as it is when it is written.            *)
THEOREM PrivilegeByRight == StaffSpec => PrivilegeIsTakenByRight
<1>1. StaffInvariant /\ [StaffNext]_staffVars =>
        [\A u \in Officers : Takes(u) => \E w \in Staffers : AuthorisedBy(w, u)]_staffVars
  BY StepByRight
<1> QED
  BY <1>1, StaffInvariantHolds, PTL DEF StaffSpec, PrivilegeIsTakenByRight

(***************************************************************************)
(* The sessions.                                                           *)
(***************************************************************************)
Marks == Sids \cup {NoSid}
KeyType == [st : {"new", "live", "gone"}, user : Persons, age : Nat, tracked : BOOLEAN]
IndexType == [sids : SUBSET Sids, ttl : Nat]
SessPcs == {"idle", "regenerate", "save", "track", "guard", "touch", "destroy", "untrack",
            "members", "classify", "prune", "revokeOne", "revokeAll"}
RequestType ==
  [pc : SessPcs, sid : Marks, user : Persons, whose : Persons, op : Ops, one : Marks,
   prev : Marks, prevUser : Persons, mem : SUBSET Sids, dead : SUBSET Sids]

SessionsTyped ==
  /\ key \in [Sids -> KeyType] /\ ix \in [Persons -> IndexType]
  /\ rtx \in [Requests -> RequestType]

(* The index holds a session that was put there, and its time to live runs *)
(* behind the session's age: when the index runs out, the session is past  *)
(* its cap.  What it holds has been issued.                                *)
InIndex(k, i, s) ==
  k[s].st = "live" /\ k[s].tracked /\ ~(k[s].age > Cap) =>
    /\ s \in i[k[s].user].sids
    /\ i[k[s].user].ttl + k[s].age >= IndexTtl
IndexSound ==
  /\ \A s \in Sids : InIndex(key, ix, s)
  /\ \A u \in Persons : /\ ix[u].ttl <= IndexTtl
                        /\ \A s \in ix[u].sids : key[s].st # "new"

(* A session no index need hold for u, now and ever after.                 *)
NotOf(k, s, u) ==
  k[s].st = "gone" \/ (k[s].st = "live" /\ (k[s].user # u \/ k[s].age > Cap))

(* What a request relies on when it writes the index by what it read.      *)
WithSession == {"guard", "touch", "destroy", "untrack", "members", "classify", "prune",
                "revokeOne", "revokeAll"}
RequestFits(k, t) ==
  /\ t.pc \in {"save", "track"} /\ t.prev # NoSid => k[t.prev].st = "gone"
  /\ t.pc = "track" => t.sid \in Sids /\ (k[t.sid].st = "gone"
                         \/ (k[t.sid].st = "live" /\ k[t.sid].user = t.user))
  /\ t.pc \in WithSession => t.sid \in Sids
  /\ t.pc = "untrack" => k[t.sid].st = "gone"
  /\ t.pc = "revokeOne" => t.one \in Sids
  /\ t.pc \in {"classify", "prune", "revokeAll"} => \A s \in t.mem : k[s].st # "new"
  /\ t.pc \in {"prune", "revokeAll"} => \A s \in t.dead : NotOf(k, s, t.whose)

SessionInvariant ==
  /\ SessionsTyped /\ IndexSound
  /\ \A w \in Requests : RequestFits(key, rtx[w])

-----------------------------------------------------------------------------
(* What may become of a session: gone is gone; a live one keeps its user   *)
(* and grows no younger.                                                   *)
Later(k, l) ==
  \A s \in Sids :
    /\ k[s].st = "gone" => l[s].st = "gone"
    /\ k[s].st # "new" => l[s].st # "new"
    /\ k[s].st = "live" /\ l[s].st = "live" => /\ l[s].user = k[s].user
                                               /\ l[s].age >= k[s].age

LEMMA Constants ==
  /\ Cap \in Nat /\ IndexTtl \in Nat /\ IndexTtl >= Cap + 1 /\ NoSid \notin Sids
  /\ Someone \in Persons /\ Gone \in KeyType /\ Gone.st = "gone" /\ NewKey \in KeyType
<1>1. Someone \in Persons
  BY SessionConstants DEF Someone
<1>2. NewKey \in KeyType
  BY <1>1 DEF NewKey, KeyType
<1>3. Gone \in KeyType /\ Gone.st = "gone"
  BY <1>2 DEF Gone, KeyType
<1>4. Cap \in Nat /\ IndexTtl \in Nat /\ IndexTtl > Cap /\ NoSid \notin Sids
  BY SessionConstants
<1>5. IndexTtl >= Cap + 1
  BY <1>4
<1> QED
  BY <1>1, <1>2, <1>3, <1>4, <1>5

LEMMA NotOfLater ==
  ASSUME NEW k \in [Sids -> KeyType], NEW l \in [Sids -> KeyType], Later(k, l),
         NEW s \in Sids, NEW u \in Persons, NotOf(k, s, u)
  PROVE  NotOf(l, s, u)
<1>1. CASE k[s].st = "gone"
  BY <1>1 DEF NotOf, Later
<1>2. CASE k[s].st = "live" /\ l[s].st = "live"
  <2>1. l[s].user = k[s].user /\ l[s].age >= k[s].age
    BY <1>2 DEF Later
  <2>2. k[s].age \in Nat /\ l[s].age \in Nat
    BY DEF KeyType
  <2>3. k[s].age > Cap => l[s].age > Cap
    BY <2>1, <2>2, Constants
  <2> QED
    BY <1>2, <2>1, <2>3 DEF NotOf
<1>3. CASE k[s].st = "live" /\ l[s].st # "live"
  <2>1. l[s].st \in {"new", "live", "gone"} /\ l[s].st # "new"
    BY <1>3 DEF Later, KeyType
  <2> QED
    BY <1>3, <2>1 DEF NotOf
<1> QED
  BY <1>1, <1>2, <1>3 DEF NotOf

LEMMA FitsLater ==
  ASSUME NEW k \in [Sids -> KeyType], NEW l \in [Sids -> KeyType], Later(k, l),
         NEW t \in RequestType, RequestFits(k, t)
  PROVE  RequestFits(l, t)
<1>1. t.prev \in Sids \cup {NoSid} /\ t.sid \in Sids \cup {NoSid} /\ t.whose \in Persons
      /\ t.mem \subseteq Sids /\ t.dead \subseteq Sids
  BY DEF RequestType, Marks
<1>2. t.pc \in {"save", "track"} /\ t.prev # NoSid => l[t.prev].st = "gone"
  BY <1>1 DEF RequestFits, Later
<1>3. t.pc = "track" => t.sid \in Sids /\ (l[t.sid].st = "gone"
                         \/ (l[t.sid].st = "live" /\ l[t.sid].user = t.user))
  <2> SUFFICES ASSUME t.pc = "track"
               PROVE  t.sid \in Sids /\ (l[t.sid].st = "gone"
                        \/ (l[t.sid].st = "live" /\ l[t.sid].user = t.user))
    OBVIOUS
  <2>1. t.sid \in Sids /\ (k[t.sid].st = "gone"
                         \/ (k[t.sid].st = "live" /\ k[t.sid].user = t.user))
    BY DEF RequestFits
  <2>2. l[t.sid].st \in {"new", "live", "gone"}
    BY <2>1 DEF KeyType
  <2> QED
    BY <2>1, <2>2 DEF Later
<1>4. t.pc \in WithSession => t.sid \in Sids
  BY DEF RequestFits
<1>5. t.pc = "untrack" => l[t.sid].st = "gone"
  BY <1>4 DEF RequestFits, Later, WithSession
<1>6. t.pc = "revokeOne" => t.one \in Sids
  BY DEF RequestFits
<1>7. t.pc \in {"classify", "prune", "revokeAll"} => \A s \in t.mem : l[s].st # "new"
  BY <1>1 DEF RequestFits, Later
<1>8. t.pc \in {"prune", "revokeAll"} => \A s \in t.dead : NotOf(l, s, t.whose)
  BY <1>1, NotOfLater DEF RequestFits
<1> QED
  BY <1>2, <1>3, <1>4, <1>5, <1>6, <1>7, <1>8 DEF RequestFits

-----------------------------------------------------------------------------
(* What every step shows: the invariant holds on, and no session comes     *)
(* back.                                                                   *)
Onward == SessionInvariant' /\ Later(key, key')

(* What a step of one request must show.                                   *)
LEMMA RequestStep ==
  ASSUME SessionInvariant, NEW w \in Requests, NEW t \in RequestType,
         rtx' = [rtx EXCEPT ![w] = t], RequestFits(key', t),
         key' \in [Sids -> KeyType], ix' \in [Persons -> IndexType],
         Later(key, key'), IndexSound'
  PROVE  Onward
<1>1. key \in [Sids -> KeyType] /\ rtx \in [Requests -> RequestType]
  BY DEF SessionInvariant, SessionsTyped
<1>2. rtx' \in [Requests -> RequestType]
  BY <1>1
<1>3. ASSUME NEW x \in Requests PROVE RequestFits(key', rtx'[x])
  <2>1. RequestFits(key, rtx[x]) /\ rtx[x] \in RequestType
    BY <1>1 DEF SessionInvariant
  <2>2. RequestFits(key', rtx[x])
    BY <1>1, <2>1, FitsLater
  <2>3. rtx'[x] = IF x = w THEN t ELSE rtx[x]
    BY <1>1
  <2> QED
    BY <2>2, <2>3
<1> QED
  BY <1>2, <1>3 DEF Onward, SessionInvariant, SessionsTyped

(* A step that gives no session life and takes from an index only what it  *)
(* need not hold.                                                          *)
Kills(k, l) ==
  \A s \in Sids : l[s] = k[s] \/ l[s].st = "gone"

LEMMA KillsLater ==
  ASSUME NEW k \in [Sids -> KeyType], NEW l \in [Sids -> KeyType], Kills(k, l)
  PROVE  Later(k, l)
<1>1. \A s \in Sids : k[s].age \in Nat
  BY DEF KeyType
<1> QED
  BY <1>1 DEF Kills, Later

LEMMA IndexKept ==
  ASSUME SessionInvariant, key' \in [Sids -> KeyType], ix' \in [Persons -> IndexType],
         Kills(key, key'),
         \A u \in Persons : /\ ix'[u].ttl = ix[u].ttl /\ ix'[u].sids \subseteq ix[u].sids
                            /\ \A s \in ix[u].sids \ ix'[u].sids : NotOf(key', s, u)
  PROVE  IndexSound'
<1>1. key \in [Sids -> KeyType] /\ ix \in [Persons -> IndexType] /\ IndexSound
  BY DEF SessionInvariant, SessionsTyped
<1>2. ASSUME NEW s \in Sids PROVE InIndex(key', ix', s)
  <2> SUFFICES ASSUME key'[s].st = "live", key'[s].tracked, ~(key'[s].age > Cap)
               PROVE  /\ s \in ix'[key'[s].user].sids
                      /\ ix'[key'[s].user].ttl + key'[s].age >= IndexTtl
    BY DEF InIndex
  <2>1. key'[s] = key[s] /\ key[s].user \in Persons
    BY <1>1 DEF Kills, KeyType
  <2>2. s \in ix[key[s].user].sids /\ ix[key[s].user].ttl + key[s].age >= IndexTtl
    BY <1>1, <2>1 DEF IndexSound, InIndex
  <2>3. ~NotOf(key', s, key[s].user)
    BY <2>1 DEF NotOf
  <2> QED
    BY <2>1, <2>2, <2>3
<1>3. ASSUME NEW u \in Persons
      PROVE  ix'[u].ttl <= IndexTtl /\ \A s \in ix'[u].sids : key'[s].st # "new"
  <2>1. \A s \in ix'[u].sids : s \in Sids /\ key[s].st # "new"
    BY <1>1, <1>3 DEF IndexSound, IndexType
  <2>2. \A s \in Sids : key[s].st # "new" => key'[s].st # "new"
    BY DEF Kills
  <2> QED
    BY <1>1, <1>3, <2>1, <2>2 DEF IndexSound
<1> QED
  BY <1>2, <1>3 DEF IndexSound

LEMMA StoreStep ==
  ASSUME SessionInvariant, NEW w \in Requests, NEW t \in RequestType,
         rtx' = [rtx EXCEPT ![w] = t], RequestFits(key', t),
         key' \in [Sids -> KeyType], ix' \in [Persons -> IndexType], Kills(key, key'),
         \A u \in Persons : /\ ix'[u].ttl = ix[u].ttl /\ ix'[u].sids \subseteq ix[u].sids
                            /\ \A s \in ix[u].sids \ ix'[u].sids : NotOf(key', s, u)
  PROVE  Onward
<1>1. IndexSound'
  BY IndexKept
<1>2. Later(key, key')
  BY KillsLater DEF SessionInvariant, SessionsTyped
<1> QED
  BY <1>1, <1>2, RequestStep

(* A request that reads, or has failed.                                    *)
LEMMA ReadStep ==
  ASSUME SessionInvariant, NEW w \in Requests, NEW t \in RequestType,
         rtx' = [rtx EXCEPT ![w] = t], RequestFits(key, t), UNCHANGED <<key, ix>>
  PROVE  Onward
<1>1. key' \in [Sids -> KeyType] /\ ix' \in [Persons -> IndexType]
  BY DEF SessionInvariant, SessionsTyped
<1>2. Kills(key, key')
  BY DEF Kills
<1> QED
  BY <1>1, <1>2, StoreStep

LEMMA FreeFits ==
  Free \in RequestType /\ Free.pc = "idle" /\ \A k : RequestFits(k, Free)
<1>1. Free \in RequestType
  BY Constants DEF Free, RequestType, SessPcs, Ops, Marks
<1>2. Free.pc = "idle"
  BY DEF Free
<1> QED
  BY <1>1, <1>2 DEF RequestFits, WithSession

(* What a request under way is.                                            *)
LEMMA RequestTyped ==
  ASSUME SessionInvariant, NEW w \in Requests
  PROVE  /\ rtx[w] \in RequestType /\ RequestFits(key, rtx[w])
         /\ key \in [Sids -> KeyType] /\ ix \in [Persons -> IndexType]
         /\ rtx \in [Requests -> RequestType]
BY DEF SessionInvariant, SessionsTyped

(* One that goes on with what it has.                                      *)
LEMMA Moved ==
  ASSUME NEW k, NEW t \in RequestType, RequestFits(k, t), NEW pc \in SessPcs,
         pc \in WithSession => t.sid \in Sids,
         pc \notin {"save", "track", "untrack", "revokeOne", "classify", "prune", "revokeAll"}
  PROVE  [t EXCEPT !.pc = pc] \in RequestType /\ RequestFits(k, [t EXCEPT !.pc = pc])
<1> DEFINE u == [t EXCEPT !.pc = pc]
<1>1. u \in RequestType
  BY DEF RequestType
<1>2. u.pc = pc /\ u.sid = t.sid
  BY DEF RequestType
<1> HIDE DEF u
<1>3. RequestFits(k, u)
  BY <1>2 DEF RequestFits
<1> QED
  BY <1>1, <1>3 DEF u

-----------------------------------------------------------------------------
(* Logging in.                                                             *)
LEMMA LoginStep ==
  ASSUME SessionInvariant, NEW w \in Requests, NEW u \in Persons, NEW prev \in Marks,
         Login(w, u, prev)
  PROVE  Onward
<1> DEFINE pu == IF prev = NoSid THEN Someone ELSE key[prev].user
           t == [Free EXCEPT !.pc = "regenerate", !.user = u, !.prev = prev, !.prevUser = pu]
<1>1. pu \in Persons
  BY Constants, RequestTyped DEF Marks, KeyType
<1>2. rtx' = [rtx EXCEPT ![w] = t] /\ UNCHANGED <<key, ix>>
  BY DEF Login, Take
<1> HIDE DEF pu
<1>3. t \in RequestType /\ t.pc = "regenerate"
  BY <1>1, FreeFits DEF RequestType, SessPcs
<1> HIDE DEF t
<1>4. RequestFits(key, t)
  BY <1>3 DEF RequestFits, WithSession
<1> QED
  BY <1>2, <1>3, <1>4, ReadStep

(* Ending a session leaves the index as it is.                             *)
LEMMA DeadKills ==
  ASSUME NEW k \in [Sids -> KeyType], NEW s \in Sids
  PROVE  /\ [k EXCEPT ![s] = Gone] \in [Sids -> KeyType]
         /\ Kills(k, [k EXCEPT ![s] = Gone])
         /\ [k EXCEPT ![s] = Gone][s].st = "gone"
BY Constants DEF Kills

LEMMA DeadStep ==
  ASSUME SessionInvariant, NEW w \in Requests, NEW t \in RequestType,
         rtx' = [rtx EXCEPT ![w] = t], NEW s \in Sids, key' = Dead(s), UNCHANGED ix,
         RequestFits(key', t)
  PROVE  Onward
<1>1. key' \in [Sids -> KeyType] /\ Kills(key, key')
  BY RequestTyped, DeadKills DEF Dead
<1>2. ix' \in [Persons -> IndexType]
  BY RequestTyped
<1> QED
  BY <1>1, <1>2, StoreStep

LEMMA RegenerateStep ==
  ASSUME SessionInvariant, NEW w \in Requests, Regenerate(w)
  PROVE  Onward
<1> DEFINE s == rtx[w]
           t == [s EXCEPT !.pc = "save"]
<1>1. s \in RequestType /\ key \in [Sids -> KeyType] /\ s.pc = "regenerate"
  BY RequestTyped DEF Regenerate
<1>2. t \in RequestType /\ t.pc = "save" /\ t.prev = s.prev
  BY <1>1 DEF RequestType, SessPcs
<1>3. rtx' = [rtx EXCEPT ![w] = t] /\ UNCHANGED ix
      /\ key' = IF s.prev = NoSid THEN key ELSE Dead(s.prev)
  BY RequestTyped DEF Regenerate, Move
<1> HIDE DEF t
<1>4. CASE s.prev = NoSid
  <2>1. RequestFits(key, t)
    BY <1>2, <1>4 DEF RequestFits, WithSession
  <2> QED
    BY <1>2, <1>3, <1>4, <2>1, ReadStep
<1>5. CASE s.prev # NoSid
  <2>1. s.prev \in Sids /\ key' = Dead(s.prev)
    BY <1>1, <1>3, <1>5 DEF RequestType, Marks
  <2>2. key'[s.prev].st = "gone"
    BY <1>1, <2>1, DeadKills DEF Dead
  <2>3. RequestFits(key', t)
    BY <1>2, <2>2 DEF RequestFits, WithSession
  <2> QED
    BY <1>2, <1>3, <2>1, <2>3, DeadStep
<1> QED
  BY <1>4, <1>5

(* A session is new, and in no index, until it is put in its owner's.      *)
LEMMA SaveStep ==
  ASSUME SessionInvariant, NEW w \in Requests, SaveSession(w)
  PROVE  Onward
<1> DEFINE s == CHOOSE x \in Sids : key[x].st = "new"
           r == rtx[w]
           row == [NewKey EXCEPT !.st = "live", !.user = r.user]
           t == [r EXCEPT !.pc = "track", !.sid = s]
<1>1. s \in Sids /\ key[s].st = "new"
  BY DEF SaveSession
<1> HIDE DEF s
<1>2. r \in RequestType /\ RequestFits(key, r) /\ key \in [Sids -> KeyType] /\ r.pc = "save"
      /\ ix \in [Persons -> IndexType]
  BY RequestTyped DEF SaveSession
<1>3. row \in KeyType /\ row.st = "live" /\ row.user = r.user /\ ~row.tracked
  BY <1>2, Constants DEF KeyType, RequestType, NewKey
<1>4. t \in RequestType /\ t.pc = "track" /\ t.sid = s /\ t.prev = r.prev /\ t.user = r.user
  BY <1>1, <1>2 DEF RequestType, SessPcs, Marks
<1>5. key' = [key EXCEPT ![s] = row] /\ rtx' = [rtx EXCEPT ![w] = t] /\ UNCHANGED ix
  BY DEF SaveSession, Take, s
<1> HIDE DEF t, row
<1>6. key' \in [Sids -> KeyType] /\ ix' \in [Persons -> IndexType]
  BY <1>2, <1>3, <1>5
<1>7. \A x \in Sids : key'[x] = IF x = s THEN row ELSE key[x]
  BY <1>2, <1>5
<1>8. Later(key, key')
  <2>1. \A x \in Sids : key[x].age \in Nat
    BY <1>2 DEF KeyType
  <2> QED
    BY <1>1, <1>3, <1>7, <2>1 DEF Later
<1>9. RequestFits(key', t)
  <2>1. r.prev # NoSid => r.prev \in Sids /\ key[r.prev].st = "gone"
    BY <1>2 DEF RequestFits, RequestType, Marks
  <2> QED
    BY <1>1, <1>3, <1>4, <1>7, <2>1 DEF RequestFits, WithSession
<1>10. IndexSound'
  <2>1. IndexSound
    BY DEF SessionInvariant
  <2>2. \A x \in Sids : InIndex(key', ix', x)
    BY <1>3, <1>5, <1>7, <2>1 DEF IndexSound, InIndex
  <2>3. ASSUME NEW u \in Persons
        PROVE  ix'[u].ttl <= IndexTtl /\ \A x \in ix'[u].sids : key'[x].st # "new"
    <3>1. \A x \in ix[u].sids : x \in Sids
      BY <1>2 DEF IndexType
    <3> QED
      BY <1>3, <1>5, <1>7, <2>1, <3>1 DEF IndexSound
  <2> QED
    BY <2>2, <2>3 DEF IndexSound
<1> QED
  BY <1>4, <1>5, <1>6, <1>8, <1>9, <1>10, RequestStep

(* track: the old session is out of its index, which it need not be in,    *)
(* and the new one in that of its owner, whose time to live starts again.  *)
LEMMA TrackStep ==
  ASSUME SessionInvariant, NEW w \in Requests, Track(w)
  PROVE  Onward
<1> DEFINE r == rtx[w]
           u == r.user
           i == Unindexed(w)
<1>1. r \in RequestType /\ RequestFits(key, r) /\ key \in [Sids -> KeyType] /\ r.pc = "track"
      /\ ix \in [Persons -> IndexType] /\ IndexSound
  BY RequestTyped DEF Track, SessionInvariant
<1>2. u \in Persons /\ r.prevUser \in Persons /\ r.prev \in Sids \cup {NoSid}
      /\ r.sid \in Sids
      /\ (key[r.sid].st = "gone" \/ (key[r.sid].st = "live" /\ key[r.sid].user = u))
      /\ (r.prev # NoSid => key[r.prev].st = "gone")
  BY <1>1 DEF RequestType, RequestFits, Marks
<1>3. /\ i \in [Persons -> IndexType]
      /\ \A v \in Persons : /\ i[v].ttl = ix[v].ttl /\ i[v].sids \subseteq ix[v].sids
                            /\ \A s \in ix[v].sids \ i[v].sids : key[s].st = "gone"
  <2>1. CASE r.prev = NoSid
    <3>1. i = ix
      BY <2>1 DEF Unindexed
    <3> QED
      BY <1>1, <3>1
  <2>2. CASE r.prev # NoSid
    <3>1. i = [ix EXCEPT ![r.prevUser].sids = @ \ {r.prev}]
      BY <2>2 DEF Unindexed
    <3>2. i \in [Persons -> IndexType]
      BY <1>1, <1>2, <3>1 DEF IndexType
    <3>3. \A v \in Persons : i[v] = IF v = r.prevUser
                                    THEN [ix[v] EXCEPT !.sids = @ \ {r.prev}] ELSE ix[v]
      BY <1>1, <3>1
    <3>4. \A v \in Persons : /\ i[v].ttl = ix[v].ttl
                             /\ i[v].sids = IF v = r.prevUser THEN ix[v].sids \ {r.prev}
                                                              ELSE ix[v].sids
      BY <1>1, <3>3 DEF IndexType
    <3> QED
      BY <1>2, <2>2, <3>2, <3>4
  <2> QED
    BY <2>1, <2>2
<1>4. /\ ix' = [i EXCEPT ![u] = [sids |-> i[u].sids \cup {r.sid}, ttl |-> IndexTtl]]
      /\ key' = [key EXCEPT ![r.sid].tracked = TRUE]
      /\ rtx' = [rtx EXCEPT ![w] = Free]
  BY <1>2, <1>3 DEF Track, Finish
<1> HIDE DEF i
<1>5. \A v \in Persons : /\ ix'[v].ttl = (IF v = u THEN IndexTtl ELSE ix[v].ttl)
                         /\ ix'[v].sids = (IF v = u THEN i[v].sids \cup {r.sid} ELSE i[v].sids)
  BY <1>3, <1>4
<1>6. ix' \in [Persons -> IndexType]
  BY <1>2, <1>3, <1>4, Constants DEF IndexType
<1>7. key' \in [Sids -> KeyType]
      /\ \A s \in Sids : /\ key'[s].st = key[s].st /\ key'[s].user = key[s].user
                         /\ key'[s].age = key[s].age
                         /\ (s # r.sid => key'[s].tracked = key[s].tracked)
  BY <1>1, <1>2, <1>4 DEF KeyType
<1>8. Later(key, key')
  <2>1. \A x \in Sids : key[x].age \in Nat
    BY <1>1 DEF KeyType
  <2> QED
    BY <1>7, <2>1 DEF Later
<1>9. ASSUME NEW s \in Sids PROVE InIndex(key', ix', s)
  <2> SUFFICES ASSUME key[s].st = "live", key'[s].tracked, ~(key[s].age > Cap)
               PROVE  /\ s \in ix'[key[s].user].sids
                      /\ ix'[key[s].user].ttl + key[s].age >= IndexTtl
    BY <1>7 DEF InIndex
  <2>1. key[s].user \in Persons /\ key[s].age \in Nat /\ IndexTtl \in Nat
        /\ ix[key[s].user].ttl \in Nat
    BY <1>1, Constants DEF KeyType, IndexType
  <2>2. CASE s = r.sid
    <3>1. key[s].user = u
      BY <1>2, <2>2
    <3>2. s \in ix'[u].sids /\ ix'[u].ttl = IndexTtl
      BY <1>2, <1>5, <2>2
    <3> QED
      BY <2>1, <3>1, <3>2
  <2>3. CASE s # r.sid
    <3>1. s \in ix[key[s].user].sids /\ ix[key[s].user].ttl + key[s].age >= IndexTtl
      BY <1>1, <1>7, <2>3 DEF IndexSound, InIndex
    <3>2. s \in ix'[key[s].user].sids
      BY <1>3, <1>5, <2>1, <3>1
    <3>3. ix'[key[s].user].ttl \in {IndexTtl, ix[key[s].user].ttl}
      BY <1>5, <2>1
    <3> QED
      BY <2>1, <3>1, <3>2, <3>3
  <2> QED
    BY <2>2, <2>3
<1>10. ASSUME NEW v \in Persons
       PROVE  ix'[v].ttl <= IndexTtl /\ \A s \in ix'[v].sids : key'[s].st # "new"
  <2>1. ix[v].ttl <= IndexTtl /\ \A s \in ix[v].sids : s \in Sids /\ key[s].st # "new"
    BY <1>1 DEF IndexSound, IndexType
  <2>2. ix'[v].ttl <= IndexTtl
    <3>1. IndexTtl \in Nat /\ ix'[v].ttl \in {IndexTtl, ix[v].ttl}
      BY <1>5, Constants
    <3> QED
      BY <2>1, <3>1
  <2>3. ASSUME NEW s \in ix'[v].sids PROVE key'[s].st # "new"
    <3>1. s \in ix[v].sids \/ s = r.sid
      BY <1>3, <1>5, <2>3
    <3>2. s \in Sids /\ key[s].st # "new"
      BY <1>2, <2>1, <3>1
    <3> QED
      BY <1>7, <3>2
  <2> QED
    BY <2>2, <2>3
<1>11. IndexSound'
  BY <1>9, <1>10 DEF IndexSound
<1> QED
  BY <1>4, <1>6, <1>7, <1>8, <1>11, FreeFits, RequestStep

-----------------------------------------------------------------------------
(* Using a session.                                                        *)
LEMMA LoadStep ==
  ASSUME SessionInvariant, NEW w \in Requests, NEW s \in Sids, NEW op \in Ops,
         NEW u \in Persons, NEW one \in Marks, Load(w, s, op, u, one)
  PROVE  Onward
<1> DEFINE owner == key[s].user
           t == [Free EXCEPT !.pc = "guard", !.sid = s, !.user = owner,
                   !.whose = u, !.op = op, !.one = one]
<1>1. owner \in Persons
  BY RequestTyped DEF KeyType
<1>2. rtx' = [rtx EXCEPT ![w] = t] /\ UNCHANGED <<key, ix>>
  BY DEF Load, Take
<1> HIDE DEF owner
<1>3. t \in RequestType /\ t.pc = "guard" /\ t.sid = s
  BY <1>1, FreeFits DEF RequestType, SessPcs, Marks
<1> HIDE DEF t
<1>4. RequestFits(key, t)
  BY <1>3 DEF RequestFits
<1> QED
  BY <1>2, <1>3, <1>4, ReadStep

LEMMA GuardStep ==
  ASSUME SessionInvariant, NEW w \in Requests, SessionGuard(w)
  PROVE  Onward
<1> DEFINE r == rtx[w]
<1>1. r \in RequestType /\ RequestFits(key, r) /\ r.pc = "guard"
  BY RequestTyped DEF SessionGuard
<1>2. r.sid \in Sids /\ UNCHANGED ix
  BY <1>1 DEF RequestFits, WithSession, SessionGuard
<1>3. CASE key' = Dead(r.sid) /\ Finish(w)
  BY <1>2, <1>3, FreeFits, DeadStep DEF Finish
<1>4. CASE /\ UNCHANGED key
           /\ Move(w, IF Barred(w) \/ (r.op = "force" /\ ~CanRevokeSessions(w))
                      THEN "touch" ELSE First(r.op))
  <2> DEFINE pc == IF Barred(w) \/ (r.op = "force" /\ ~CanRevokeSessions(w))
                   THEN "touch" ELSE First(r.op)
             t == [r EXCEPT !.pc = pc]
  <2>1. pc \in {"touch", "destroy", "members"}
    BY DEF First
  <2>2. rtx' = [rtx EXCEPT ![w] = t]
    BY <1>4, RequestTyped DEF Move
  <2> HIDE DEF pc
  <2>3. pc \in SessPcs /\ (pc \in WithSession => r.sid \in Sids)
        /\ pc \notin {"save", "track", "untrack", "revokeOne", "classify", "prune", "revokeAll"}
    BY <1>2, <2>1 DEF SessPcs
  <2>4. t \in RequestType /\ RequestFits(key, t)
    BY <1>1, <2>3, Moved
  <2> HIDE DEF t
  <2> QED
    BY <1>2, <1>4, <2>2, <2>4, ReadStep
<1> QED
  BY <1>3, <1>4 DEF SessionGuard

(* A request that goes on to touch the session.                            *)
LEMMA TouchFits ==
  ASSUME NEW k, NEW t \in RequestType, RequestFits(k, t), t.pc \in WithSession
  PROVE  /\ [t EXCEPT !.pc = "touch"] \in RequestType
         /\ RequestFits(k, [t EXCEPT !.pc = "touch"])
<1>1. t.sid \in Sids /\ "touch" \in SessPcs
  BY DEF RequestFits, SessPcs
<1> QED
  BY <1>1, Moved

LEMMA LogoutStep ==
  ASSUME SessionInvariant, NEW w \in Requests, DestroySession(w) \/ Untrack(w)
  PROVE  Onward
<1> DEFINE r == rtx[w]
<1>1. r \in RequestType /\ RequestFits(key, r) /\ key \in [Sids -> KeyType]
      /\ ix \in [Persons -> IndexType] /\ r.pc \in {"destroy", "untrack"}
  BY RequestTyped DEF DestroySession, Untrack
<1>2. r.sid \in Sids /\ r.user \in Persons
  BY <1>1 DEF RequestFits, WithSession, RequestType
<1>3. CASE DestroySession(w)
  <2> DEFINE t == [r EXCEPT !.pc = "untrack"]
  <2>1. rtx' = [rtx EXCEPT ![w] = t] /\ UNCHANGED ix /\ key' = Dead(r.sid)
    BY <1>3, RequestTyped DEF DestroySession, Move
  <2>2. t \in RequestType /\ t.pc = "untrack" /\ t.sid = r.sid
    BY <1>1 DEF RequestType, SessPcs
  <2> HIDE DEF t
  <2>3. key'[r.sid].st = "gone"
    BY <1>1, <1>2, <2>1, DeadKills DEF Dead
  <2>4. RequestFits(key', t)
    BY <1>2, <2>2, <2>3 DEF RequestFits, WithSession
  <2> QED
    BY <1>2, <2>1, <2>2, <2>4, DeadStep
<1>4. CASE Untrack(w)
  <2>1. key[r.sid].st = "gone"
    BY <1>1, <1>4 DEF Untrack, RequestFits
  <2>2. ix' = [ix EXCEPT ![r.user].sids = @ \ {r.sid}] /\ UNCHANGED key
        /\ rtx' = [rtx EXCEPT ![w] = Free]
    BY <1>4 DEF Untrack, Finish
  <2>3. ix' \in [Persons -> IndexType]
        /\ \A v \in Persons : /\ ix'[v].ttl = ix[v].ttl
                              /\ ix'[v].sids = IF v = r.user THEN ix[v].sids \ {r.sid}
                                                             ELSE ix[v].sids
    BY <1>1, <1>2, <2>2 DEF IndexType
  <2>4. \A v \in Persons : /\ ix'[v].ttl = ix[v].ttl /\ ix'[v].sids \subseteq ix[v].sids
                             /\ \A s \in ix[v].sids \ ix'[v].sids : NotOf(key', s, v)
    BY <2>1, <2>2, <2>3 DEF NotOf
  <2>5. key' \in [Sids -> KeyType] /\ Kills(key, key')
    BY <1>1, <2>2 DEF Kills
  <2> QED
    BY <2>2, <2>3, <2>4, <2>5, FreeFits, StoreStep
<1> QED
  BY <1>3, <1>4

-----------------------------------------------------------------------------
(* The list of an account's sessions, and what is revoked from it.         *)
LEMMA ListStep ==
  ASSUME SessionInvariant, NEW w \in Requests, ReadMembers(w) \/ Classify(w)
  PROVE  Onward
<1> DEFINE r == rtx[w]
<1>1. r \in RequestType /\ RequestFits(key, r) /\ key \in [Sids -> KeyType]
      /\ ix \in [Persons -> IndexType] /\ r.pc \in {"members", "classify"} /\ IndexSound
  BY RequestTyped DEF ReadMembers, Classify, SessionInvariant
<1>2. r.sid \in Sids /\ r.whose \in Persons /\ r.mem \subseteq Sids
  BY <1>1 DEF RequestFits, WithSession, RequestType
<1>3. CASE ReadMembers(w)
  <2> DEFINE mem == ix[r.whose].sids
             t == [r EXCEPT !.pc = "classify", !.mem = mem]
  <2>1. mem \subseteq Sids /\ \A s \in mem : key[s].st # "new"
    BY <1>1, <1>2 DEF IndexType, IndexSound
  <2>2. rtx' = [rtx EXCEPT ![w] = t] /\ UNCHANGED <<key, ix>>
    BY <1>3 DEF ReadMembers, Take
  <2> HIDE DEF mem
  <2>3. t \in RequestType /\ t.pc = "classify" /\ t.sid = r.sid /\ t.mem = mem
    BY <1>1, <2>1 DEF RequestType, SessPcs
  <2> HIDE DEF t
  <2>4. RequestFits(key, t)
    BY <1>2, <2>1, <2>3 DEF RequestFits
  <2> QED
    BY <2>2, <2>3, <2>4, ReadStep
<1>4. CASE Classify(w)
  <2> DEFINE missing == {s \in r.mem : Missing(s, r.whose)}
             dead == IF r.op \in {"list", "one"}
                     THEN missing \cup {s \in r.mem : PastCap(s)} ELSE missing
             pc == IF r.op \in {"list", "one"} THEN "prune" ELSE "revokeAll"
             t == [r EXCEPT !.pc = pc, !.dead = dead]
  <2>1. \A s \in r.mem : key[s].st # "new" /\ key[s].st \in {"new", "live", "gone"}
    BY <1>1, <1>2, <1>4 DEF RequestFits, Classify, KeyType
  <2>2. \A s \in dead : s \in Sids /\ NotOf(key, s, r.whose)
    BY <1>2, <2>1 DEF Missing, PastCap, NotOf
  <2>3. rtx' = [rtx EXCEPT ![w] = t] /\ UNCHANGED <<key, ix>>
    BY <1>4 DEF Classify, Take
  <2>4. pc \in {"prune", "revokeAll"}
    OBVIOUS
  <2> HIDE DEF dead, pc
  <2>5. dead \subseteq Sids
    BY <2>2
  <2>6. t \in RequestType /\ t.pc = pc /\ t.sid = r.sid /\ t.mem = r.mem /\ t.dead = dead
        /\ t.whose = r.whose
    BY <1>1, <2>4, <2>5 DEF RequestType, SessPcs
  <2> HIDE DEF t
  <2>7. RequestFits(key, t)
    BY <1>2, <2>1, <2>2, <2>4, <2>6 DEF RequestFits
  <2> QED
    BY <2>3, <2>6, <2>7, ReadStep
<1> QED
  BY <1>3, <1>4

LEMMA PruneStep ==
  ASSUME SessionInvariant, NEW w \in Requests, Prune(w)
  PROVE  Onward
<1> DEFINE r == rtx[w]
           pc == IF r.op = "one" /\ r.one \in r.mem \ r.dead THEN "revokeOne" ELSE "touch"
           t == [r EXCEPT !.pc = pc]
<1>1. r \in RequestType /\ RequestFits(key, r) /\ key \in [Sids -> KeyType]
      /\ ix \in [Persons -> IndexType] /\ r.pc = "prune"
  BY RequestTyped DEF Prune
<1>2. r.sid \in Sids /\ r.whose \in Persons /\ r.mem \subseteq Sids
      /\ \A s \in r.dead : NotOf(key, s, r.whose)
  BY <1>1 DEF RequestFits, WithSession, RequestType
<1>3. ix' = [ix EXCEPT ![r.whose].sids = @ \ r.dead] /\ UNCHANGED key
      /\ rtx' = [rtx EXCEPT ![w] = t]
  BY RequestTyped DEF Prune, Move
<1>4. pc \in {"revokeOne", "touch"} /\ (pc = "revokeOne" => r.one \in Sids)
  BY <1>2
<1> HIDE DEF pc
<1>5. t \in RequestType /\ t.pc = pc /\ t.sid = r.sid /\ t.one = r.one
  BY <1>1, <1>4 DEF RequestType, SessPcs
<1> HIDE DEF t
<1>6. RequestFits(key', t)
  BY <1>2, <1>4, <1>5 DEF RequestFits
<1>7. ix' \in [Persons -> IndexType]
      /\ \A v \in Persons : /\ ix'[v].ttl = ix[v].ttl
                            /\ ix'[v].sids = IF v = r.whose THEN ix[v].sids \ r.dead
                                                            ELSE ix[v].sids
  BY <1>1, <1>2, <1>3 DEF IndexType
<1>8. \A v \in Persons : /\ ix'[v].ttl = ix[v].ttl /\ ix'[v].sids \subseteq ix[v].sids
                           /\ \A s \in ix[v].sids \ ix'[v].sids : NotOf(key', s, v)
  BY <1>2, <1>3, <1>7
<1>9. key' \in [Sids -> KeyType] /\ Kills(key, key')
  BY <1>1, <1>3 DEF Kills
<1> QED
  BY <1>3, <1>5, <1>6, <1>7, <1>8, <1>9, StoreStep

LEMMA RevokeStep ==
  ASSUME SessionInvariant, NEW w \in Requests, RevokeOne(w) \/ RevokeAll(w)
  PROVE  Onward
<1> DEFINE r == rtx[w]
           t == [r EXCEPT !.pc = "touch"]
           out == IF r.pc = "revokeOne" THEN {r.one} ELSE Dropped(r)
<1>1. r \in RequestType /\ RequestFits(key, r) /\ key \in [Sids -> KeyType]
      /\ ix \in [Persons -> IndexType] /\ r.pc \in {"revokeOne", "revokeAll"}
  BY RequestTyped DEF RevokeOne, RevokeAll
<1>2. r.whose \in Persons /\ r.mem \subseteq Sids /\ r.dead \subseteq Sids
  BY <1>1 DEF RequestType
<1>3. ix' = [ix EXCEPT ![r.whose].sids = @ \ out] /\ rtx' = [rtx EXCEPT ![w] = t]
  BY RequestTyped DEF RevokeOne, RevokeAll, Move
<1>4. t \in RequestType /\ RequestFits(key, t)
  BY <1>1, TouchFits DEF WithSession
<1>5. key' \in [Sids -> KeyType] /\ Kills(key, key')
      /\ \A s \in out : NotOf(key', s, r.whose)
  <2>1. CASE r.pc = "revokeOne"
    <3>1. r.one \in Sids /\ key' = [key EXCEPT ![r.one] = Gone]
      BY <1>1, <2>1 DEF RequestFits, RevokeOne, RevokeAll, Dead
    <3> QED
      BY <1>1, <2>1, <3>1, DeadKills DEF NotOf
  <2>2. CASE r.pc = "revokeAll"
    <3>1. key' = [s \in Sids |-> IF s \in Dropped(r) \cap (r.mem \ r.dead)
                                  THEN Gone ELSE key[s]]
      BY <2>2 DEF RevokeOne, RevokeAll
    <3>2. key' \in [Sids -> KeyType]
      BY <1>1, <3>1, Constants
    <3>3. Kills(key, key')
      BY <3>1, Constants DEF Kills
    <3>4. \A s \in r.dead : NotOf(key, s, r.whose)
      BY <1>1, <2>2 DEF RequestFits
    <3>5. \A s \in r.dead : NotOf(key', s, r.whose)
      BY <1>1, <1>2, <3>2, <3>3, <3>4, KillsLater, NotOfLater
    <3>6. \A s \in Dropped(r) : s \in r.mem
      BY DEF Dropped
    <3>7. \A s \in Dropped(r) \ r.dead : key'[s].st = "gone"
      BY <1>2, <3>1, <3>6, Constants
    <3> QED
      BY <2>2, <3>2, <3>3, <3>5, <3>7 DEF NotOf
  <2> QED
    BY <1>1, <2>1, <2>2
<1> HIDE DEF t, out
<1>6. RequestFits(key', t)
  BY <1>1, <1>4, <1>5, KillsLater, FitsLater
<1>7. ix' \in [Persons -> IndexType]
      /\ \A v \in Persons : /\ ix'[v].ttl = ix[v].ttl
                            /\ ix'[v].sids = IF v = r.whose THEN ix[v].sids \ out
                                                            ELSE ix[v].sids
  BY <1>1, <1>2, <1>3 DEF IndexType
<1>8. \A v \in Persons : /\ ix'[v].ttl = ix[v].ttl /\ ix'[v].sids \subseteq ix[v].sids
                           /\ \A s \in ix[v].sids \ ix'[v].sids : NotOf(key', s, v)
  BY <1>5, <1>7
<1> QED
  BY <1>3, <1>4, <1>5, <1>6, <1>7, <1>8, StoreStep

LEMMA LastStep ==
  ASSUME SessionInvariant, NEW w \in Requests, Touch(w) \/ StoreFails(w)
  PROVE  Onward
<1>1. rtx' = [rtx EXCEPT ![w] = Free] /\ UNCHANGED ix
  BY DEF Touch, StoreFails, Finish
<1>2. UNCHANGED key
  BY RequestTyped DEF Touch, Touched, StoreFails
<1> QED
  BY <1>1, <1>2, FreeFits, ReadStep

-----------------------------------------------------------------------------
(* A step of no request that ages or ends sessions.                        *)
LEMMA NoRequestStep ==
  ASSUME SessionInvariant, UNCHANGED rtx, key' \in [Sids -> KeyType],
         ix' \in [Persons -> IndexType], Later(key, key'), IndexSound'
  PROVE  Onward
<1>1. key \in [Sids -> KeyType] /\ rtx \in [Requests -> RequestType]
  BY DEF SessionInvariant, SessionsTyped
<1>2. ASSUME NEW x \in Requests PROVE RequestFits(key', rtx'[x])
  <2>1. RequestFits(key, rtx[x]) /\ rtx[x] \in RequestType
    BY <1>1 DEF SessionInvariant
  <2> QED
    BY <1>1, <2>1, FitsLater
<1> QED
  BY <1>1, <1>2 DEF Onward, SessionInvariant, SessionsTyped

LEMMA IdleOutStep ==
  ASSUME SessionInvariant, NEW s \in Sids, Idles(s)
  PROVE  Onward
<1>1. key \in [Sids -> KeyType] /\ ix \in [Persons -> IndexType]
      /\ key' = Dead(s) /\ UNCHANGED <<ix, rtx>>
  BY DEF SessionInvariant, SessionsTyped, Idles
<1>2. key' \in [Sids -> KeyType] /\ Kills(key, key')
  BY <1>1, DeadKills DEF Dead
<1>3. ix' \in [Persons -> IndexType]
  BY <1>1
<1>4. \A u \in Persons : /\ ix'[u].ttl = ix[u].ttl /\ ix'[u].sids \subseteq ix[u].sids
                         /\ \A x \in ix[u].sids \ ix'[u].sids : NotOf(key', x, u)
  BY <1>1
<1>5. IndexSound'
  BY <1>2, <1>3, <1>4, IndexKept
<1>6. Later(key, key')
  BY <1>1, <1>2, KillsLater
<1> QED
  BY <1>1, <1>2, <1>3, <1>5, <1>6, NoRequestStep

(* The clock: an index that runs out holds sessions past their cap.        *)
LEMMA TickStep ==
  ASSUME SessionInvariant, Tick
  PROVE  Onward
<1>1. key \in [Sids -> KeyType] /\ ix \in [Persons -> IndexType] /\ IndexSound
      /\ UNCHANGED rtx
  BY DEF SessionInvariant, SessionsTyped, Tick
<1>2. \A s \in Sids : key'[s] = IF key[s].st = "live" /\ ~(key[s].age > Cap)
                                THEN [key[s] EXCEPT !.age = @ + 1] ELSE key[s]
  BY DEF Tick, PastCap
<1>3. \A u \in Persons : ix'[u] = IF ix[u].ttl <= 1 THEN [sids |-> {}, ttl |-> 0]
                                  ELSE [ix[u] EXCEPT !.ttl = @ - 1]
  BY DEF Tick
<1>4. \A s \in Sids : /\ key[s].age \in Nat /\ key[s].user \in Persons
                      /\ key'[s].st = key[s].st /\ key'[s].user = key[s].user
                      /\ key'[s].tracked = key[s].tracked
                      /\ key'[s].age = IF key[s].st = "live" /\ ~(key[s].age > Cap)
                                       THEN key[s].age + 1 ELSE key[s].age
  BY <1>1, <1>2 DEF KeyType
<1>5. \A u \in Persons : /\ ix[u].ttl \in Nat /\ ix[u].sids \subseteq Sids
                         /\ ix'[u].ttl = IF ix[u].ttl <= 1 THEN 0 ELSE ix[u].ttl - 1
                         /\ ix'[u].sids = IF ix[u].ttl <= 1 THEN {} ELSE ix[u].sids
  <2> SUFFICES ASSUME NEW u \in Persons
               PROVE  /\ ix[u].ttl \in Nat /\ ix[u].sids \subseteq Sids
                      /\ ix'[u].ttl = IF ix[u].ttl <= 1 THEN 0 ELSE ix[u].ttl - 1
                      /\ ix'[u].sids = IF ix[u].ttl <= 1 THEN {} ELSE ix[u].sids
    OBVIOUS
  <2>1. ix[u] \in IndexType
    BY <1>1
  <2>2. CASE ix[u].ttl <= 1
    <3>1. ix'[u] = [sids |-> {}, ttl |-> 0]
      BY <1>3, <2>2
    <3> QED
      BY <2>1, <2>2, <3>1 DEF IndexType
  <2>3. CASE ~(ix[u].ttl <= 1)
    <3>1. ix'[u] = [ix[u] EXCEPT !.ttl = ix[u].ttl - 1]
      BY <1>3, <2>3
    <3> QED
      BY <2>1, <2>3, <3>1 DEF IndexType
  <2> QED
    BY <2>2, <2>3
<1>6. key' \in [Sids -> KeyType]
  <2>1. key' = [s \in Sids |-> IF key[s].st = "live" /\ ~PastCap(s)
                               THEN [key[s] EXCEPT !.age = @ + 1] ELSE key[s]]
    BY DEF Tick
  <2>2. \A s \in Sids : [key[s] EXCEPT !.age = @ + 1] \in KeyType /\ key[s] \in KeyType
    BY <1>1 DEF KeyType
  <2> QED
    BY <2>1, <2>2
<1>7. ix' \in [Persons -> IndexType]
  <2>1. ix' = [u \in Persons |-> IF ix[u].ttl <= 1 THEN [sids |-> {}, ttl |-> 0]
                                 ELSE [ix[u] EXCEPT !.ttl = @ - 1]]
    BY DEF Tick
  <2>2. ASSUME NEW u \in Persons PROVE ix'[u] \in IndexType
    <3>1. CASE ix[u].ttl <= 1
      <4>1. ix'[u] = [sids |-> {}, ttl |-> 0]
        BY <1>3, <3>1
      <4> QED
        BY <4>1 DEF IndexType
    <3>2. CASE ~(ix[u].ttl <= 1)
      <4>1. ix[u].ttl - 1 \in Nat
        BY <1>5, <3>2
      <4>2. ix[u] \in IndexType /\ ix'[u] = [ix[u] EXCEPT !.ttl = ix[u].ttl - 1]
        BY <1>1, <1>3, <3>2
      <4> QED
        BY <4>1, <4>2 DEF IndexType
    <3> QED
      BY <3>1, <3>2
  <2> QED
    BY <2>1, <2>2
<1>8. Later(key, key')
  BY <1>4 DEF Later
<1>9. ASSUME NEW s \in Sids PROVE InIndex(key', ix', s)
  <2> SUFFICES ASSUME key'[s].st = "live", key'[s].tracked, ~(key'[s].age > Cap)
               PROVE  /\ s \in ix'[key'[s].user].sids
                      /\ ix'[key'[s].user].ttl + key'[s].age >= IndexTtl
    BY DEF InIndex
  <2> DEFINE u == key[s].user
  <2>1. u \in Persons /\ key'[s].user = u /\ key[s].st = "live" /\ key[s].tracked
        /\ ~(key[s].age > Cap) /\ key'[s].age = key[s].age + 1
    BY <1>4
  <2>2. s \in ix[u].sids /\ ix[u].ttl + key[s].age >= IndexTtl
    BY <1>1, <2>1 DEF IndexSound, InIndex
  <2>3. key[s].age \in Nat /\ ix[u].ttl \in Nat /\ key[s].age + 1 <= Cap
    BY <1>4, <1>5, <2>1, Constants
  <2>4. ~(ix[u].ttl <= 1)
    BY <2>2, <2>3, Constants
  <2>5. ix'[u].ttl = ix[u].ttl - 1 /\ ix'[u].sids = ix[u].sids
    BY <1>5, <2>1, <2>4
  <2>6. ix'[u].ttl + key'[s].age >= IndexTtl
    BY <2>1, <2>2, <2>3, <2>5
  <2> QED
    BY <2>1, <2>2, <2>5, <2>6
<1>10. ASSUME NEW u \in Persons
       PROVE  ix'[u].ttl <= IndexTtl /\ \A s \in ix'[u].sids : key'[s].st # "new"
  <2>1. ix[u].ttl <= IndexTtl /\ \A s \in ix[u].sids : key[s].st # "new"
    BY <1>1 DEF IndexSound
  <2>2. ix'[u].ttl <= IndexTtl
    BY <1>5, <2>1, Constants
  <2>3. \A s \in ix'[u].sids : s \in ix[u].sids /\ s \in Sids
    BY <1>5
  <2> QED
    BY <1>4, <2>1, <2>2, <2>3
<1>11. IndexSound'
  BY <1>9, <1>10 DEF IndexSound
<1> QED
  BY <1>1, <1>6, <1>7, <1>8, <1>11, NoRequestStep

(* The accounts, the sockets and the sweep touch neither key nor index.    *)
LEMMA ElsewhereStep ==
  ASSUME SessionInvariant, UNCHANGED <<key, ix, rtx>>
  PROVE  Onward
<1>1. key \in [Sids -> KeyType]
  BY DEF SessionInvariant, SessionsTyped
<1>2. Later(key, key')
  BY <1>1 DEF Later, KeyType
<1> QED
  BY <1>2 DEF Onward, SessionInvariant, SessionsTyped, IndexSound

LEMMA SessionsStarted == SessInit => SessionInvariant
<1> SUFFICES ASSUME SessInit PROVE SessionInvariant
  OBVIOUS
<1>1. key \in [Sids -> KeyType] /\ \A s \in Sids : key[s].st = "new"
  BY Constants DEF SessInit, NewKey
<1>2. ix \in [Persons -> IndexType] /\ \A u \in Persons : ix[u].ttl = 0 /\ ix[u].sids = {}
  BY DEF SessInit, IndexType
<1>3. rtx \in [Requests -> RequestType] /\ \A w \in Requests : rtx[w] = Free
  BY FreeFits DEF SessInit
<1>4. IndexSound
  BY <1>1, <1>2, Constants DEF IndexSound, InIndex
<1> QED
  BY <1>1, <1>2, <1>3, <1>4, FreeFits DEF SessionInvariant, SessionsTyped

LEMMA SessionStep == SessionInvariant /\ [SessNext]_sessVars => Onward
<1> SUFFICES ASSUME SessionInvariant, [SessNext]_sessVars PROVE Onward
  OBVIOUS
<1>1. CASE UNCHANGED sessVars
  BY <1>1, ElsewhereStep DEF sessVars
<1>2. ASSUME NEW w \in Requests, NEW u \in Persons, NEW prev \in Sids \cup {NoSid},
             Login(w, u, prev)
      PROVE  Onward
  BY <1>2, LoginStep DEF Marks
<1>3. ASSUME NEW w \in Requests, NEW s \in Sids, NEW op \in Ops, NEW u \in Persons,
             NEW one \in Sids \cup {NoSid}, Load(w, s, op, u, one)
      PROVE  Onward
  BY <1>3, LoadStep DEF Marks
<1>4. ASSUME NEW w \in Requests, Handle(w) PROVE Onward
  BY <1>4, RegenerateStep, SaveStep, TrackStep, GuardStep, LogoutStep, ListStep,
     PruneStep, RevokeStep, LastStep DEF Handle
<1>5. ASSUME NEW u \in Persons, AccountChanges(u) PROVE Onward
  BY <1>5, ElsewhereStep DEF AccountChanges
<1>6. ASSUME NEW k \in Sockets,
             (\E s \in Sids : Connect(k, s)) \/ Authenticate(k) \/ Disconnect(k)
      PROVE  Onward
  BY <1>6, ElsewhereStep DEF Connect, Authenticate, Disconnect
<1>7. CASE Sweep
  BY <1>7, ElsewhereStep DEF Sweep, SweepStart, SweepEnd, SweepBySid, SweepByUser
<1> QED
  BY <1>1, <1>2, <1>3, <1>4, <1>5, <1>6, <1>7, IdleOutStep, TickStep DEF SessNext

(* The inductive invariant of the sessions holds in every behaviour.       *)
THEOREM SessionInvariantHolds == SessSpec => []SessionInvariant
<1>1. SessionInvariant /\ [SessNext]_sessVars => SessionInvariant'
  BY SessionStep DEF Onward
<1> QED
  BY <1>1, SessionsStarted, PTL DEF SessSpec

(* track, list, revokeOne and revokeAll (session-tracker.service.ts): a    *)
(* session that was put in its owner's index is in it for as long as it    *)
(* can be used, whatever logins, lists, logouts and revocations run into   *)
(* each other, so that signing out everywhere reaches it.                  *)
THEOREM SessionsRevocable == SessSpec => []Revocable
<1>1. SessionInvariant => Revocable
  BY DEF SessionInvariant, IndexSound, InIndex, Revocable, PastCap
<1> QED
  BY <1>1, SessionInvariantHolds, PTL

(* rolling without resave (session.middleware.ts): a session that was      *)
(* revoked, left or has expired is not brought back by the requests that   *)
(* were under way with it.                                                 *)
THEOREM SessionsStayDead == SessSpec => RevokedStaysDead
<1>1. SessionInvariant /\ [SessNext]_sessVars =>
        [\A s \in Sids : key[s].st = "gone" => key'[s].st = "gone"]_sessVars
  BY SessionStep DEF Onward, Later
<1> QED
  BY <1>1, SessionInvariantHolds, PTL DEF SessSpec, RevokedStaysDead
=============================================================================
