------------------------ MODULE NotificationTriggers ------------------------
(* What makes a notification for the staff: the use cases of the trigger   *)
(* service, the claims that keep a failing upstream from flooding the bell *)
(* and the announcer that tells of a new version when an instance boots.   *)
EXTENDS Naturals, FiniteSets, Bags, TLC

CONSTANTS
  TrInstances,  \* instances of the service
  TrWorkers,    \* triggers that can be under way at once
  LatestVersion,\* versions are 1 .. LatestVersion; 0 is the version of a
                \* build that does not know its own
  ClaimTtl,     \* the DEDUPE_TTLs, in ticks
  MaxTrClock,   \* bound: ticks
  MaxTriggers   \* bound: triggers, boots and outages

ASSUME TriggerConstants ==
  /\ IsFiniteSet(TrWorkers) /\ LatestVersion \in Nat /\ ClaimTtl \in Nat \ {0}
  /\ MaxTrClock \in Nat /\ MaxTriggers \in Nat

VARIABLES
  trNow,        \* the time
  redisReady,   \* the client's status is 'ready'
  claims,       \* the claims, in Redis and in the memory of each instance:
                \* when each ends
  lastAnnounced,\* the app_settings row, 0 when there is none
  noticed,      \* admin_notifications: how many of each kind
  rises,        \* ghost: how often lastAnnounced rose to a version
  trLeft,       \* triggers still to come
  trTx          \* the triggers under way

trVars == <<trNow, redisReady, claims, lastAnnounced, noticed, rises, trLeft, trTx>>

-----------------------------------------------------------------------------
(* Who is told.  A target role is the least role that sees the row.  C4, a *)
(* changed setting, has its words and no route that says them yet.         *)
RegistrationUcs == [U1 |-> "ADMIN", U2 |-> "ADMIN", U3 |-> "SUPER_ADMIN"]
BookingUcs ==
  [B1 |-> "ADMIN", B2 |-> "ALL", B3 |-> "ADMIN", B4 |-> "ADMIN", B5 |-> "ALL"]
FeedbackUcs == [F1 |-> "ADMIN", F2 |-> "ALL"]
SystemUcs ==
  [C1 |-> "ADMIN", C2 |-> "ALL", C3 |-> "ALL", C4 |-> "ADMIN", C5 |-> "SUPER_ADMIN"]
TargetRole == RegistrationUcs @@ BookingUcs @@ FeedbackUcs @@ SystemUcs

Stores == {"redis"} \cup TrInstances
ClaimKeys == {"C1", "C5"}  \* one LINE failure kind, one failing route
NoClaim == [k \in ClaimKeys |-> 0]

TrFree == [pc |-> "free", uc |-> "C2", inst |-> "redis", store |-> "redis",
           version |-> 0, seen |-> 0]
TrSay(w, t) == trTx' = [trTx EXCEPT ![w] = t]
TrDone(w) == TrSay(w, TrFree)
TrStart(w, t) == /\ trTx[w] = TrFree /\ trLeft > 0 /\ trLeft' = trLeft - 1 /\ TrSay(w, t)
TrRest == <<trNow, redisReady, rises, trLeft>>

-----------------------------------------------------------------------------
(* run: the work that gathers the facts, then create.  An error of either  *)
(* is logged and swallowed; work that finds nothing to say returns null.   *)
TrIgnore(w) == TrStart(w, TrFree)
Occur(w, i, pc, u) == TrStart(w, [TrFree EXCEPT !.pc = pc, !.uc = u, !.inst = i])
OccurRest == UNCHANGED <<trNow, redisReady, claims, lastAnnounced, noticed, rises>>

(* The applicant's own words are all there is to say.                      *)
RegistrationSubmitted(w) ==
  /\ \E u \in {"U1", "U2"} : Occur(w, TrFree.inst, "create", u)
  /\ OccurRest
(* Told only when requests of his still wait.                              *)
UnfollowedWithPending(w) == Occur(w, TrFree.inst, "work", "U3") /\ OccurRest
BookingRequested(w) == Occur(w, TrFree.inst, "work", "B1") /\ OccurRest
BookingCancelledByRequester(w) == Occur(w, TrFree.inst, "work", "B2") /\ OccurRest
(* One row for all the requests a sweep or an approval closed.             *)
BookingsExpired(w, n) ==
  /\ IF n = 0 THEN TrIgnore(w) ELSE Occur(w, TrFree.inst, "work", "B3")
  /\ OccurRest
BookingsAutoRejected(w, losers) ==
  /\ IF losers = 0 THEN TrIgnore(w) ELSE Occur(w, TrFree.inst, "work", "B4")
  /\ OccurRest
DirectBookingCreated(w) == Occur(w, TrFree.inst, "work", "B5") /\ OccurRest
(* Which of the two is the row's to say: a complaint or an idea.           *)
FeedbackSubmitted(w) ==
  (\E u \in DOMAIN FeedbackUcs : Occur(w, TrFree.inst, "work", u)) /\ OccurRest
(* An actor that cannot be read is named by what the session knew.         *)
VenueClosed(w) == Occur(w, TrFree.inst, "create", "C3") /\ OccurRest

(* A failed call to LINE: whether LINE or its configuration is to blame.   *)
IsLineFailureKind(kind) == kind \in {"NOT_CONFIGURED", "RATE_LIMITED", "TRANSIENT"}
LineDeliveryFailed(w, i, kind) ==
  /\ IF IsLineFailureKind(kind) THEN Occur(w, i, "claim", "C1") ELSE TrIgnore(w)
  /\ OccurRest

(* An error that leaves a handler: an exception of the framework carries a *)
(* status, a refused upload is the client's, anything else is a 500.       *)
HandlerErrors == {"http4xx", "http5xx", "multer", "other"}
ServerErrorStatus(err) == IF err \in {"http5xx", "other"} THEN 500 ELSE 0
ServerError(w, i, err) ==
  /\ IF ServerErrorStatus(err) = 0 THEN TrIgnore(w) ELSE Occur(w, i, "claim", "C5")
  /\ OccurRest

(* The reads: the row may be gone, or nothing of it wait; the database may *)
(* be away.                                                                *)
Work(w) ==
  /\ trTx[w].pc = "work"
  /\ TrDone(w) \/ TrSay(w, [trTx[w] EXCEPT !.pc = "create"])
  /\ UNCHANGED <<claims, lastAnnounced, noticed, TrRest>>

(* Mutant of ClaimFree: the SET without NX.                                *)
ClaimAlways(s, k) == TRUE
ClaimFree(s, k) == claims[s][k] <= trNow
Claimed(held, s, k) == [held EXCEPT ![s][k] = trNow + ClaimTtl]
(* claimOnce: SET NX in Redis.  A claim let through is kept when create    *)
(* fails.                                                                  *)
ClaimInRedis(w) ==
  LET k == trTx[w].uc IN
  /\ trTx[w].pc = "claim" /\ redisReady
  /\ \/ /\ ClaimFree("redis", k) /\ claims' = Claimed(claims, "redis", k)
        /\ TrSay(w, [trTx[w] EXCEPT !.pc = "create"])
     \/ ~ClaimFree("redis", k) /\ TrDone(w) /\ UNCHANGED claims
  /\ UNCHANGED <<lastAnnounced, noticed, TrRest>>

(* claimLocally, when Redis is away or the command failed: it may have     *)
(* been carried out and only its answer lost.                              *)
ClaimLocally(w) ==
  LET k == trTx[w].uc  i == trTx[w].inst IN
  /\ trTx[w].pc = "claim"
  /\ \E reached \in {FALSE, redisReady} :
       LET held == IF reached /\ ClaimFree("redis", k)
                     THEN Claimed(claims, "redis", k) ELSE claims IN
       \/ /\ ClaimFree(i, k) /\ claims' = Claimed(held, i, k)
          /\ TrSay(w, [trTx[w] EXCEPT !.pc = "create", !.store = i])
       \/ ~ClaimFree(i, k) /\ claims' = held /\ TrDone(w)
  /\ UNCHANGED <<lastAnnounced, noticed, TrRest>>

CreateNotification(w) ==
  LET t == trTx[w] IN
  /\ t.pc = "create"
  /\ \/ UNCHANGED noticed
     \/ noticed' = noticed (+) SetToBag({[uc |-> t.uc, target |-> TargetRole[t.uc],
                     store |-> t.store, version |-> t.version]})
  /\ TrDone(w) /\ UNCHANGED <<claims, lastAnnounced, TrRest>>

-----------------------------------------------------------------------------
(* The announcer runs once in every instance that boots, with the version  *)
(* of its build: a release, a second instance of it, or a rollback.        *)
Boot(w, v) ==
  /\ TrStart(w, IF v = 0 THEN TrFree ELSE [TrFree EXCEPT !.pc = "read", !.version = v])
  /\ UNCHANGED <<trNow, redisReady, claims, lastAnnounced, noticed, rises>>

ReadAnnounced(w) ==
  LET t == trTx[w] IN
  /\ t.pc = "read"
  /\ \/ lastAnnounced = 0 /\ TrSay(w, [t EXCEPT !.pc = "first"])
     \/ lastAnnounced = t.version /\ TrDone(w)
     \/ /\ lastAnnounced \notin {0, t.version}
        /\ TrSay(w, [t EXCEPT !.pc = "swap", !.seen = lastAnnounced])
  /\ UNCHANGED <<claims, lastAnnounced, noticed, TrRest>>

(* createMany with skipDuplicates: the first version is not told.          *)
FirstVersion(w) ==
  /\ trTx[w].pc = "first"
  /\ lastAnnounced' = IF lastAnnounced = 0 THEN trTx[w].version ELSE lastAnnounced
  /\ TrDone(w) /\ UNCHANGED <<claims, noticed, TrRest>>

IsDowngrade(previous, next) == next < previous
(* Mutant of StillAnnounced: the UPDATE names the key and not the value.   *)
KeyOnly(seen) == TRUE
StillAnnounced(seen) == lastAnnounced = seen

SwapVersion(w) ==
  LET t == trTx[w] IN
  /\ t.pc = "swap"
  /\ \/ ~StillAnnounced(t.seen) /\ TrDone(w) /\ UNCHANGED <<lastAnnounced, rises>>
     \/ /\ StillAnnounced(t.seen) /\ lastAnnounced' = t.version
        /\ rises' = IF t.version > lastAnnounced
                      THEN [rises EXCEPT ![t.version] = @ + 1] ELSE rises
        /\ IF IsDowngrade(t.seen, t.version) THEN TrDone(w)
           ELSE TrSay(w, [t EXCEPT !.pc = "create"])
  /\ UNCHANGED <<trNow, redisReady, claims, noticed, trLeft>>

-----------------------------------------------------------------------------
RedisFlips ==
  /\ trLeft > 0 /\ trLeft' = trLeft - 1 /\ redisReady' = ~redisReady
  /\ UNCHANGED <<trNow, claims, lastAnnounced, noticed, rises, trTx>>
TrTick ==
  /\ trNow < MaxTrClock /\ trNow' = trNow + 1
  /\ UNCHANGED <<redisReady, claims, lastAnnounced, noticed, rises, trLeft, trTx>>

TrInit ==
  /\ trNow = 0 /\ redisReady = TRUE /\ lastAnnounced = 0 /\ noticed = EmptyBag
  /\ claims = [s \in Stores |-> NoClaim] /\ rises = [v \in 0 .. LatestVersion |-> 0]
  /\ trLeft = MaxTriggers /\ trTx = [w \in TrWorkers |-> TrFree]

TrNext ==
  \/ \E w \in TrWorkers :
       \/ RegistrationSubmitted(w) \/ UnfollowedWithPending(w)
       \/ BookingRequested(w) \/ BookingCancelledByRequester(w)
       \/ DirectBookingCreated(w) \/ FeedbackSubmitted(w) \/ VenueClosed(w)
       \/ \E n \in 0 .. 1 : BookingsExpired(w, n) \/ BookingsAutoRejected(w, n)
       \/ \E i \in TrInstances :
            \/ \E kind \in {"TRANSIENT", "REJECTED"} : LineDeliveryFailed(w, i, kind)
            \/ \E err \in HandlerErrors : ServerError(w, i, err)
       \/ \E v \in 0 .. LatestVersion : Boot(w, v)
       \/ Work(w) \/ ClaimInRedis(w) \/ ClaimLocally(w) \/ CreateNotification(w)
       \/ ReadAnnounced(w) \/ FirstVersion(w) \/ SwapVersion(w)
  \/ RedisFlips \/ TrTick

TrSpec == TrInit /\ [][TrNext]_trVars

-----------------------------------------------------------------------------
(* The rows about one version, and those a claim in one store let through. *)
Told(e) == IF BagIn(e, noticed) THEN noticed[e] ELSE 0
ToldOf(u, s, v) ==
  Told([uc |-> u, target |-> TargetRole[u], store |-> s, version |-> v])

(* Instances that boot together announce a version once: never more often  *)
(* than the stored version rose to it, and a rollback says nothing.        *)
VersionToldOnce ==
  \A v \in 1 .. LatestVersion : ToldOf("C2", "redis", v) <= rises[v]

(* A failure is told again within its window only by a claim taken in      *)
(* another place, which is what the fallback to memory costs: what one     *)
(* store let through is no more than the windows the time has room for.    *)
ToldOncePerWindow ==
  \A k \in ClaimKeys, s \in Stores :
    ToldOf(k, s, 0) * ClaimTtl <= trNow + ClaimTtl

NoticesOnce == VersionToldOnce /\ ToldOncePerWindow
=============================================================================
