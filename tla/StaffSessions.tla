--------------------------- MODULE StaffSessions ---------------------------
(* The sessions of the back office: the Redis key that is a session, the   *)
(* per-user index that makes sessions revocable, and the sockets of the    *)
(* /admin namespace, which are authorised once and swept afterwards.       *)
(*                                                                         *)
(* The key and the index are two Redis entries that no command keeps       *)
(* together: a handler writes one, then the other, and anything can happen *)
(* in between.                                                             *)
EXTENDS Naturals, FiniteSets

CONSTANTS
  Persons,      \* staff accounts
  Sids,         \* session ids; an id is never issued twice
  Sockets,      \* slots for /admin sockets
  Requests,     \* HTTP requests that can be under way at once
  NoSid,        \* no session
  Cap,          \* SESSION_ABSOLUTE_MAX_AGE, in ticks
  IndexTtl,     \* SESSION_INDEX_TTL, in ticks: the cap and a margin
  MaxTicks,     \* bound: ticks of the clock
  MaxSteps      \* bound: requests, handshakes, account changes and failures

ASSUME SessionConstants ==
  /\ {Cap, IndexTtl, MaxTicks, MaxSteps} \subseteq Nat
  /\ IndexTtl > Cap /\ NoSid \notin Sids /\ Persons # {}

VARIABLES
  person,   \* what the database says of an account
  key,      \* the sess: keys
  ix,       \* the index of each account: its sids and its time to live
  sock,     \* the sockets
  sweep,    \* the revalidation sweep
  rtx,      \* the requests under way
  ticks, steps   \* what is left of the bounds

bounds == <<ticks, steps>>
sessVars == <<person, key, ix, sock, sweep, rtx, bounds>>

Someone == CHOOSE u \in Persons : TRUE
NewKey == [st |-> "new", user |-> Someone, age |-> 0, tracked |-> FALSE]
Off == [st |-> "off", sid |-> NoSid, user |-> Someone, super |-> FALSE]
Still == [pc |-> "idle", bySid |-> {}, byUser |-> {}]
Free == [pc |-> "idle", sid |-> NoSid, user |-> Someone, whose |-> Someone,
         op |-> "plain", one |-> NoSid, prev |-> NoSid, prevUser |-> Someone,
         mem |-> {}, dead |-> {}]

Loadable(s) == key[s].st = "live"
PastCap(s) == key[s].age > Cap
IsRealtimeEligible(p) == ~p.must /\ p.role \in {"ADMIN", "SUPER_ADMIN"}

Take(w, t) == rtx' = [rtx EXCEPT ![w] = t]
Move(w, pc) == rtx' = [rtx EXCEPT ![w].pc = pc]
Finish(w) == rtx' = [rtx EXCEPT ![w] = Free]
Spend == steps > 0 /\ steps' = steps - 1 /\ UNCHANGED ticks
Gone == [NewKey EXCEPT !.st = "gone"]
Dead(s) == [key EXCEPT ![s] = Gone]

-----------------------------------------------------------------------------
(* login: the credentials of an account that is active; then the session   *)
(* the browser came with is destroyed, a new one is saved, and only then   *)
(* is it put in the index.                                                 *)
Login(w, u, prev) ==
  /\ rtx[w].pc = "idle" /\ person[u].ok /\ Spend
  /\ prev # NoSid => Loadable(prev)
  /\ Take(w, [Free EXCEPT !.pc = "regenerate", !.user = u, !.prev = prev,
                !.prevUser = IF prev = NoSid THEN Someone ELSE key[prev].user])
  /\ UNCHANGED <<person, key, ix, sock, sweep>>

Regenerate(w) ==
  /\ rtx[w].pc = "regenerate" /\ Move(w, "save")
  /\ key' = IF rtx[w].prev = NoSid THEN key ELSE Dead(rtx[w].prev)
  /\ UNCHANGED <<person, ix, sock, sweep, bounds>>

(* The id is random: of the ids not issued yet, any one will do.           *)
SaveSession(w) ==
  LET s == CHOOSE x \in Sids : key[x].st = "new" IN
  /\ rtx[w].pc = "save" /\ \E x \in Sids : key[x].st = "new"
  /\ key' = [key EXCEPT ![s] = [NewKey EXCEPT !.st = "live", !.user = rtx[w].user]]
  /\ Take(w, [rtx[w] EXCEPT !.pc = "track", !.sid = s])
  /\ UNCHANGED <<person, ix, sock, sweep, bounds>>

(* track: one MULTI; a failure is logged and the login succeeds all the    *)
(* same, with a session that no list shows.                                *)
Unindexed(w) ==
  IF rtx[w].prev = NoSid THEN ix
  ELSE [ix EXCEPT ![rtx[w].prevUser].sids = @ \ {rtx[w].prev}]

Track(w) ==
  LET u == rtx[w].user IN
  /\ rtx[w].pc = "track"
  /\ ix' = [Unindexed(w) EXCEPT ![u] = [sids |-> @.sids \cup {rtx[w].sid},
                                        ttl |-> IndexTtl]]
  /\ key' = [key EXCEPT ![rtx[w].sid].tracked = TRUE]
  /\ Finish(w)
  /\ UNCHANGED <<person, sock, sweep, bounds>>

-----------------------------------------------------------------------------
(* Any other request: the session is loaded, then the guard reads the      *)
(* account and destroys a session it rejects.                              *)
Ops == {"plain", "logout", "list", "one", "others", "force"}

Load(w, s, op, u, one) ==
  /\ rtx[w].pc = "idle" /\ Loadable(s) /\ Spend
  /\ op # "force" => u = key[s].user
  /\ op = "one" <=> one \notin {NoSid, s}
  /\ Take(w, [Free EXCEPT !.pc = "guard", !.sid = s, !.user = key[s].user,
                !.whose = u, !.op = op, !.one = one])
  /\ UNCHANGED <<person, key, ix, sock, sweep>>

First(op) ==
  CASE op = "plain" -> "touch" [] op = "logout" -> "destroy" [] OTHER -> "members"
Barred(w) == person[rtx[w].user].must /\ rtx[w].op # "logout"
CanRevokeSessions(w) ==
  /\ rtx[w].user # rtx[w].whose /\ person[rtx[w].user].role = "SUPER_ADMIN"

SessionGuard(w) ==
  LET t == rtx[w] IN
  /\ t.pc = "guard"
  /\ IF PastCap(t.sid) \/ ~person[t.user].ok
     THEN key' = Dead(t.sid) /\ Finish(w)
     ELSE /\ UNCHANGED key
          /\ Move(w, IF Barred(w) \/ (t.op = "force" /\ ~CanRevokeSessions(w))
                     THEN "touch" ELSE First(t.op))
  /\ UNCHANGED <<person, ix, sock, sweep, bounds>>

(* logout: the key, then the index, which may fail without anybody knowing *)
DestroySession(w) ==
  /\ rtx[w].pc = "destroy" /\ key' = Dead(rtx[w].sid) /\ Move(w, "untrack")
  /\ UNCHANGED <<person, ix, sock, sweep, bounds>>

Untrack(w) ==
  /\ rtx[w].pc = "untrack"
  /\ ix' = [ix EXCEPT ![rtx[w].user].sids = @ \ {rtx[w].sid}]
  /\ Finish(w)
  /\ UNCHANGED <<person, key, sock, sweep, bounds>>

(* readMembers: SMEMBERS, then one pipeline of GETs.                       *)
ReadMembers(w) ==
  /\ rtx[w].pc = "members"
  /\ Take(w, [rtx[w] EXCEPT !.pc = "classify", !.mem = ix[rtx[w].whose].sids])
  /\ UNCHANGED <<person, key, ix, sock, sweep, bounds>>

Missing(s, u) == key[s].st # "live" \/ key[s].user # u      \* or foreign
Classify(w) ==
  LET t == rtx[w]
      missing == {s \in t.mem : Missing(s, t.whose)}
  IN
  /\ t.pc = "classify"
  /\ Take(w, [t EXCEPT
       !.pc = IF t.op \in {"list", "one"} THEN "prune" ELSE "revokeAll",
       !.dead = IF t.op \in {"list", "one"}
                THEN missing \cup {s \in t.mem : PastCap(s)} ELSE missing])
  /\ UNCHANGED <<person, key, ix, sock, sweep, bounds>>

(* list: what is not a live session of the account leaves the index; and   *)
(* the session named by the handle has to be among the live ones.          *)
Prune(w) ==
  LET t == rtx[w] IN
  /\ t.pc = "prune"
  /\ ix' = [ix EXCEPT ![t.whose].sids = @ \ t.dead]
  /\ Move(w, IF t.op = "one" /\ t.one \in t.mem \ t.dead THEN "revokeOne" ELSE "touch")
  /\ UNCHANGED <<person, key, sock, sweep, bounds>>

RevokeOne(w) ==
  LET t == rtx[w] IN
  /\ t.pc = "revokeOne"
  /\ key' = Dead(t.one)
  /\ ix' = [ix EXCEPT ![t.whose].sids = @ \ {t.one}]
  /\ Move(w, "touch")
  /\ UNCHANGED <<person, sock, sweep, bounds>>

(* Mutant of Dropped: the whole index is deleted with the sessions.        *)
DroppedIndex(t) == Sids
(* revokeAll drops from the index what it read there, the session kept     *)
(* aside excepted, and nothing else.                                       *)
Dropped(t) == IF t.op = "others" THEN t.mem \ {t.sid} ELSE t.mem

RevokeAll(w) ==
  LET t == rtx[w] IN
  /\ t.pc = "revokeAll"
  /\ key' = [s \in Sids |-> IF s \in Dropped(t) \cap (t.mem \ t.dead)
                             THEN Gone ELSE key[s]]
  /\ ix' = [ix EXCEPT ![t.whose].sids = @ \ Dropped(t)]
  /\ Move(w, "touch")
  /\ UNCHANGED <<person, sock, sweep, bounds>>

(* Mutant of Touched: the session is saved again at the end of a request.  *)
TouchedResave(k) == [k EXCEPT !.st = "live"]
(* rolling, not resave: a session still there gets a new time to live.     *)
Touched(k) == k
Touch(w) ==
  /\ rtx[w].pc = "touch"
  /\ key' = [key EXCEPT ![rtx[w].sid] = Touched(@)] /\ Finish(w)
  /\ UNCHANGED <<person, ix, sock, sweep, bounds>>

(* Redis fails the command a handler awaits: 503, or for the best-effort   *)
(* writes of the index nothing more.                                       *)
StoreFails(w) ==
  /\ rtx[w].pc \in {"regenerate", "save", "track", "destroy", "untrack", "members",
                    "classify", "prune", "revokeOne", "revokeAll"}
  /\ Spend /\ Finish(w)
  /\ UNCHANGED <<person, key, ix, sock, sweep>>

-----------------------------------------------------------------------------
(* An idle session expires, the clock ticks, an index runs out.            *)
Idles(s) ==
  /\ key[s].st = "live" /\ key' = Dead(s)
  /\ UNCHANGED <<person, ix, sock, sweep, rtx, bounds>>

Tick ==
  /\ ticks > 0 /\ ticks' = ticks - 1
  /\ key' = [s \in Sids |-> IF key[s].st = "live" /\ ~PastCap(s)
                             THEN [key[s] EXCEPT !.age = @ + 1] ELSE key[s]]
  /\ ix' = [u \in Persons |->
              IF ix[u].ttl <= 1 THEN [sids |-> {}, ttl |-> 0]
                                ELSE [ix[u] EXCEPT !.ttl = @ - 1]]
  /\ UNCHANGED <<person, sock, sweep, rtx, steps>>

(* An operator suspends, deletes, restores, demotes or promotes somebody,  *)
(* or forces a new password.                                               *)
Changed(p) ==
  {[p EXCEPT !.ok = ~@], [p EXCEPT !.must = ~@]} \cup
  {[p EXCEPT !.role = r] : r \in {"VIEWER", "ADMIN", "SUPER_ADMIN"} \ {p.role}}
AccountChanges(u) ==
  /\ Spend /\ \E p \in Changed(person[u]) : person' = [person EXCEPT ![u] = p]
  /\ UNCHANGED <<key, ix, sock, sweep, rtx>>

-----------------------------------------------------------------------------
(* The handshake: the session is loaded, then the account is read.         *)
Connect(k, s) ==
  /\ sock[k].st = "off" /\ k \notin sweep.bySid \cup sweep.byUser
  /\ Loadable(s) /\ Spend
  /\ sock' = [sock EXCEPT ![k] = [Off EXCEPT !.st = "shake", !.sid = s, !.user = key[s].user]]
  /\ UNCHANGED <<person, key, ix, sweep, rtx>>

(* applyRoleRoom.                                                          *)
(* Mutant of ApplyRoleRoom: a room once joined is never left.              *)
ApplyRoleRoomJoin(k, role) == [k EXCEPT !.super = @ \/ role = "SUPER_ADMIN"]
ApplyRoleRoom(k, role) == [k EXCEPT !.super = (role = "SUPER_ADMIN")]

Authenticate(k) ==
  LET p == person[sock[k].user] IN
  /\ sock[k].st = "shake"
  /\ sock' = [sock EXCEPT ![k] =
       IF ~PastCap(sock[k].sid) /\ p.ok /\ IsRealtimeEligible(p)
       THEN ApplyRoleRoom([@ EXCEPT !.st = "on"], p.role) ELSE Off]
  /\ UNCHANGED <<person, key, ix, sweep, rtx, bounds>>

Disconnect(k) ==
  /\ sock[k].st = "on" /\ sock' = [sock EXCEPT ![k] = Off]
  /\ UNCHANGED <<person, key, ix, sweep, rtx, bounds>>

Closed(ks) == [k \in Sockets |-> IF k \in ks THEN Off ELSE sock[k]]

(* sweep: the sockets of now; by session, then by account.                 *)
SweepStart ==
  /\ sweep.pc = "idle" /\ \E k \in Sockets : sock[k].st = "on"
  /\ sweep' = [Still EXCEPT !.pc = "on", !.bySid = {k \in Sockets : sock[k].st = "on"}]
  /\ UNCHANGED <<person, key, ix, sock, rtx, bounds>>

SweepBySid(s) ==
  LET group == {k \in sweep.bySid : sock[k].sid = s}
      revoked == key[s].st # "live" \/ PastCap(s)
                 \/ \E k \in group : key[s].user # sock[k].user
  IN
  /\ group # {}
  /\ \/ /\ ~revoked
        /\ sweep' = [sweep EXCEPT !.bySid = @ \ group, !.byUser = @ \cup group]
        /\ UNCHANGED <<sock, bounds>>
     \/ /\ revoked /\ sock' = Closed(group) /\ UNCHANGED bounds
        /\ sweep' = [sweep EXCEPT !.bySid = @ \ group]
     \/ /\ Spend /\ sock' = Closed(group)      \* the store cannot be read
        /\ sweep' = [sweep EXCEPT !.bySid = @ \ group]
  /\ UNCHANGED <<person, key, ix, rtx>>

SweepByUser(u) ==
  LET group == {k \in sweep.byUser : sock[k].user = u /\ sock[k].st = "on"} IN
  /\ \A k \in sweep.bySid : sock[k].st = "off"
  /\ group # {}
  /\ \/ /\ sock' = IF person[u].ok /\ IsRealtimeEligible(person[u])
                   THEN [k \in Sockets |-> IF k \in group
                           THEN ApplyRoleRoom(sock[k], person[u].role) ELSE sock[k]]
                   ELSE Closed(group)
        /\ sweep' = [sweep EXCEPT !.byUser = @ \ group] /\ UNCHANGED bounds
     \/ Spend /\ sweep' = Still /\ UNCHANGED sock     \* the sweep throws
  /\ UNCHANGED <<person, key, ix, rtx>>

(* What is left in the lists has disconnected by itself.                   *)
SweepEnd ==
  /\ sweep.pc = "on"
  /\ \A k \in sweep.bySid \cup sweep.byUser : sock[k].st = "off"
  /\ sweep' = Still
  /\ UNCHANGED <<person, key, ix, sock, rtx, bounds>>

-----------------------------------------------------------------------------
SessInit ==
  /\ person = [u \in Persons |-> [ok |-> TRUE, must |-> FALSE, role |-> "SUPER_ADMIN"]]
  /\ key = [s \in Sids |-> NewKey]
  /\ ix = [u \in Persons |-> [sids |-> {}, ttl |-> 0]]
  /\ sock = [k \in Sockets |-> Off] /\ sweep = Still
  /\ rtx = [w \in Requests |-> Free]
  /\ ticks = MaxTicks /\ steps = MaxSteps

Handle(w) ==
  \/ Regenerate(w) \/ SaveSession(w) \/ Track(w)
  \/ SessionGuard(w) \/ DestroySession(w) \/ Untrack(w)
  \/ ReadMembers(w) \/ Classify(w) \/ Prune(w) \/ RevokeOne(w) \/ RevokeAll(w)
  \/ Touch(w) \/ StoreFails(w)

Sweep ==
  \/ SweepStart \/ SweepEnd
  \/ (\E s \in Sids : SweepBySid(s)) \/ (\E u \in Persons : SweepByUser(u))

SessNext ==
  \/ \E w \in Requests :
       \/ \E u \in Persons, prev \in Sids \cup {NoSid} : Login(w, u, prev)
       \/ \E s \in Sids, op \in Ops, u \in Persons, one \in Sids \cup {NoSid} :
            Load(w, s, op, u, one)
       \/ Handle(w)
  \/ \E s \in Sids : Idles(s)
  \/ Tick
  \/ \E u \in Persons : AccountChanges(u)
  \/ \E k \in Sockets :
       (\E s \in Sids : Connect(k, s)) \/ Authenticate(k) \/ Disconnect(k)
  \/ Sweep

SessSpec == SessInit /\ [][SessNext]_sessVars

-----------------------------------------------------------------------------
(* A session that was put in its owner's index is found there as long as   *)
(* it can be used, whatever logins, lists, logouts and revocations run     *)
(* into each other and however the clocks of the two entries run: "sign    *)
(* out everywhere" reaches it.                                             *)
Revocable ==
  \A s \in Sids : key[s].st = "live" /\ key[s].tracked /\ ~PastCap(s)
                    => s \in ix[key[s].user].sids

(* A session that was revoked, left or has expired stays so, also when     *)
(* requests made with it are still under way.                              *)
RevokedStaysDead ==
  [][\A s \in Sids : key[s].st = "gone" => key'[s].st = "gone"]_sessVars

(* What a socket may hear: the session still works, the account may listen *)
(* and the SUPER_ADMIN room is for SUPER_ADMINs.                           *)
Entitled(k) ==
  sock[k].st = "on" =>
    /\ Loadable(sock[k].sid) /\ ~PastCap(sock[k].sid)
    /\ person[sock[k].user].ok /\ IsRealtimeEligible(person[sock[k].user])
    /\ sock[k].super <=> person[sock[k].user].role = "SUPER_ADMIN"
(* A socket is authorised once; a suspension, demotion, forced reset or    *)
(* sign-out reaches it by the sweep.                                       *)
SocketsLoseAuthority == \A k \in Sockets : []<>Entitled(k)
=============================================================================
