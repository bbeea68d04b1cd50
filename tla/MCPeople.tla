------------------------------ MODULE MCPeople ------------------------------
(* A LINE user, and the accounts and the sessions of the staff, for TLC.   *)
(* They share no variable; one behaviour exercises one of them.            *)
EXTENDS LineUsers, StaffAccounts, StaffSessions, TLC

VARIABLE desk    \* the component this behaviour is about

people == <<desk, vars, staffVars, sessVars>>
OneStart == CHOOSE a \in StaffStarts : TRUE
OneUser == CHOOSE s \in Starts : s.r.there

PeopleInit ==
  /\ desk \in {"line", "accounts", "sessions"}
  /\ SessInit /\ Init
  /\ IF desk = "accounts" THEN StaffInit ELSE StaffIdle /\ acct = OneStart
  /\ desk # "line" => row = OneUser.r /\ reg = OneUser.f

LineDesk == desk = "line" /\ Next /\ UNCHANGED <<desk, staffVars, sessVars>>
Accounts == desk = "accounts" /\ StaffNext /\ UNCHANGED <<desk, vars, sessVars>>
Sessions == desk = "sessions" /\ SessNext /\ UNCHANGED <<desk, vars, staffVars>>

(* The sweep's timer fires, and a sweep under way goes on; a request about *)
(* a LINE user goes on, and Redis expires its keys.                        *)
PeopleFairness ==
  /\ WF_people(Sweep /\ UNCHANGED <<desk, vars, staffVars>>)
  /\ \A w \in Workers : WF_people(Proceed(w) /\ UNCHANGED <<desk, staffVars, sessVars>>)
  /\ WF_people(ExpireStatus /\ UNCHANGED <<desk, staffVars, sessVars>>)

PeopleSpec ==
  PeopleInit /\ [][LineDesk \/ Accounts \/ Sessions]_people /\ PeopleFairness
=============================================================================
