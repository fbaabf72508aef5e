------------------------------ MODULE Console ------------------------------
(***************************************************************************)
(* Accounts and sessions of the operator console: the sign-in, setup and   *)
(* sign-out pages (internal/ui/controllers/auth.go), the accounts page     *)
(* (controllers/users.go), the session gate (internal/ui/middleware) and   *)
(* the table of users in the console's own database (internal/ui/store).   *)
(* Requests run concurrently; every one passes the gate with the role its  *)
(* account has at that moment and then reads and writes the table in       *)
(* statements of its own.  Refused requests change nothing and are left    *)
(* out.  Every account this code creates has its password set.             *)
(***************************************************************************)
EXTENDS Integers, FiniteSets, Nil

CONSTANTS
  Requests,  \* requests the console handles
  Names,     \* account names
  Roles,     \* roleOptions, or those of them that matter
  EnvUsers,  \* what PMCLUSTER_UI_USER may be: a name, or NULL when it is not set
  Ttl,       \* lifetime of a session
  MaxTime,   \* bound on the clock
  MaxId      \* bound on the accounts ever created

ASSUME ConsoleConstants ==
  /\ "admin" \in Roles /\ Roles \subseteq {"admin", "operator", "viewer"}
  /\ Ttl \in Nat \ {0} /\ MaxTime \in Nat /\ MaxId \in Nat \ {0}
  /\ NULL \notin Names /\ EnvUsers \subseteq Names \union {NULL}

VARIABLES
  users,    \* name -> row of the table, or NULL
  nextId,   \* next AUTOINCREMENT id
  cookies,  \* name -> expiry of the cookie the user's browser holds, or NULL
  time,     \* the console's clock
  envUser,  \* PMCLUSTER_UI_USER
  pc, loc,  \* per request: next step, what it was sent and has read
  solo,     \* no two requests that change accounts have overlapped yet
  strayed   \* some request has changed an account it was not sent for

vars == <<users, nextId, cookies, time, envUser, pc, loc, solo, strayed>>
history == <<solo, strayed>>
-----------------------------------------------------------------------------
\* by: which of bootstrapUsers, the setup page and the accounts page made it.
Rows == [id : 1 .. MaxId, role : Roles, by : {"env", "setup", "admin"}]
ASSUME NullIsNoRow == NULL \notin Rows

Forms == [kind : {"create"}, name : Names, role : Roles]
           \union [kind : {"edit"}, id : 1 .. MaxId, role : Roles]
           \union [kind : {"remove"}, id : 1 .. MaxId]
           \union [kind : {"setup"}, name : Names]
Steps == {"idle", "look", "write", "insert"}
Locals == [me : Names \union {NULL}, form : Forms \union {NULL}, seen : Names \union {NULL}]
NoLocals == [me |-> NULL, form |-> NULL, seen |-> NULL]

RoleRank(role) == CASE role = "admin" -> 3 [] role = "operator" -> 2 [] OTHER -> 1

Accounts  == {n \in Names : users[n] # NULL}
Admins    == {n \in Accounts : users[n].role = "admin"}
InFlight  == {r \in Requests : pc[r] # "idle"}
NameOf(i) == {n \in Accounts : users[n].id = i}

\* The table with a new row.  The faulty variant numbers the rows after the last
\* one that is left, as SQLite does without AUTOINCREMENT.
ReusedRow(n, role, by) ==
  \E i \in 1 .. MaxId :
    /\ \A m \in Accounts : users[m].id < i
    /\ i = 1 \/ \E m \in Accounts : users[m].id = i - 1
    /\ users' = [users EXCEPT ![n] = [id |-> i, role |-> role, by |-> by]]
NewRow(n, role, by) ==
  users' = [users EXCEPT ![n] = [id |-> nextId, role |-> role, by |-> by]]

\* CreateEnvUser leaves an account of that name alone.
SeedEnvUser ==
  IF envUser = NULL \/ envUser \in Accounts
    THEN UNCHANGED <<users, nextId>>
    ELSE nextId <= MaxId /\ NewRow(envUser, "admin", "env") /\ nextId' = nextId + 1

Init ==
  /\ envUser \in EnvUsers
  /\ users = [n \in Names |-> IF n # envUser THEN NULL
                ELSE [id |-> 1, role |-> "admin", by |-> "env"]]
  /\ nextId = IF envUser = NULL THEN 1 ELSE 2
  /\ cookies = [n \in Names |-> NULL]
  /\ time = 0 /\ solo = TRUE /\ strayed = FALSE
  /\ pc = [r \in Requests |-> "idle"]
  /\ loc = [r \in Requests |-> NoLocals]
-----------------------------------------------------------------------------
\* The process is replaced: what was in flight is gone, bootstrapUsers runs.
Restart ==
  /\ SeedEnvUser
  /\ pc' = [r \in Requests |-> "idle"]
  /\ loc' = [r \in Requests |-> NoLocals]
  /\ UNCHANGED <<cookies, time, envUser, history>>

Tick == time < MaxTime /\ time' = time + 1
        /\ UNCHANGED <<users, nextId, cookies, envUser, pc, loc, history>>

Login(n) ==
  /\ n \in Accounts
  /\ cookies' = [cookies EXCEPT ![n] = time + Ttl]
  /\ UNCHANGED <<users, nextId, time, envUser, pc, loc, history>>

Logout(n) ==
  /\ cookies[n] # NULL
  /\ cookies' = [cookies EXCEPT ![n] = NULL]
  /\ UNCHANGED <<users, nextId, time, envUser, pc, loc, history>>
-----------------------------------------------------------------------------
Begin(r, step, l) ==
  /\ pc[r] = "idle"
  /\ pc' = [pc EXCEPT ![r] = step]
  /\ loc' = [loc EXCEPT ![r] = l]
  /\ solo' = (solo /\ InFlight = {})
End(r) ==
  /\ pc' = [pc EXCEPT ![r] = "idle"]
  /\ loc' = [loc EXCEPT ![r] = NoLocals]

\* Require and RequireRole: a cookie that has not expired, of an account that
\* exists, whose role of this moment suffices.
Signed(n)       == cookies[n] # NULL /\ time <= cookies[n]
Gate(n, minRole) == /\ Signed(n)
                    /\ n \in Accounts
                    /\ RoleRank(users[n].role) >= RoleRank(minRole)

Enter(r, n, form) ==
  /\ form.kind # "setup"
  /\ Gate(n, "admin")
  /\ Begin(r, IF form.kind = "create" THEN "insert" ELSE "look", 
           [NoLocals EXCEPT !.me = n, !.form = form])
  /\ UNCHANGED <<users, nextId, cookies, time, envUser, strayed>>

\* The faulty variant serves the setup page to whoever asks for it.
AlwaysSetup == TRUE
NeedSetup   == Accounts = {}

EnterSetup(r, form) ==
  /\ form.kind = "setup"
  /\ NeedSetup
  /\ Begin(r, "insert", [NoLocals EXCEPT !.form = form])
  /\ UNCHANGED <<users, nextId, cookies, time, envUser, strayed>>

\* CreateUser, for the accounts page and for the setup page, which signs the new
\* admin in; the name is UNIQUE.
Insert(r) ==
  LET form == loc[r].form
      setup == form.kind = "setup"
  IN  /\ pc[r] = "insert"
      /\ End(r)
      /\ IF form.name \in Accounts
           THEN UNCHANGED <<users, nextId, cookies>>
           ELSE /\ nextId <= MaxId
                /\ NewRow(form.name, IF setup THEN "admin" ELSE form.role,
                          IF setup THEN "setup" ELSE "admin")
                /\ nextId' = nextId + 1
                /\ cookies' = IF setup THEN [cookies EXCEPT ![form.name] = time + Ttl]
                                       ELSE cookies
      /\ UNCHANGED <<time, envUser, history>>

\* What the accounts page refuses of a request for the account named n.  The
\* faulty variant lets users demote themselves.
MayDemoteSelf(me, n, form) ==
  form.kind = "remove" /\ (me = n \/ users[n].role = "admin")
Refused(me, n, form) ==
  \/ form.kind = "edit"   /\ me = n /\ form.role # "admin"
  \/ form.kind = "remove" /\ (me = n \/ users[n].role = "admin")

\* GetByID, then the guards.
Look(r) ==
  LET l == loc[r]
      passed == {n \in NameOf(l.form.id) : ~Refused(l.me, n, l.form)}
  IN  /\ pc[r] = "look"
      /\ \/ \E n \in passed : /\ pc' = [pc EXCEPT ![r] = "write"]
                              /\ loc' = [loc EXCEPT ![r].seen = n]
         \/ passed = {} /\ End(r)
      /\ UNCHANGED <<users, nextId, cookies, time, envUser, history>>

\* UpdateUser or DeleteUser, both by id.
Write(r) ==
  LET l == loc[r]
      hit == NameOf(l.form.id)
  IN  /\ pc[r] = "write"
      /\ End(r)
      /\ users' = [n \in Names |->
                    IF n \notin hit THEN users[n]
                    ELSE IF l.form.kind = "remove" THEN NULL
                    ELSE [users[n] EXCEPT !.role = l.form.role]]
      /\ strayed' = (strayed \/ ~ hit \subseteq {l.seen})
      /\ UNCHANGED <<nextId, cookies, time, envUser, solo>>

Next ==
  \/ Restart \/ Tick
  \/ \E n \in Names : Login(n) \/ Logout(n)
  \/ \E r \in Requests :
       \/ \E n \in Names, form \in Forms : Enter(r, n, form)
       \/ \E form \in Forms : EnterSetup(r, form)
       \/ Insert(r) \/ Look(r) \/ Write(r)

Spec == Init /\ [][Next]_vars
-----------------------------------------------------------------------------
\* The table, the cookies and what the requests hold are of the right shape, and
\* no two accounts share an id.
TypeOK ==
  /\ users \in [Names -> Rows \union {NULL}] /\ nextId \in 1 .. MaxId + 1
  /\ cookies \in [Names -> (0 .. MaxTime + Ttl) \union {NULL}]
  /\ time \in 0 .. MaxTime /\ envUser \in EnvUsers /\ solo \in BOOLEAN /\ strayed \in BOOLEAN
  /\ pc \in [Requests -> Steps] /\ loc \in [Requests -> Locals]
  /\ \A m, n \in Accounts : users[m].id = users[n].id => m = n
  /\ \A n \in Accounts : users[n].id < nextId

\* As long as no two requests that change accounts overlap, a console that has an
\* administrator keeps one: neither an edit nor a removal, whatever the role of
\* whom it hits, and no restart takes the last one away (users.go, EditSave and
\* Remove; the store itself has no such guard).
AdminKept == [][solo' /\ Admins # {} => Admins' # {}]_vars

\* The setup page makes one account in the life of a console, and only for a console
\* that has none: it does not open again as long as requests do not overlap (auth.go,
\* needSetup and Setup).
SetupOnce ==
  solo => /\ Cardinality({n \in Accounts : users[n].by = "setup"}) <= 1
          /\ \A n \in Accounts : users[n].by = "setup" => users[n].id = 1

\* A request changes the account it has looked at or none: that account may be gone
\* when the statement runs, and others have been created since (UpdateUser and
\* DeleteUser, by id).
EditsHitTheirTarget == ~strayed
=============================================================================
