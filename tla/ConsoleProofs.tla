---------------------------- MODULE ConsoleProofs ----------------------------
(***************************************************************************)
(* Who administers the console, for any names, requests, roles and         *)
(* lifetimes: an edit or removal hits the account it was sent for however  *)
(* requests overlap, and as long as they do not, the setup page makes one  *)
(* account and an administrator stays.  And the credentials of the node,   *)
(* however commands overlap, fail and are killed: the token the console    *)
(* holds is the one the daemon accepts, and a rotation that no command ran *)
(* beside has put its password everywhere.                                 *)
(***************************************************************************)
EXTENDS Console, Credentials, FiniteSetTheorems, TLAPS

-----------------------------------------------------------------------------
(* The inductive invariants *)

\* What a request was sent and has read, by the step it is at.
FormOK(r) ==
  /\ pc[r] \in {"look", "write"} =>
       loc[r].me \in Names /\ loc[r].form \in Forms /\ loc[r].form.kind \in {"edit", "remove"}
  /\ pc[r] = "insert" =>
       /\ loc[r].form \in Forms /\ loc[r].form.kind \in {"create", "setup"}
       /\ loc[r].form.kind = "create" => loc[r].me \in Names
  /\ pc[r] = "write" => loc[r].seen \in Names

TypeInv == TypeOK /\ \A r \in Requests : FormOK(r)

\* A request about to write has looked at the only account its id can name, now
\* or later: AUTOINCREMENT never hands out a number twice.
Aimed(r) ==
  pc[r] = "write" => /\ loc[r].form.id < nextId
                     /\ NameOf(loc[r].form.id) \subseteq {loc[r].seen}

\* What the only request in flight may still rely on.
Trusts(r) ==
  /\ loc[r].form.kind = "setup" => Accounts = {}
  /\ loc[r].form.kind # "setup" => loc[r].me \in Admins
  /\ pc[r] = "write" => ~Refused(loc[r].me, loc[r].seen, loc[r].form)
                        /\ loc[r].seen \in NameOf(loc[r].form.id)

\* As long as requests have not overlapped, one is in flight at most, a console
\* that ever had an account has an administrator, and what the setup page made
\* was the first account.
SoloInv ==
  solo => /\ \A q, r \in InFlight : q = r
          /\ \A r \in InFlight : Trusts(r)
          /\ nextId > 1 => Admins # {}
          /\ \A n \in Accounts : users[n].by = "setup" => users[n].id = 1

IInv == TypeInv /\ ~strayed /\ (\A r \in Requests : Aimed(r)) /\ SoloInv

-----------------------------------------------------------------------------
(* Types *)

\* A form by its kind.
LEMMA FormShape ==
  ASSUME NEW form \in Forms
  PROVE  /\ form.kind \in {"create", "edit", "remove", "setup"}
         /\ form.kind \in {"create", "setup"} => form.name \in Names
         /\ form.kind \in {"create", "edit"} => form.role \in Roles
         /\ form.kind \in {"edit", "remove"} => form.id \in 1 .. MaxId
  BY DEF Forms

LEMMA LocalsType ==
  /\ NoLocals \in Locals /\ NoLocals.me = NULL /\ NoLocals.form = NULL
  /\ \A n \in Names, form \in Forms :
        /\ [NoLocals EXCEPT !.me = n, !.form = form] \in Locals
        /\ [NoLocals EXCEPT !.me = n, !.form = form].me = n
        /\ [NoLocals EXCEPT !.me = n, !.form = form].form = form
  /\ \A form \in Forms :
        /\ [NoLocals EXCEPT !.form = form] \in Locals
        /\ [NoLocals EXCEPT !.form = form].form = form
  BY DEF NoLocals, Locals

\* The table with a row under the next number is a table.
LEMMA RowAdded ==
  ASSUME TypeOK, NEW n \in Names, n \notin Accounts, nextId <= MaxId,
         NEW role \in Roles, NEW by \in {"env", "setup", "admin"},
         NewRow(n, role, by), nextId' = nextId + 1
  PROVE  /\ users' \in [Names -> Rows \union {NULL}] /\ nextId' \in 1 .. MaxId + 1
         /\ Accounts' = Accounts \union {n}
         /\ users'[n].id = nextId /\ users'[n].role = role /\ users'[n].by = by
         /\ \A m \in Accounts : users'[m] = users[m] /\ m # n
         /\ \A l, m \in Accounts' : users'[l].id = users'[m].id => l = m
         /\ \A m \in Accounts' : users'[m].id < nextId'
<1> DEFINE account == [id |-> nextId, role |-> role, by |-> by]
<1>1. /\ account \in Rows /\ account # NULL
      /\ account.id = nextId /\ account.role = role /\ account.by = by
  BY NullIsNoRow, ConsoleConstants DEF TypeOK, Rows
<1>2. users' = [users EXCEPT ![n] = account]
  BY DEF NewRow
<1> HIDE DEF account
<1>3. /\ users' \in [Names -> Rows \union {NULL}] /\ users'[n] = account
      /\ \A m \in Names \ {n} : users'[m] = users[m]
  BY <1>1, <1>2 DEF TypeOK
<1>4. Accounts' = Accounts \union {n}
  BY <1>1, <1>3 DEF Accounts
<1>5. /\ \A m \in Accounts : users'[m] = users[m] /\ m # n
      /\ \A m \in Accounts : users[m].id \in Nat /\ users[m].id < nextId
      /\ nextId \in Nat /\ MaxId \in Nat
  BY <1>3, ConsoleConstants DEF Accounts, TypeOK, Rows
<1>6. \A l, m \in Accounts' : users'[l].id = users'[m].id => l = m
  BY <1>1, <1>3, <1>4, <1>5 DEF TypeOK
<1>7. nextId' \in 1 .. MaxId + 1 /\ \A m \in Accounts' : users'[m].id < nextId'
  BY <1>1, <1>3, <1>4, <1>5
<1>8. QED
  BY <1>1, <1>3, <1>4, <1>5, <1>6, <1>7

\* Write changes rows it finds by id: it takes accounts away or gives them a
\* role, and touches no id and no creator.
LEMMA RowsWritten ==
  ASSUME TypeInv, NEW r \in Requests, Write(r)
  PROVE  /\ users' \in [Names -> Rows \union {NULL}]
         /\ \A n \in Names \ NameOf(loc[r].form.id) : users'[n] = users[n]
         /\ Accounts' \subseteq Accounts
         /\ \A n \in Accounts' : users'[n].id = users[n].id /\ users'[n].by = users[n].by
         /\ loc[r].form.kind = "edit" =>
              \A n \in NameOf(loc[r].form.id) : n \in Accounts' /\ users'[n].role = loc[r].form.role
<1> DEFINE form == loc[r].form
           hit == NameOf(form.id)
<1>1. form \in Forms /\ form.kind \in {"edit", "remove"}
  BY DEF TypeInv, FormOK, Write
<1>2. form.kind = "edit" => form.role \in Roles
  BY <1>1, FormShape
<1>3. users' = [n \in Names |-> IF n \notin hit THEN users[n]
                                ELSE IF form.kind = "remove" THEN NULL
                                ELSE [users[n] EXCEPT !.role = form.role]]
  BY DEF Write
<1>4. \A n \in hit : users[n] \in Rows /\ n \in Names
  BY DEF NameOf, Accounts, TypeInv, TypeOK
<1>5. ASSUME NEW n \in hit, form.kind = "edit"
      PROVE  LET account == [users[n] EXCEPT !.role = form.role]
             IN  account \in Rows /\ account # NULL /\ account.id = users[n].id
                 /\ account.by = users[n].by /\ account.role = form.role
  BY <1>2, <1>4, <1>5, NullIsNoRow DEF Rows
<1>6. users \in [Names -> Rows \union {NULL}]
  BY DEF TypeInv, TypeOK
<1> HIDE DEF hit, form
<1>7. users' \in [Names -> Rows \union {NULL}]
  BY <1>1, <1>3, <1>4, <1>5, <1>6
<1>8. Accounts' \subseteq Accounts
  BY <1>3, <1>4, NullIsNoRow DEF Accounts
<1>9. \A n \in Accounts' : users'[n].id = users[n].id /\ users'[n].by = users[n].by
  BY <1>1, <1>3, <1>5 DEF Accounts
<1>10. form.kind = "edit" => \A n \in hit : n \in Accounts' /\ users'[n].role = form.role
  BY <1>3, <1>4, <1>5 DEF Accounts
<1>11. QED
  BY <1>3, <1>7, <1>8, <1>9, <1>10 DEF hit, form

\* What the steps of a request do to the others and to itself.
LEMMA BeginTypes ==
  ASSUME TypeInv, NEW r \in Requests, NEW entry \in {"look", "insert"}, NEW l \in Locals,
         Begin(r, entry, l), l.form \in Forms,
         entry = "look" => l.me \in Names /\ l.form.kind \in {"edit", "remove"},
         entry = "insert" => /\ l.form.kind \in {"create", "setup"}
                             /\ l.form.kind = "create" => l.me \in Names
  PROVE  /\ pc' \in [Requests -> Steps] /\ loc' \in [Requests -> Locals]
         /\ \A q \in Requests : FormOK(q)' /\ solo' \in BOOLEAN
<1>1. pc' = [pc EXCEPT ![r] = entry] /\ loc' = [loc EXCEPT ![r] = l]
  BY DEF Begin
<1>2. /\ pc' \in [Requests -> Steps] /\ loc' \in [Requests -> Locals]
      /\ pc'[r] = entry /\ loc'[r] = l
      /\ \A q \in Requests \ {r} : pc'[q] = pc[q] /\ loc'[q] = loc[q]
  BY <1>1 DEF TypeInv, TypeOK, Steps
<1>3. \A q \in Requests : FormOK(q)'
  BY <1>2 DEF TypeInv, FormOK
<1>4. solo' \in BOOLEAN
  BY DEF Begin, TypeInv, TypeOK
<1>5. QED
  BY <1>2, <1>3, <1>4

LEMMA EndTypes ==
  ASSUME TypeInv, NEW r \in Requests, End(r)
  PROVE  /\ pc' \in [Requests -> Steps] /\ loc' \in [Requests -> Locals]
         /\ pc'[r] = "idle"
         /\ \A q \in Requests \ {r} : pc'[q] = pc[q] /\ loc'[q] = loc[q]
         /\ \A q \in Requests : FormOK(q)'
<1>1. /\ pc' \in [Requests -> Steps] /\ loc' \in [Requests -> Locals] /\ pc'[r] = "idle"
      /\ \A q \in Requests \ {r} : pc'[q] = pc[q] /\ loc'[q] = loc[q]
  BY LocalsType DEF End, TypeInv, TypeOK, Steps
<1>2. \A q \in Requests : FormOK(q)'
  BY <1>1 DEF TypeInv, FormOK
<1>3. QED
  BY <1>1, <1>2

LEMMA TypeInvInductive == TypeInv /\ [Next]_vars => TypeInv'
<1> SUFFICES ASSUME TypeInv, [Next]_vars PROVE TypeInv'
  OBVIOUS
<1>0. TypeOK
  BY DEF TypeInv
<1>1. CASE Restart
  <2>1. /\ pc' \in [Requests -> Steps] /\ loc' \in [Requests -> Locals]
        /\ \A q \in Requests : FormOK(q)'
    BY <1>1, LocalsType DEF Restart, Steps, FormOK
  <2>2. UNCHANGED <<cookies, time, envUser, solo, strayed>>
    BY <1>1 DEF Restart, history
  <2>3. CASE UNCHANGED <<users, nextId>>
    BY <1>0, <2>1, <2>2, <2>3 DEF TypeInv, TypeOK, Accounts
  <2>4. CASE envUser \in Names \ Accounts /\ NewRow(envUser, "admin", "env")
             /\ nextId <= MaxId /\ nextId' = nextId + 1
    BY <1>0, <2>1, <2>2, <2>4, RowAdded, ConsoleConstants DEF TypeInv, TypeOK
  <2>5. QED
    BY <1>0, <1>1, <2>3, <2>4, ConsoleConstants DEF Restart, SeedEnvUser, TypeOK
<1>2. CASE Tick
  BY <1>0, <1>2, ConsoleConstants
     DEF Tick, history, TypeInv, TypeOK, Accounts, FormOK
<1>3. ASSUME NEW n \in Names, Login(n) \/ Logout(n)
      PROVE  TypeInv'
  <2>1. time + Ttl \in 0 .. MaxTime + Ttl
    BY <1>0, ConsoleConstants DEF TypeOK
  <2>2. cookies' \in [Names -> (0 .. MaxTime + Ttl) \union {NULL}]
    BY <1>0, <1>3, <2>1 DEF Login, Logout, TypeOK
  <2>3. QED
    BY <1>0, <1>3, <2>2
       DEF Login, Logout, history, TypeInv, TypeOK, Accounts, FormOK
<1>4. ASSUME NEW r \in Requests, NEW n \in Names, NEW form \in Forms, Enter(r, n, form)
      PROVE  TypeInv'
  <2>1. form.kind \in {"create", "edit", "remove"}
    BY <1>4, FormShape DEF Enter
  <2> DEFINE l == [NoLocals EXCEPT !.me = n, !.form = form]
             entry == IF form.kind = "create" THEN "insert" ELSE "look"
  <2>2. l \in Locals /\ l.me = n /\ l.form = form
    BY LocalsType
  <2>3. Begin(r, entry, l) /\ entry \in {"look", "insert"}
    BY <1>4 DEF Enter
  <2>4. /\ pc' \in [Requests -> Steps] /\ loc' \in [Requests -> Locals]
        /\ \A q \in Requests : FormOK(q)' /\ solo' \in BOOLEAN
    <3>1. /\ entry = "look" => form.kind \in {"edit", "remove"}
          /\ entry = "insert" => form.kind = "create"
      BY <2>1
    <3> HIDE DEF l, entry
    <3>2. QED
      BY <2>2, <2>3, <3>1, BeginTypes
  <2>5. QED
    BY <1>0, <1>4, <2>4 DEF Enter, TypeInv, TypeOK, Accounts
<1>5. ASSUME NEW r \in Requests, NEW form \in Forms, EnterSetup(r, form)
      PROVE  TypeInv'
  <2>1. /\ pc' \in [Requests -> Steps] /\ loc' \in [Requests -> Locals]
        /\ \A q \in Requests : FormOK(q)' /\ solo' \in BOOLEAN
    <3> DEFINE l == [NoLocals EXCEPT !.form = form]
    <3>1. l \in Locals /\ l.form = form /\ Begin(r, "insert", l) /\ form.kind = "setup"
      BY <1>5, LocalsType DEF EnterSetup
    <3> HIDE DEF l
    <3>2. QED
      BY <3>1, BeginTypes
  <2>2. QED
    BY <1>0, <1>5, <2>1 DEF EnterSetup, TypeInv, TypeOK, Accounts
<1>6. ASSUME NEW r \in Requests, Insert(r)
      PROVE  TypeInv'
  <2> DEFINE form == loc[r].form
             setup == form.kind = "setup"
             role == IF setup THEN "admin" ELSE form.role
             by == IF setup THEN "setup" ELSE "admin"
  <2>1. /\ form \in Forms /\ form.kind \in {"create", "setup"} /\ form.name \in Names
        /\ role \in Roles /\ by \in {"env", "setup", "admin"}
    BY <1>6, FormShape, ConsoleConstants DEF Insert, TypeInv, FormOK
  <2>2. /\ pc' \in [Requests -> Steps] /\ loc' \in [Requests -> Locals]
        /\ \A q \in Requests : FormOK(q)'
    BY <1>6, EndTypes DEF Insert
  <2>3. UNCHANGED <<time, envUser, solo, strayed>>
    BY <1>6 DEF Insert, history
  <2>4. CASE UNCHANGED <<users, nextId, cookies>>
    BY <1>0, <2>2, <2>3, <2>4 DEF TypeInv, TypeOK, Accounts
  <2>5. CASE /\ form.name \notin Accounts /\ nextId <= MaxId
             /\ NewRow(form.name, role, by) /\ nextId' = nextId + 1
             /\ cookies' = IF setup THEN [cookies EXCEPT ![form.name] = time + Ttl]
                                    ELSE cookies
    <3>1. time + Ttl \in 0 .. MaxTime + Ttl
      BY <1>0, ConsoleConstants DEF TypeOK
    <3>2. cookies' \in [Names -> (0 .. MaxTime + Ttl) \union {NULL}]
      BY <1>0, <2>5, <3>1 DEF TypeOK
    <3> HIDE DEF form, setup, role, by
    <3>3. /\ users' \in [Names -> Rows \union {NULL}] /\ nextId' \in 1 .. MaxId + 1
          /\ \A l, m \in Accounts' : users'[l].id = users'[m].id => l = m
          /\ \A m \in Accounts' : users'[m].id < nextId'
      BY <1>0, <2>1, <2>5, RowAdded
    <3>4. QED
      BY <1>0, <2>2, <2>3, <3>2, <3>3 DEF TypeInv, TypeOK
  <2>6. QED
    BY <1>6, <2>4, <2>5 DEF Insert
<1>7. ASSUME NEW r \in Requests, Look(r)
      PROVE  TypeInv'
  <2>1. UNCHANGED <<users, nextId, cookies, time, envUser, solo, strayed>>
    BY <1>7 DEF Look, history
  <2>2. CASE End(r)
    BY <1>0, <2>1, <2>2, EndTypes DEF TypeInv, TypeOK, Accounts
  <2>3. ASSUME NEW n \in NameOf(loc[r].form.id), pc' = [pc EXCEPT ![r] = "write"],
               loc' = [loc EXCEPT ![r].seen = n]
        PROVE  TypeInv'
    <3>1. n \in Names /\ loc[r] \in Locals
      BY <1>0 DEF NameOf, Accounts, TypeOK
    <3>2. /\ pc' \in [Requests -> Steps] /\ loc' \in [Requests -> Locals]
          /\ pc'[r] = "write" /\ loc'[r].seen = n
          /\ loc'[r].me = loc[r].me /\ loc'[r].form = loc[r].form
          /\ \A q \in Requests \ {r} : pc'[q] = pc[q] /\ loc'[q] = loc[q]
      BY <1>0, <2>3, <3>1 DEF TypeOK, Steps, Locals
    <3>3. \A q \in Requests : FormOK(q)'
      BY <1>7, <3>1, <3>2 DEF TypeInv, FormOK, Look
    <3>4. QED
      BY <1>0, <2>1, <3>2, <3>3 DEF TypeInv, TypeOK, Accounts
  <2>4. QED
    BY <1>7, <2>2, <2>3 DEF Look
<1>8. ASSUME NEW r \in Requests, Write(r)
      PROVE  TypeInv'
  <2>1. /\ pc' \in [Requests -> Steps] /\ loc' \in [Requests -> Locals]
        /\ \A q \in Requests : FormOK(q)'
    BY <1>8, EndTypes DEF Write
  <2>2. UNCHANGED <<nextId, cookies, time, envUser, solo>> /\ strayed' \in BOOLEAN
    BY <1>0, <1>8 DEF Write, TypeOK
  <2>3. /\ \A m, n \in Accounts' : users'[m].id = users'[n].id => m = n
        /\ \A n \in Accounts' : users'[n].id < nextId
    BY <1>0, <1>8, RowsWritten DEF TypeOK
  <2>4. QED
    BY <1>0, <1>8, <2>1, <2>2, <2>3, RowsWritten DEF TypeInv, TypeOK
<1>9. CASE UNCHANGED vars
  BY <1>0, <1>9 DEF vars, TypeInv, TypeOK, Accounts, FormOK
<1>10. QED
  BY <1>1, <1>2, <1>3, <1>4, <1>5, <1>6, <1>7, <1>8, <1>9 DEF Next

LEMMA InitTypeInv == Init => TypeInv
<1> SUFFICES ASSUME Init PROVE TypeInv
  OBVIOUS
<1>1. [id |-> 1, role |-> "admin", by |-> "env"] \in Rows
  BY ConsoleConstants DEF Rows
<1>2. /\ users \in [Names -> Rows \union {NULL}] /\ nextId \in 1 .. MaxId + 1
      /\ \A n \in Accounts : n = envUser /\ users[n].id = 1 /\ nextId = 2
  BY <1>1, ConsoleConstants DEF Init, Accounts
<1>3. \A m, n \in Accounts : users[m].id = users[n].id => m = n
  BY <1>2
<1>4. \A n \in Accounts : users[n].id < nextId
  BY <1>2
<1>5. /\ pc \in [Requests -> Steps] /\ loc \in [Requests -> Locals]
      /\ \A r \in Requests : FormOK(r)
  BY LocalsType DEF Init, FormOK, Steps
<1>6. time \in 0 .. MaxTime /\ cookies \in [Names -> (0 .. MaxTime + Ttl) \union {NULL}]
  BY ConsoleConstants DEF Init
<1>7. QED
  BY <1>2, <1>3, <1>4, <1>5, <1>6 DEF Init, TypeInv, TypeOK

-----------------------------------------------------------------------------
(* How the table of accounts changes *)

\* A row for a name that has none, under the next number.
Added(n, role, by) == /\ n \in Names \ Accounts
                      /\ role \in Roles /\ by \in {"env", "setup", "admin"}
                      /\ nextId <= MaxId /\ NewRow(n, role, by) /\ nextId' = nextId + 1

\* bootstrapUsers, the setup page and the accounts page add rows; Write changes
\* or removes them; nothing else touches the table.
LEMMA TableEffect ==
  ASSUME TypeInv, [Next]_vars
  PROVE  \/ UNCHANGED <<users, nextId>>
         \/ Restart /\ Added(envUser, "admin", "env")
         \/ \E r \in Requests :
              \/ /\ Insert(r) /\ loc[r].form.kind = "setup"
                 /\ Added(loc[r].form.name, "admin", "setup")
              \/ /\ Insert(r) /\ loc[r].form.kind = "create"
                 /\ Added(loc[r].form.name, loc[r].form.role, "admin")
              \/ Write(r)
<1>1. CASE Restart
  BY <1>1, ConsoleConstants
     DEF Restart, SeedEnvUser, Added, TypeInv, TypeOK
<1>2. ASSUME NEW r \in Requests, Insert(r)
      PROVE  \/ UNCHANGED <<users, nextId>>
             \/ /\ loc[r].form.kind = "setup"
                /\ Added(loc[r].form.name, "admin", "setup")
             \/ /\ loc[r].form.kind = "create"
                /\ Added(loc[r].form.name, loc[r].form.role, "admin")
  <2>1. /\ loc[r].form \in Forms /\ loc[r].form.kind \in {"create", "setup"}
    BY <1>2 DEF Insert, TypeInv, FormOK
  <2>2. /\ loc[r].form.name \in Names
        /\ loc[r].form.kind = "create" => loc[r].form.role \in Roles
    BY <2>1, FormShape
  <2>3. QED
    BY <1>2, <2>1, <2>2, ConsoleConstants DEF Insert, Added
<1>3. ASSUME Next, ~Restart, ~\E r \in Requests : Insert(r) \/ Write(r)
      PROVE  UNCHANGED <<users, nextId>>
  BY <1>3 DEF Next, Tick, Login, Logout, Enter, EnterSetup, Look
<1>4. QED
  BY <1>1, <1>2, <1>3 DEF vars

LEMMA AddedEffect ==
  ASSUME TypeInv, NEW n, NEW role, NEW by, Added(n, role, by)
  PROVE  /\ n \in Names \ Accounts /\ Accounts' = Accounts \union {n}
         /\ users'[n].id = nextId /\ users'[n].role = role /\ users'[n].by = by
         /\ \A m \in Accounts : users'[m] = users[m] /\ m # n
         /\ nextId \in Nat /\ nextId' = nextId + 1
<1>1. /\ TypeOK /\ nextId \in Nat /\ nextId <= MaxId
      /\ n \in Names /\ n \notin Accounts
      /\ role \in Roles /\ by \in {"env", "setup", "admin"}
      /\ NewRow(n, role, by) /\ nextId' = nextId + 1
  BY DEF Added, TypeInv, TypeOK
<1>2. /\ n \in Names /\ n \notin Accounts /\ Accounts' = Accounts \union {n}
      /\ users'[n].id = nextId /\ users'[n].role = role /\ users'[n].by = by
      /\ \A m \in Accounts : users'[m] = users[m] /\ m # n
      /\ nextId' = nextId + 1
  BY <1>1, RowAdded
<1>3. QED
  BY <1>1, <1>2

\* A number that was given out names no account later that it does not name now.
LEMMA NamesKept ==
  ASSUME TypeInv, [Next]_vars, NEW i \in Nat, i < nextId
  PROVE  NameOf(i)' \subseteq NameOf(i) /\ i < nextId'
<1>0. nextId \in Nat /\ nextId' \in Nat
  BY TypeInvInductive DEF TypeInv, TypeOK
<1>1. CASE UNCHANGED <<users, nextId>>
  BY <1>1 DEF NameOf, Accounts
<1>2. ASSUME NEW n, NEW role, NEW by, Added(n, role, by)
      PROVE  NameOf(i)' \subseteq NameOf(i) /\ i < nextId'
  <2>1. /\ users'[n].id = nextId /\ nextId' = nextId + 1
        /\ Accounts' = Accounts \union {n}
        /\ \A m \in Accounts : users'[m] = users[m]
    BY <1>2, AddedEffect
  <2>2. QED
    BY <1>0, <2>1 DEF NameOf
<1>3. ASSUME NEW r \in Requests, Write(r)
      PROVE  NameOf(i)' \subseteq NameOf(i) /\ i < nextId'
  BY <1>3, RowsWritten DEF NameOf, Write
<1>4. QED
  BY <1>1, <1>2, <1>3, TableEffect

\* Only its own steps move a request, but for a restart, which ends them all.
LEMMA RequestMoves ==
  ASSUME TypeInv, [Next]_vars, NEW r \in Requests
  PROVE  \/ pc'[r] = pc[r] /\ loc'[r] = loc[r]
         \/ pc'[r] = "idle"
         \/ Look(r) /\ pc'[r] = "write"
         \/ pc[r] = "idle" /\ pc'[r] \in {"look", "insert"}
<1>1. ASSUME NEW q \in Requests, Insert(q) \/ Write(q)
      PROVE  (pc'[r] = pc[r] /\ loc'[r] = loc[r]) \/ pc'[r] = "idle"
  BY <1>1, EndTypes DEF Insert, Write
<1>2. ASSUME NEW q \in Requests, Look(q)
      PROVE  \/ pc'[r] = pc[r] /\ loc'[r] = loc[r]
             \/ pc'[r] = "idle" \/ (Look(r) /\ pc'[r] = "write")
  BY <1>2, EndTypes DEF Look, TypeInv, TypeOK
<1>3. ASSUME NEW q \in Requests, NEW n \in Names, NEW form \in Forms,
             Enter(q, n, form) \/ EnterSetup(q, form)
      PROVE  \/ pc'[r] = pc[r] /\ loc'[r] = loc[r]
             \/ pc[r] = "idle" /\ pc'[r] \in {"look", "insert"}
  BY <1>3 DEF Enter, EnterSetup, Begin, TypeInv, TypeOK
<1>4. ASSUME NEW q \in Requests, NEW form \in Forms, EnterSetup(q, form)
      PROVE  \/ pc'[r] = pc[r] /\ loc'[r] = loc[r]
             \/ pc[r] = "idle" /\ pc'[r] \in {"look", "insert"}
  BY <1>4 DEF EnterSetup, Begin, TypeInv, TypeOK
<1>5. QED
  BY <1>1, <1>2, <1>3, <1>4 DEF Next, Restart, Tick, Login, Logout, vars

-----------------------------------------------------------------------------
(* An edit or removal hits the account it was sent for *)

LEMMA AimedInductive ==
  ASSUME TypeInv, NEW r \in Requests, Aimed(r), [Next]_vars
  PROVE  Aimed(r)'
<1> SUFFICES ASSUME pc'[r] = "write"
             PROVE  /\ loc'[r].form.id < nextId'
                    /\ NameOf(loc[r].form.id)' \subseteq {loc'[r].seen}
  BY DEF Aimed
<1>1. CASE pc'[r] = pc[r] /\ loc'[r] = loc[r]
  <2>1. PICK i \in Nat : i = loc[r].form.id
    BY <1>1, FormShape, ConsoleConstants DEF TypeInv, FormOK
  <2>2. i < nextId /\ NameOf(i) \subseteq {loc[r].seen}
    BY <1>1, <2>1 DEF Aimed
  <2>3. NameOf(i)' \subseteq NameOf(i) /\ i < nextId'
    BY <2>2, NamesKept
  <2>4. loc'[r].form.id = i
    BY <1>1, <2>1
  <2>5. QED
    BY <1>1, <2>2, <2>3, <2>4 DEF NameOf
<1>2. CASE Look(r)
  <2>1. PICK n \in NameOf(loc[r].form.id) : loc' = [loc EXCEPT ![r].seen = n]
    BY <1>2, EndTypes DEF Look
  <2>2. loc'[r].seen = n /\ loc'[r].form = loc[r].form /\ UNCHANGED <<users, nextId>>
    BY <1>2, <2>1 DEF Look, TypeInv, TypeOK, Locals
  <2>3. NameOf(loc[r].form.id) \subseteq {n} /\ loc[r].form.id < nextId
    BY <2>1 DEF NameOf, TypeInv, TypeOK
  <2>4. QED
    BY <2>2, <2>3 DEF NameOf, Accounts
<1>3. QED
  BY <1>1, <1>2, RequestMoves

LEMMA StrayedInductive ==
  ASSUME TypeInv, \A r \in Requests : Aimed(r), ~strayed, [Next]_vars
  PROVE  ~strayed'
<1>1. ASSUME NEW r \in Requests, Write(r)
      PROVE  ~strayed'
  BY <1>1 DEF Write, Aimed
<1>2. QED
  BY <1>1 DEF Next, Restart, Tick, Login, Logout, Enter, EnterSetup, Insert,
              Look, history, vars

-----------------------------------------------------------------------------
(* Requests that do not overlap *)

\* A role that ranks with the administrator's is the administrator's.
LEMMA GateIsAdmin ==
  ASSUME TypeInv, NEW n \in Names, Gate(n, "admin")
  PROVE  n \in Admins
<1>1. n \in Accounts /\ users[n].role \in {"admin", "operator", "viewer"}
  BY ConsoleConstants DEF Gate, Accounts, TypeInv, TypeOK, Rows
<1>2. RoleRank(users[n].role) >= RoleRank("admin")
  BY DEF Gate
<1>3. users[n].role = "admin"
  BY <1>1, <1>2 DEF RoleRank
<1>4. QED
  BY <1>1, <1>3 DEF Admins

\* Write takes neither the last administrator nor the one who sent it: the
\* guards of EditSave and Remove still hold of what it hits.
LEMMA WriteKeepsAdmins ==
  ASSUME TypeInv, NEW r \in Requests, Write(r), Aimed(r), Trusts(r)
  PROVE  Admins' # {}
<1> DEFINE me == loc[r].me
           form == loc[r].form
           n == loc[r].seen
<1>1. /\ form.kind \in {"edit", "remove"} /\ me \in Names /\ pc[r] = "write"
  BY DEF Write, TypeInv, FormOK
<1>2. /\ me \in Admins /\ ~Refused(me, n, form) /\ NameOf(form.id) = {n}
  BY <1>1 DEF Trusts, Aimed
<1>3. CASE me # n
  <2>1. users'[me] = users[me]
    BY <1>1, <1>2, <1>3, RowsWritten
  <2>2. QED
    BY <1>2, <2>1 DEF Admins, Accounts
<1>4. CASE me = n
  <2>1. form.kind = "edit" /\ form.role = "admin"
    BY <1>1, <1>2, <1>4 DEF Refused
  <2>2. n \in Accounts' /\ users'[n].role = "admin"
    BY <1>2, <2>1, RowsWritten
  <2>3. QED
    BY <2>2 DEF Admins
<1>5. QED
  BY <1>3, <1>4

\* A request that has ended while it was alone leaves none in flight.
LEMMA EndedAlone ==
  ASSUME TypeInv, SoloInv, solo, NEW r \in Requests, pc[r] # "idle", End(r)
  PROVE  InFlight' = {}
<1>1. \A q \in Requests \ {r} : pc[q] = "idle"
  BY DEF SoloInv, InFlight
<1>2. QED
  BY <1>1, EndTypes DEF InFlight

\* The two facts about the table of SoloInv, for a step under which requests still have
\* not overlapped.
LEMMA SoloTable ==
  ASSUME TypeInv, SoloInv, \A r \in Requests : Aimed(r), solo, [Next]_vars
  PROVE  /\ nextId' > 1 => Admins' # {}
         /\ Admins # {} => Admins' # {}
         /\ \A n \in Accounts' : users'[n].by = "setup" => users'[n].id = 1
<1>0. nextId \in 1 .. MaxId + 1 /\ MaxId \in Nat
  BY ConsoleConstants DEF TypeInv, TypeOK
<1>1. CASE UNCHANGED <<users, nextId>>
  BY <1>1 DEF SoloInv, Admins, Accounts
<1>2. ASSUME Restart, Added(envUser, "admin", "env")
      PROVE  /\ Admins' # {}
             /\ \A n \in Accounts' : users'[n].by = "setup" => users'[n].id = 1
  <2>1. /\ Accounts' = Accounts \union {envUser}
        /\ users'[envUser].role = "admin" /\ users'[envUser].by = "env"
        /\ \A m \in Accounts : users'[m] = users[m]
    BY <1>2, AddedEffect
  <2>2. QED
    BY <2>1 DEF SoloInv, Admins
<1>3. ASSUME NEW r \in Requests, Insert(r), loc[r].form.kind = "setup",
             Added(loc[r].form.name, "admin", "setup")
      PROVE  /\ Admins' # {}
             /\ \A n \in Accounts' : users'[n].by = "setup" => users'[n].id = 1
  <2> DEFINE n == loc[r].form.name
  <2>1. /\ Accounts' = Accounts \union {n}
        /\ users'[n].role = "admin" /\ users'[n].id = nextId
    BY <1>3, AddedEffect
  <2>2. Accounts = {}
    BY <1>3 DEF SoloInv, InFlight, Trusts, Insert
  <2>3. nextId = 1
    BY <1>0, <2>2 DEF SoloInv, Admins
  <2> HIDE DEF n
  <2>4. Accounts' = {n} /\ n \in Admins'
    BY <2>1, <2>2 DEF Admins
  <2>5. QED
    BY <2>1, <2>3, <2>4
<1>4. ASSUME NEW r \in Requests, Insert(r), loc[r].form.kind = "create",
             Added(loc[r].form.name, loc[r].form.role, "admin")
      PROVE  /\ Admins' # {}
             /\ \A n \in Accounts' : users'[n].by = "setup" => users'[n].id = 1
  <2> DEFINE n == loc[r].form.name
  <2>1. /\ Accounts' = Accounts \union {n} /\ users'[n].by = "admin"
        /\ \A m \in Accounts : users'[m] = users[m]
    BY <1>4, AddedEffect
  <2>2. loc[r].me \in Admins
    BY <1>4 DEF SoloInv, InFlight, Trusts, Insert
  <2>3. QED
    BY <2>1, <2>2 DEF SoloInv, Admins
<1>5. ASSUME NEW r \in Requests, Write(r)
      PROVE  /\ Admins' # {}
             /\ \A n \in Accounts' : users'[n].by = "setup" => users'[n].id = 1
  <2>1. Trusts(r)
    BY <1>5 DEF SoloInv, InFlight, Write
  <2>2. QED
    BY <1>5, <2>1, WriteKeepsAdmins, RowsWritten DEF SoloInv
<1>6. QED
  BY <1>1, <1>2, <1>3, <1>4, <1>5, TableEffect

\* What the only request in flight trusts.
LEMMA SoloTrust ==
  ASSUME TypeInv, SoloInv, [Next]_vars, solo'
  PROVE  /\ solo
         /\ \A q, r \in InFlight' : q = r
         /\ \A r \in InFlight' : Trusts(r)'
<1>0. solo
  BY DEF Next, Restart, Tick, Login, Logout, Enter, EnterSetup, Begin, Insert,
         Look, Write, history, vars, TypeInv, TypeOK
<1>1. CASE Restart
  BY <1>0, <1>1 DEF Restart, InFlight
<1>2. CASE Tick \/ (\E n \in Names : Login(n) \/ Logout(n)) \/ UNCHANGED vars
  <2>1. UNCHANGED <<users, pc, loc>>
    BY <1>2 DEF Tick, Login, Logout, vars
  <2>2. QED
    BY <1>0, <2>1 DEF SoloInv, InFlight, Trusts, Refused, NameOf, Admins, Accounts
<1>3. ASSUME NEW r \in Requests, NEW n \in Names, NEW form \in Forms, Enter(r, n, form)
      PROVE  /\ \A p, q \in InFlight' : p = q
             /\ \A q \in InFlight' : Trusts(q)'
  <2> DEFINE l == [NoLocals EXCEPT !.me = n, !.form = form]
             entry == IF form.kind = "create" THEN "insert" ELSE "look"
  <2>1. /\ Begin(r, entry, l) /\ form.kind # "setup" /\ UNCHANGED users
        /\ Gate(n, "admin")
    BY <1>3 DEF Enter
  <2>2. l.me = n /\ l.form = form /\ entry # "write" /\ entry # "idle"
    BY LocalsType
  <2> HIDE DEF l, entry
  <2>3. /\ InFlight = {} /\ loc'[r] = l /\ pc'[r] = entry
        /\ \A q \in Requests \ {r} : pc'[q] = pc[q]
    BY <2>1 DEF Begin, TypeInv, TypeOK
  <2>4. \A q \in InFlight' : q = r
    BY <2>3 DEF InFlight
  <2>5. n \in Admins
    BY <2>1, GateIsAdmin
  <2>6. Trusts(r)'
    BY <2>1, <2>2, <2>3, <2>5 DEF Trusts, Admins, Accounts
  <2>7. QED
    BY <2>4, <2>6
<1>4. ASSUME NEW r \in Requests, NEW form \in Forms, EnterSetup(r, form)
      PROVE  /\ \A p, q \in InFlight' : p = q
             /\ \A q \in InFlight' : Trusts(q)'
  <2> DEFINE l == [NoLocals EXCEPT !.form = form]
  <2>1. /\ Begin(r, "insert", l) /\ form.kind = "setup" /\ UNCHANGED users
        /\ Accounts = {}
    BY <1>4 DEF EnterSetup, NeedSetup
  <2>2. l.form = form
    BY LocalsType
  <2> HIDE DEF l
  <2>3. /\ InFlight = {} /\ loc'[r] = l /\ pc'[r] = "insert"
        /\ \A q \in Requests \ {r} : pc'[q] = pc[q]
    BY <2>1 DEF Begin, TypeInv, TypeOK
  <2>4. \A q \in InFlight' : q = r
    BY <2>3 DEF InFlight
  <2>5. Trusts(r)'
    BY <2>1, <2>2, <2>3 DEF Trusts, Accounts
  <2>6. QED
    BY <2>4, <2>5
<1>5. ASSUME NEW r \in Requests, Insert(r) \/ Write(r)
      PROVE  InFlight' = {}
  BY <1>0, <1>5, EndedAlone DEF Insert, Write
<1>6. ASSUME NEW r \in Requests, Look(r)
      PROVE  /\ \A p, q \in InFlight' : p = q
             /\ \A q \in InFlight' : Trusts(q)'
  <2>1. CASE End(r)
    BY <1>0, <1>6, <2>1, EndedAlone DEF Look
  <2>2. ASSUME NEW n \in NameOf(loc[r].form.id), ~Refused(loc[r].me, n, loc[r].form),
               pc' = [pc EXCEPT ![r] = "write"], loc' = [loc EXCEPT ![r].seen = n]
        PROVE  /\ \A p, q \in InFlight' : p = q
               /\ \A q \in InFlight' : Trusts(q)'
    <3>1. r \in InFlight /\ Trusts(r) /\ loc[r].form.kind \in {"edit", "remove"}
      BY <1>0, <1>6 DEF Look, InFlight, SoloInv, TypeInv, FormOK
    <3>2. /\ loc'[r].seen = n /\ loc'[r].me = loc[r].me /\ loc'[r].form = loc[r].form
          /\ \A q \in Requests \ {r} : pc'[q] = pc[q]
          /\ UNCHANGED users
      BY <1>6, <2>2 DEF Look, TypeInv, TypeOK, Locals
    <3>3. \A q \in InFlight' : q = r
      BY <1>0, <3>1, <3>2 DEF InFlight, SoloInv
    <3>4. Trusts(r)'
      BY <2>2, <3>1, <3>2 DEF Trusts, Refused, NameOf, Admins, Accounts
    <3>5. QED
      BY <3>3, <3>4
  <2>3. QED
    BY <1>6, <2>1, <2>2 DEF Look
<1>7. QED
  BY <1>0, <1>1, <1>2, <1>3, <1>4, <1>5, <1>6 DEF Next

-----------------------------------------------------------------------------
(* The invariant and what follows from it *)

LEMMA InitIInv == Init => IInv
<1> SUFFICES ASSUME Init PROVE IInv
  OBVIOUS
<1>1. TypeInv
  BY InitTypeInv
<1>2. \A r \in Requests : pc[r] = "idle"
  BY DEF Init
<1>3. /\ ~strayed
      /\ \A r \in Requests : Aimed(r)
      /\ InFlight = {}
  BY <1>2 DEF Init, Aimed, InFlight
<1>4. nextId > 1 => Admins # {}
  <2> SUFFICES ASSUME envUser # NULL PROVE envUser \in Admins
    BY DEF Init
  <2> DEFINE account == [id |-> 1, role |-> "admin", by |-> "env"]
  <2>1. account \in Rows /\ account.role = "admin"
    BY ConsoleConstants DEF Rows
  <2>2. envUser \in Names /\ users[envUser] = account
    BY ConsoleConstants DEF Init
  <2> HIDE DEF account
  <2>3. QED
    BY <2>1, <2>2, NullIsNoRow DEF Admins, Accounts
<1>5. \A n \in Accounts : users[n].by # "setup"
  BY DEF Init, Accounts
<1>6. QED
  BY <1>1, <1>3, <1>4, <1>5 DEF IInv, SoloInv

LEMMA IInvInductive == IInv /\ [Next]_vars => IInv'
<1> SUFFICES ASSUME IInv, [Next]_vars PROVE IInv'
  OBVIOUS
<1>1. TypeInv'
  BY TypeInvInductive DEF IInv
<1>2. (\A r \in Requests : Aimed(r))' /\ ~strayed'
  BY AimedInductive, StrayedInductive DEF IInv
<1>3. SoloInv'
  <2> SUFFICES ASSUME solo' PROVE SoloInv'
    BY DEF SoloInv
  <2>1. /\ solo
        /\ \A q, r \in InFlight' : q = r
        /\ \A r \in InFlight' : Trusts(r)'
    BY SoloTrust DEF IInv
  <2>2. /\ nextId' > 1 => Admins' # {}
        /\ \A n \in Accounts' : users'[n].by = "setup" => users'[n].id = 1
    BY <2>1, SoloTable DEF IInv
  <2>3. QED
    BY <2>1, <2>2 DEF SoloInv
<1>4. QED
  BY <1>1, <1>2, <1>3 DEF IInv

LEMMA IInvAlways == Spec => []IInv
<1>1. QED
  BY InitIInv, IInvInductive, PTL DEF Spec

\* EditSave and Remove read an account by its id, decide, and write by the id
\* again, with other requests and restarts in between: what they write is the
\* account they read or none, and every state is of the right shape, ids unique.
THEOREM EditsAreAimed == Spec => [](TypeOK /\ EditsHitTheirTarget)
<1>1. IInv => TypeOK /\ EditsHitTheirTarget
  BY DEF IInv, TypeInv, EditsHitTheirTarget
<1>2. QED
  BY <1>1, IInvAlways, PTL

\* The guards of EditSave and Remove protect the last administrator in every
\* history of requests, sign-ins and restarts in which no two requests that
\* change accounts overlap.
THEOREM AdminStays == Spec => AdminKept
<1>1. IInv /\ [Next]_vars => [solo' /\ Admins # {} => Admins' # {}]_vars
  <2> SUFFICES ASSUME IInv, [Next]_vars, solo', Admins # {} PROVE Admins' # {}
    OBVIOUS
  <2>1. solo
    BY SoloTrust DEF IInv
  <2>2. QED
    BY <2>1, SoloTable DEF IInv
<1>2. QED
  BY <1>1, IInvAlways, PTL DEF Spec, AdminKept

\* The setup page, which asks for no session, makes the first account of a console
\* or none, as long as no two requests overlap: needSetup is false ever after.
THEOREM SetupIsOver == Spec => []SetupOnce
<1>1. IInv => SetupOnce
  <2> SUFFICES ASSUME IInv, solo PROVE SetupOnce
    BY DEF SetupOnce
  <2> DEFINE made == {n \in Accounts : users[n].by = "setup"}
  <2>1. \A n \in made : users[n].id = 1
    BY DEF IInv, SoloInv
  <2>2. \A m, n \in made : m = n
    BY <2>1 DEF IInv, TypeInv, TypeOK
  <2>3. Cardinality(made) <= 1
    <3>1. CASE made = {}
      BY <3>1, FS_EmptySet
    <3>2. CASE made # {}
      <4>1. PICK n \in made : made = {n}
        BY <2>2, <3>2
      <4>2. Cardinality({n}) = 1
        BY FS_Singleton
      <4>3. Cardinality(made) = 1
        BY <4>1, <4>2
      <4>4. QED
        BY <4>3
    <3>3. QED
      BY <3>1, <3>2
  <2>4. QED
    BY <2>1, <2>3 DEF SetupOnce
<1>2. QED
  BY <1>1, IInvAlways, PTL

-----------------------------------------------------------------------------
(* Credentials and API keys: the token of the console, and rotations *)

\* What a command was sent, by the step it is at.  The edge token is never rotated or
\* renamed: "edge" is its only user name.
CmdOK(p) ==
  step[p] # "idle" =>
    LET f == held[p].form
    IN  /\ f \in CmdForms /\ (f.kind = "delete" <=> step[p] = "deleteKey")
        /\ f.kind = "rotate" => f.cred # Edge
        /\ step[p] = "mintKey" => f.cred = Edge
        /\ step[p] \in {"mintKey", "insert"} /\ f.cred = Edge => held[p].login = "edge"
        /\ step[p] \in {"setLogin", "setLoginLast"} => f.cred # Edge
        /\ held[p].after = "setLoginLast" => f.cred # Edge
        /\ step[p] \in {"setLogin", "setLoginLast"} => creds[f.cred] # NULL
        /\ step[p] \in {"lookup", "mintKey", "insert", "setLogin", "deleteKey"} => held[p].after = "idle"
        /\ step[p] = "remove" => held[p].after = "restart"
        /\ step[p] = "create" => held[p].after \in {"idle", "setLoginLast", "restart"}
        /\ held[p].after = "setLoginLast" => creds[f.cred] # NULL

\* Keys are told apart by id and by token, and neither was ever another's.
KeysOK ==
  \A n \in AllNames : keys[n] # NULL =>
    /\ keys[n].id < nextKey /\ keys[n].token <= minted
    /\ \A m \in AllNames \ {n} : keys[m] # NULL => keys[m].id # keys[n].id /\ keys[m].token # keys[n].token

\* A deletion has found the key of another user than "edge", before or after that was made.
AimOK(p) ==
  step[p] = "deleteKey" =>
    /\ held[p].form.key < nextKey
    /\ keys["edge"] # NULL => keys["edge"].id # held[p].form.key

\* Whoever is about to record the edge token holds that of the user "edge".
EdgeOK ==
  /\ \A p \in Commands : step[p] = "insert" /\ held[p].form.cred = Edge =>
       keys["edge"] # NULL /\ keys["edge"].token = held[p].value
  /\ Edge \in Managed /\ creds[Edge] # NULL =>
       /\ creds[Edge].login = "edge"
       /\ keys["edge"] # NULL /\ keys["edge"].token = creds[Edge].value

\* How far a rotation is beside which no other command was run.
Everywhere(c) == /\ creds[c] # NULL /\ secret[c] = Payload(c, creds[c].login, creds[c].value)
                 /\ running[c] \in {NULL, secret[c]}
AloneOK(p) ==
  LET f == held[p].form
      c == f.cred
  IN  step[p] # "idle" /\ f.kind # "delete" /\ trust[c] # "no" =>
        /\ trust[c] = "alone" /\ f.kind = "rotate" /\ On(c) = {p}
        /\ step[p] \in {"lookup", "remove", "create", "restart", "sync"}
        /\ step[p] \in {"remove", "create", "restart", "sync"} =>
             creds[c] # NULL /\ held[p].value = creds[c].value
        /\ step[p] \in {"remove", "create"} =>
             held[p].login = creds[c].login /\ held[p].after = "restart"
        /\ step[p] = "create" => secret[c] = NULL /\ running[c] = NULL
        /\ step[p] \in {"restart", "sync"} => Everywhere(c)
RotatedOK(c) ==
  trust[c] = "rotated" => Everywhere(c) /\ row[c] \in {NULL, creds[c].value}

CredInv ==
  /\ CredTypeOK /\ KeysOK /\ EdgeOK
  /\ \A p \in Commands : CmdOK(p) /\ AimOK(p) /\ AloneOK(p)
  /\ \A c \in Managed : RotatedOK(c)

LEMMA CmdFormShape ==
  ASSUME CredConstants, NEW f \in CmdForms
  PROVE  /\ f.kind \in {"ensure", "rotate", "delete"}
         /\ f.kind # "delete" => f.cred \in Managed
         /\ f.kind = "ensure" => f.login \in Users /\ (f.cred = Edge => f.login = "edge")
         /\ f.kind = "delete" => f.key \in 1 .. MaxKey
<1>1. CASE f \in UNION {[kind : {"ensure"}, cred : {c}, login : LoginsOf(c)] : c \in Managed}
  <2>1. PICK c \in Managed : f \in [kind : {"ensure"}, cred : {c}, login : LoginsOf(c)]
    BY <1>1
  <2>2. QED
    BY <2>1 DEF LoginsOf, Users
<1>2. CASE f \in [kind : {"rotate"}, cred : Managed] \union [kind : {"delete"}, key : 1 .. MaxKey]
  BY <1>2
<1>3. QED
  BY <1>1, <1>2 DEF CmdForms

\* A command goes on to step s with the locals h.
Moves(p, s, h) == step' = [step EXCEPT ![p] = s] /\ held' = [held EXCEPT ![p] = h]

\* What Lookup comes to: a credential to mint, none to rotate, a new password for a new
\* user name, a rotation, and a credential that is there.
LookupMint(p) ==
  LET c == held[p].form.cred
  IN  /\ creds[c] = NULL /\ held[p].form.kind = "ensure" /\ UNCHANGED <<creds, minted>>
      /\ Moves(p, IF c = Edge THEN "mintKey" ELSE "insert", [held[p] EXCEPT !.login = held[p].form.login])
LookupNone(p) ==
  creds[held[p].form.cred] = NULL /\ UNCHANGED <<creds, minted>> /\ Moves(p, "idle", NoCmd)
Replaced(c) ==
  /\ creds[c] # NULL /\ minted < MaxMinted /\ minted' = minted + 1
  /\ creds' = [creds EXCEPT ![c] = [@ EXCEPT !.value = minted + 1]]
LookupRename(p) ==
  /\ held[p].form.cred # Edge /\ held[p].form.kind = "ensure" /\ Replaced(held[p].form.cred)
  /\ Moves(p, "setLogin", [held[p] EXCEPT !.value = minted + 1, !.login = held[p].form.login, !.after = "idle"])
LookupRotate(p) ==
  /\ held[p].form.kind = "rotate" /\ Replaced(held[p].form.cred)
  /\ Moves(p, "remove", [held[p] EXCEPT !.value = minted + 1, !.login = creds[held[p].form.cred].login,
                                        !.after = "restart"])
LookupThere(p) ==
  LET c == held[p].form.cred
  IN  /\ held[p].form.kind = "ensure" /\ creds[c] # NULL /\ UNCHANGED <<creds, minted>>
      /\ \E l \in Users, a \in {"setLoginLast", "idle"} :
           /\ c = Edge => a = "idle"
           /\ Moves(p, "create", [held[p] EXCEPT !.value = creds[c].value, !.login = l, !.after = a])

LEMMA LookupCases ==
  ASSUME CredConstants, CredInv, NEW p \in Commands, Lookup(p)
  PROVE  /\ held[p].form.cred \in Managed /\ held[p].form.kind # "delete" /\ step[p] = "lookup"
         /\ UNCHANGED <<keys, nextKey, secret, row, running, trust>>
         /\ LookupMint(p) \/ LookupNone(p) \/ LookupRename(p) \/ LookupRotate(p) \/ LookupThere(p)
<1> DEFINE f == held[p].form
           c == f.cred
<1>1. /\ step[p] = "lookup" /\ f \in CmdForms /\ f.kind # "delete" /\ c \in Managed
      /\ f.kind \in {"ensure", "rotate"} /\ (f.kind = "rotate" => c # Edge)
      /\ f.kind = "ensure" => f.login \in Users /\ (c = Edge => f.login = "edge")
  BY CmdFormShape DEF Lookup, CredInv, CmdOK
<1>2. /\ creds[c] # NULL => creds[c] \in CredRows
      /\ c = Edge /\ creds[c] # NULL => creds[c].login = "edge"
  BY <1>1 DEF CredInv, CredTypeOK, EdgeOK
<1>3. held[p] \in CmdLocals /\ held \in [Commands -> CmdLocals] /\ step \in [Commands -> CmdSteps]
  BY DEF CredInv, CredTypeOK
<1> HIDE DEF f, c
<1>a. CASE creds[c] = NULL
  BY <1>1, <1>3, <1>a DEF Lookup, Moves, GoOn, EndCmd, f, c, LookupMint, LookupNone
<1>b. CASE creds[c] # NULL /\ f.kind = "rotate"
  BY <1>1, <1>2, <1>3, <1>b DEF Lookup, Moves, GoOn, CmdLocals, f, c, CredInv, CredTypeOK, LookupRotate, Replaced
<1>c. CASE creds[c] # NULL /\ f.kind = "ensure"
  <2>1. DEFINE l == IF f.login \notin {NULL, creds[c].login} THEN f.login ELSE creds[c].login
  <2>2. l \in Users
    BY <1>1, <1>2, <1>c DEF CredRows
  <2>3. f.login \notin {NULL, creds[c].login} => c # Edge
    BY <1>1, <1>2, <1>c DEF CredRows
  <2>. DEFINE renamed == f.login \notin {NULL, creds[c].login}
  <2>4. CASE renamed /\ c \in RootUsers
    <3>1. /\ minted < MaxMinted /\ minted' = minted + 1
          /\ creds' = [creds EXCEPT ![c].value = minted + 1]
          /\ step' = [step EXCEPT ![p] = "setLogin"]
          /\ held' = [held EXCEPT ![p].value = minted + 1, ![p].login = f.login, ![p].after = "idle"]
      BY <1>1, <1>c, <2>4 DEF Lookup, GoOn, f, c
    <3>2. Moves(p, "setLogin", [held[p] EXCEPT !.value = minted + 1, !.login = f.login, !.after = "idle"])
      BY <3>1, <1>3 DEF Moves
    <3>3. QED
      BY <1>1, <1>3, <1>c, <2>3, <2>4, <3>1, <3>2 DEF Lookup, f, c, LookupRename, Replaced, CredInv, CredTypeOK
  <2>5. CASE ~ (renamed /\ c \in RootUsers)
    <3>1. /\ UNCHANGED <<creds, minted>>
          /\ step' = [step EXCEPT ![p] = "create"]
          /\ held' = [held EXCEPT ![p].value = creds[c].value,
                                  ![p].login = IF renamed THEN f.login ELSE creds[c].login,
                                  ![p].after = IF renamed THEN "setLoginLast" ELSE "idle"]
      BY <1>1, <1>c, <2>5 DEF Lookup, GoOn, f, c
    <3>2. Moves(p, "create", [held[p] EXCEPT !.value = creds[c].value, !.login = l,
                                             !.after = IF renamed THEN "setLoginLast" ELSE "idle"])
      BY <3>1, <1>3 DEF Moves
    <3>3. QED
      BY <1>1, <1>c, <2>2, <2>3, <3>1, <3>2 DEF Lookup, f, c, LookupThere
  <2>6. QED
    BY <2>4, <2>5
<1>4. QED
  BY <1>1, <1>a, <1>b, <1>c

\* What holds of the command after Lookup, at step s with the locals h.
AfterLookup(p, s, h) ==
  s # "idle" =>
    /\ s \in {"mintKey", "insert", "setLogin", "create", "remove"} /\ h.form = held[p].form
    /\ s = "mintKey" => h.form.cred = Edge
    /\ s \in {"mintKey", "insert"} => h.login = h.form.login /\ h.form.kind = "ensure"
    /\ s \in {"insert", "setLogin"} => h.form.cred # Edge
    /\ s \in {"setLogin", "create", "remove"} => creds[h.form.cred] # NULL
    /\ h.after = "setLoginLast" => h.form.cred # Edge /\ s = "create"
    /\ s \in {"mintKey", "insert", "setLogin"} => h.after = "idle"
    /\ s = "remove" => h.after = "restart"
    /\ s = "create" => h.after \in {"setLoginLast", "idle"}

\* Where Lookup leaves the command, and that it only ever replaces a password.
LEMMA LookupMoves ==
  ASSUME CredConstants, CredInv, NEW p \in Commands, Lookup(p)
  PROVE  /\ \E s \in CmdSteps, h \in CmdLocals : Moves(p, s, h) /\ AfterLookup(p, s, h)
         /\ UNCHANGED <<creds, minted>> \/ \E c \in Managed \ {Edge} : Replaced(c)
<1> DEFINE f == held[p].form
           c == f.cred
<1>0. NoCmd \in CmdLocals
  BY DEF NoCmd, CmdLocals, Users, CmdSteps, Values, CredConstants
<1>1. /\ held[p] \in CmdLocals /\ step[p] = "lookup" /\ f \in CmdForms /\ held[p].after = "idle"
      /\ f.kind = "rotate" => c # Edge
  BY DEF Lookup, CmdOK, CredInv, CredTypeOK
<1>2. c \in Managed /\ (f.kind = "ensure" => f.login \in Users)
  BY <1>1, LookupCases, CmdFormShape
<1>3. creds[c] # NULL => creds[c].value \in Values /\ creds[c].login \in Users
  BY <1>2 DEF CredRows, CredInv, CredTypeOK
<1>4. minted < MaxMinted => minted + 1 \in Values
  BY DEF CredInv, CredTypeOK, Values, CredConstants
<1> HIDE DEF f, c
<1>5. CASE LookupMint(p)
  <2> DEFINE s == IF c = Edge THEN "mintKey" ELSE "insert"
             h == [held[p] EXCEPT !.login = f.login]
  <2>1. Moves(p, s, h) /\ f.kind = "ensure" /\ UNCHANGED <<creds, minted>>
    BY <1>5 DEF LookupMint, f, c
  <2>2. s \in CmdSteps /\ h \in CmdLocals /\ AfterLookup(p, s, h)
    <3>1. h \in CmdLocals /\ h.login = f.login /\ h.form = f /\ h.after = "idle"
      BY <1>1, <1>2, <2>1 DEF CmdLocals, f
    <3>2. QED
      BY <2>1, <3>1 DEF AfterLookup, CmdSteps, f, c
  <2>3. QED
    BY <2>1, <2>2
<1>6. CASE LookupNone(p)
  BY <1>0, <1>6 DEF LookupNone, CmdSteps, AfterLookup
<1>7. CASE LookupRename(p)
  <2> DEFINE h == [held[p] EXCEPT !.value = minted + 1, !.login = f.login, !.after = "idle"]
  <2>1. Moves(p, "setLogin", h) /\ f.kind = "ensure" /\ c # Edge /\ Replaced(c)
    BY <1>7 DEF LookupRename, f, c
  <2>2. h \in CmdLocals /\ h.form = f /\ h.after = "idle"
    BY <1>1, <1>2, <1>4, <2>1 DEF CmdLocals, Replaced, CmdSteps, f
  <2>3. "setLogin" \in CmdSteps /\ AfterLookup(p, "setLogin", h)
    BY <2>1, <2>2 DEF AfterLookup, CmdSteps, Replaced, f, c
  <2>4. QED
    BY <1>2, <2>1, <2>2, <2>3
<1>8. CASE LookupRotate(p)
  <2> DEFINE h == [held[p] EXCEPT !.value = minted + 1, !.login = creds[c].login, !.after = "restart"]
  <2>1. Moves(p, "remove", h) /\ f.kind = "rotate" /\ c # Edge /\ Replaced(c)
    BY <1>1, <1>8 DEF LookupRotate, f, c
  <2>2. h \in CmdLocals /\ h.form = f /\ h.after = "restart"
    BY <1>1, <1>3, <1>4, <2>1 DEF CmdLocals, Replaced, CmdSteps, f, c
  <2>3. "remove" \in CmdSteps /\ AfterLookup(p, "remove", h)
    BY <2>1, <2>2 DEF AfterLookup, CmdSteps, Replaced, f, c
  <2>4. QED
    BY <1>2, <2>1, <2>2, <2>3
<1>9. CASE LookupThere(p)
  <2>1. PICK l \in Users, a \in {"setLoginLast", "idle"} :
          /\ c = Edge => a = "idle"
          /\ Moves(p, "create", [held[p] EXCEPT !.value = creds[c].value, !.login = l, !.after = a])
    BY <1>9 DEF LookupThere, f, c
  <2>2. creds[c] # NULL /\ UNCHANGED <<creds, minted>>
    BY <1>9 DEF LookupThere, f, c
  <2> DEFINE h == [held[p] EXCEPT !.value = creds[c].value, !.login = l, !.after = a]
  <2>3. h \in CmdLocals /\ h.form = f /\ h.after = a
    BY <1>1, <1>3, <2>1, <2>2 DEF CmdLocals, CmdSteps, f, c
  <2>4. "create" \in CmdSteps /\ AfterLookup(p, "create", h)
    BY <2>1, <2>2, <2>3 DEF AfterLookup, CmdSteps, f, c
  <2>5. QED
    BY <2>1, <2>2, <2>3, <2>4
<1>10. QED
  BY <1>5, <1>6, <1>7, <1>8, <1>9, LookupCases

LEMMA CredTypeInductive ==
  ASSUME CredConstants, CredInv, [CredNext]_credVars
  PROVE  CredTypeOK'
<1> USE DEF CredTypeOK
<1>0. CredTypeOK /\ NoCmd \in CmdLocals /\ NULL \in Users
  BY DEF CredInv, NoCmd, CmdLocals, Users, CmdSteps, Values, CredConstants
<1>1. ASSUME NEW p \in Commands, step[p] # "idle" PROVE held[p] \in CmdLocals /\ CmdOK(p)
  BY <1>1, <1>0 DEF CredInv
<1>2. ASSUME NEW p \in Commands, NEW s \in CmdSteps, NEW h \in CmdLocals, Moves(p, s, h)
      PROVE  step' \in [Commands -> CmdSteps] /\ held' \in [Commands -> CmdLocals]
  BY <1>0, <1>2 DEF Moves
<1>3. ASSUME NEW p \in Commands, NEW form \in CmdForms, form.kind # "delete", Run(p, form) PROVE CredTypeOK'
  <2>1. Moves(p, "lookup", [NoCmd EXCEPT !.form = form]) /\ [NoCmd EXCEPT !.form = form] \in CmdLocals
    BY <1>3, <1>0 DEF Run, StartCmd, Moves, CmdLocals
  <2>2. QED
    BY <1>0, <1>2, <1>3, <2>1 DEF Run, data, CmdSteps
<1>4. ASSUME NEW p \in Commands, Lookup(p) PROVE CredTypeOK'
  <2>2. PICK s \in CmdSteps, h \in CmdLocals : Moves(p, s, h)
    BY <1>4, LookupMoves
  <2>3. creds' \in [Managed -> CredRows \union {NULL}] /\ minted' \in Values
    BY <1>0, <1>4, LookupMoves DEF CredRows, Replaced, Values, CredConstants
  <2>4. QED
    BY <1>0, <1>2, <1>4, <2>2, <2>3 DEF Lookup
<1>5. ASSUME NEW p \in Commands, MintKey(p) PROVE CredTypeOK'
  BY <1>0, <1>1, <1>5 DEF MintKey, AddKey, GoOn, CmdLocals, CmdSteps, KeyRows, AllNames, Values, CredConstants
<1>6. ASSUME NEW p \in Commands, InsertCred(p) PROVE CredTypeOK'
  BY <1>0, <1>1, <1>6, CmdFormShape DEF InsertCred, GoOn, CmdLocals, CmdSteps, CredRows, Values, CredConstants, CmdOK
<1>7. ASSUME NEW p \in Commands, SetLogin(p) PROVE CredTypeOK'
  BY <1>0, <1>1, <1>7, CmdFormShape DEF SetLogin, GoOn, EndCmd, CmdLocals, CmdSteps, CredRows, CmdOK
<1>8. ASSUME NEW p \in Commands, RemoveSecret(p) PROVE CredTypeOK'
  BY <1>0, <1>1, <1>8 DEF RemoveSecret, GoOn, CmdSteps
<1>9. ASSUME NEW p \in Commands, CreateSecret(p) PROVE CredTypeOK'
  <2>1. held[p] \in CmdLocals /\ held[p].form.cred \in Managed
    BY <1>1, <1>9, CmdFormShape DEF CreateSecret, CmdOK
  <2>2. Payload(held[p].form.cred, held[p].login, held[p].value) \in Payloads
    BY <1>0, <2>1 DEF Payload, Payloads, CmdLocals
  <2>3. QED
    BY <1>0, <1>9, <2>1, <2>2 DEF CreateSecret, GoOn, EndCmd, CmdSteps, CmdLocals
<1>10. ASSUME NEW p \in Commands, RestartService(p) PROVE CredTypeOK'
  BY <1>0, <1>1, <1>10 DEF RestartService, GoOn, CmdSteps
<1>11. ASSUME NEW p \in Commands, SyncRow(p) PROVE CredTypeOK'
  BY <1>0, <1>1, <1>11 DEF SyncRow, EndCmd, CmdSteps, CmdLocals
<1>12. ASSUME NEW p \in Commands, NEW i \in 1 .. MaxKey, FindKey(p, i) PROVE CredTypeOK'
  BY <1>0, <1>12 DEF FindKey, StartCmd, data, CmdSteps, CmdLocals, CmdForms
<1>13. ASSUME NEW p \in Commands, DeleteKey(p) PROVE CredTypeOK'
  BY <1>0, <1>13 DEF DeleteKey, EndCmd, CmdSteps
<1>14. ASSUME NEW p \in Commands, Abort(p) PROVE CredTypeOK'
  BY <1>0, <1>14 DEF Abort, EndCmd, data, CmdSteps
<1>15. ASSUME NEW n \in AllNames, CreateKey(n) PROVE CredTypeOK'
  BY <1>0, <1>15 DEF CreateKey, AddKey, KeyRows, Values, CredConstants
<1>16. ASSUME NEW c \in Managed, AddRow(c) \/ DropRow(c) \/ Deploy(c) \/ TakeDown(c) PROVE CredTypeOK'
  BY <1>0, <1>16 DEF AddRow, DropRow, Deploy, TakeDown, Values, CredConstants
<1>17. CASE UNCHANGED credVars
  BY <1>0, <1>17 DEF credVars
<1>18. QED
  BY <1>3, <1>4, <1>5, <1>6, <1>7, <1>8, <1>9, <1>10, <1>11, <1>12, <1>13, <1>14, <1>15, <1>16, <1>17 DEF CredNext

\* No step removes the row of a credential.
LEMMA CmdInductive ==
  ASSUME CredConstants, CredInv, [CredNext]_credVars, CredTypeOK'
  PROVE  \A q \in Commands : CmdOK(q)'
<1> SUFFICES ASSUME NEW q \in Commands PROVE CmdOK(q)'
  OBVIOUS
<1>0. /\ step \in [Commands -> CmdSteps] /\ held \in [Commands -> CmdLocals]
      /\ creds \in [Managed -> CredRows \union {NULL}] /\ NULL \notin CredRows
      /\ creds' \in [Managed -> CredRows \union {NULL}]
  BY DEF CredInv, CredTypeOK, CredConstants
<1>1. ASSUME NEW p \in Commands, step[p] # "idle" PROVE CmdOK(p) /\ held[p] \in CmdLocals
  BY <1>1, <1>0 DEF CredInv
<1>2. ASSUME \A c \in Managed : creds[c] # NULL => creds'[c] # NULL,
             step'[q] = step[q], held'[q] = held[q]
      PROVE  CmdOK(q)'
  <2>1. step[q] # "idle" /\ held[q].form.kind # "delete" => held[q].form.cred \in Managed
    BY <1>1, CmdFormShape DEF CmdOK
  <2>2. step[q] # "idle" /\ held[q].form.kind = "delete" =>
          step[q] = "deleteKey"
    BY <1>1 DEF CmdOK
  <2>3. QED
    BY <1>1, <1>2, <2>1, <2>2 DEF CmdOK
<1>3. ASSUME NEW p \in Commands, NEW form \in CmdForms, form.kind # "delete", Run(p, form) PROVE CmdOK(q)'
  <2>1. q # p => step'[q] = step[q] /\ held'[q] = held[q]
    BY <1>0, <1>3 DEF Run, StartCmd
  <2>2. CASE q = p
    BY <1>0, <1>3, <2>2 DEF Run, StartCmd, data, CmdOK, NoCmd
  <2>3. QED
    BY <1>2, <1>3, <2>1, <2>2 DEF Run, data
<1>4. ASSUME NEW p \in Commands, Lookup(p) PROVE CmdOK(q)'
  <2>1. CmdOK(p) /\ held[p] \in CmdLocals /\ step[p] = "lookup"
    BY <1>1, <1>4 DEF Lookup
  <2>2. \A c \in Managed : creds[c] # NULL => creds'[c] # NULL
    <3>1. minted < MaxMinted => minted + 1 \in Values
      BY DEF CredInv, CredTypeOK, Values, CredConstants
    <3>2. \A d \in Managed, v \in Values : creds[d] # NULL => [creds[d] EXCEPT !.value = v] # NULL
      BY <1>0 DEF CredRows
    <3>3. QED
      BY <1>0, <1>4, <3>1, <3>2, LookupMoves DEF Replaced
  <2>3. q # p => step'[q] = step[q] /\ held'[q] = held[q]
    BY <1>0, <1>4, LookupMoves DEF Moves
  <2>4. CASE q = p
    <3>1. PICK s \in CmdSteps, h \in CmdLocals : Moves(p, s, h) /\ AfterLookup(p, s, h)
      BY <1>4, LookupMoves
    <3>2. step'[p] = s /\ held'[p] = h
      BY <1>0, <3>1 DEF Moves
    <3>3. /\ held[p].form \in CmdForms /\ held[p].form.kind # "delete" /\ held[p].form.cred \in Managed
          /\ held[p].form.kind = "rotate" => held[p].form.cred # Edge
          /\ held[p].form.kind = "ensure" /\ held[p].form.cred = Edge => held[p].form.login = "edge"
      BY <1>4, <2>1, LookupCases, CmdFormShape DEF CmdOK
    <3>4. QED
      BY <2>2, <2>4, <3>1, <3>2, <3>3 DEF CmdOK, AfterLookup
  <2>5. QED
    BY <1>2, <2>2, <2>3, <2>4
<1>5. ASSUME NEW p \in Commands, MintKey(p) PROVE CmdOK(q)'
  BY <1>0, <1>1, <1>2, <1>5 DEF MintKey, GoOn, CmdOK, CmdLocals
<1>6. ASSUME NEW p \in Commands, InsertCred(p) PROVE CmdOK(q)'
  BY <1>0, <1>1, <1>2, <1>6, CmdFormShape DEF InsertCred, GoOn, CmdOK, CmdLocals
<1>7. ASSUME NEW p \in Commands, SetLogin(p) PROVE CmdOK(q)'
  <2> DEFINE c == held[p].form.cred
  <2>1. /\ CmdOK(p) /\ step[p] \in {"setLogin", "setLoginLast"} /\ c \in Managed /\ held[p] \in CmdLocals
        /\ creds[c] # NULL
    BY <1>1, <1>7, CmdFormShape DEF SetLogin, CmdOK
  <2>2. \A d \in Managed : creds[d] # NULL => creds'[d] # NULL
    <3>1. [creds[c] EXCEPT !.login = held[p].login] # NULL
      BY <1>0, <2>1 DEF CredRows, CmdLocals
    <3>2. QED
      BY <1>0, <1>7, <2>1, <3>1 DEF SetLogin
  <2>3. q # p => step'[q] = step[q] /\ held'[q] = held[q]
    BY <1>0, <1>7 DEF SetLogin, GoOn, EndCmd
  <2>4. CASE q = p
    BY <1>0, <1>7, <2>1, <2>2, <2>4 DEF SetLogin, GoOn, EndCmd, CmdOK
  <2>5. QED
    BY <1>2, <2>2, <2>3, <2>4
<1>8. ASSUME NEW p \in Commands, RemoveSecret(p) PROVE CmdOK(q)'
  BY <1>0, <1>1, <1>2, <1>8 DEF RemoveSecret, GoOn, CmdOK
<1>9. ASSUME NEW p \in Commands, CreateSecret(p) PROVE CmdOK(q)'
  BY <1>0, <1>1, <1>2, <1>9 DEF CreateSecret, GoOn, EndCmd, CmdOK
<1>10. ASSUME NEW p \in Commands, RestartService(p) PROVE CmdOK(q)'
  BY <1>0, <1>1, <1>2, <1>10 DEF RestartService, GoOn, CmdOK
<1>11. ASSUME NEW p \in Commands, SyncRow(p) PROVE CmdOK(q)'
  BY <1>0, <1>1, <1>2, <1>11 DEF SyncRow, EndCmd, CmdOK
<1>12. ASSUME NEW p \in Commands, NEW i \in 1 .. MaxKey, FindKey(p, i) PROVE CmdOK(q)'
  BY <1>0, <1>1, <1>2, <1>12 DEF FindKey, StartCmd, data, CmdOK, NoCmd, CmdForms
<1>13. ASSUME NEW p \in Commands, DeleteKey(p) PROVE CmdOK(q)'
  BY <1>0, <1>1, <1>2, <1>13 DEF DeleteKey, EndCmd, CmdOK
<1>14. ASSUME NEW p \in Commands, Abort(p) PROVE CmdOK(q)'
  BY <1>0, <1>1, <1>2, <1>14 DEF Abort, EndCmd, data, CmdOK
<1>15. ASSUME NEW n \in AllNames, CreateKey(n) PROVE CmdOK(q)'
  BY <1>2, <1>15 DEF CreateKey
<1>16. ASSUME NEW c \in Managed, AddRow(c) \/ DropRow(c) \/ Deploy(c) \/ TakeDown(c) PROVE CmdOK(q)'
  BY <1>2, <1>16 DEF AddRow, DropRow, Deploy, TakeDown
<1>17. CASE UNCHANGED credVars
  BY <1>2, <1>17 DEF credVars
<1>18. QED
  BY <1>3, <1>4, <1>5, <1>6, <1>7, <1>8, <1>9, <1>10, <1>11, <1>12, <1>13, <1>14, <1>15, <1>16, <1>17 DEF CredNext

\* A new key takes an id and a token that no key has had.
LEMMA AddedKey ==
  ASSUME CredConstants, CredTypeOK, KeysOK, NEW n \in AllNames, keys[n] = NULL, minted < MaxMinted,
         minted' = minted + 1, AddKey(n, minted + 1)
  PROVE  /\ KeysOK'
         /\ keys'[n] # NULL /\ keys'[n].token = minted + 1 /\ keys'[n].id = nextKey
         /\ nextKey' = nextKey + 1 /\ \A m \in AllNames \ {n} : keys'[m] = keys[m]
<1>1. /\ keys \in [AllNames -> KeyRows \union {NULL}] /\ nextKey \in Nat /\ minted \in Nat
      /\ MaxMinted \in Nat /\ NULL \notin KeyRows /\ nextKey \in 1 .. MaxKey /\ minted + 1 \in Values
      /\ MaxKey \in Nat
  BY DEF CredTypeOK, Values, CredConstants, AddKey
<1>2. [id |-> nextKey, token |-> minted + 1] \in KeyRows
  BY <1>1 DEF KeyRows
<1>3. /\ keys'[n] = [id |-> nextKey, token |-> minted + 1] /\ nextKey' = nextKey + 1
      /\ \A m \in AllNames \ {n} : keys'[m] = keys[m]
  BY <1>1 DEF AddKey
<1>4. \A m \in AllNames : keys[m] # NULL => keys[m].id \in Nat /\ keys[m].token \in Nat
  BY <1>1 DEF KeyRows, Values
<1>5. QED
  BY <1>1, <1>2, <1>3, <1>4 DEF KeysOK

\* The keys, who aims at which, and who holds the token of the console.
KeyFacts == KeysOK /\ EdgeOK /\ \A q \in Commands : AimOK(q)
LEMMA KeysInductive ==
  ASSUME CredConstants, CredInv, [CredNext]_credVars
  PROVE  KeyFacts'
<1>0. /\ CredTypeOK /\ KeysOK /\ EdgeOK /\ \A q \in Commands : CmdOK(q) /\ AimOK(q)
      /\ step \in [Commands -> CmdSteps] /\ held \in [Commands -> CmdLocals]
      /\ creds \in [Managed -> CredRows \union {NULL}] /\ NULL \notin CredRows
      /\ keys \in [AllNames -> KeyRows \union {NULL}] /\ NULL \notin KeyRows /\ "edge" \in AllNames
      /\ nextKey \in Nat /\ minted \in Nat /\ MaxMinted \in Nat
      /\ \A n \in AllNames : keys[n] # NULL => keys[n].id \in Nat /\ keys[n].token \in Nat
  BY DEF CredInv, CredTypeOK, CredConstants, AllNames, KeyRows, Values
<1>2. ASSUME NEW q \in Commands, step[q] = "deleteKey"
      PROVE  held[q].form.key \in Nat /\ held[q].form.key < nextKey
  BY <1>0, <1>2, CmdFormShape DEF CmdOK, AimOK, CredConstants
\* Most steps leave the keys alone, and the command at most at a step that says nothing.
<1>1. ASSUME UNCHANGED <<keys, nextKey>>, minted' >= minted, minted' \in Nat,
             Edge \in Managed => creds'[Edge] = creds[Edge],
             \A q \in Commands : \/ step'[q] = step[q] /\ held'[q] = held[q]
                                 \/ step'[q] \notin {"insert", "deleteKey"}
                                 \/ step'[q] = "insert" /\ held'[q].form.cred # Edge
      PROVE  KeyFacts'
  <2>1. KeysOK'
    BY <1>0, <1>1 DEF KeysOK
  <2>2. ASSUME NEW q \in Commands PROVE AimOK(q)'
    BY <1>0, <1>1 DEF AimOK
  <2>3. EdgeOK'
    BY <1>0, <1>1 DEF EdgeOK
  <2>4. QED
    BY <2>1, <2>2, <2>3 DEF KeyFacts
<1>3. ASSUME NEW p \in Commands, NEW form \in CmdForms, form.kind # "delete", Run(p, form) PROVE KeyFacts'
  BY <1>0, <1>1, <1>3 DEF Run, StartCmd, data
<1>4. ASSUME NEW p \in Commands, Lookup(p) PROVE KeyFacts'
  <2>1. PICK s \in CmdSteps, h \in CmdLocals : Moves(p, s, h) /\ AfterLookup(p, s, h)
    BY <1>4, LookupMoves
  <2>2. minted' >= minted /\ minted' \in Nat /\ (Edge \in Managed => creds'[Edge] = creds[Edge])
    BY <1>0, <1>4, LookupMoves DEF Replaced
  <2>3. QED
    BY <1>0, <1>1, <1>4, <2>1, <2>2, LookupCases DEF Moves, AfterLookup
<1>5. ASSUME NEW p \in Commands, MintKey(p) PROVE KeyFacts'
  <2>1. /\ KeysOK' /\ keys'["edge"] # NULL /\ keys'["edge"].token = minted + 1 /\ keys'["edge"].id = nextKey
        /\ nextKey' = nextKey + 1 /\ keys["edge"] = NULL
    BY <1>0, <1>5, AddedKey DEF MintKey
  <2>2. /\ step' = [step EXCEPT ![p] = "insert"] /\ held' = [held EXCEPT ![p].value = minted + 1]
        /\ UNCHANGED creds
    BY <1>5 DEF MintKey, GoOn
  <2>3. ASSUME NEW q \in Commands PROVE AimOK(q)'
    BY <1>0, <1>2, <2>1, <2>2 DEF AimOK
  <2>4. EdgeOK'
    BY <1>0, <2>1, <2>2 DEF EdgeOK, CmdLocals
  <2>5. QED
    BY <2>1, <2>3, <2>4 DEF KeyFacts
<1>6. ASSUME NEW p \in Commands, InsertCred(p) PROVE KeyFacts'
  <2>1. step[p] = "insert" /\ step' = [step EXCEPT ![p] = "create"] /\ UNCHANGED <<keys, nextKey>>
    BY <1>6 DEF InsertCred, GoOn
  <2>2. CASE held[p].form.cred # Edge
    BY <1>0, <1>1, <1>6, <2>1, <2>2 DEF InsertCred, GoOn
  <2>3. CASE held[p].form.cred = Edge
    <3>1. /\ creds' = [creds EXCEPT ![Edge] = [login |-> held[p].login, value |-> held[p].value]]
          /\ minted' = minted /\ held[p].login = "edge" /\ keys["edge"] # NULL
          /\ keys["edge"].token = held[p].value
          /\ \A q \in Commands : q # p => held'[q] = held[q] /\ step'[q] = step[q]
      BY <1>0, <1>6, <2>1, <2>3 DEF InsertCred, CmdOK, EdgeOK
    <3>2. KeysOK' /\ \A q \in Commands : AimOK(q)'
      BY <1>0, <2>1, <3>1 DEF KeysOK, AimOK
    <3>3. EdgeOK'
      BY <1>0, <2>1, <3>1 DEF EdgeOK
    <3>4. QED
      BY <3>2, <3>3 DEF KeyFacts
  <2>4. QED
    BY <2>2, <2>3
<1>7. ASSUME NEW p \in Commands, SetLogin(p) PROVE KeyFacts'
  BY <1>0, <1>1, <1>7 DEF SetLogin, GoOn, EndCmd, CmdOK
<1>8. ASSUME NEW p \in Commands, RemoveSecret(p) PROVE KeyFacts'
  BY <1>0, <1>1, <1>8 DEF RemoveSecret, GoOn
<1>9. ASSUME NEW p \in Commands, CreateSecret(p) PROVE KeyFacts'
  BY <1>0, <1>1, <1>9 DEF CreateSecret, GoOn, EndCmd, CmdOK
<1>10. ASSUME NEW p \in Commands, RestartService(p) PROVE KeyFacts'
  BY <1>0, <1>1, <1>10 DEF RestartService, GoOn
<1>11. ASSUME NEW p \in Commands, SyncRow(p) PROVE KeyFacts'
  BY <1>0, <1>1, <1>11 DEF SyncRow, EndCmd
<1>12. ASSUME NEW p \in Commands, NEW i \in 1 .. MaxKey, FindKey(p, i) PROVE KeyFacts'
  <2>1. /\ UNCHANGED <<keys, nextKey, minted, creds>> /\ step'[p] = "deleteKey" /\ held'[p].form.key = i
        /\ \A q \in Commands : q # p => held'[q] = held[q] /\ step'[q] = step[q]
    BY <1>0, <1>12 DEF FindKey, StartCmd, data, NoCmd
  <2>2. i < nextKey /\ (keys["edge"] # NULL => keys["edge"].id # i)
    BY <1>0, <1>12 DEF FindKey, Deletable, KeysOK
  <2>3. KeysOK' /\ \A q \in Commands : AimOK(q)'
    BY <1>0, <2>1, <2>2 DEF KeysOK, AimOK
  <2>4. EdgeOK'
    BY <1>0, <2>1 DEF EdgeOK
  <2>5. QED
    BY <2>3, <2>4 DEF KeyFacts
<1>13. ASSUME NEW p \in Commands, DeleteKey(p) PROVE KeyFacts'
  <2>1. /\ UNCHANGED <<nextKey, minted, creds>> /\ step'[p] = "idle"
        /\ \A q \in Commands : q # p => held'[q] = held[q] /\ step'[q] = step[q]
        /\ \A n \in AllNames : keys'[n] \in {keys[n], NULL}
    BY <1>0, <1>13 DEF DeleteKey, EndCmd
  <2>2. keys'["edge"] = keys["edge"]
    BY <1>0, <1>13 DEF DeleteKey, AimOK
  <2>3. KeysOK' /\ \A q \in Commands : AimOK(q)'
    BY <1>0, <2>1, <2>2 DEF KeysOK, AimOK
  <2>4. EdgeOK'
    BY <1>0, <2>1, <2>2 DEF EdgeOK
  <2>5. QED
    BY <2>3, <2>4 DEF KeyFacts
<1>14. ASSUME NEW p \in Commands, Abort(p) PROVE KeyFacts'
  BY <1>0, <1>1, <1>14 DEF Abort, EndCmd, data
<1>15. ASSUME NEW n \in AllNames, CreateKey(n) PROVE KeyFacts'
  <2>1. /\ KeysOK' /\ keys[n] = NULL /\ keys'[n] # NULL /\ keys'[n].id = nextKey /\ nextKey' = nextKey + 1
        /\ \A m \in AllNames \ {n} : keys'[m] = keys[m]
    BY <1>0, <1>15, AddedKey DEF CreateKey
  <2>2. UNCHANGED <<creds, step, held>>
    BY <1>15 DEF CreateKey
  <2>3. \A q \in Commands : AimOK(q)'
    BY <1>0, <1>2, <2>1, <2>2 DEF AimOK
  <2>4. EdgeOK'
    BY <1>0, <2>1, <2>2 DEF EdgeOK
  <2>5. QED
    BY <2>1, <2>3, <2>4 DEF KeyFacts
<1>16. ASSUME NEW c \in Managed, AddRow(c) \/ DropRow(c) \/ Deploy(c) \/ TakeDown(c) PROVE KeyFacts'
  BY <1>0, <1>1, <1>16 DEF AddRow, DropRow, Deploy, TakeDown
<1>17. CASE UNCHANGED credVars
  BY <1>0, <1>1, <1>17 DEF credVars
<1>18. QED
  BY <1>3, <1>4, <1>5, <1>6, <1>7, <1>8, <1>9, <1>10, <1>11, <1>12, <1>13, <1>14, <1>15, <1>16, <1>17 DEF CredNext

\* A step of a command on one credential leaves what is said of the other credentials, and
\* of the other commands: with two on one credential there is nothing to say.
LEMMA OtherCredentials ==
  ASSUME CredConstants, CredInv, NEW p \in Commands, NEW c \in Managed,
         \A d \in Managed \ {c} : /\ creds'[d] = creds[d] /\ secret'[d] = secret[d] /\ row'[d] = row[d]
                                  /\ running'[d] = running[d] /\ trust'[d] = trust[d],
         \A q \in Commands \ {p} : step'[q] = step[q] /\ held'[q] = held[q],
         step[p] = "idle" \/ (held[p].form.kind # "delete" /\ held[p].form.cred = c),
         step'[p] = "idle" \/ (held'[p].form.kind # "delete" /\ held'[p].form.cred = c),
         step[p] = "idle" /\ On(c) # {} => trust'[c] = "no",
         step[p] # "idle" /\ trust[c] = "no" => trust'[c] = "no"
  PROVE  /\ \A q \in Commands \ {p} : AloneOK(q)'
         /\ \A d \in Managed \ {c} : RotatedOK(d)'
<1>1. \A d \in Managed \ {c} : RotatedOK(d)'
  BY DEF CredInv, RotatedOK, Everywhere
<1>2. ASSUME NEW q \in Commands \ {p} PROVE AloneOK(q)'
  <2>1. AloneOK(q) /\ AloneOK(p) /\ CmdOK(q) /\ (trust[c] \in {"no", "alone", "rotated"})
    BY DEF CredInv, CredTypeOK
  <2>2. SUFFICES ASSUME step[q] # "idle", held[q].form.kind # "delete" PROVE AloneOK(q)'
    BY DEF AloneOK
  <2>3. held[q].form.cred \in Managed
    BY <2>1, <2>2, CmdFormShape DEF CmdOK
  <2>4. CASE held[q].form.cred = c
    <3>1. q \in On(c) /\ (step[p] # "idle" => p \in On(c))
      BY <2>2, <2>4 DEF On
    <3>2. trust'[c] = "no"
      BY <2>1, <2>2, <2>4, <3>1 DEF AloneOK
    <3>3. QED
      BY <2>4, <3>2 DEF AloneOK
  <2>5. CASE held[q].form.cred # c
    <3>1. \A d \in Managed \ {c} : On(d)' = On(d)
      BY DEF On
    <3>2. QED
      BY <2>1, <2>2, <2>3, <2>5, <3>1 DEF AloneOK, Everywhere
  <2>6. QED
    BY <2>4, <2>5
<1>3. QED
  BY <1>1, <1>2

\* A step that leaves alone the credentials, and the commands that are on one.
LEMMA NoCredential ==
  ASSUME CredConstants, CredInv, UNCHANGED <<creds, secret, row, running, trust>>,
         \A q \in Commands : \/ step'[q] = step[q] /\ held'[q] = held[q]
                             \/ /\ step[q] = "idle" \/ held[q].form.kind = "delete"
                                /\ step'[q] = "idle" \/ held'[q].form.kind = "delete"
  PROVE  (\A q \in Commands : AloneOK(q)') /\ (\A c \in Managed : RotatedOK(c)')
<1>1. \A c \in Managed : On(c)' = On(c)
  BY DEF On
<1>2. \A c \in Managed : RotatedOK(c)'
  BY DEF CredInv, RotatedOK, Everywhere
<1>3. ASSUME NEW q \in Commands PROVE AloneOK(q)'
  <2>1. AloneOK(q) /\ (step[q] # "idle" /\ held[q].form.kind # "delete" => held[q].form.cred \in Managed)
    BY CmdFormShape DEF CredInv, CmdOK
  <2>2. QED
    BY <1>1, <2>1 DEF AloneOK, Everywhere
<1>4. QED
  BY <1>2, <1>3

TrustFacts == (\A q \in Commands : AloneOK(q)) /\ (\A c \in Managed : RotatedOK(c))
LEMMA TrustInductive ==
  ASSUME CredConstants, CredInv, [CredNext]_credVars, CredTypeOK'
  PROVE  TrustFacts'
<1>0. /\ step \in [Commands -> CmdSteps] /\ held \in [Commands -> CmdLocals]
      /\ creds \in [Managed -> CredRows \union {NULL}] /\ NULL \notin CredRows
      /\ secret \in [Managed -> Payloads \union {NULL}] /\ NULL \notin Payloads
      /\ running \in [Managed -> Payloads \union {NULL}] /\ row \in [Managed -> Values \union {NULL}]
      /\ trust \in [Managed -> {"no", "alone", "rotated"}]
      /\ \A q \in Commands : CmdOK(q) /\ AloneOK(q)
      /\ \A c \in Managed : RotatedOK(c)
  BY DEF CredInv, CredTypeOK, CredConstants
<1>1. ASSUME NEW p \in Commands, step[p] # "idle", step[p] # "deleteKey"
      PROVE  /\ held[p].form \in CmdForms /\ held[p].form.kind \in {"ensure", "rotate"}
             /\ held[p].form.cred \in Managed /\ held[p] \in CmdLocals
             /\ p \in On(held[p].form.cred) /\ trust[held[p].form.cred] # "rotated"
  BY <1>0, <1>1, CmdFormShape DEF CmdOK, On, AloneOK
\* What is left to show of a command's step on its credential.
<1>2. ASSUME NEW p \in Commands, NEW c \in Managed, AloneOK(p)', RotatedOK(c)',
             \A q \in Commands \ {p} : AloneOK(q)', \A d \in Managed \ {c} : RotatedOK(d)'
      PROVE  TrustFacts'
  BY <1>2 DEF TrustFacts
<1>3. ASSUME NEW p \in Commands, NEW form \in CmdForms, form.kind # "delete", Run(p, form) PROVE TrustFacts'
  <2> DEFINE c == form.cred
  <2>1. /\ c \in Managed /\ step[p] = "idle" /\ UNCHANGED data
        /\ step' = [step EXCEPT ![p] = "lookup"] /\ held'[p].form = form
        /\ \A q \in Commands \ {p} : step'[q] = step[q] /\ held'[q] = held[q]
        /\ trust'[c] = IF form.kind = "rotate" /\ On(c) = {} THEN "alone" ELSE "no"
        /\ \A d \in Managed \ {c} : trust'[d] = trust[d]
    BY <1>0, <1>3, CmdFormShape DEF Run, StartCmd, NoCmd
  <2>2. On(c) = {} => On(c)' = {p}
    BY <1>0, <1>3, <2>1 DEF On
  <2>3. AloneOK(p)' /\ RotatedOK(c)'
    BY <1>0, <2>1, <2>2 DEF AloneOK, RotatedOK
  <2>4. (\A q \in Commands \ {p} : AloneOK(q)') /\ \A d \in Managed \ {c} : RotatedOK(d)'
    BY <1>0, <1>3, <2>1, OtherCredentials DEF data
  <2>5. QED
    BY <1>2, <2>1, <2>3, <2>4
<1>4. ASSUME NEW p \in Commands, Lookup(p) PROVE TrustFacts'
  <2>0. PICK c : c = held[p].form.cred
    OBVIOUS
  <2>1. step[p] = "lookup" /\ c \in Managed /\ held[p] \in CmdLocals /\ AloneOK(p) /\ trust[c] # "rotated"
        /\ UNCHANGED <<secret, row, running, trust>> /\ held[p].form.kind # "delete"
    BY <2>0, <1>0, <1>1, <1>4 DEF Lookup
  <2>2. \A q \in Commands \ {p} : step'[q] = step[q] /\ held'[q] = held[q]
    BY <2>0, <1>0, <1>4, LookupMoves DEF Moves
  <2>3. step'[p] = "idle" \/ held'[p].form = held[p].form
    BY <2>0, <1>0, <1>4, LookupMoves DEF Moves, AfterLookup
  <2>4. \A d \in Managed \ {c} : creds'[d] = creds[d]
    BY <2>0, <1>0, <1>4, LookupCases DEF LookupMint, LookupNone, LookupRename, LookupRotate, LookupThere, Replaced
  <2>5. RotatedOK(c)'
    BY <2>0, <2>1 DEF RotatedOK
  <2>6. AloneOK(p)'
    <3>1. On(c) = {p} /\ step'[p] # "idle" => On(c)' = {p}
      BY <2>0, <2>1, <2>2, <2>3 DEF On
    <3>2. CASE trust[c] = "no"
      BY <2>0, <2>1, <2>3, <3>2 DEF AloneOK
    <3>3. CASE step'[p] = "idle"
      BY <2>0, <3>3 DEF AloneOK
    <3>4. CASE step'[p] # "idle" /\ trust[c] # "no"
      <4>1. LookupRotate(p) /\ On(c) = {p} /\ held[p].form.kind = "rotate"
        <5>1. On(c) = {p} /\ held[p].form.kind = "rotate"
          BY <2>0, <2>1, <3>4 DEF AloneOK
        <5>2. ~ LookupMint(p) /\ ~ LookupRename(p) /\ ~ LookupThere(p)
          BY <5>1 DEF LookupMint, LookupRename, LookupThere
        <5>3. ~ LookupNone(p)
          BY <1>0, <3>4 DEF LookupNone, Moves
        <5>4. QED
          BY <1>4, <5>1, <5>2, <5>3, LookupCases
      <4>2. /\ step'[p] = "remove" /\ held'[p] = [held[p] EXCEPT !.value = minted + 1, !.login = creds[c].login,
                                                                 !.after = "restart"]
            /\ creds[c] # NULL /\ creds'[c] = [creds[c] EXCEPT !.value = minted + 1]
        BY <2>0, <1>0, <2>1, <4>1 DEF LookupRotate, Moves, Replaced
      <4>3. /\ held'[p].value = minted + 1 /\ held'[p].login = creds[c].login /\ held'[p].after = "restart"
            /\ held'[p].form = held[p].form
        BY <2>0, <2>1, <4>2 DEF CmdLocals
      <4>4. creds'[c].value = minted + 1 /\ creds'[c].login = creds[c].login /\ creds'[c] # NULL
        <5>1. creds'[c].value = minted + 1 /\ creds'[c].login = creds[c].login
          BY <2>0, <1>0, <2>1, <4>2 DEF CredRows
        <5>2. minted + 1 \in Values
          BY <2>0, <4>1 DEF LookupRotate, Replaced, CredInv, CredTypeOK, Values, CredConstants
        <5>3. QED
          BY <2>0, <1>0, <2>1, <4>2, <5>1, <5>2 DEF CredRows
      <4>5. QED
        BY <2>0, <2>1, <3>1, <3>4, <4>1, <4>2, <4>3, <4>4 DEF AloneOK
    <3>5. QED
      BY <2>0, <3>2, <3>3, <3>4
  <2>7. (\A q \in Commands \ {p} : AloneOK(q)') /\ \A d \in Managed \ {c} : RotatedOK(d)'
    BY <2>0, <1>0, <2>1, <2>2, <2>3, <2>4, OtherCredentials
  <2>8. QED
    BY <2>0, <1>2, <2>1, <2>5, <2>6, <2>7
<1>5. ASSUME NEW p \in Commands, MintKey(p) PROVE TrustFacts'
  <2>0. PICK c : c = held[p].form.cred
    OBVIOUS
  <2>1. /\ step[p] \notin {"idle", "deleteKey"} /\ c \in Managed /\ held[p] \in CmdLocals /\ CmdOK(p) /\ AloneOK(p)
        /\ trust[c] # "rotated" /\ held[p].form.kind \in {"ensure", "rotate"} /\ p \in On(c)
    BY <2>0, <1>0, <1>1, <1>5 DEF MintKey
  <2>2. \A q \in Commands \ {p} : step'[q] = step[q] /\ held'[q] = held[q]
    BY <2>0, <1>0, <1>5 DEF MintKey, GoOn
  <2>3. step'[p] = "idle" \/ held'[p].form = held[p].form
    BY <2>0, <1>0, <1>5, <2>1 DEF MintKey, GoOn, CmdLocals
  <2>4. \A d \in Managed \ {c} : /\ creds'[d] = creds[d] /\ secret'[d] = secret[d] /\ row'[d] = row[d]
                                 /\ running'[d] = running[d] /\ trust'[d] = trust[d]
    BY <2>0, <1>0, <1>5 DEF MintKey
  <2>5. trust[c] = "no" => trust'[c] = "no"
    BY <2>0, <1>0, <1>5, <2>1 DEF MintKey
  <2>6. On(c) = {p} /\ step'[p] # "idle" => On(c)' = {p}
    BY <2>0, <2>1, <2>2, <2>3 DEF On
  <2>7. AloneOK(p)' /\ RotatedOK(c)'
    BY <2>0, <1>0, <1>5, <2>1, <2>3, <2>5, <2>6 DEF MintKey, GoOn, AloneOK, RotatedOK, Everywhere, CmdOK, CmdLocals
  <2>8. (\A q \in Commands \ {p} : AloneOK(q)') /\ \A d \in Managed \ {c} : RotatedOK(d)'
    BY <2>0, <1>0, <2>1, <2>2, <2>3, <2>4, <2>5, OtherCredentials
  <2>9. QED
    BY <2>0, <1>2, <2>1, <2>7, <2>8
<1>6. ASSUME NEW p \in Commands, InsertCred(p) PROVE TrustFacts'
  <2>0. PICK c : c = held[p].form.cred
    OBVIOUS
  <2>1. /\ step[p] \notin {"idle", "deleteKey"} /\ c \in Managed /\ held[p] \in CmdLocals /\ CmdOK(p) /\ AloneOK(p)
        /\ trust[c] # "rotated" /\ held[p].form.kind \in {"ensure", "rotate"} /\ p \in On(c)
    BY <2>0, <1>0, <1>1, <1>6 DEF InsertCred
  <2>2. \A q \in Commands \ {p} : step'[q] = step[q] /\ held'[q] = held[q]
    BY <2>0, <1>0, <1>6 DEF InsertCred, GoOn
  <2>3. step'[p] = "idle" \/ held'[p].form = held[p].form
    BY <2>0, <1>0, <1>6, <2>1 DEF InsertCred, GoOn, CmdLocals
  <2>4. \A d \in Managed \ {c} : /\ creds'[d] = creds[d] /\ secret'[d] = secret[d] /\ row'[d] = row[d]
                                 /\ running'[d] = running[d] /\ trust'[d] = trust[d]
    BY <2>0, <1>0, <1>6 DEF InsertCred
  <2>5. trust[c] = "no" => trust'[c] = "no"
    BY <2>0, <1>0, <1>6, <2>1 DEF InsertCred
  <2>6. On(c) = {p} /\ step'[p] # "idle" => On(c)' = {p}
    BY <2>0, <2>1, <2>2, <2>3 DEF On
  <2>7. AloneOK(p)' /\ RotatedOK(c)'
    BY <2>0, <1>0, <1>6, <2>1, <2>3, <2>5, <2>6 DEF InsertCred, GoOn, AloneOK, RotatedOK, Everywhere, CmdOK, CmdLocals
  <2>8. (\A q \in Commands \ {p} : AloneOK(q)') /\ \A d \in Managed \ {c} : RotatedOK(d)'
    BY <2>0, <1>0, <2>1, <2>2, <2>3, <2>4, <2>5, OtherCredentials
  <2>9. QED
    BY <2>0, <1>2, <2>1, <2>7, <2>8
<1>7. ASSUME NEW p \in Commands, SetLogin(p) PROVE TrustFacts'
  <2>0. PICK c : c = held[p].form.cred
    OBVIOUS
  <2>1. /\ step[p] \notin {"idle", "deleteKey"} /\ c \in Managed /\ held[p] \in CmdLocals /\ CmdOK(p) /\ AloneOK(p)
        /\ trust[c] # "rotated" /\ held[p].form.kind \in {"ensure", "rotate"} /\ p \in On(c)
    BY <2>0, <1>0, <1>1, <1>7 DEF SetLogin
  <2>2. \A q \in Commands \ {p} : step'[q] = step[q] /\ held'[q] = held[q]
    BY <2>0, <1>0, <1>7 DEF SetLogin, GoOn, EndCmd
  <2>3. step'[p] = "idle" \/ held'[p].form = held[p].form
    BY <2>0, <1>0, <1>7, <2>1 DEF SetLogin, GoOn, EndCmd, CmdLocals
  <2>4. \A d \in Managed \ {c} : /\ creds'[d] = creds[d] /\ secret'[d] = secret[d] /\ row'[d] = row[d]
                                 /\ running'[d] = running[d] /\ trust'[d] = trust[d]
    BY <2>0, <1>0, <1>7 DEF SetLogin
  <2>5. trust[c] = "no" => trust'[c] = "no"
    BY <2>0, <1>0, <1>7, <2>1 DEF SetLogin
  <2>6. On(c) = {p} /\ step'[p] # "idle" => On(c)' = {p}
    BY <2>0, <2>1, <2>2, <2>3 DEF On
  <2>7. AloneOK(p)' /\ RotatedOK(c)'
    BY <2>0, <1>0, <1>7, <2>1, <2>3, <2>5, <2>6 DEF SetLogin, GoOn, EndCmd, AloneOK, RotatedOK, Everywhere, CmdOK, CmdLocals
  <2>8. (\A q \in Commands \ {p} : AloneOK(q)') /\ \A d \in Managed \ {c} : RotatedOK(d)'
    BY <2>0, <1>0, <2>1, <2>2, <2>3, <2>4, <2>5, OtherCredentials
  <2>9. QED
    BY <2>0, <1>2, <2>1, <2>7, <2>8
<1>8. ASSUME NEW p \in Commands, RemoveSecret(p) PROVE TrustFacts'
  <2>0. PICK c : c = held[p].form.cred
    OBVIOUS
  <2>1. /\ step[p] \notin {"idle", "deleteKey"} /\ c \in Managed /\ held[p] \in CmdLocals /\ CmdOK(p) /\ AloneOK(p)
        /\ trust[c] # "rotated" /\ held[p].form.kind \in {"ensure", "rotate"} /\ p \in On(c)
    BY <2>0, <1>0, <1>1, <1>8 DEF RemoveSecret
  <2>2. \A q \in Commands \ {p} : step'[q] = step[q] /\ held'[q] = held[q]
    BY <2>0, <1>0, <1>8 DEF RemoveSecret, GoOn
  <2>3. step'[p] = "idle" \/ held'[p].form = held[p].form
    BY <2>0, <1>0, <1>8, <2>1 DEF RemoveSecret, GoOn, CmdLocals
  <2>4. \A d \in Managed \ {c} : /\ creds'[d] = creds[d] /\ secret'[d] = secret[d] /\ row'[d] = row[d]
                                 /\ running'[d] = running[d] /\ trust'[d] = trust[d]
    BY <2>0, <1>0, <1>8 DEF RemoveSecret
  <2>5. trust[c] = "no" => trust'[c] = "no"
    BY <2>0, <1>0, <1>8, <2>1 DEF RemoveSecret
  <2>6. On(c) = {p} /\ step'[p] # "idle" => On(c)' = {p}
    BY <2>0, <2>1, <2>2, <2>3 DEF On
  <2>7. AloneOK(p)' /\ RotatedOK(c)'
    BY <2>0, <1>0, <1>8, <2>1, <2>3, <2>5, <2>6 DEF RemoveSecret, GoOn, AloneOK, RotatedOK, Everywhere, CmdOK, CmdLocals
  <2>8. (\A q \in Commands \ {p} : AloneOK(q)') /\ \A d \in Managed \ {c} : RotatedOK(d)'
    BY <2>0, <1>0, <2>1, <2>2, <2>3, <2>4, <2>5, OtherCredentials
  <2>9. QED
    BY <2>0, <1>2, <2>1, <2>7, <2>8
<1>9. ASSUME NEW p \in Commands, CreateSecret(p) PROVE TrustFacts'
  <2>0. PICK c : c = held[p].form.cred
    OBVIOUS
  <2>1. /\ step[p] \notin {"idle", "deleteKey"} /\ c \in Managed /\ held[p] \in CmdLocals /\ CmdOK(p) /\ AloneOK(p)
        /\ trust[c] # "rotated" /\ held[p].form.kind \in {"ensure", "rotate"} /\ p \in On(c)
    BY <2>0, <1>0, <1>1, <1>9 DEF CreateSecret
  <2>2. \A q \in Commands \ {p} : step'[q] = step[q] /\ held'[q] = held[q]
    BY <2>0, <1>0, <1>9 DEF CreateSecret, GoOn, EndCmd
  <2>3. step'[p] = "idle" \/ held'[p].form = held[p].form
    BY <2>0, <1>0, <1>9, <2>1 DEF CreateSecret, GoOn, EndCmd, CmdLocals
  <2>4. \A d \in Managed \ {c} : /\ creds'[d] = creds[d] /\ secret'[d] = secret[d] /\ row'[d] = row[d]
                                 /\ running'[d] = running[d] /\ trust'[d] = trust[d]
    BY <2>0, <1>0, <1>9 DEF CreateSecret
  <2>5. trust[c] = "no" => trust'[c] = "no"
    BY <2>0, <1>0, <1>9, <2>1 DEF CreateSecret
  <2>6. On(c) = {p} /\ step'[p] # "idle" => On(c)' = {p}
    BY <2>0, <2>1, <2>2, <2>3 DEF On
  <2>7. AloneOK(p)' /\ RotatedOK(c)'
    BY <2>0, <1>0, <1>9, <2>1, <2>3, <2>5, <2>6 DEF CreateSecret, GoOn, EndCmd, AloneOK, RotatedOK, Everywhere, CmdOK, CmdLocals
  <2>8. (\A q \in Commands \ {p} : AloneOK(q)') /\ \A d \in Managed \ {c} : RotatedOK(d)'
    BY <2>0, <1>0, <2>1, <2>2, <2>3, <2>4, <2>5, OtherCredentials
  <2>9. QED
    BY <2>0, <1>2, <2>1, <2>7, <2>8
<1>10. ASSUME NEW p \in Commands, RestartService(p) PROVE TrustFacts'
  <2>0. PICK c : c = held[p].form.cred
    OBVIOUS
  <2>1. /\ step[p] \notin {"idle", "deleteKey"} /\ c \in Managed /\ held[p] \in CmdLocals /\ CmdOK(p) /\ AloneOK(p)
        /\ trust[c] # "rotated" /\ held[p].form.kind \in {"ensure", "rotate"} /\ p \in On(c)
    BY <2>0, <1>0, <1>1, <1>10 DEF RestartService
  <2>2. \A q \in Commands \ {p} : step'[q] = step[q] /\ held'[q] = held[q]
    BY <2>0, <1>0, <1>10 DEF RestartService, GoOn
  <2>3. step'[p] = "idle" \/ held'[p].form = held[p].form
    BY <2>0, <1>0, <1>10, <2>1 DEF RestartService, GoOn, CmdLocals
  <2>4. \A d \in Managed \ {c} : /\ creds'[d] = creds[d] /\ secret'[d] = secret[d] /\ row'[d] = row[d]
                                 /\ running'[d] = running[d] /\ trust'[d] = trust[d]
    BY <2>0, <1>0, <1>10 DEF RestartService
  <2>5. trust[c] = "no" => trust'[c] = "no"
    BY <2>0, <1>0, <1>10, <2>1 DEF RestartService
  <2>6. On(c) = {p} /\ step'[p] # "idle" => On(c)' = {p}
    BY <2>0, <2>1, <2>2, <2>3 DEF On
  <2>7. AloneOK(p)' /\ RotatedOK(c)'
    BY <2>0, <1>0, <1>10, <2>1, <2>3, <2>5, <2>6 DEF RestartService, GoOn, AloneOK, RotatedOK, Everywhere, CmdOK, CmdLocals
  <2>8. (\A q \in Commands \ {p} : AloneOK(q)') /\ \A d \in Managed \ {c} : RotatedOK(d)'
    BY <2>0, <1>0, <2>1, <2>2, <2>3, <2>4, <2>5, OtherCredentials
  <2>9. QED
    BY <2>0, <1>2, <2>1, <2>7, <2>8
<1>11. ASSUME NEW p \in Commands, SyncRow(p) PROVE TrustFacts'
  <2>0. PICK c : c = held[p].form.cred
    OBVIOUS
  <2>1. /\ step[p] \notin {"idle", "deleteKey"} /\ c \in Managed /\ held[p] \in CmdLocals /\ CmdOK(p) /\ AloneOK(p)
        /\ trust[c] # "rotated" /\ held[p].form.kind \in {"ensure", "rotate"} /\ p \in On(c)
    BY <2>0, <1>0, <1>1, <1>11 DEF SyncRow
  <2>2. \A q \in Commands \ {p} : step'[q] = step[q] /\ held'[q] = held[q]
    BY <2>0, <1>0, <1>11 DEF SyncRow, EndCmd
  <2>3. step'[p] = "idle" \/ held'[p].form = held[p].form
    BY <2>0, <1>0, <1>11, <2>1 DEF SyncRow, EndCmd, CmdLocals
  <2>4. \A d \in Managed \ {c} : /\ creds'[d] = creds[d] /\ secret'[d] = secret[d] /\ row'[d] = row[d]
                                 /\ running'[d] = running[d] /\ trust'[d] = trust[d]
    BY <2>0, <1>0, <1>11 DEF SyncRow
  <2>5. trust[c] = "no" => trust'[c] = "no"
    BY <2>0, <1>0, <1>11, <2>1 DEF SyncRow
  <2>6. On(c) = {p} /\ step'[p] # "idle" => On(c)' = {p}
    BY <2>0, <2>1, <2>2, <2>3 DEF On
  <2>7. AloneOK(p)' /\ RotatedOK(c)'
    BY <2>0, <1>0, <1>11, <2>1, <2>3, <2>5, <2>6 DEF SyncRow, EndCmd, AloneOK, RotatedOK, Everywhere, CmdOK, CmdLocals
  <2>8. (\A q \in Commands \ {p} : AloneOK(q)') /\ \A d \in Managed \ {c} : RotatedOK(d)'
    BY <2>0, <1>0, <2>1, <2>2, <2>3, <2>4, <2>5, OtherCredentials
  <2>9. QED
    BY <2>0, <1>2, <2>1, <2>7, <2>8
<1>12. ASSUME NEW p \in Commands, NEW i \in 1 .. MaxKey, FindKey(p, i) PROVE TrustFacts'
  BY <1>0, <1>12, NoCredential DEF FindKey, StartCmd, data, NoCmd, TrustFacts
<1>13. ASSUME NEW p \in Commands, DeleteKey(p) PROVE TrustFacts'
  BY <1>0, <1>13, NoCredential DEF DeleteKey, EndCmd, CmdOK, TrustFacts
<1>14. ASSUME NEW p \in Commands, Abort(p) PROVE TrustFacts'
  <2>1. /\ step[p] # "idle" /\ step'[p] = "idle" /\ UNCHANGED data
        /\ \A q \in Commands \ {p} : step'[q] = step[q] /\ held'[q] = held[q]
        /\ trust' = [c \in Managed |-> IF p \in On(c) THEN "no" ELSE trust[c]]
    BY <1>0, <1>14 DEF Abort, EndCmd
  <2>2. CASE step[p] = "deleteKey"
    <3>1. held[p].form.kind = "delete" /\ trust' = trust
      BY <1>0, <2>1, <2>2 DEF CmdOK, On
    <3>2. QED
      BY <1>0, <2>1, <3>1, NoCredential DEF data, TrustFacts
  <2>3. CASE step[p] # "deleteKey"
    <3>0. PICK c : c = held[p].form.cred
      OBVIOUS
    <3>1. /\ c \in Managed /\ held[p].form.kind # "delete" /\ trust'[c] = "no"
          /\ \A d \in Managed \ {c} : trust'[d] = trust[d]
      BY <3>0, <1>0, <1>1, <2>1, <2>3 DEF On
    <3>2. AloneOK(p)' /\ RotatedOK(c)'
      BY <3>0, <2>1, <3>1 DEF AloneOK, RotatedOK
    <3>3. (\A q \in Commands \ {p} : AloneOK(q)') /\ \A d \in Managed \ {c} : RotatedOK(d)'
      BY <3>0, <1>0, <2>1, <3>1, OtherCredentials DEF data
    <3>4. QED
      BY <3>0, <1>2, <3>1, <3>2, <3>3
  <2>4. QED
    BY <2>2, <2>3
<1>15. ASSUME NEW n \in AllNames, CreateKey(n) PROVE TrustFacts'
  BY <1>15, NoCredential DEF CreateKey, TrustFacts
<1>16. ASSUME NEW c \in Managed, AddRow(c) \/ DropRow(c) \/ Deploy(c) \/ TakeDown(c) PROVE TrustFacts'
  <2>1. UNCHANGED <<creds, secret, step, held>> /\ \A d \in Managed : On(d)' = On(d)
    BY <1>16 DEF AddRow, DropRow, Deploy, TakeDown, On
  <2>2. ASSUME NEW d \in Managed
        PROVE  /\ trust'[d] \in {trust[d], "no"}
               /\ row'[d] \in {row[d], NULL} \/ trust'[d] = "no"
               /\ running'[d] \in {running[d], NULL} \/ (secret[d] # NULL /\ running'[d] = secret[d])
    BY <1>0, <1>16 DEF AddRow, DropRow, Deploy, TakeDown
  <2>3. \A d \in Managed : RotatedOK(d)'
    BY <1>0, <2>1, <2>2 DEF RotatedOK, Everywhere
  <2>4. ASSUME NEW q \in Commands PROVE AloneOK(q)'
    <3>1. step[q] # "idle" /\ held[q].form.kind # "delete" => held[q].form.cred \in Managed
      BY <1>0, <1>1 DEF CmdOK
    <3>2. SUFFICES ASSUME step[q] # "idle", held[q].form.kind # "delete", trust'[held[q].form.cred] # "no"
                   PROVE  AloneOK(q)'
      BY <2>1 DEF AloneOK
    <3>3. PICK d \in Managed : d = held[q].form.cred
      BY <3>1, <3>2
    <3>4. /\ trust[d] = "alone" /\ trust'[d] = "alone" /\ held[q].form.kind = "rotate" /\ On(d)' = {q}
          /\ step[q] \in {"lookup", "remove", "create", "restart", "sync"}
      <4>1. trust[d] # "no" /\ AloneOK(q)
        BY <1>0, <2>2, <3>2, <3>3
      <4>2. /\ trust[d] = "alone" /\ held[q].form.kind = "rotate" /\ On(d) = {q}
            /\ step[q] \in {"lookup", "remove", "create", "restart", "sync"}
        BY <3>2, <3>3, <4>1 DEF AloneOK
      <4>3. QED
        BY <2>1, <2>2, <3>2, <3>3, <4>2
    <3>5. secret[d] = NULL /\ running[d] = NULL => running'[d] = NULL
      BY <2>2
    <3>6. Everywhere(d) => Everywhere(d)'
      BY <2>1, <2>2 DEF Everywhere
    <3>7. QED
      BY <1>0, <2>1, <3>2, <3>3, <3>4, <3>5, <3>6 DEF AloneOK
  <2>5. QED
    BY <2>3, <2>4 DEF TrustFacts
<1>17. CASE UNCHANGED credVars
  BY <1>17, NoCredential DEF credVars, TrustFacts
<1>18. QED
  BY <1>3, <1>4, <1>5, <1>6, <1>7, <1>8, <1>9, <1>10, <1>11, <1>12, <1>13, <1>14, <1>15, <1>16, <1>17 DEF CredNext

LEMMA CredInitially ==
  ASSUME CredConstants, CredInit
  PROVE  CredInv
<1>1. /\ CredTypeOK
      /\ step = [p \in Commands |-> "idle"] /\ creds = [c \in Managed |-> NULL]
      /\ keys = [n \in AllNames |-> NULL] /\ trust = [c \in Managed |-> "no"]
  <2>1. NoCmd \in CmdLocals
    BY DEF NoCmd, CmdLocals, Users, CmdSteps, Values, CredConstants
  <2>2. 0 \in Values /\ 1 \in 1 .. MaxKey + 1
    BY DEF Values, CredConstants
  <2>3. QED
    BY <2>1, <2>2 DEF CredInit, CredTypeOK, CmdSteps
<1>2. \A p \in Commands : CmdOK(p) /\ AimOK(p) /\ AloneOK(p)
  BY <1>1 DEF CmdOK, AimOK, AloneOK
<1>3. KeysOK /\ EdgeOK /\ \A c \in Managed : RotatedOK(c)
  BY <1>1 DEF KeysOK, EdgeOK, RotatedOK
<1>4. QED
  BY <1>1, <1>2, <1>3 DEF CredInv

LEMMA CredInvInductive ==
  ASSUME CredConstants, CredInv, [CredNext]_credVars
  PROVE  CredInv'
<1>1. CredTypeOK' /\ (\A q \in Commands : CmdOK(q)') /\ KeyFacts' /\ TrustFacts'
  BY CredTypeInductive, CmdInductive, KeysInductive, TrustInductive
<1>2. QED
  BY <1>1 DEF CredInv, KeyFacts, TrustFacts

LEMMA CredInvariant == CredSpec => []CredInv
<1>1. CredInit => CredInv
  BY CredInitially, CredAssumption
<1>2. CredInv /\ [CredNext]_credVars => CredInv'
  BY CredInvInductive, CredAssumption
<1>3. QED
  BY <1>1, <1>2, PTL DEF CredSpec

\* The daemon accepts the token of the console's credential, as the user "edge": the user
\* is made before the row that holds its token, with an id no deletion has found under
\* another name, and no command replaces either (ensureEdgeAPIToken, Rotate's refusal,
\* apikeys.Delete).
THEOREM EdgeTokenIsAccepted == CredSpec => []EdgeTokenAccepted
<1>1. CredInv => EdgeTokenAccepted
  <2> SUFFICES ASSUME CredInv, Edge \in Managed, creds[Edge] # NULL
               PROVE  Accepted(creds[Edge].value) = {"edge"}
    BY DEF EdgeTokenAccepted
  <2>1. /\ keys["edge"] # NULL /\ keys["edge"].token = creds[Edge].value /\ "edge" \in AllNames
        /\ \A m \in AllNames \ {"edge"} : keys[m] # NULL => keys[m].token # keys["edge"].token
    BY DEF CredInv, EdgeOK, KeysOK, AllNames
  <2>2. QED
    BY <2>1 DEF Accepted
<1>2. QED
  BY <1>1, CredInvariant, PTL

\* A rotation that no command ran beside has put the password everywhere: it stores the
\* new one, takes the old secret away, which it cannot while a service mounts it, and no
\* step of another credential or of a key touches what it wrote (Rotate).
THEOREM RotationIsComplete == CredSpec => []RotatedIsUsed
<1>1. CredInv => RotatedIsUsed
  BY DEF CredInv, RotatedOK, Everywhere, RotatedIsUsed
<1>2. QED
  BY <1>1, CredInvariant, PTL
=============================================================================
