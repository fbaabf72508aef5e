---------------------------- MODULE Credentials ----------------------------
(***************************************************************************)
(* The credentials pmcluster manages for its own components, the API keys  *)
(* and the secrets of the database.  cluster/credentials.go mints a        *)
(* credential (Bootstrap, Ensure) and replaces it (Rotate): the encrypted  *)
(* row, the Swarm secret that copies it, the service that mounts the       *)
(* secret and the row of the same name among the secrets are written by    *)
(* statements and calls of their own, any of which may fail.  The console  *)
(* authenticates with edge_api_token, which is the key of the user "edge"  *)
(* of apikeys.  The commands run on the node, next to one another and to   *)
(* the daemon, and may be killed.                                          *)
(***************************************************************************)
EXTENDS Integers, Nil

CONSTANTS
  Commands,   \* commands and requests that run at a time
  Managed,    \* the credentials
  Htpasswd,   \* those whose secret holds the user name too (formatHtpasswd)
  RootUsers,  \* those a new user name gives a new password (KindOpenObserve)
  Consumed,   \* those a service mounts (consumingService)
  Logins,     \* user names of credentials
  KeyNames,   \* names of API keys other than "edge"
  MaxMinted,  \* bound on the passwords and tokens ever minted
  MaxKey      \* bound on the ids of API keys

VARIABLES
  keys,     \* name -> row of the table of users (API keys), or NULL
  nextKey,  \* next AUTOINCREMENT id of that table
  creds,    \* credential -> its row, or NULL
  secret,   \* credential -> payload of its Swarm secret, or NULL
  row,      \* credential -> value of the database secret of that name, or NULL
  running,  \* credential -> payload its service was started with, or NULL
  minted,   \* how many passwords and tokens have been minted
  step, held,  \* per command: next step, what it was sent and has read
  trust     \* credential -> how far a rotation with no other command beside it got

credVars == <<keys, nextKey, creds, secret, row, running, minted, step, held, trust>>
data == <<keys, nextKey, creds, secret, row, running, minted>>
-----------------------------------------------------------------------------
Edge == "edge_api_token"
Users == Logins \union {"edge", NULL}
AllNames == KeyNames \union {"edge"}
Values   == 0 .. MaxMinted  \* 0: any value that was never a credential's
Payloads == [login : Users, value : Values]
KeyRows  == [id : 1 .. MaxKey, token : Values]
CredRows == [login : Users, value : Values]
\* The edge token is no account of OpenObserve's; no row or payload is NULL.
CredConstants ==
  /\ Edge \notin RootUsers /\ NULL \notin Logins \union {"edge"}
  /\ MaxMinted \in Nat /\ MaxKey \in Nat
  /\ NULL \notin KeyRows \union CredRows \union Payloads \union Values
ASSUME CredAssumption == CredConstants

\* The user names Bootstrap and Ensure ask for: Ensure knows no address for OpenObserve.
LoginsOf(c) == IF c = Edge THEN {"edge"} ELSE IF c \in RootUsers THEN Logins \union {NULL} ELSE Logins
CmdForms == (UNION {[kind : {"ensure"}, cred : {c}, login : LoginsOf(c)] : c \in Managed})
              \union [kind : {"rotate"}, cred : Managed]
              \union [kind : {"delete"}, key : 1 .. MaxKey]
CmdSteps == {"idle", "lookup", "mintKey", "insert", "setLogin", "remove", "create",
             "setLoginLast", "restart", "sync", "deleteKey"}
CmdLocals == [form : CmdForms \union {NULL}, login : Users, value : Values,
              after : CmdSteps]
NoCmd == [form |-> NULL, login |-> NULL, value |-> 0, after |-> "idle"]

\* serialisePassword.
Payload(c, login, v) == [login |-> IF c \in Htpasswd THEN login ELSE NULL, value |-> v]

On(c) == {p \in Commands : step[p] # "idle" /\ held[p].form.kind # "delete" /\ held[p].form.cred = c}

\* UserByToken: the key whose row holds this token.
Accepted(token) == {n \in AllNames : keys[n] # NULL /\ keys[n].token = token}

CredInit ==
  /\ keys = [n \in AllNames |-> NULL] /\ nextKey = 1
  /\ creds = [c \in Managed |-> NULL] /\ secret = creds /\ row = creds /\ running = creds
  /\ minted = 0
  /\ step = [p \in Commands |-> "idle"] /\ held = [p \in Commands |-> NoCmd]
  /\ trust = [c \in Managed |-> "no"]
-----------------------------------------------------------------------------
StartCmd(p, form, first) ==
  /\ step[p] = "idle"
  /\ step' = [step EXCEPT ![p] = first]
  /\ held' = [held EXCEPT ![p] = [NoCmd EXCEPT !.form = form]]
GoOn(p, next) == step' = [step EXCEPT ![p] = next]
EndCmd(p)  == step' = [step EXCEPT ![p] = "idle"] /\ held' = [held EXCEPT ![p] = NoCmd]

\* An error of a statement or a call, and a kill: the command is over.
Abort(p) ==
  /\ step[p] # "idle"
  /\ EndCmd(p)
  /\ trust' = [c \in Managed |-> IF p \in On(c) THEN "no" ELSE trust[c]]
  /\ UNCHANGED data

\* Bootstrap and Ensure, for one credential; Rotate, which refuses the edge token.
Run(p, form) ==
  /\ form.kind = "rotate" => form.cred # Edge
  /\ StartCmd(p, form, "lookup")
  /\ trust' = [trust EXCEPT ![form.cred] =
                 IF form.kind = "rotate" /\ On(form.cred) = {} THEN "alone" ELSE "no"]
  /\ UNCHANGED data

\* GetCredential and what follows from it.
Lookup(p) ==
  LET f == held[p].form
      c == f.cred
      renamed == f.kind = "ensure" /\ f.login \notin {NULL, creds[c].login}
      next == IF f.kind = "rotate" THEN "remove"
              ELSE IF renamed /\ c \in RootUsers THEN "setLogin" ELSE "create"
      fresh == f.kind = "rotate" \/ (renamed /\ c \in RootUsers)
  IN  /\ step[p] = "lookup"
      /\ UNCHANGED <<keys, nextKey, secret, row, running, trust>>
      /\ \/ /\ creds[c] = NULL /\ f.kind = "ensure"
            /\ GoOn(p, IF c = Edge THEN "mintKey" ELSE "insert")
            /\ held' = [held EXCEPT ![p].login = f.login]
            /\ UNCHANGED <<creds, minted>>
         \/ /\ creds[c] = NULL /\ f.kind = "rotate"
            /\ EndCmd(p) /\ UNCHANGED <<creds, minted>>
         \* RotateCredential stores a new password at once.
         \/ /\ creds[c] # NULL /\ fresh
            /\ minted < MaxMinted /\ minted' = minted + 1
            /\ creds' = [creds EXCEPT ![c].value = minted + 1]
            /\ GoOn(p, next)
            /\ held' = [held EXCEPT ![p].value = minted + 1,
                                  ![p].login = IF renamed THEN f.login ELSE creds[c].login,
                                  ![p].after = IF f.kind = "rotate" THEN "restart" ELSE "idle"]
         \/ /\ creds[c] # NULL /\ ~fresh
            /\ GoOn(p, next)
            /\ held' = [held EXCEPT ![p].value = creds[c].value,
                                  ![p].login = IF renamed THEN f.login ELSE creds[c].login,
                                  ![p].after = IF renamed THEN "setLoginLast" ELSE "idle"]
            /\ UNCHANGED <<creds, minted>>

\* ensureEdgeAPIToken: the user "edge" first; with a user of that name it fails.
\* The faulty variants number the keys after the last one that is left, as SQLite
\* does without AUTOINCREMENT.
AddLast(n, token) ==
  \E i \in 1 .. MaxKey :
    /\ \A m \in AllNames : keys[m] # NULL => keys[m].id < i
    /\ i = 1 \/ \E m \in AllNames : keys[m] # NULL /\ keys[m].id = i - 1
    /\ keys' = [keys EXCEPT ![n] = [id |-> i, token |-> token]]
    /\ nextKey' = nextKey
AddKey(n, token) ==
  /\ nextKey <= MaxKey
  /\ keys' = [keys EXCEPT ![n] = [id |-> nextKey, token |-> token]]
  /\ nextKey' = nextKey + 1

MintKey(p) ==
  /\ step[p] = "mintKey" /\ keys["edge"] = NULL
  /\ minted < MaxMinted /\ minted' = minted + 1
  /\ AddKey("edge", minted + 1)
  /\ GoOn(p, "insert") /\ held' = [held EXCEPT ![p].value = minted + 1]
  /\ UNCHANGED <<creds, secret, row, running, trust>>

\* InsertCredential: the name is the primary key.
InsertCred(p) ==
  LET c == held[p].form.cred
      v == IF c = Edge THEN held[p].value ELSE minted + 1
  IN  /\ step[p] = "insert" /\ creds[c] = NULL
      /\ v <= MaxMinted
      /\ minted' = IF c = Edge THEN minted ELSE v
      /\ creds' = [creds EXCEPT ![c] = [login |-> held[p].login, value |-> v]]
      /\ GoOn(p, "create") /\ held' = [held EXCEPT ![p].value = v]
      /\ UNCHANGED <<keys, nextKey, secret, row, running, trust>>

\* UpdateCredentialUsername, before the secret or after it.
SetLogin(p) ==
  /\ step[p] \in {"setLogin", "setLoginLast"}
  /\ creds' = [creds EXCEPT ![held[p].form.cred].login = held[p].login]
  /\ IF step[p] = "setLogin" THEN GoOn(p, "create") /\ UNCHANGED held ELSE EndCmd(p)
  /\ UNCHANGED <<keys, nextKey, secret, row, running, minted, trust>>

\* SecretRemove: Docker refuses it while a service mounts the secret, and it is no
\* error that there is none.  The faulty variant leaves the old secret to EnsureSecret.
KeepSecret(p) ==
  /\ step[p] = "remove"
  /\ GoOn(p, "create")
  /\ UNCHANGED <<data, held, trust>>
RemoveSecret(p) ==
  LET c == held[p].form.cred
  IN  /\ step[p] = "remove"
      /\ running[c] = NULL
      /\ secret' = [secret EXCEPT ![c] = NULL]
      /\ GoOn(p, "create")
      /\ UNCHANGED <<keys, nextKey, creds, row, running, minted, held, trust>>

\* EnsureSecret leaves a secret that exists as it is.
CreateSecret(p) ==
  LET c == held[p].form.cred
  IN  /\ step[p] = "create"
      /\ secret' = [secret EXCEPT ![c] =
                      IF @ # NULL THEN @ ELSE Payload(c, held[p].login, held[p].value)]
      /\ IF held[p].after = "idle" THEN EndCmd(p) ELSE GoOn(p, held[p].after) /\ UNCHANGED held
      /\ UNCHANGED <<keys, nextKey, creds, row, running, minted, trust>>

\* ForceUpdateService: a service that is up starts again with the secret of now.
RestartService(p) ==
  LET c == held[p].form.cred
  IN  /\ step[p] = "restart"
      /\ running' = [running EXCEPT ![c] =
                       IF @ = NULL \/ c \notin Consumed THEN @ ELSE secret[c]]
      /\ GoOn(p, "sync")
      /\ UNCHANGED <<keys, nextKey, creds, secret, row, minted, held, trust>>

\* GetSecret, UpdateSecret: the row the console reveals follows, if there is one.
SyncRow(p) ==
  LET c == held[p].form.cred
  IN  /\ step[p] = "sync"
      /\ row' = [row EXCEPT ![c] = IF @ = NULL THEN NULL ELSE held[p].value]
      /\ trust' = [trust EXCEPT ![c] = IF @ = "alone" THEN "rotated" ELSE @]
      /\ EndCmd(p)
      /\ UNCHANGED <<keys, nextKey, creds, secret, running, minted>>
-----------------------------------------------------------------------------
\* user create, also under the name of the console's key.
CreateKey(n) ==
  /\ keys[n] = NULL
  /\ minted < MaxMinted /\ minted' = minted + 1
  /\ AddKey(n, minted + 1)
  /\ UNCHANGED <<creds, secret, row, running, step, held, trust>>

\* apikeys.Delete, of the id that was found for a name: UserByID and its guard, then
\* the statement, by id.
Deletable(i) == \E n \in AllNames \ {"edge"} : keys[n] # NULL /\ keys[n].id = i

FindKey(p, i) ==
  /\ Deletable(i)
  /\ StartCmd(p, [kind |-> "delete", key |-> i], "deleteKey")
  /\ UNCHANGED <<data, trust>>

DeleteKey(p) ==
  /\ step[p] = "deleteKey"
  /\ keys' = [n \in AllNames |-> IF keys[n] # NULL /\ keys[n].id = held[p].form.key
                                   THEN NULL ELSE keys[n]]
  /\ EndCmd(p)
  /\ UNCHANGED <<nextKey, creds, secret, row, running, minted, trust>>

\* secret create and secret delete, under the name of a managed secret.
AddRow(c) ==
  /\ row[c] = NULL
  /\ row' = [row EXCEPT ![c] = 0] /\ trust' = [trust EXCEPT ![c] = "no"]
  /\ UNCHANGED <<keys, nextKey, creds, secret, running, minted, step, held>>
DropRow(c) ==
  /\ row[c] # NULL
  /\ row' = [row EXCEPT ![c] = NULL]
  /\ UNCHANGED <<keys, nextKey, creds, secret, running, minted, step, held, trust>>

\* The service is deployed, which takes the secret, or taken down.
Deploy(c) ==
  /\ c \in Consumed /\ running[c] = NULL /\ secret[c] # NULL
  /\ running' = [running EXCEPT ![c] = secret[c]]
  /\ UNCHANGED <<keys, nextKey, creds, secret, row, minted, step, held, trust>>
TakeDown(c) ==
  /\ running[c] # NULL
  /\ running' = [running EXCEPT ![c] = NULL]
  /\ UNCHANGED <<keys, nextKey, creds, secret, row, minted, step, held, trust>>

CredNext ==
  \/ \E p \in Commands :
       \/ \E form \in CmdForms : form.kind # "delete" /\ Run(p, form)
       \/ Lookup(p) \/ MintKey(p) \/ InsertCred(p) \/ SetLogin(p)
       \/ RemoveSecret(p) \/ CreateSecret(p) \/ RestartService(p) \/ SyncRow(p)
       \/ (\E i \in 1 .. MaxKey : FindKey(p, i)) \/ DeleteKey(p) \/ Abort(p)
  \/ \E n \in AllNames : CreateKey(n)
  \/ \E c \in Managed : AddRow(c) \/ DropRow(c) \/ Deploy(c) \/ TakeDown(c)

CredSpec == CredInit /\ [][CredNext]_credVars
-----------------------------------------------------------------------------
\* The tables and what the commands hold are of the right shape.
CredTypeOK ==
  /\ keys \in [AllNames -> KeyRows \union {NULL}]
  /\ nextKey \in 1 .. MaxKey + 1 /\ minted \in Values
  /\ creds \in [Managed -> CredRows \union {NULL}]
  /\ secret \in [Managed -> Payloads \union {NULL}]
  /\ running \in [Managed -> Payloads \union {NULL}]
  /\ row \in [Managed -> Values \union {NULL}]
  /\ step \in [Commands -> CmdSteps] /\ held \in [Commands -> CmdLocals]
  /\ trust \in [Managed -> {"no", "alone", "rotated"}]

\* Once the console's credential is recorded, the daemon accepts the token it holds,
\* as the user "edge": no deletion of another key that raced with its creation, and
\* no run of up that failed half-way, takes the user away (ensureEdgeAPIToken and
\* apikeys.Delete, whose guard is on the name and whose statement on the id).
EdgeTokenAccepted ==
  \A c \in Managed \intersect {Edge} : creds[c] # NULL => Accepted(creds[c].value) = {"edge"}

\* A rotation no other command ran beside, which returned the new password, has put
\* it everywhere: the row, the Swarm secret, the service that mounts it and the
\* secret the console reveals hold the same value (Rotate).
RotatedIsUsed ==
  \A c \in Managed : trust[c] = "rotated" =>
    /\ secret[c] = Payload(c, creds[c].login, creds[c].value)
    /\ running[c] \in {NULL, secret[c]}
    /\ row[c] \in {NULL, creds[c].value}
=============================================================================
