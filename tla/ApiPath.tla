------------------------------ MODULE ApiPath ------------------------------
(***************************************************************************)
(* The way of an operation from a page of the console, a command with      *)
(* --api-url or a command on the node to the service that carries it out,  *)
(* and the way of its answer back: the checks of the front end, the client *)
(* (internal/ui/pmapi, internal/remote), the middlewares of the daemon     *)
(* (internal/server, internal/auth), the handlers (the http.go of each     *)
(* package) and mapError.  The callers contend for the rows of one         *)
(* resource; the services themselves are modelled elsewhere, here they     *)
(* only find, make or remove a row.  A payload is fine or has one defect;  *)
(* a message is the set of keywords of mapError it contains.               *)
(***************************************************************************)
EXTENDS Integers, Sequences, FiniteSets

CONSTANTS
  Callers, Names,
  Fronts,        \* subset of {"page", "remote", "local"}
  Contended,     \* the resources looked at
  NameWords,     \* name -> the keywords of mapError the name contains
  MaxCalls,      \* bound: calls on their way at once, those given up included
  Edge           \* the name whose key the console uses (the edge user)

VARIABLES
  res,           \* the resource the callers contend for
  rows,          \* name -> "absent", "fine" or the defect its row was stored with
  at, call,      \* per caller: where its call is and what it asks
  err,           \* per caller: what the service returned
  heard,         \* per caller: what the client returned
  late           \* per caller: the call it gave up that is still on its way, if any

callVars == <<res, rows, at, call, err, heard, late>>

Resources == {"config", "secret", "key", "webhook", "service", "stack", "backup", "host"}
ASSUME CallConstants ==
  /\ Fronts \subseteq {"page", "remote", "local"} /\ Contended \subseteq Resources
  /\ Edge \in Names
-----------------------------------------------------------------------------
\* A payload may have a defect: "name", "value", "scope", "kind", "stack" (one named for a
\* cluster row), "version" or "argv".  A call ends "ok", "failed" or with a sentinel.
Reply(status, words) == [status |-> status, words |-> words]

\* Page checks before it sends: the defects refused, per operation it offers.
StackConfigsPage ==
  [config |-> [create |-> {"name"}, update |-> {"name"}, delete |-> {"name"},
               rollback |-> {"name", "version"}, read |-> {}],
   secret |-> [create |-> {"name", "value"}, update |-> {"name", "value"}, delete |-> {"name"},
               read |-> {"name"}]]
SettingsPage ==
  [config |-> [create |-> {"name"}, update |-> {"name"}, delete |-> {"name"},
               rollback |-> {"version"}, read |-> {}],
   secret |-> [create |-> {"name", "value"}, update |-> {"name", "value"}, delete |-> {"name"},
               read |-> {"name"}]]
APIKeysPage  == [create |-> {"name"}, delete |-> {"name"}, read |-> {}]
WebhooksPage == [create |-> {"name"}, delete |-> {"name"}, read |-> {}]

\* The commands check as much, whichever backend they have.
ConfigCommands == [create |-> {"name", "scope", "kind", "value"}, update |-> {"value"},
                   rollback |-> {}, read |-> {}]
SecretCommands == [create |-> {"name", "value", "scope"}, delete |-> {}, read |-> {}]
UserCommands   == [create |-> {"name"}, delete |-> {"name"}, read |-> {}]
WebhookCommands == [create |-> {"name"}, delete |-> {}, read |-> {}]
ServiceCommands == [restart |-> {}, exec |-> {}, read |-> {}]
StackCommands   == [deploy |-> {}, rollback |-> {}, sync |-> {}, delete |-> {}, read |-> {}]
BackupCommands  == [run |-> {}, restore |-> {}, read |-> {}]
HostCommands    == [put |-> {}, delete |-> {}, read |-> {}]

Checks(front, r) ==
  CASE r = "config"  -> IF front = "page" THEN SettingsPage.config ELSE ConfigCommands
    [] r = "secret"  -> IF front = "page" THEN StackConfigsPage.secret ELSE SecretCommands
    [] r = "key"     -> IF front = "page" THEN APIKeysPage ELSE UserCommands
    [] r = "webhook" -> IF front = "page" THEN WebhooksPage ELSE WebhookCommands
    [] r = "service" -> ServiceCommands
    [] r = "stack"   -> StackCommands
    [] r = "backup"  -> BackupCommands
    [] r = "host"    -> HostCommands

\* What a payload of the operation can have wrong; only a new row can go without a
\* name, a path without one has no route.
Slots(r, v) ==
  CASE v = "create" /\ r = "config" -> {"name", "scope", "kind", "stack", "value"}
    [] v = "create" /\ r = "secret" -> {"name", "scope", "stack", "value"}
    [] v \in {"update", "put"} -> {"value"}
    [] v = "rollback" -> {"version"}
    [] v = "exec"     -> {"argv"}
    [] v = "create"   -> {"name"}
    [] OTHER -> {}
-----------------------------------------------------------------------------
\* The clients: the method each operation is sent with.
RemoteConfigs  == [create |-> "POST", update |-> "PUT", rollback |-> "POST", delete |-> "DELETE", read |-> "GET"]
RemoteSecrets  == [create |-> "POST", update |-> "PUT", delete |-> "DELETE", read |-> "GET"]
RemoteKeys     == [create |-> "POST", delete |-> "DELETE", read |-> "GET"]
RemoteWebhooks == [create |-> "POST", delete |-> "DELETE", read |-> "GET"]
RemoteServices == [restart |-> "POST", exec |-> "POST", read |-> "GET"]
RemoteStacks   == [deploy |-> "POST", rollback |-> "POST", sync |-> "POST", delete |-> "DELETE", read |-> "GET"]
RemoteBackups  == [run |-> "POST", restore |-> "POST", read |-> "GET"]
RemoteHosts    == [put |-> "PUT", delete |-> "DELETE", read |-> "GET"]
RemoteMethods  ==
  [config |-> RemoteConfigs, secret |-> RemoteSecrets, key |-> RemoteKeys, webhook |-> RemoteWebhooks,
   service |-> RemoteServices, stack |-> RemoteStacks, backup |-> RemoteBackups, host |-> RemoteHosts]

\* The console's client has the same operations.
PageConfigs  == [create |-> "POST", update |-> "PUT", rollback |-> "POST", delete |-> "DELETE", read |-> "GET"]
PageServices == [restart |-> "POST", exec |-> "POST", read |-> "GET"]
PageAccess   == [key |-> [create |-> "POST", delete |-> "DELETE", read |-> "GET"],
                 webhook |-> [create |-> "POST", delete |-> "DELETE", read |-> "GET"],
                 secret |-> [create |-> "POST", update |-> "PUT", delete |-> "DELETE", read |-> "GET"]]
PageRuntime  == [stack |-> [deploy |-> "POST", rollback |-> "POST", sync |-> "POST", delete |-> "DELETE",
                            read |-> "GET"],
                 backup |-> [run |-> "POST", restore |-> "POST", read |-> "GET"],
                 host |-> [put |-> "PUT", delete |-> "DELETE", read |-> "GET"]]
Method(front, r, v) ==
  CASE front = "remote" -> RemoteMethods[r][v]
    [] r = "config"  -> PageConfigs[v]
    [] r = "service" -> PageServices[v]
    [] r \in DOMAIN PageAccess   -> PageAccess[r][v]
    [] OTHER -> PageRuntime[r][v]
-----------------------------------------------------------------------------
\* The routes of the daemon.
Mounted ==
  [config  |-> [create |-> "POST", update |-> "PUT", rollback |-> "POST", delete |-> "DELETE", read |-> "GET"],
   secret  |-> [create |-> "POST", update |-> "PUT", delete |-> "DELETE", read |-> "GET"],
   key     |-> [create |-> "POST", delete |-> "DELETE", read |-> "GET"],
   webhook |-> [create |-> "POST", delete |-> "DELETE", read |-> "GET"],
   service |-> [restart |-> "POST", exec |-> "POST", read |-> "GET"],
   stack   |-> [deploy |-> "POST", rollback |-> "POST", sync |-> "POST", delete |-> "DELETE", read |-> "GET"],
   backup  |-> [run |-> "POST", restore |-> "POST", read |-> "GET"],
   host    |-> [put |-> "PUT", delete |-> "DELETE", read |-> "GET"]]

\* The handlers: what they refuse themselves, and what they answer for an error.
Refuses(r, v) ==
  CASE r = "config" /\ v = "create"   -> {"name", "scope", "kind", "stack"}
    [] r = "secret" /\ v = "create"   -> {"name", "scope", "stack", "value"}
    [] r = "secret" /\ v = "update"   -> {"name", "value"}
    [] r \in {"config", "stack"} /\ v = "rollback" -> {"version"}
    [] r = "host" /\ v = "put"        -> {"name", "value"}
    [] r \in {"key", "webhook", "secret", "host"} /\ v \in {"create", "delete"} -> {"name"}
    [] OTHER -> {}
ConfigReply(e, n) ==
  CASE e = "exists"  -> Reply(409, {"config"} \union NameWords[n])
    [] e = "missing" -> Reply(404, {"config"} \union NameWords[n])
    [] e = "version" -> Reply(404, {"config"})
    [] e = "ok" -> Reply(200, {})
    [] OTHER -> Reply(500, {})
SecretReply(e, n) ==
  CASE e = "exists"  -> Reply(409, {"secret"} \union NameWords[n])
    [] e = "missing" -> Reply(404, {"secret"} \union NameWords[n])
    [] e = "ok" -> Reply(200, {})
    [] OTHER -> Reply(500, {})
KeyReply(e, n) ==
  CASE e = "exists"  -> Reply(409, {"user"} \union NameWords[n])
    [] e = "missing" -> Reply(404, {"api key"})
    [] e = "edge"    -> Reply(409, {"edge", "user"})
    [] e = "self"    -> Reply(409, {"authenticated"})
    [] e = "ok" -> Reply(200, {})
    [] OTHER -> Reply(500, {})
WebhookReply(e, n) ==
  CASE e = "exists"  -> Reply(409, {"webhook"} \union NameWords[n])
    [] e = "missing" -> Reply(404, {"webhook"} \union NameWords[n])
    [] e = "ok" -> Reply(200, {})
    [] OTHER -> Reply(500, {})
StackReply(e, n) ==
  CASE e = "missing" -> Reply(404, {"stack"})
    [] e = "version" -> Reply(404, {"revision"})
    [] e = "ok" -> Reply(200, {})
    [] OTHER -> Reply(400, {})
BackupReply(e, n) ==
  CASE e = "unconfigured" -> Reply(503, {})
    [] e = "ok" -> Reply(200, {})
    [] OTHER -> Reply(502, {})
ServiceReply(e, n) == IF e = "ok" THEN Reply(200, {}) ELSE Reply(400, {})
\* A faulty variant of HostReply: a host that is gone already is a success.
HostGone(e, n) == IF e \in {"ok", "missing"} THEN Reply(200, {}) ELSE Reply(500, {})
HostReply(e, n) ==
  CASE e = "missing" -> Reply(404, {"cert"} \union NameWords[n])
    [] e = "ok" -> Reply(200, {})
    [] OTHER -> Reply(500, {})

Answer(r, e, n) ==
  CASE r = "config" -> ConfigReply(e, n)   [] r = "secret" -> SecretReply(e, n)
    [] r = "key" -> KeyReply(e, n)         [] r = "webhook" -> WebhookReply(e, n)
    [] r = "stack" -> StackReply(e, n)     [] r = "backup" -> BackupReply(e, n)
    [] r = "service" -> ServiceReply(e, n) [] r = "host" -> HostReply(e, n)
-----------------------------------------------------------------------------
\* mapError: the first row whose status is the reply's and one of whose words it has.
Mapping ==
  << <<404, {"stack"}, <<"stack", "missing">> >>, <<404, {"revision"}, <<"stack", "version">> >>,
     <<404, {"config"}, <<"config", "missing">> >>, <<404, {"secret"}, <<"secret", "missing">> >>,
     <<404, {"webhook"}, <<"webhook", "missing">> >>,
     <<404, {"user", "api key"}, <<"key", "missing">> >>, <<404, {"cert"}, <<"host", "missing">> >>,
     <<409, {"webhook"}, <<"webhook", "exists">> >>, <<409, {"config"}, <<"config", "exists">> >>,
     <<409, {"secret"}, <<"secret", "exists">> >>, <<409, {"edge"}, <<"key", "edge">> >>,
     <<409, {"authenticated"}, <<"key", "self">> >> >>

MapError(reply) ==
  LET hits == {i \in DOMAIN Mapping : Mapping[i][1] = reply.status /\ Mapping[i][2] \cap reply.words # {}}
  IN  CASE hits # {} -> Mapping[CHOOSE i \in hits : \A j \in hits : i <= j][3]
        [] reply.status = 503 -> <<"backup", "unconfigured">>
        [] OTHER -> <<"any", "error">>

\* The console keeps the status; its pages only tell success from error.
FromReply(front, r, reply) ==
  CASE reply.status = 200 -> <<r, "ok">>
    [] front = "page"     -> <<"any", "error">>
    [] OTHER              -> MapError(reply)
-----------------------------------------------------------------------------
\* A page uses the console's key, a remote command the key of its operator.
OwnKey(front, n) == IF front = "page" THEN n = Edge ELSE front = "remote" /\ n # Edge

\* What the services check themselves: the certificate pair, the argv.
Validates(r, d) == (r = "host" /\ d = "value") \/ (r = "service" /\ d = "argv")

\* What the service may return for the call k: an upsert finds no row in its way.
Outcomes(k) ==
  LET v == k.verb  n == k.name  there == rows[n] # "absent"  IN
  {"failed"} \union
  CASE Validates(res, k.defect) -> {}
    [] v = "create" -> {IF there THEN "exists" ELSE "ok"}
    [] v \in {"deploy", "put", "restore"} -> {"ok"}
    [] v = "run"  -> {"ok", "unconfigured"}
    [] res = "key" /\ v = "delete" /\ there /\ n = Edge -> {"edge"}
    [] res = "key" /\ v = "delete" /\ there /\ OwnKey(k.front, n) -> {"self"}
    [] res = "stack" /\ v = "rollback" -> IF there THEN {"ok", "version"} ELSE {"version"}
    [] v = "rollback" /\ there -> {"ok", "version"}
    [] v = "read" -> {"ok"}
    [] OTHER -> IF there THEN {"ok"} ELSE IF res = "service" THEN {} ELSE {"missing"}

\* A read or a refusal leaves the row; a failure of a service of several steps may
\* come after its effect, one of a single statement does not.
Written(k) ==
  LET n == k.name  IN
  CASE Validates(res, k.defect) -> rows
    [] k.verb \in {"create", "deploy", "put", "run"} ->
         [rows EXCEPT ![n] = IF k.defect = "none" THEN "fine" ELSE k.defect]
    [] k.verb = "delete" -> [rows EXCEPT ![n] = "absent"]
    [] k.verb = "update" /\ k.defect # "none" -> [rows EXCEPT ![n] = k.defect]
    [] OTHER -> rows
After(k, e) ==
  CASE e = "ok" -> {Written(k)}
    [] e = "failed" /\ res \in {"stack", "backup", "service", "host"} -> {rows, Written(k)}
    [] OTHER -> {rows}
-----------------------------------------------------------------------------
Nothing == [front |-> "page", verb |-> "read", name |-> Edge, defect |-> "none"]

CallInit ==
  /\ res \in Contended
  /\ rows \in [Names -> {"absent", "fine"}] /\ (res = "key" => rows[Edge] = "fine")
  /\ at = [c \in Callers |-> "idle"]
  /\ call = [c \in Callers |-> Nothing]
  /\ err = [c \in Callers |-> "failed"] /\ heard = [c \in Callers |-> <<"any", "error">>]
  /\ late = [c \in Callers |-> {}]

To(c, s) == at' = [at EXCEPT ![c] = s]

\* The caller has heard x and is through.
Done(c, x) ==
  /\ To(c, "idle") /\ heard' = [heard EXCEPT ![c] = x]
  /\ call' = [call EXCEPT ![c] = Nothing] /\ err' = [err EXCEPT ![c] = "failed"]
  /\ UNCHANGED <<res, rows>>

\* A call is no longer the caller's business once it has heard something.
Over(c, x) == Done(c, x) /\ UNCHANGED late

\* A form is sent or a command typed that the front end does not refuse.
Room == Cardinality({c \in Callers : at[c] # "idle"}) + Cardinality({c \in Callers : late[c] # {}}) < MaxCalls
Ask(c) ==
  /\ at[c] = "idle" /\ Room /\ To(c, "sent")
  /\ \E f \in Fronts : \E v \in DOMAIN Checks(f, res), n \in Names :
       \E d \in (Slots(res, v) \ Checks(f, res)[v]) \union {"none"} :
         call' = [call EXCEPT ![c] = [front |-> f, verb |-> v, name |-> n, defect |-> d]]
  /\ heard' = [heard EXCEPT ![c] = <<"any", "error">>]
  /\ UNCHANGED <<res, rows, err, late>>

\* The middlewares, before any route: 429 for an address whose bucket is empty, 401
\* for a token that is none's.
Limit(c) ==
  /\ at[c] = "sent" /\ call[c].front # "local"
  /\ Over(c, heard[c])
Unauthorized(c) ==
  /\ at[c] = "sent" /\ call[c].front # "local"
  /\ Over(c, heard[c])

\* No such route, or the handler's own 400.
Declined(k) ==
  LET v == k.verb  f == k.front  IN
  /\ f # "local"
  /\ Method(f, res, v) # Mounted[res][v] \/ k.defect \in Refuses(res, v)
Decline(c) ==
  /\ at[c] = "sent" /\ Declined(call[c])
  /\ Over(c, heard[c])

\* The service, which a command on the node calls itself.
Serve(c) ==
  /\ at[c] = "sent" /\ ~Declined(call[c])
  /\ \E e \in Outcomes(call[c]) :
       /\ err' = [err EXCEPT ![c] = e] /\ rows' \in After(call[c], e)
  /\ To(c, "served") /\ UNCHANGED <<res, call, heard, late>>

\* The answer reaches the client.
Return(c) ==
  /\ at[c] = "served"
  /\ Over(c, IF call[c].front = "local" THEN <<res, err[c]>>
             ELSE FromReply(call[c].front, res, Answer(res, err[c], call[c].name)))

\* The client has waited 15 s (the console) or 30 s (a command), or has lost its
\* connection: the service has acted by then,
Lose(c) ==
  /\ at[c] = "served" /\ call[c].front # "local"
  /\ Over(c, heard[c])

\* or it has not yet, for the daemon ends no handler but cancels its context after 30 s.
\* (A call that is declined or only reads is over then, as one that Limit stops.)
\* A bound: a caller has one such call at a time.
GiveUp(c) ==
  /\ at[c] = "sent" /\ call[c].front # "local" /\ late[c] = {}
  /\ call[c].verb # "read" /\ ~Declined(call[c])
  /\ late' = [late EXCEPT ![c] = {call[c]}]
  /\ Done(c, heard[c])

\* The call nobody waits for is carried out, or never is: it is stopped or cancelled.
ServeLate(c) ==
  /\ \E k \in late[c] :
       \E e \in Outcomes(k) : rows' \in After(k, e) \union {rows}
  /\ late' = [late EXCEPT ![c] = {}]
  /\ UNCHANGED <<res, at, call, err, heard>>

CallNext == \E c \in Callers :
  \/ Ask(c) \/ Limit(c) \/ Unauthorized(c) \/ Decline(c) \/ Serve(c) \/ Return(c)
  \/ Lose(c) \/ GiveUp(c) \/ ServeLate(c)

CallSpec == CallInit /\ [][CallNext]_callVars
-----------------------------------------------------------------------------
\* The classes of answers a caller acts on.
Class(e) ==
  CASE e = "version" -> "missing"
    [] e \in {"edge", "self"} -> "refused"
    [] e = "unconfigured" -> "failed"
    [] OTHER -> e
Told(e) == IF e \in {"failed", "unconfigured"} THEN "error" ELSE Class(e)

StateOf(s) == CASE s = "idle" -> "idle" [] s = "served" -> "acted" [] OTHER -> "open"

Present == {n \in Names : rows[n] # "absent"}
State   == [c \in Callers |-> StateOf(at[c])]
Target  == [c \in Callers |-> call[c].name]
Result  == [c \in Callers |-> Class(err[c])]
Heard   == [c \in Callers |-> Told(heard[c][2])]
Pending == [c \in Callers |-> {k.name : k \in late[c]}]

Port == INSTANCE ServiceCall
          WITH present <- Present, state <- State, target <- Target, result <- Result, heard <- Heard,
               pending <- Pending

\* Behind any of the front ends, a call acts at most once and at one instant, before its
\* caller hears of it unless that hears an error, and an answer of success, of a row that
\* exists or that is missing, or of one that is protected is true, whatever its name is:
\* the remote adapters and the daemon implement the service ports.
ImplementsPort == Port!Spec
=============================================================================
