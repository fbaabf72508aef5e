----------------------------- MODULE Workloads -----------------------------
(***************************************************************************)
(* What is done to the services of the stacks while they run: a stack is   *)
(* deployed with the docker command line, which applies the services one   *)
(* by one, prunes those no longer declared and forces the rest to restart  *)
(* (cluster/stacks.go); it is removed; and one service is restarted or     *)
(* entered through the API (services/local.go, docker/client.go).          *)
(* Swarm refuses an update that does not carry the version the service is  *)
(* at ("update out of sequence").  A service is named after its stack and  *)
(* itself, joined by an underscore that both may contain.                  *)
(***************************************************************************)
EXTENDS Nil, Integers, FiniteSets

CONSTANTS
  Stacks, Names,  \* of stacks; full names of services
  Nameable,       \* stack -> full names its services can have
  Deployers,      \* deployments and removals at a time
  Operators,      \* calls of the API at a time
  Retries,        \* forceUpdateRetries
  Specs,          \* specifications of a service
  MaxBegun        \* bound on the commands

VARIABLES
  services,  \* full name -> [stack, spec], or NULL
  at, job,   \* per command: next step, what it is to do and has read
  whole,     \* stack -> the job of its last deployment, if that went through, with no
             \*          other command for the names of its services beside it, or NULL
  begun      \* commands so far

workVars == <<services, at, job, whole, begun>>

Services == [stack : Stacks, spec : Specs]
Wholes   == [declared : SUBSET Names, spec : Specs]

\* The deployer is not the API, and a service is named for its stack.
WorkConstants ==
  /\ Deployers \intersect Operators = {} /\ Nameable \in [Stacks -> SUBSET Names]
  /\ NULL \notin Services \union Wholes
ASSUME WorkAssumption == WorkConstants
-----------------------------------------------------------------------------
Commands == Deployers \union Operators
\* know: what the command has read of a service is up to date, has been modified since,
\* or belongs to a service that is gone.
None   == [n \in Names |-> "none"]
NoJob  == [stack |-> NULL, declared |-> {}, spec |-> NULL, todo |-> {}, know |-> None,
           tries |-> 0, alone |-> FALSE]

Live(s) == {n \in Names : services[n] # NULL /\ services[n].stack = s}

WorkInit ==
  /\ services = [n \in Names |-> NULL]
  /\ at = [c \in Commands |-> "idle"] /\ job = [c \in Commands |-> NoJob]
  /\ whole = [s \in Stacks |-> NULL] /\ begun = 0
-----------------------------------------------------------------------------
GoTo(c, step, j) ==
  /\ at' = [at EXCEPT ![c] = step] /\ job' = [job EXCEPT ![c] = j]
  /\ UNCHANGED <<services, whole, begun>>
Over(c) == GoTo(c, "idle", NoJob)

\* Swarm takes a change of service n by command c, which goes on with j: what the
\* others know of n is out of date, or of a service that is gone.
Outdated(know, n, is) ==
  [know EXCEPT ![n] = IF @ = "none" THEN @
                      ELSE IF is = NULL \/ @ = "gone" THEN "gone" ELSE "stale"]
Change(c, n, is, step, j) ==
  /\ services' = [services EXCEPT ![n] = is]
  /\ at' = [at EXCEPT ![c] = step]
  /\ job' = [e \in Commands |->
       LET k == IF e = c THEN j ELSE job[e] IN [k EXCEPT !.know = Outdated(@, n, is)]]
  /\ UNCHANGED <<whole, begun>>

\* The orchestrator writes a service while it reconciles it.
Reconcile(n) ==
  /\ services[n] # NULL
  /\ \E c \in Commands : job[c].know[n] = "fresh"
  /\ job' = [c \in Commands |->
       [job[c] EXCEPT !.know = Outdated(@, n, services[n])]]
  /\ UNCHANGED <<services, at, whole, begun>>

Rivals(s, t) == Nameable[s] \intersect Nameable[t] # {}

\* A deployment or a removal starts.
Begin(d, s, step, j) ==
  /\ at[d] = "idle" /\ begun < MaxBegun /\ begun' = begun + 1
  /\ at' = [at EXCEPT ![d] = step]
  /\ job' = [c \in Commands |->
       IF c = d THEN [j EXCEPT !.stack = s,
                        !.alone = \A e \in Deployers : at[e] # "idle" => ~Rivals(s, job[e].stack)]
       ELSE IF c \in Deployers /\ at[c] # "idle" /\ Rivals(s, job[c].stack)
         THEN [job[c] EXCEPT !.alone = FALSE] ELSE job[c]]
  /\ whole' = [t \in Stacks |-> IF Rivals(s, t) THEN NULL ELSE whole[t]]
  /\ UNCHANGED services

StartDeploy(d, s, names, x) ==
  Begin(d, s, "list", [NoJob EXCEPT !.declared = names, !.spec = x])
StartRemove(d, s) == Begin(d, s, "listAll", NoJob)
-----------------------------------------------------------------------------
\* docker stack deploy: the services of the namespace, then one call for each that is
\* declared.  An update out of sequence starts it over, a number of times.
\* The faulty variant takes the last failure for a success.
LastIsSuccess(c, again) ==
  IF job[c].tries < Retries THEN GoTo(c, again, [job[c] EXCEPT !.tries = @ + 1])
                            ELSE GoTo(c, "listLeft", [job[c] EXCEPT !.todo = {}])
Again(c, again) ==
  IF job[c].tries < Retries THEN GoTo(c, again, [job[c] EXCEPT !.tries = @ + 1])
                            ELSE Over(c)

ListServices(d) ==
  /\ at[d] = "list"
  /\ GoTo(d, "apply", [job[d] EXCEPT !.todo = job[d].declared,
            !.know = [n \in Names |-> IF n \in Live(job[d].stack) THEN "fresh" ELSE "none"]])

Apply(d, n) ==
  LET j == [job[d] EXCEPT !.todo = @ \ {n}, !.know[n] = "none"]
      know == job[d].know[n]
      next == IF j.todo = {} THEN "listLeft" ELSE "apply"
  IN  /\ at[d] = "apply" /\ n \in job[d].todo
      /\ \/ /\ know = "fresh" \/ (know = "none" /\ services[n] = NULL)
            /\ Change(d, n, [stack |-> j.stack, spec |-> j.spec], next, j)
         \/ know = "stale" /\ Again(d, "list")
         \/ (know = "gone" \/ (know = "none" /\ services[n] # NULL)) /\ Over(d)

\* pruneStackServices: what the stack has and the file does not declare, by name, one
\* after the other.  The faulty variant trusts docker stack deploy to do it.
NoLeftovers(d) == {}
Leftovers(d)   == IF job[d].declared = {} THEN {} ELSE Live(job[d].stack) \ job[d].declared

ListLeft(d) ==
  /\ at[d] = "listLeft"
  /\ GoTo(d, IF Leftovers(d) = {} THEN "listForce" ELSE "prune",
          [job[d] EXCEPT !.todo = Leftovers(d), !.know = None])

Prune(d, n) ==
  LET j == [job[d] EXCEPT !.todo = @ \ {n}]
  IN  /\ at[d] = "prune" /\ n \in job[d].todo
      /\ IF services[n] = NULL THEN Over(d)
         ELSE Change(d, n, NULL, IF j.todo = {} THEN "listForce" ELSE "prune", j)

\* The deployment is over when it has forced every service of the stack.
Complete(d) ==
  /\ at' = [at EXCEPT ![d] = "idle"] /\ job' = [job EXCEPT ![d] = NoJob]
  /\ whole' = IF job[d].alone
                THEN [whole EXCEPT ![job[d].stack] = [declared |-> job[d].declared, spec |-> job[d].spec]]
                ELSE whole
  /\ UNCHANGED <<services, begun>>

\* forceUpdateStackServices
ListForce(d) ==
  /\ at[d] = "listForce"
  /\ GoTo(d, "force", [job[d] EXCEPT !.todo = Live(job[d].stack), !.know = None, !.tries = 0])

\* ForceUpdateService: docker service update --force reads the service by its name and
\* writes it back with the version it read; out of sequence, it is tried again.
ForceRead(d, n) ==
  /\ at[d] = "force" /\ n \in job[d].todo
  /\ \A m \in job[d].todo \ {n} : job[d].know[m] = "none"
  /\ IF services[n] = NULL THEN Over(d)
     ELSE GoTo(d, "push", [job[d] EXCEPT !.know = [None EXCEPT ![n] = "fresh"]])

\* ServiceUpdate succeeds with the version that was read.  The faulty variant sends the
\* specification it read with whatever version the service is at.
AnyVersion(c, n) == job[c].know[n] \in {"fresh", "stale"}
InSequence(c, n) == job[c].know[n] = "fresh"

ForcePush(d, n) ==
  /\ at[d] = "push" /\ job[d].know[n] # "none"
  /\ IF job[d].know[n] = "fresh"
       THEN Change(d, n, services[n], "force", [job[d] EXCEPT !.todo = @ \ {n}, !.know = None, !.tries = 0])
       ELSE IF job[d].know[n] = "stale" THEN Again(d, "force") ELSE Over(d)

EndDeploy(d) == at[d] = "force" /\ job[d].todo = {} /\ Complete(d)

\* RemoveStack: docker stack rm removes every service it has listed and goes on when one
\* is gone already.
ListAll(d) ==
  /\ at[d] = "listAll"
  /\ GoTo(d, "remove", [job[d] EXCEPT !.todo = Live(job[d].stack),
            !.know = [n \in Names |-> IF n \in Live(job[d].stack) THEN "fresh" ELSE "none"]])

Remove(d) ==
  /\ at[d] = "remove"
  /\ \/ job[d].todo = {} /\ Over(d)
     \/ \E n \in job[d].todo :
          LET j == [job[d] EXCEPT !.todo = @ \ {n}, !.know[n] = "none"]
          IN  IF job[d].know[n] = "gone" THEN GoTo(d, "remove", j)
              ELSE Change(d, n, NULL, "remove", j)
-----------------------------------------------------------------------------
\* POST /services/{stack}/{service}/restart and exec: resolve inspects the full name and
\* demands the label of the stack.  The faulty variant takes the name for proof.
AnyLabel(s, n)  == services[n] # NULL
Belongs(s, n)   == services[n] # NULL /\ services[n].stack = s

Resolve(o, s, n) ==
  /\ at[o] = "idle" /\ Belongs(s, n)
  /\ GoTo(o, "resolved", [NoJob EXCEPT !.stack = s, !.todo = {n}, !.know = [None EXCEPT ![n] = "fresh"]])

\* ServiceRestart: inspect by id, update by id.
Inspect(o, n) ==
  /\ at[o] = "resolved" /\ n \in job[o].todo
  /\ IF job[o].know[n] = "gone" THEN Over(o)
     ELSE GoTo(o, "restart", [job[o] EXCEPT !.know = [None EXCEPT ![n] = "fresh"],
                                            !.spec = services[n].spec])

Restart(o, n) ==
  /\ at[o] = "restart" /\ n \in job[o].todo
  /\ IF InSequence(o, n)
       THEN Change(o, n, [services[n] EXCEPT !.spec = job[o].spec], "idle", NoJob)
       ELSE Over(o)

\* ServiceExec: in a running task of the service with that id.
Exec(o) == at[o] = "resolved" /\ Over(o)
-----------------------------------------------------------------------------
WorkNext ==
  \/ \E n \in Names : Reconcile(n)
  \/ \E d \in Deployers :
       \/ \E s \in Stacks :
            \/ \E names \in SUBSET Nameable[s], x \in Specs :
                 names # {} /\ StartDeploy(d, s, names, x)
            \/ StartRemove(d, s)
       \/ ListServices(d) \/ ListLeft(d) \/ ListForce(d) \/ EndDeploy(d) \/ ListAll(d) \/ Remove(d)
       \/ \E n \in Names : Apply(d, n) \/ Prune(d, n) \/ ForceRead(d, n) \/ ForcePush(d, n)
  \/ \E o \in Operators :
       \/ \E s \in Stacks : \E n \in Nameable[s] : Resolve(o, s, n)
       \/ \E n \in Names : Inspect(o, n) \/ Restart(o, n)
       \/ Exec(o)

WorkSpec == WorkInit /\ [][WorkNext]_workVars
-----------------------------------------------------------------------------
\* A deployment that reports success and shared its names with no other command leaves
\* exactly what its file declares, whatever restarts and reconciliations came between
\* its steps and whatever earlier commands left behind (DeployStack, pruneStackServices).
DeployedIsWhole ==
  \A s \in Stacks : whole[s] # NULL =>
    /\ Live(s) = whole[s].declared
    /\ \A n \in Live(s) : services[n].spec = whole[s].spec

\* A call for a service of one stack acts on no service of another, even if their full
\* names are the same and one has taken the place of the other since (resolve).
CallsHitTheirStack ==
  \A o \in Operators : \A n \in Names :
    at[o] # "idle" /\ job[o].know[n] \in {"fresh", "stale"} => services[n].stack = job[o].stack

\* A restart never brings back a specification that a deployment has replaced: what a
\* service runs changes only by a deployment that declares it (ServiceRestart).
OnlyDeploysChange ==
  \A n \in Names : services[n] # NULL /\ services'[n] # NULL /\ services'[n] # services[n] =>
    \E d \in Deployers : at[d] = "apply" /\ n \in job[d].todo /\ services'[n].spec = job[d].spec
RestartKeepsSpec == [][OnlyDeploysChange]_workVars
=============================================================================
