---------------------------- MODULE StackDeploy ----------------------------
(***************************************************************************)
(* The deploy engine of pmcluster (internal/stacks/deploy.go) over the     *)
(* stack tables of the SQLite store (internal/store/stacks.go) and the     *)
(* Swarm.  Every request - deploy, sync, rollback, undeploy - runs its own *)
(* pipeline of steps (internal/workflow) in its own goroutine or CLI       *)
(* process; nothing serialises two requests on one stack, so every         *)
(* database statement or transaction, every docker call and every read of  *)
(* the clock is an action of its own here.                                 *)
(***************************************************************************)
EXTENDS Naturals, FiniteSets

CONSTANTS
  Stacks,        \* stack names
  Ops,           \* requests; each is submitted at most once
  Manifests,     \* source manifests
  Broken,        \* manifests that do not parse, interpolate or validate
  UsesConfig,    \* manifests with an env value config(name)
  BackupFirst,   \* manifests with backup_before_deploy
  StrictBackup,  \* manifests with strict_backup
  Contents,      \* contents of the config rows a stack owns
  MaxClock,      \* bound on the wall clock
  NULL,          \* no row, no value
  Mixed          \* a Swarm stack left half way between two deployments

ASSUME ConstantsOK ==
  /\ Broken \subseteq Manifests /\ UsesConfig \subseteq Manifests
  /\ BackupFirst \subseteq Manifests /\ StrictBackup \subseteq Manifests
  /\ MaxClock \in Nat
  /\ NULL \notin Nat /\ NULL \notin Stacks /\ NULL \notin Contents

VARIABLES
  clock,      \* time.Now().Unix(), shared by all requests
  configs,    \* configs[s]: content of the service-scope config s owns
  current,    \* stacks.current_revision of s; NULL when there is no row
  revisions,  \* rows of stack_revisions per stack
  swarm,      \* what Swarm runs under the stack's name
  backups,    \* backups[o]: status of the audit row request o created
  pc,         \* step each request is at
  req,        \* local variables of each request's pipeline
  serial      \* the operators submit one request at a time; chosen at the start

store == <<configs, current, revisions>>
vars  == <<clock, configs, current, revisions, swarm, backups, pc, req, serial>>

-----------------------------------------------------------------------------
(* Data *)

Renderings == [manifest : Manifests, config : Contents \union {NULL}]
Rows       == [revision : Nat, source : Manifests, rendered : Renderings]

\* manifest.TranslateIR: the compose document depends on the manifest and on
\* the content of the config rows it references; a missing row is an error.
CanRender(m, c) == m \notin Broken /\ (m \in UsesConfig => c # NULL)
Render(m, c)    == [manifest |-> m,
                    config   |-> IF m \in UsesConfig THEN c ELSE NULL]

Kinds == {"none", "deploy", "sync", "rollback", "undeploy"}
Ended == {"done", "unchanged", "failed", "crashed"}
Steps == {"idle", "compare", "translate", "readclock", "probe", "record",
          "backup", "trigger", "apply",
          "remove", "delconfigs", "delrow"} \union Ended

Request(k, s, m, d, r) ==
  [kind |-> k, stack |-> s, source |-> m, rendered |-> d, rev |-> r]

Row(o) == [revision |-> req[o].rev, source |-> req[o].source,
           rendered |-> req[o].rendered]

Active(o)    == pc[o] \notin Ended \union {"idle"}
Taken(s, r)  == \E row \in revisions[s] : row.revision = r
IsLatest(s, row) == \A other \in revisions[s] : other.revision <= row.revision

-----------------------------------------------------------------------------
Init ==
  /\ clock = 1
  /\ configs   \in [Stacks -> Contents \union {NULL}]
  /\ current   = [s \in Stacks |-> NULL]
  /\ revisions = [s \in Stacks |-> {}]
  /\ swarm     = [s \in Stacks |-> NULL]
  /\ backups   = [o \in Ops |-> "none"]
  /\ pc        = [o \in Ops |-> "idle"]
  /\ req       = [o \in Ops |-> Request("none", NULL, NULL, NULL, 0)]
  /\ serial    \in BOOLEAN

(* The environment: time passes, operators edit the config rows. *)

Tick == /\ clock < MaxClock
        /\ clock' = clock + 1
        /\ UNCHANGED <<store, swarm, backups, pc, req>>

\* CreateConfig, UpdateConfig and DeleteConfig on the row a stack owns.
EditConfig(s) ==
  /\ \E c \in (Contents \union {NULL}) \ {configs[s]} :
        configs' = [configs EXCEPT ![s] = c]
  /\ UNCHANGED <<clock, current, revisions, swarm, backups, pc, req>>

-----------------------------------------------------------------------------
(* Submitting a request *)

MaySubmit(o) == /\ pc[o] = "idle"
                /\ serial => \A p \in Ops : ~Active(p)

Goto(o, step) == pc' = [pc EXCEPT ![o] = step]

Accept(o, request, step) == /\ MaySubmit(o)
                            /\ req' = [req EXCEPT ![o] = request]
                            /\ Goto(o, step)
                            /\ UNCHANGED <<clock, store, swarm, backups>>

StartDeploy(o, s, m) ==
  Accept(o, Request("deploy", s, m, NULL, 0), "translate")

\* Sync loads the newest revision; without one it fails.
StartSync(o, s) ==
  \/ /\ revisions[s] = {}
     /\ Accept(o, Request("sync", s, NULL, NULL, 0), "failed")
  \/ \E row \in revisions[s] :
       /\ IsLatest(s, row)
       /\ Accept(o, Request("sync", s, row.source, row.rendered, row.revision),
                 "compare")

\* Rollback loads the revision it was asked for, or fails when there is none.
StartRollback(o, s) ==
  \/ \E row \in revisions[s] :
       Accept(o, Request("rollback", s, row.source, row.rendered, row.revision),
              "readclock")
  \/ Accept(o, Request("rollback", s, NULL, NULL, 0), "failed")

\* Faulty variant: an undeploy that never asks the Swarm to remove the stack.
StartUndeployRecordOnly(o, s) ==
  Accept(o, Request("undeploy", s, NULL, NULL, 0),
         IF current[s] = NULL THEN "failed" ELSE "delconfigs")

\* Undeploy answers "not found" before it touches the Swarm.
StartUndeploy(o, s) ==
  Accept(o, Request("undeploy", s, NULL, NULL, 0),
         IF current[s] = NULL THEN "failed" ELSE "remove")

-----------------------------------------------------------------------------
(* The steps of Sync, Deploy and Rollback *)

\* The rendering equals the newest revision's: nothing to do.  Otherwise, and
\* when the stored manifest no longer renders, Sync calls Deploy.
Compare(o) ==
  /\ pc[o] = "compare"
  /\ LET m == req[o].source
         c == configs[req[o].stack]
     IN  Goto(o, IF CanRender(m, c) /\ Render(m, c) = req[o].rendered
                   THEN "unchanged" ELSE "translate")
  /\ UNCHANGED <<clock, store, swarm, backups, req>>

\* Parse, interpolate, validate, translate.
Translate(o) ==
  /\ pc[o] = "translate"
  /\ LET m == req[o].source
         c == configs[req[o].stack]
     IN  IF CanRender(m, c)
           THEN /\ req' = [req EXCEPT ![o].rendered = Render(m, c)]
                /\ Goto(o, "readclock")
           ELSE /\ Goto(o, "failed")
                /\ UNCHANGED req
  /\ UNCHANGED <<clock, store, swarm, backups>>

ReadClock(o) ==
  /\ pc[o] = "readclock"
  /\ req' = [req EXCEPT ![o].rev = clock]
  /\ Goto(o, "probe")
  /\ UNCHANGED <<clock, store, swarm, backups>>

\* The next candidate; faulty variants probe the same one again or count down.
SameCandidate(r) == r
PrevCandidate(r) == r - 1
NextCandidate(r) == r + 1

\* NextFreeRevision: one SELECT per candidate, counting up from the clock.
Probe(o) ==
  /\ pc[o] = "probe"
  /\ IF Taken(req[o].stack, req[o].rev)
       THEN /\ req' = [req EXCEPT ![o].rev = NextCandidate(@)]
            /\ UNCHANGED pc
       ELSE /\ Goto(o, "record")
            /\ UNCHANGED req
  /\ UNCHANGED <<clock, store, swarm, backups>>

\* The statements of RecordDeploy: the primary key, the row inserted, the
\* pointer's new value; and faulty variants of a table that holds one row per
\* stack, and of a pointer set only when the row is created.
KeyClash(s, r)     == Taken(s, r)
OneRow(s, row)     == {row}
Inserted(s, row)   == revisions[s] \union {row}
FirstOnly(s, r)    == IF current[s] = NULL THEN r ELSE current[s]
PointerAfter(s, r) == r

\* RecordDeploy, one transaction: insert the revision (a clash on the primary
\* key fails the request) and create the stack row or move its pointer.
RecordDeploy(o) ==
  LET s == req[o].stack
      afterwards == IF req[o].kind # "rollback" /\ req[o].source \in BackupFirst
                      THEN "backup" ELSE "apply"
  IN
  /\ pc[o] = "record"
  /\ IF KeyClash(s, req[o].rev)
       THEN /\ Goto(o, "failed")
            /\ UNCHANGED <<current, revisions>>
       ELSE /\ revisions' = [revisions EXCEPT ![s] = Inserted(s, Row(o))]
            /\ current' = [current EXCEPT ![s] = PointerAfter(s, req[o].rev)]
            /\ Goto(o, afterwards)
  /\ UNCHANGED <<clock, configs, swarm, backups, req>>

\* runPreDeployBackup: what a failed backup means for the deploy; the faulty
\* variant ignores strict_backup.
NeverStrict(o) == Goto(o, "apply")
AfterFailedBackup(o) ==
  Goto(o, IF req[o].source \in StrictBackup THEN "failed" ELSE "apply")

CreateBackup(o) ==
  /\ pc[o] = "backup"
  /\ \/ /\ backups' = [backups EXCEPT ![o] = "pending"]
        /\ Goto(o, "trigger")
     \/ /\ AfterFailedBackup(o)
        /\ UNCHANGED backups
  /\ UNCHANGED <<clock, store, swarm, req>>

\* The trigger runs, then FinishBackup records its outcome; a failure of
\* FinishBackup itself is ignored and leaves the row pending.
TriggerBackup(o) ==
  /\ pc[o] = "trigger"
  /\ \/ /\ backups' \in {backups, [backups EXCEPT ![o] = "succeeded"]}
        /\ Goto(o, "apply")
     \/ /\ backups' \in {backups, [backups EXCEPT ![o] = "failed"]}
        /\ AfterFailedBackup(o)
  /\ UNCHANGED <<clock, store, swarm, req>>

\* The document handed to docker is the one that was recorded; the faulty
\* variant renders again.
RenderAgain(o) == Render(req[o].source, configs[req[o].stack])
Compose(o)     == req[o].rendered

\* DeployStack shells out to docker: it succeeds, or fails having applied
\* nothing, a part, or - when only a later prune or restart fails - everything.
Apply(o) ==
  LET s == req[o].stack
  IN
  /\ pc[o] = "apply"
  /\ \/ /\ swarm' = [swarm EXCEPT ![s] = Compose(o)]
        /\ Goto(o, "done")
     \/ /\ \E left \in {swarm[s], Mixed, Compose(o)} :
              swarm' = [swarm EXCEPT ![s] = left]
        /\ Goto(o, "failed")
  /\ UNCHANGED <<clock, store, backups, req>>

-----------------------------------------------------------------------------
(* The steps of Undeploy *)

\* Collect the stack's assets, then docker stack rm; either may fail.
RemoveStack(o) ==
  LET s == req[o].stack
  IN
  /\ pc[o] = "remove"
  /\ \/ /\ swarm' = [swarm EXCEPT ![s] = NULL]
        /\ Goto(o, "delconfigs")
     \/ /\ \E left \in {swarm[s], NULL} \union (IF swarm[s] = NULL THEN {}
                                                               ELSE {Mixed}) :
              swarm' = [swarm EXCEPT ![s] = left]
        /\ Goto(o, "failed")
  /\ UNCHANGED <<clock, store, backups, req>>

\* DeleteStack is three statements outside a transaction.  The one on the
\* secrets table has the shape of this one and is not modelled apart.
DeleteConfigs(o) ==
  /\ pc[o] = "delconfigs"
  /\ configs' = [configs EXCEPT ![req[o].stack] = NULL]
  /\ Goto(o, "delrow")
  /\ UNCHANGED <<clock, current, revisions, swarm, backups, req>>

\* Faulty variant: foreign keys are off, the revisions stay.
DeleteRowOnly(o) ==
  /\ pc[o] = "delrow"
  /\ Goto(o, IF current[req[o].stack] = NULL THEN "failed" ELSE "done")
  /\ current' = [current EXCEPT ![req[o].stack] = NULL]
  /\ UNCHANGED <<clock, configs, revisions, swarm, backups, req>>

\* The foreign key cascades to the revisions.
DeleteRow(o) ==
  LET s == req[o].stack
  IN
  /\ pc[o] = "delrow"
  /\ Goto(o, IF current[s] = NULL THEN "failed" ELSE "done")
  /\ current' = [current EXCEPT ![s] = NULL]
  /\ revisions' = [revisions EXCEPT ![s] = {}]
  /\ UNCHANGED <<clock, configs, swarm, backups, req>>

-----------------------------------------------------------------------------
\* The process dies, the client disconnects (which cancels the request's
\* context) or a database call fails: the pipeline ends between two steps and
\* nothing is undone.
Crash(o) ==
  /\ Active(o)
  /\ Goto(o, "crashed")
  /\ UNCHANGED <<clock, store, swarm, backups, req>>

Submit(o) ==
  \E s \in Stacks :
     \/ \E m \in Manifests : StartDeploy(o, s, m)
     \/ StartSync(o, s)
     \/ StartRollback(o, s)
     \/ StartUndeploy(o, s)

Step(o) ==
  \/ Compare(o) \/ Translate(o) \/ ReadClock(o) \/ Probe(o) \/ RecordDeploy(o)
  \/ CreateBackup(o) \/ TriggerBackup(o) \/ Apply(o)
  \/ RemoveStack(o) \/ DeleteConfigs(o) \/ DeleteRow(o)

Next ==
  /\ \/ Tick
     \/ \E s \in Stacks : EditConfig(s)
     \/ \E o \in Ops : Submit(o) \/ Step(o) \/ Crash(o)
  /\ UNCHANGED serial

Spec == Init /\ [][Next]_vars

\* A request that was accepted keeps running: its goroutine is scheduled.
FairSpec == Spec /\ \A o \in Ops : WF_vars(Step(o) /\ UNCHANGED serial)
-----------------------------------------------------------------------------
(* What holds however the requests interleave *)

ReqType == [kind : Kinds, stack : Stacks \union {NULL},
            source : Manifests \union {NULL},
            rendered : Renderings \union {NULL}, rev : Nat]

TypeOK ==
  /\ clock \in Nat
  /\ configs   \in [Stacks -> Contents \union {NULL}]
  /\ current   \in [Stacks -> Nat \union {NULL}]
  /\ revisions \in [Stacks -> SUBSET Rows]
  /\ swarm     \in [Stacks -> Renderings \union {NULL, Mixed}]
  /\ backups   \in [Ops -> {"none", "pending", "succeeded", "failed"}]
  /\ pc        \in [Ops -> Steps]
  /\ req       \in [Ops -> ReqType]
  /\ serial    \in BOOLEAN

\* The stack row and its revisions come and go together, and current_revision
\* always names a recorded revision: RecordDeploy's transaction and the
\* cascade of DeleteStack never leave one half behind.
CurrentIsRecorded ==
  \A s \in Stacks : IF current[s] = NULL THEN revisions[s] = {}
                                         ELSE Taken(s, current[s])

\* A deploy or sync of a manifest with backup_before_deploy and strict_backup
\* reaches the Swarm only after a backup for it was started and did not fail.
StrictBackupFirst ==
  \A o \in Ops :
     /\ pc[o] \in {"apply", "done"} /\ req[o].kind \in {"deploy", "sync"}
     /\ req[o].source \in BackupFirst \intersect StrictBackup
     => backups[o] \in {"pending", "succeeded"}

\* A stack's pipeline never touches the Swarm for a revision whose manifest
\* the store does not hold: what runs cleanly is in the history, unless an
\* undeploy of the stack was submitted too.
SwarmIsExplained ==
  \A s \in Stacks :
     swarm[s] \notin {NULL, Mixed} =>
        \/ \E row \in revisions[s] : row.rendered = swarm[s]
        \/ \E o \in Ops : req[o].kind = "undeploy" /\ req[o].stack = s

\* The interleaved pipelines implement the atomic revision log.
Log == INSTANCE RevisionLog WITH log <- revisions
LogSpec == Log!Spec

\* Every request that was accepted ends, however often the numbers it probes
\* are taken by others.
EveryRequestEnds == \A o \in Ops : Active(o) ~> pc[o] \in Ended

-----------------------------------------------------------------------------
(* What holds when the operators submit one request at a time *)

\* The newest revision, which Sync compares with and re-applies, is the one
\* the stack row points to.
LatestIsCurrent ==
  \A s \in Stacks :
     \A row \in revisions[s] : IsLatest(s, row) => row.revision = current[s]

\* Nothing runs under the name of a stack the store does not know, so no
\* workload is out of reach of sync, rollback and undeploy: revisions are
\* recorded before docker stack deploy, rows deleted after docker stack rm.
NoOrphanStack ==
  \A s \in Stacks : swarm[s] # NULL => current[s] # NULL

\* Of requests one after the other, some of which fail or die, both hold.
StoreIsRight == serial => LatestIsCurrent /\ NoOrphanStack

\* A deploy, sync or rollback that reports success, with no other request in
\* between, leaves the Swarm running exactly what the revision under the stack
\* row's pointer says.
Succeeds(o) == pc[o] = "apply" /\ pc'[o] = "done"
RunsItsRevision(o) ==
  LET s == req[o].stack
  IN  \E row \in revisions'[s] : row.revision = current'[s] /\ row.rendered = swarm'[s]
SuccessIsLive == [][serial => \A o \in Ops : Succeeds(o) => RunsItsRevision(o)]_vars
=============================================================================
