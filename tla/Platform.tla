------------------------------- MODULE Platform -------------------------------
(***************************************************************************)
(* The platform's own stacks: internal/cluster/up.go, update.go, down.go,  *)
(* sitecert.go and the template rows they render from.  cluster up, update *)
(* and down and the certificate commands run the same pipeline over the    *)
(* config rows, the settings, the certificate table and the Swarm.  Every  *)
(* statement or docker call that another run, an edit in the console or a  *)
(* failure can come before is an action.                                   *)
(***************************************************************************)
EXTENDS Naturals

CONSTANTS
  Runs,        \* invocations of up, update, down, ApplyCert, RemoveCert
  Stacks,      \* platform stacks, SSO enabled
  Infra,       \* the stack of Traefik, which mounts the dynamic config
  SSO,         \* the stack of oauth2-proxy
  Contents,    \* contents of a template
  Edits,       \* contents an operator saves in the console
  Embedded,    \* Embedded[s][b]: template of s shipped with build b
  MaxBuild,    \* bound on the builds
  MaxCert,     \* bound on the versions of the host certificate's secret
  MaxDynamic,  \* bound on the versions of Traefik's dynamic config
  Serial,      \* TRUE: one run at a time and no edit during a run
  MaxFailures, \* bound on the steps of runs that fail
  NULL

ASSUME PlatformConstants ==
  /\ Infra \in Stacks /\ SSO \in Stacks \ {Infra}
  /\ MaxBuild \in Nat \ {0} /\ MaxCert \in Nat /\ MaxDynamic \in Nat
  /\ Edits \subseteq Contents
  /\ Embedded \in [Stacks -> [1 .. MaxBuild -> Contents]]
  /\ Serial \in BOOLEAN /\ MaxFailures \in Nat
  /\ NULL \notin [content : Contents, version : 1 .. MaxBuild]

VARIABLES
  build,      \* version of the installed binary
  template,   \* template[s]: config row <s>-stack, [content, version] or NULL
  history,    \* history[s]: contents kept in config_versions
  rendered,   \* rendered[s]: what rendered_hash of that row is the hash of
  persisted,  \* install state: settings "tls", "domain"; "creds" in their table
  swarm,      \* swarm[s]: what runs, NULL: nothing
  row,        \* site_certs row of one host: version of its secret, 0: no row
  secrets,    \* versions of that secret in the Swarm
  dynamic,    \* newest version of Traefik's dynamic config in the Swarm
  chosen,     \* chosen[s]: what an operator who edited s under this build wants
  failures,   \* steps of runs that have failed so far
  pc, loc

operator == <<template, history, chosen>>
cluster  == <<rendered, persisted, swarm, row, secrets, dynamic>>
vars == <<build, operator, cluster, failures, pc, loc>>

-----------------------------------------------------------------------------
Kinds == {"up", "update", "down", "apply", "remove"}
Steps == {"idle", "setdomain", "settls", "sync", "write", "creds", "load", "configs", "plan", "store", "deploy",
          "healthy", "tls", "domain", "mint", "putrow", "rmsecret", "rmstacks",
          "done"}
InstallState == {"tls", "domain", "creds"}
Versions == 0 .. MaxCert
Dynamics == [number : Nat, row : Versions]
Renderings == [content : Contents, dynamic : Dynamics \union {NULL}]
Locals == [kind : Kinds \union {NULL}, refresh : BOOLEAN, todo : SUBSET Stacks,
           left : SUBSET Stacks, at : Stacks \union {NULL}, missing : BOOLEAN,
           row : Versions, cert : Versions, dynamic : Dynamics \union {NULL},
           fresh : [Stacks -> Renderings \union {NULL}]]

Started(k, r) ==
  [kind |-> k, refresh |-> r, todo |-> Stacks, left |-> {}, at |-> NULL,
   missing |-> FALSE, row |-> 0, cert |-> 0, dynamic |-> NULL,
   fresh |-> [s \in Stacks |-> NULL]]
NoLocals == Started(NULL, FALSE)

Quiet == \A c \in Runs : pc[c] = "idle"
MayStart(c) == pc[c] = "idle" /\ (Serial => Quiet)
Goto(c, step) == pc' = [pc EXCEPT ![c] = step]
Start(c, kind, refresh, step) ==
  /\ MayStart(c)
  /\ loc' = [loc EXCEPT ![c] = Started(kind, refresh)]
  /\ Goto(c, step)
Return(c) == /\ Goto(c, "idle")
             /\ loc' = [loc EXCEPT ![c] = NoLocals]

\* up refuses to run where there is an install state or a template row.
Installed == persisted \intersect {"tls", "domain"} # {} \/ \E s \in Stacks : template[s] # NULL

\* A row of this build is rendered, any other gives way to the shipped template.
Current(s) == template[s] # NULL /\ template[s].version = build
Source(s)  == IF Current(s) THEN template[s].content ELSE Embedded[s][build]
Rendering(s, d) == [content |-> Source(s),
                    dynamic |-> IF s = Infra THEN d ELSE NULL]

Init ==
  /\ build = 1
  /\ template = [s \in Stacks |-> NULL]
  /\ history  = [s \in Stacks |-> {}]
  /\ rendered = [s \in Stacks |-> NULL]
  /\ persisted = {}
  /\ swarm = [s \in Stacks |-> NULL]
  /\ row = 0 /\ secrets = {}
  /\ dynamic = [number |-> 0, row |-> 0]
  /\ chosen = [s \in Stacks |-> NULL]
  /\ failures = 0
  /\ pc  = [c \in Runs |-> "idle"]
  /\ loc = [c \in Runs |-> NoLocals]

-----------------------------------------------------------------------------
(* The operator *)

\* UpdateConfig: a save of what is already there leaves the row alone.
UpdateConfig(s, d) ==
  IF template[s].content = d
    THEN UNCHANGED <<template, history>>
    ELSE /\ template' = [template EXCEPT ![s] = [content |-> d, version |-> build]]
         /\ history' = [history EXCEPT ![s] = @ \union {template[s].content}]

Edit(s, d) ==
  /\ Serial => Quiet
  /\ template[s] # NULL
  /\ UpdateConfig(s, d)
  /\ chosen' = IF template[s].content = d THEN chosen ELSE [chosen EXCEPT ![s] = d]
  /\ UNCHANGED <<build, cluster, pc, loc>>

\* RollbackConfig restores an earlier content and leaves the version alone.
RollbackConfig(s, d) ==
  /\ Serial => Quiet
  /\ d \in history[s]
  /\ template' = [template EXCEPT ![s].content = d]
  /\ history' = [history EXCEPT ![s] = @ \union {template[s].content}]
  /\ chosen' = IF chosen[s] = NULL THEN chosen ELSE [chosen EXCEPT ![s] = d]
  /\ UNCHANGED <<build, cluster, pc, loc>>

\* A new binary is installed between runs; nobody has said anything under it.
Upgrade ==
  /\ Quiet
  /\ build < MaxBuild
  /\ build' = build + 1
  /\ chosen' = [s \in Stacks |-> NULL]
  /\ UNCHANGED <<template, history, cluster, pc, loc>>

-----------------------------------------------------------------------------
(* Starting a run *)

StartUp(c) ==
  /\ ~Installed
  /\ Start(c, "up", TRUE, "sync")
  /\ UNCHANGED <<build, operator, cluster>>

StartUpdate(c) ==
  /\ Start(c, "update", TRUE, "sync")
  /\ UNCHANGED <<build, operator, cluster>>

\* The set-up wizard on a host where up was refused: the answers are persisted,
\* then update runs.
StartSetup(c) ==
  /\ Installed
  /\ Start(c, "update", TRUE, "setdomain")
  /\ UNCHANGED <<build, operator, cluster>>

SetDomain(c) ==
  /\ pc[c] = "setdomain"
  /\ persisted' = persisted \union {"domain"}
  /\ Goto(c, "settls")
  /\ UNCHANGED <<build, operator, rendered, swarm, row, secrets, dynamic, loc>>

SetTLS(c) ==
  /\ pc[c] = "settls"
  /\ persisted' = persisted \union {"tls"}
  /\ Goto(c, "sync")
  /\ UNCHANGED <<build, operator, rendered, swarm, row, secrets, dynamic, loc>>

StartDown(c) ==
  /\ Start(c, "down", FALSE, "rmstacks")
  /\ UNCHANGED <<build, operator, cluster>>

StartApply(c, refresh) ==
  /\ dynamic.number < MaxDynamic
  /\ Start(c, "apply", refresh, "mint")
  /\ UNCHANGED <<build, operator, cluster>>

\* RemoveCert drops the row first.
StartRemove(c, refresh) ==
  /\ dynamic.number < MaxDynamic
  /\ row # 0
  /\ MayStart(c)
  /\ loc' = [loc EXCEPT ![c] = [Started("remove", refresh) EXCEPT !.cert = row]]
  /\ Goto(c, "rmsecret")
  /\ row' = 0
  /\ UNCHANGED <<build, operator, rendered, persisted, swarm, secrets, dynamic>>

-----------------------------------------------------------------------------
(* SyncClusterConfigs: read a row, write it if it is missing or stale *)

\* The faulty variant takes every existing row for stale.
StaleAlways(s) == TRUE
Stale(s) == ~Current(s)

SyncRead(c) ==
  /\ pc[c] = "sync"
  /\ \/ \E s \in loc[c].todo :
          LET l == [loc[c] EXCEPT !.todo = @ \ {s}]
          IN
          IF Stale(s)
            THEN /\ loc' = [loc EXCEPT ![c] = [l EXCEPT !.at = s,
                                                 !.missing = template[s] = NULL]]
                 /\ Goto(c, "write")
            ELSE /\ loc' = [loc EXCEPT ![c] = l]
                 /\ UNCHANGED pc
     \/ /\ loc[c].todo = {}
        /\ Goto(c, IF loc[c].kind = "up" THEN "creds" ELSE "load")
        /\ UNCHANGED loc
  /\ UNCHANGED <<build, operator, cluster>>

\* A row that another run created in the meantime fails this one.
SyncWrite(c) ==
  LET s == loc[c].at
  IN
  /\ pc[c] = "write"
  /\ \/ /\ loc[c].missing /\ template[s] = NULL
        /\ template' = [template EXCEPT ![s] = [content |-> Embedded[s][build],
                                                version |-> build]]
        /\ UNCHANGED history
     \/ /\ ~loc[c].missing
        /\ UpdateConfig(s, Embedded[s][build])
     \/ /\ loc[c].missing /\ template[s] # NULL
        /\ UNCHANGED <<template, history>>
  /\ IF loc[c].missing /\ template[s] # NULL
       THEN Return(c)
       ELSE Goto(c, "sync") /\ UNCHANGED loc
  /\ UNCHANGED <<build, chosen, cluster>>

-----------------------------------------------------------------------------
(* Rendering and deploying *)

\* up alone bootstraps the managed credentials.
Bootstrap(c) ==
  /\ pc[c] = "creds"
  /\ persisted' = persisted \union {"creds"}
  /\ Goto(c, "load")
  /\ UNCHANGED <<build, operator, rendered, swarm, row, secrets, dynamic, loc>>

\* update needs the whole install state; up has it from its flags.
Load(c) ==
  /\ pc[c] = "load"
  /\ IF loc[c].kind = "up" \/ InstallState \subseteq persisted
       THEN /\ loc' = [loc EXCEPT ![c].row = row]
            /\ Goto(c, "configs")
       ELSE Return(c)
  /\ UNCHANGED <<build, operator, cluster>>

\* EnsureConfig of Traefik's dynamic config, see VersionedArtifact; the faulty
\* variant reuses whatever version there is.
AnyReusable(c) == dynamic.number > 0
Reusable(c) == dynamic.number > 0 /\ dynamic.row = loc[c].row

Configs(c) ==
  /\ pc[c] = "configs"
  /\ dynamic' = IF Reusable(c)
                  THEN dynamic
                  ELSE [number |-> dynamic.number + 1, row |-> loc[c].row]
  /\ loc' = [loc EXCEPT ![c].dynamic = dynamic', ![c].todo = Stacks]
  /\ Goto(c, IF loc[c].kind = "up" THEN "deploy" ELSE "plan")
  /\ UNCHANGED <<build, operator, rendered, persisted, swarm, row, secrets>>

\* The stacks to redeploy; the faulty variant looks at the row, not the rendering.
ChangedTemplates(c) == {s \in Stacks : ~Current(s)}
Changed(c) == {s \in Stacks : rendered[s] # Rendering(s, loc[c].dynamic)}

\* The faulty variant renders before the dynamic config has its name.
SnapshotEarly(c) == [s \in Stacks |-> Rendering(s, NULL)]
Snapshot(c) == [s \in Stacks |-> Rendering(s, loc[c].dynamic)]

Plan(c) ==
  /\ pc[c] = "plan"
  /\ loc' = [loc EXCEPT ![c].fresh = Snapshot(c), ![c].left = Stacks,
                        ![c].todo = Changed(c)]
  /\ Goto(c, "store")
  /\ UNCHANGED <<build, operator, cluster>>

\* SetRendered, one row at a time in no particular order.
Store(c) ==
  /\ pc[c] = "store"
  /\ \/ \E s \in loc[c].left :
          /\ rendered' = [rendered EXCEPT
                            ![s] = IF template[s] = NULL THEN @ ELSE loc[c].fresh[s]]
          /\ loc' = [loc EXCEPT ![c].left = @ \ {s}]
          /\ UNCHANGED pc
     \/ /\ loc[c].left = {}
        /\ Goto(c, IF loc[c].kind = "up" THEN "tls" ELSE "deploy")
        /\ UNCHANGED <<rendered, loc>>
  /\ UNCHANGED <<build, operator, persisted, swarm, row, secrets, dynamic>>

\* What follows the deployment; in the faulty variant up forgets to record.
AfterDeployUnrecorded(kind) == CASE kind = "up" -> "tls"
                                 [] kind = "apply" -> "putrow"
                                 [] OTHER -> "done"
AfterDeploy(kind) == CASE kind = "up" -> "healthy"
                       [] kind = "apply" -> "putrow"
                       [] OTHER -> "done"

\* deployStack renders once more.
Deploy(c) ==
  /\ pc[c] = "deploy"
  /\ \/ \E s \in loc[c].todo :
          /\ swarm' = [swarm EXCEPT ![s] = Rendering(s, loc[c].dynamic)]
          /\ loc' = [loc EXCEPT ![c].todo = @ \ {s}]
          /\ UNCHANGED pc
     \/ /\ loc[c].todo = {}
        /\ Goto(c, AfterDeploy(loc[c].kind))
        /\ UNCHANGED <<swarm, loc>>
  /\ UNCHANGED <<build, operator, rendered, persisted, row, secrets, dynamic>>

\* up: the stacks are healthy, the renderings are recorded.
Healthy(c) ==
  /\ pc[c] = "healthy"
  /\ loc' = [loc EXCEPT ![c].fresh = Snapshot(c), ![c].left = Stacks]
  /\ Goto(c, "store")
  /\ UNCHANGED <<build, operator, cluster>>

\* up: persistInstallState saves the TLS state, then the domain.
PersistTLS(c) ==
  /\ pc[c] = "tls"
  /\ persisted' = persisted \union {"tls"}
  /\ Goto(c, "domain")
  /\ UNCHANGED <<build, operator, rendered, swarm, row, secrets, dynamic, loc>>

PersistDomain(c) ==
  /\ pc[c] = "domain"
  /\ persisted' = persisted \union {"domain"}
  /\ Goto(c, "done")
  /\ UNCHANGED <<build, operator, rendered, swarm, row, secrets, dynamic, loc>>

-----------------------------------------------------------------------------
(* Host certificates *)

\* EnsureVersionedSecret keeps a version that holds the same bytes; a new
\* version replaces the others, which no stack mounts.
Mint(c) ==
  /\ pc[c] = "mint"
  /\ \E n \in 1 .. MaxCert :
       /\ \A m \in secrets : m <= n
       /\ \/ n \in secrets
          \/ IF secrets = {} THEN n = 1 ELSE n - 1 \in secrets
       /\ secrets' = {n}
       /\ loc' = [loc EXCEPT ![c].cert = n]
  /\ Goto(c, IF loc[c].refresh THEN "sync" ELSE "putrow")
  /\ UNCHANGED <<build, operator, rendered, persisted, swarm, row, dynamic>>

PutRow(c) ==
  /\ pc[c] = "putrow"
  /\ row' = loc[c].cert
  /\ Goto(c, "done")
  /\ UNCHANGED <<build, operator, rendered, persisted, swarm, secrets, dynamic, loc>>

RemoveSecret(c) ==
  /\ pc[c] = "rmsecret"
  /\ secrets' = secrets \ {loc[c].cert}
  /\ Goto(c, IF loc[c].refresh THEN "sync" ELSE "done")
  /\ UNCHANGED <<build, operator, rendered, persisted, swarm, row, dynamic, loc>>

-----------------------------------------------------------------------------
(* cluster down *)

RemoveStack(c) ==
  /\ pc[c] = "rmstacks"
  /\ \/ \E s \in loc[c].todo \ {SSO} :
          /\ swarm' = [swarm EXCEPT ![s] = NULL]
          /\ loc' = [loc EXCEPT ![c].todo = @ \ {s}]
          /\ UNCHANGED pc
     \/ /\ loc[c].todo \subseteq {SSO}
        /\ Goto(c, "done")
        /\ UNCHANGED <<swarm, loc>>
  /\ UNCHANGED <<build, operator, rendered, persisted, row, secrets, dynamic>>

-----------------------------------------------------------------------------
Done(c) ==
  /\ pc[c] = "done"
  /\ Return(c)
  /\ UNCHANGED <<build, operator, cluster>>

Step(c) ==
  \/ SetDomain(c) \/ SetTLS(c) \/ Bootstrap(c)
  \/ SyncRead(c) \/ SyncWrite(c) \/ Load(c) \/ Configs(c) \/ Plan(c)
  \/ Store(c) \/ Deploy(c) \/ Healthy(c) \/ PersistTLS(c) \/ PersistDomain(c)
  \/ Mint(c) \/ PutRow(c) \/ RemoveSecret(c) \/ RemoveStack(c)
  \/ Done(c)

Normal ==
  \/ \E c \in Runs : \/ StartUp(c) \/ StartUpdate(c) \/ StartSetup(c)
                     \/ StartDown(c)
                     \/ \E r \in BOOLEAN : StartApply(c, r) \/ StartRemove(c, r)
                     \/ Step(c)
  \/ \E s \in Stacks, d \in Edits : Edit(s, d)
  \/ \E s \in Stacks, d \in Contents : RollbackConfig(s, d)
  \/ Upgrade

-----------------------------------------------------------------------------
(* What fails *)

\* A statement or docker call returns an error, or the process dies.
Fail(c) ==
  /\ pc[c] \notin {"idle", "done"}
  /\ Return(c)
  /\ UNCHANGED <<build, operator, cluster>>

\* A certificate's secret that cannot be removed is left behind.
SkipSecret(c) ==
  /\ pc[c] = "rmsecret"
  /\ Goto(c, IF loc[c].refresh THEN "sync" ELSE "done")
  /\ UNCHANGED <<build, operator, cluster, loc>>

\* A stack that cannot be removed is reported and skipped.
SkipStack(c) ==
  /\ pc[c] = "rmstacks"
  /\ \E s \in loc[c].todo \ {SSO} : loc' = [loc EXCEPT ![c].todo = @ \ {s}]
  /\ UNCHANGED <<build, operator, cluster, pc>>

Failure ==
  /\ failures < MaxFailures
  /\ failures' = failures + 1
  /\ \E c \in Runs : Fail(c) \/ SkipSecret(c) \/ SkipStack(c)

Next == (Normal /\ UNCHANGED failures) \/ Failure

Spec == Init /\ [][Next]_vars
-----------------------------------------------------------------------------
TypeOK ==
  /\ build \in 1 .. MaxBuild
  /\ template \in [Stacks -> [content : Contents, version : 1 .. MaxBuild]
                               \union {NULL}]
  /\ history \in [Stacks -> SUBSET Contents]
  /\ rendered \in [Stacks -> Renderings \union {NULL}]
  /\ persisted \subseteq InstallState
  /\ swarm \in [Stacks -> Renderings \union {NULL}]
  /\ row \in Versions /\ secrets \subseteq Versions
  /\ dynamic \in Dynamics
  /\ chosen \in [Stacks -> Contents \union {NULL}]
  /\ failures \in 0 .. MaxFailures
  /\ pc \in [Runs -> Steps]
  /\ loc \in [Runs -> Locals]

Completed(c, kinds) == pc[c] = "done" /\ loc[c].kind \in kinds

\* Every stack that runs at all runs the rendering of the current templates,
\* certificates and build.
Applied == /\ dynamic.row = row
           /\ \A s \in Stacks : swarm[s] \in {NULL, Rendering(s, dynamic)}

\* As long as nothing has failed, an update that reports success has applied
\* whatever changed since the last one.
UpdateApplies ==
  failures = 0 => \A c \in Runs : Completed(c, {"update"}) => Applied

\* As long as nothing has failed, the recorded rendering of a stack between runs
\* is what the Swarm runs, so that the next update sees every difference.
HashMatchesSwarm ==
  failures = 0 /\ Quiet => \A s \in Stacks : swarm[s] \in {NULL, rendered[s]}

\* Once an operator has changed a template under this build, what they saved or
\* rolled back to last is rendered, whatever syncs have run or failed since.
EditKept == \A s \in Stacks : chosen[s] # NULL => Source(s) = chosen[s]

\* Once RemoveCert has refreshed, Traefik no longer references the certificate.
RemovedIsGone ==
  failures = 0 => \A c \in Runs : Completed(c, {"remove"}) /\ loc[c].refresh
                    => swarm[Infra] = NULL \/ swarm[Infra].dynamic.row = 0

\* When up reports success, every stack runs what it renders to and that is on
\* record, and the install state update needs is complete - whatever failed
\* before.
UpInstalls ==
  \A c \in Runs : Completed(c, {"up"}) =>
     /\ persisted = InstallState
     /\ \A s \in Stacks : /\ swarm[s] = Rendering(s, loc[c].dynamic)
                          /\ rendered[s] = swarm[s]

\* What commands report is true: update's success and up's.
SuccessIsReal == UpdateApplies /\ UpInstalls

-----------------------------------------------------------------------------
(* What docs and comments say and the code does not do *)

\* README on configs: update makes a change "reach the swarm side", after a
\* failed run too.
UpdateRecovers == \A c \in Runs : Completed(c, {"update"}) => Applied
=============================================================================
