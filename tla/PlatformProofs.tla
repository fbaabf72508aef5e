----------------------------- MODULE PlatformProofs -----------------------------
(***************************************************************************)
(* With one run at a time and no edit during a run: what operators changed *)
(* is rendered; a command that reports success has done what it says; and  *)
(* the renderings on record are those that run.  Runs that overlap break   *)
(* each of them, so Serial is an assumption of every theorem here.         *)
(***************************************************************************)
EXTENDS Platform, TLAPS

\* What c renders for s: fixed from Configs on, as neither the rows nor the
\* build change during a run.
Shown(c, s) == Rendering(s, loc[c].dynamic)

\* At most one run is under way.
Solo == \A c, d \in Runs : pc[c] # "idle" /\ pc[d] # "idle" => c = d

\* The steps by which a row exists for every stack.
Synced == {"creds", "load", "configs", "plan", "store", "deploy", "healthy",
           "tls", "domain"}

\* Rows have a history only once they exist, and what an operator chose under
\* this build is a row of this build.
TemplatesOK ==
  \A s \in Stacks :
     /\ history[s] # {} => template[s] # NULL
     /\ chosen[s] # NULL => Current(s) /\ template[s].content = chosen[s]

\* Which commands take which steps.
KindOK(c) ==
  /\ pc[c] # "idle" => loc[c].kind \in Kinds
  /\ pc[c] \in {"creds", "healthy", "tls", "domain"} => loc[c].kind = "up"
  /\ pc[c] \in {"setdomain", "settls"} => loc[c].kind = "update"
  /\ pc[c] = "plan" => loc[c].kind # "up"
  /\ pc[c] \in {"mint", "putrow"} => loc[c].kind = "apply"
  /\ pc[c] = "rmsecret" => loc[c].kind = "remove"
  /\ pc[c] = "rmstacks" <=> loc[c].kind = "down" /\ pc[c] \notin {"idle", "done"}
  /\ pc[c] \in Synced \union {"sync", "write"} /\ loc[c].kind = "remove"
        => loc[c].refresh

\* What SyncClusterConfigs has left behind so far.
SyncOK(c) ==
  /\ pc[c] \in {"setdomain", "settls", "mint", "rmsecret"} => loc[c].todo = Stacks
  /\ pc[c] = "sync" => \A s \in Stacks \ loc[c].todo : template[s] # NULL
  /\ pc[c] = "write" =>
       /\ loc[c].at \in Stacks /\ ~Current(loc[c].at)
       /\ loc[c].missing <=> template[loc[c].at] = NULL
       /\ \A s \in Stacks \ (loc[c].todo \union {loc[c].at}) : template[s] # NULL
  /\ pc[c] \in Synced => \A s \in Stacks : template[s] # NULL

\* An update or a removal that has refreshed the stacks and reports success.
Refreshed(c) ==
  /\ pc[c] = "done"
  /\ loc[c].kind = "update" \/ (loc[c].kind = "remove" /\ loc[c].refresh)

\* The certificate row and the dynamic config a run goes by are the cluster's.
LoadedOK(c) ==
  /\ pc[c] # "idle" /\ loc[c].kind = "remove" => row = 0
  /\ pc[c] = "configs" => loc[c].row = row
  /\ pc[c] \in {"plan", "store", "deploy", "healthy"} \/ Refreshed(c)
       => loc[c].dynamic = dynamic /\ dynamic.row = row

\* What up has installed by each step.
InstallOK(c) ==
  loc[c].kind = "up" =>
    /\ pc[c] \in (Synced \ {"creds"}) \union {"done"} => "creds" \in persisted
    /\ pc[c] \in {"domain", "done"} => "tls" \in persisted
    /\ pc[c] = "done" => "domain" \in persisted
    /\ pc[c] = "deploy" => \A s \in Stacks \ loc[c].todo : swarm[s] = Shown(c, s)
    /\ pc[c] \in {"healthy", "store", "tls", "domain", "done"}
          => \A s \in Stacks : swarm[s] = Shown(c, s)

\* What is on record by each step.
RecordOK(c) ==
  /\ pc[c] = "store" => /\ loc[c].fresh = Snapshot(c)
                        /\ \A s \in Stacks \ loc[c].left : rendered[s] = Shown(c, s)
  /\ \/ pc[c] = "deploy" /\ loc[c].kind # "up"
     \/ pc[c] \in {"tls", "domain", "done"} /\ loc[c].kind = "up"
     => \A s \in Stacks : rendered[s] = Shown(c, s)

\* What runs while a command that is not up replaces it, if nothing has failed.
AppliedOK(c) ==
  failures = 0 /\ loc[c].kind # "up" =>
    /\ pc[c] \in {"store", "deploy"}
          => \A s \in Stacks \ loc[c].todo : swarm[s] \in {NULL, Shown(c, s)}
    /\ Refreshed(c) => \A s \in Stacks : swarm[s] \in {NULL, Shown(c, s)}

\* Outside of these steps the record is what runs, if nothing has failed.
MatchesOK ==
  failures = 0 /\ (\A c \in Runs : pc[c] \notin {"store", "deploy", "healthy"})
    => \A s \in Stacks : swarm[s] \in {NULL, rendered[s]}

RunOK(c) == /\ KindOK(c) /\ SyncOK(c) /\ LoadedOK(c)
            /\ InstallOK(c) /\ RecordOK(c) /\ AppliedOK(c)

IInv == /\ TypeOK /\ Solo /\ TemplatesOK
        /\ \A c \in Runs : RunOK(c)
        /\ MatchesOK

-----------------------------------------------------------------------------
(* Types *)

\* The local variables a command starts with.
LEMMA StartedType ==
  ASSUME NEW k \in Kinds \union {NULL}, NEW r \in BOOLEAN
  PROVE  /\ Started(k, r) \in Locals
         /\ Started(k, r).kind = k /\ Started(k, r).refresh = r
         /\ \A n \in Versions : /\ [Started(k, r) EXCEPT !.cert = n] \in Locals
                                /\ [Started(k, r) EXCEPT !.cert = n].kind = k
                                /\ [Started(k, r) EXCEPT !.cert = n].refresh = r
<1>1. 0 \in Versions /\ [s \in Stacks |-> NULL] \in [Stacks -> Renderings \union {NULL}]
  BY PlatformConstants DEF Versions
<1>2. QED
  BY <1>1 DEF Started, Locals

\* What is rendered for a stack, with any dynamic config.
LEMMA RenderingType ==
  ASSUME TypeOK, NEW s \in Stacks, NEW d \in Dynamics \union {NULL}
  PROVE  Rendering(s, d) \in Renderings /\ Source(s) \in Contents
<1>1. template[s] # NULL => template[s] \in [content : Contents, version : 1 .. MaxBuild]
  BY DEF TypeOK
<1>2. Embedded[s][build] \in Contents
  BY PlatformConstants DEF TypeOK
<1>3. Source(s) \in Contents
  BY <1>1, <1>2 DEF Source, Current
<1>4. QED
  BY <1>3 DEF Rendering, Renderings

\* A save leaves a row for the stack and keeps what it replaces.
LEMMA UpdateType ==
  ASSUME TypeOK, NEW s \in Stacks, NEW d \in Contents, template[s] # NULL,
         UpdateConfig(s, d)
  PROVE  /\ template' \in [Stacks -> [content : Contents, version : 1 .. MaxBuild]
                                       \union {NULL}]
         /\ history' \in [Stacks -> SUBSET Contents]
         /\ template'[s] # NULL
         /\ \A t \in Stacks \ {s} : template'[t] = template[t] /\ history'[t] = history[t]
         /\ template[s].content # d =>
              template'[s] = [content |-> d, version |-> build]
<1>1. /\ template[s] \in [content : Contents, version : 1 .. MaxBuild]
      /\ [content |-> d, version |-> build] \in [content : Contents, version : 1 .. MaxBuild]
      /\ NULL \notin [content : Contents, version : 1 .. MaxBuild]
  BY PlatformConstants DEF TypeOK
<1>2. CASE template[s].content = d
  BY <1>1, <1>2 DEF UpdateConfig, TypeOK
<1>3. CASE template[s].content # d
  BY <1>1, <1>3 DEF UpdateConfig, TypeOK
<1>4. QED
  BY <1>2, <1>3

\* The values of a run's facts that type correctness needs.
LEMMA StepType ==
  ASSUME IInv, NEW c \in Runs, Step(c), failures' = failures
  PROVE  TypeOK'
<1> USE DEF Goto, Return, operator, cluster
<1>1. /\ pc \in [Runs -> Steps] /\ loc \in [Runs -> Locals] /\ loc[c] \in Locals
      /\ NoLocals \in Locals /\ 0 \in Versions /\ TypeOK
  <2>1. NoLocals \in Locals
    BY StartedType DEF NoLocals
  <2>2. QED
    BY <2>1, PlatformConstants DEF IInv, TypeOK, Versions
<1>2. CASE SetDomain(c) \/ SetTLS(c) \/ Bootstrap(c) \/ PersistTLS(c) \/ PersistDomain(c)
  BY <1>1, <1>2 DEF TypeOK, SetDomain, SetTLS, Bootstrap, PersistTLS, PersistDomain,
                    InstallState, Steps
<1>3. CASE SyncRead(c)
  <2>1. CASE /\ loc[c].todo = {} /\ UNCHANGED loc
             /\ Goto(c, IF loc[c].kind = "up" THEN "creds" ELSE "load")
    BY <1>1, <1>3, <2>1 DEF SyncRead, TypeOK, Steps
  <2>2. ASSUME NEW s \in loc[c].todo,
               LET l == [loc[c] EXCEPT !.todo = @ \ {s}]
               IN  IF Stale(s)
                     THEN /\ loc' = [loc EXCEPT ![c] = [l EXCEPT !.at = s,
                                                          !.missing = template[s] = NULL]]
                          /\ Goto(c, "write")
                     ELSE /\ loc' = [loc EXCEPT ![c] = l]
                          /\ UNCHANGED pc
        PROVE  TypeOK'
    <3>1. s \in Stacks
      BY <1>1 DEF Locals
    <3> DEFINE l == [loc[c] EXCEPT !.todo = @ \ {s}]
               m == [l EXCEPT !.at = s, !.missing = template[s] = NULL]
    <3>5. l \in Locals /\ m \in Locals
      BY <1>1, <3>1 DEF Locals
    <3>6. loc' = [loc EXCEPT ![c] = l] \/ loc' = [loc EXCEPT ![c] = m]
      BY <2>2
    <3>2. loc' \in [Runs -> Locals]
      <4> HIDE DEF l, m
      <4>1. QED BY <1>1, <3>5, <3>6
    <3>3. pc' \in [Runs -> Steps]
      BY <1>1, <2>2 DEF Steps
    <3>4. QED
      BY <1>1, <1>3, <3>2, <3>3 DEF SyncRead, TypeOK
  <2>3. QED
    BY <1>3, <2>1, <2>2 DEF SyncRead
<1>4. CASE SyncWrite(c)
  <2> DEFINE s == loc[c].at
  <2>1. /\ s \in Stacks /\ (loc[c].missing <=> template[s] = NULL)
        /\ Embedded[s][build] \in Contents
    BY <1>1, <1>4, PlatformConstants DEF IInv, RunOK, SyncOK, SyncWrite, TypeOK
  <2>2. /\ template' \in [Stacks -> [content : Contents, version : 1 .. MaxBuild]
                                      \union {NULL}]
        /\ history' \in [Stacks -> SUBSET Contents]
    <3>1. CASE template[s] = NULL
      BY <1>1, <1>4, <2>1, <3>1 DEF SyncWrite, TypeOK
    <3>2. CASE template[s] # NULL
      <4>1. UpdateConfig(s, Embedded[s][build])
        BY <1>4, <2>1, <3>2 DEF SyncWrite
      <4> HIDE DEF s
      <4>2. QED
        BY <1>1, <2>1, <3>2, <4>1, UpdateType
    <3>3. QED
      BY <3>1, <3>2
  <2>3. pc' \in [Runs -> Steps] /\ loc' = loc
    BY <1>1, <1>4, <2>1 DEF SyncWrite, Steps
  <2>4. QED
    BY <1>1, <1>4, <2>2, <2>3 DEF SyncWrite, TypeOK
<1>5. CASE Load(c)
  <2>1. row \in Versions
    BY <1>1 DEF TypeOK
  <2>2. loc' \in [Runs -> Locals] /\ pc' \in [Runs -> Steps]
    <3>1. CASE loc' = [loc EXCEPT ![c].row = row] /\ Goto(c, "configs")
      BY <1>1, <2>1, <3>1 DEF Locals, Steps
    <3>2. CASE Return(c)
      BY <1>1, <3>2 DEF Steps
    <3>3. QED BY <1>5, <3>1, <3>2 DEF Load
  <2>3. QED
    BY <1>1, <1>5, <2>2 DEF Load, TypeOK
<1>6. CASE Configs(c)
  <2>1. dynamic' \in Dynamics
    BY <1>1, <1>6 DEF Configs, TypeOK, Dynamics, Locals
  <2>2. loc' \in [Runs -> Locals] /\ pc' \in [Runs -> Steps]
    BY <1>1, <1>6, <2>1 DEF Configs, Locals, Steps
  <2>3. QED
    BY <1>1, <1>6, <2>1, <2>2 DEF Configs, TypeOK
<1>7. CASE Plan(c) \/ Healthy(c)
  <2>1. Snapshot(c) \in [Stacks -> Renderings \union {NULL}] /\ Changed(c) \subseteq Stacks
    BY <1>1, RenderingType DEF Snapshot, Changed, Locals
  <2>2. loc' \in [Runs -> Locals] /\ pc' \in [Runs -> Steps]
    <3>1. PICK f \in [Stacks -> Renderings \union {NULL}], t \in SUBSET Stacks :
            \/ loc' = [loc EXCEPT ![c].fresh = f, ![c].left = Stacks, ![c].todo = t]
            \/ loc' = [loc EXCEPT ![c].fresh = f, ![c].left = Stacks]
      BY <1>7, <2>1 DEF Plan, Healthy
    <3>4. ASSUME loc' = [loc EXCEPT ![c].fresh = f, ![c].left = Stacks, ![c].todo = t] PROVE loc' \in [Runs -> Locals]
      BY <1>1, <3>4 DEF Locals
    <3>5. ASSUME loc' = [loc EXCEPT ![c].fresh = f, ![c].left = Stacks] PROVE loc' \in [Runs -> Locals]
      BY <1>1, <3>5 DEF Locals
    <3>2. loc' \in [Runs -> Locals]
      BY <3>1, <3>4, <3>5
    <3>3. QED
      BY <1>1, <1>7, <3>2 DEF Plan, Healthy, Steps
  <2>3. QED
    BY <1>1, <1>7, <2>2 DEF Plan, Healthy, TypeOK
<1>8. CASE Store(c)
  <2>1. rendered' \in [Stacks -> Renderings \union {NULL}]
    BY <1>1, <1>8, SMTT(20) DEF Store, TypeOK, Locals
  <2>2. loc' \in [Runs -> Locals] /\ pc' \in [Runs -> Steps]
    <3>1. PICK t \in SUBSET Stacks : loc' = loc \/ loc' = [loc EXCEPT ![c].left = t]
      BY <1>1, <1>8 DEF Store, Locals
    <3>4. ASSUME loc' = [loc EXCEPT ![c].left = t] PROVE loc' \in [Runs -> Locals]
      BY <1>1, <3>4 DEF Locals
    <3>2. loc' \in [Runs -> Locals]
      BY <1>1, <3>1, <3>4
    <3>3. QED
      BY <1>1, <1>8, <3>2 DEF Store, Steps
  <2>3. QED
    BY <1>1, <1>8, <2>1, <2>2 DEF Store, TypeOK
<1>9. CASE Deploy(c)
  <2>1. swarm' \in [Stacks -> Renderings \union {NULL}]
    BY <1>1, <1>9, RenderingType, SMTT(20) DEF Deploy, TypeOK, Locals
  <2>2. loc' \in [Runs -> Locals] /\ pc' \in [Runs -> Steps]
    <3>1. PICK t \in SUBSET Stacks : loc' = loc \/ loc' = [loc EXCEPT ![c].todo = t]
      BY <1>1, <1>9 DEF Deploy, Locals
    <3>4. ASSUME loc' = [loc EXCEPT ![c].todo = t] PROVE loc' \in [Runs -> Locals]
      BY <1>1, <3>4 DEF Locals
    <3>2. loc' \in [Runs -> Locals]
      BY <1>1, <3>1, <3>4
    <3>3. QED
      BY <1>1, <1>9, <3>2 DEF Deploy, AfterDeploy, Steps
  <2>3. QED
    BY <1>1, <1>9, <2>1, <2>2 DEF Deploy, TypeOK
<1>10. CASE Mint(c)
  <2>1. PICK n \in 1 .. MaxCert : /\ secrets' = {n}
                                  /\ loc' = [loc EXCEPT ![c].cert = n]
    BY <1>10 DEF Mint
  <2>2. n \in Versions
    BY PlatformConstants DEF Versions
  <2>3. loc' \in [Runs -> Locals] /\ pc' \in [Runs -> Steps]
    BY <1>1, <1>10, <2>1, <2>2 DEF Mint, Locals, Steps
  <2>4. QED
    BY <1>1, <1>10, <2>1, <2>2, <2>3 DEF Mint, TypeOK
<1>11. CASE PutRow(c) \/ RemoveSecret(c)
  BY <1>1, <1>11 DEF PutRow, RemoveSecret, TypeOK, Locals, Steps
<1>12. CASE RemoveStack(c)
  <2>1. loc' \in [Runs -> Locals] /\ pc' \in [Runs -> Steps]
    <3>1. PICK t \in SUBSET Stacks : loc' = loc \/ loc' = [loc EXCEPT ![c].todo = t]
      BY <1>1, <1>12 DEF RemoveStack, Locals
    <3>4. ASSUME loc' = [loc EXCEPT ![c].todo = t] PROVE loc' \in [Runs -> Locals]
      BY <1>1, <3>4 DEF Locals
    <3>2. loc' \in [Runs -> Locals]
      BY <1>1, <3>1, <3>4
    <3>3. QED
      BY <1>1, <1>12, <3>2 DEF RemoveStack, Steps
  <2>2. QED
    BY <1>1, <1>12, <2>1 DEF RemoveStack, TypeOK
<1>13. CASE Done(c)
  BY <1>1, <1>13 DEF Done, TypeOK, Steps
<1>14. QED
  BY <1>2, <1>3, <1>4, <1>5, <1>6, <1>7, <1>8, <1>9, <1>10, <1>11, <1>12, <1>13 DEF Step

-----------------------------------------------------------------------------
(* The steps of a run *)

\* What is left to show of a step of c once its types are known: the other
\* runs are idle and stay so.
After(c) == TemplatesOK' /\ RunOK(c)' /\ MatchesOK'

\* A run that is under way is the only one.
LEMMA StepAlone ==
  ASSUME IInv, NEW c \in Runs, Step(c)
  PROVE  /\ pc[c] # "idle"
         /\ \A d \in Runs \ {c} : pc[d] = "idle" /\ pc'[d] = "idle"
<1>1. pc \in [Runs -> Steps] /\ Solo
  BY DEF IInv, TypeOK
<1>2. pc[c] # "idle"
  BY DEF Step, SetDomain, SetTLS, Bootstrap, SyncRead, SyncWrite, Load, Configs, Plan,
         Store, Deploy, Healthy, PersistTLS, PersistDomain, Mint, PutRow, RemoveSecret,
         RemoveStack, Done
<1>3. \A d \in Runs \ {c} : pc'[d] = pc[d]
  BY <1>1 DEF Step, SetDomain, SetTLS, Bootstrap, SyncRead, SyncWrite, Load, Configs,
         Plan, Store, Deploy, Healthy, PersistTLS, PersistDomain, Mint, PutRow,
         RemoveSecret, RemoveStack, Done, Goto, Return
<1>4. QED
  BY <1>1, <1>2, <1>3 DEF Solo

\* The rows and the build are fixed, so what is shown depends on the run alone.
LEMMA ShownFixed ==
  ASSUME NEW c \in Runs, UNCHANGED <<build, template>>, loc'[c].dynamic = loc[c].dynamic
  PROVE  \A s \in Stacks : Shown(c, s)' = Shown(c, s)
BY DEF Shown, Rendering, Source, Current

\* The settings are written one at a time; nothing else changes.
LEMMA SettingsSteps ==
  ASSUME IInv, NEW c \in Runs, Step(c), failures' = failures,
         \/ SetDomain(c) \/ SetTLS(c) \/ Bootstrap(c)
         \/ PersistTLS(c) \/ PersistDomain(c)
  PROVE  After(c)
<1>1. /\ pc \in [Runs -> Steps] /\ RunOK(c) /\ TemplatesOK /\ MatchesOK
  BY DEF IInv, TypeOK
<1>2. /\ UNCHANGED <<build, template, history, chosen, rendered, swarm, row, secrets,
                     dynamic, loc>>
      /\ persisted \subseteq persisted'
  BY DEF SetDomain, SetTLS, Bootstrap, PersistTLS, PersistDomain, operator
<1>3. \/ pc[c] = "setdomain" /\ pc'[c] = "settls"
      \/ pc[c] = "settls" /\ pc'[c] = "sync"
      \/ pc[c] = "creds" /\ pc'[c] = "load" /\ "creds" \in persisted'
      \/ pc[c] = "tls" /\ pc'[c] = "domain" /\ "tls" \in persisted'
      \/ pc[c] = "domain" /\ pc'[c] = "done" /\ "domain" \in persisted'
  BY <1>1 DEF SetDomain, SetTLS, Bootstrap, PersistTLS, PersistDomain, Goto
<1>4. \A s \in Stacks : Shown(c, s)' = Shown(c, s)
  BY <1>2, ShownFixed
<1>5. TemplatesOK'
  BY <1>1, <1>2 DEF TemplatesOK, Current
<1>6. KindOK(c)' /\ SyncOK(c)' /\ LoadedOK(c)'
  BY <1>1, <1>2, <1>3 DEF RunOK, KindOK, SyncOK, LoadedOK, Refreshed, Synced, Current
<1>7. InstallOK(c)' /\ RecordOK(c)' /\ AppliedOK(c)'
  BY <1>1, <1>2, <1>3, <1>4
     DEF RunOK, KindOK, InstallOK, RecordOK, AppliedOK, Refreshed, Synced
<1>8. MatchesOK'
  BY <1>1, <1>2, <1>3, StepAlone DEF MatchesOK
<1>9. QED
  BY <1>5, <1>6, <1>7, <1>8 DEF After, RunOK

\* Reading the rows: a row that is left alone is one of this build.
LEMMA SyncReadStep ==
  ASSUME IInv, NEW c \in Runs, SyncRead(c), failures' = failures
  PROVE  After(c)
<1>1. /\ pc \in [Runs -> Steps] /\ loc \in [Runs -> Locals] /\ loc[c] \in Locals
      /\ RunOK(c) /\ TemplatesOK /\ MatchesOK /\ pc[c] = "sync"
  BY DEF IInv, TypeOK, SyncRead
<1>2. UNCHANGED <<build, template, history, chosen, rendered, persisted, swarm, row,
                  secrets, dynamic>>
  BY DEF SyncRead, operator, cluster
<1>3. Step(c)
  BY DEF Step
<1>4. /\ loc'[c].kind = loc[c].kind /\ loc'[c].refresh = loc[c].refresh
      /\ \/ /\ loc[c].todo = {} /\ loc' = loc
            /\ pc'[c] = IF loc[c].kind = "up" THEN "creds" ELSE "load"
         \/ \E s \in loc[c].todo :
              /\ loc'[c].todo = loc[c].todo \ {s}
              /\ \/ /\ ~Current(s) /\ pc'[c] = "write"
                    /\ loc'[c].at = s /\ (loc'[c].missing <=> template[s] = NULL)
                 \/ Current(s) /\ pc'[c] = "sync"
  <2>1. ASSUME NEW s \in loc[c].todo,
               LET l == [loc[c] EXCEPT !.todo = @ \ {s}]
               IN  IF Stale(s)
                     THEN /\ loc' = [loc EXCEPT ![c] = [l EXCEPT !.at = s,
                                                          !.missing = template[s] = NULL]]
                          /\ Goto(c, "write")
                     ELSE /\ loc' = [loc EXCEPT ![c] = l]
                          /\ UNCHANGED pc
        PROVE  /\ loc'[c].kind = loc[c].kind /\ loc'[c].refresh = loc[c].refresh
               /\ loc'[c].todo = loc[c].todo \ {s}
               /\ \/ /\ ~Current(s) /\ pc'[c] = "write"
                     /\ loc'[c].at = s /\ (loc'[c].missing <=> template[s] = NULL)
                  \/ Current(s) /\ pc'[c] = "sync"
    <3>1. CASE Stale(s)
      <4>1. /\ loc'[c] = [[loc[c] EXCEPT !.todo = @ \ {s}] EXCEPT
                            !.at = s, !.missing = template[s] = NULL]
            /\ pc'[c] = "write"
        BY <1>1, <2>1, <3>1 DEF Goto
      <4>2. QED
        BY <1>1, <3>1, <4>1 DEF Locals, Stale
    <3>2. CASE ~Stale(s)
      BY <1>1, <2>1, <3>2 DEF Locals, Stale
    <3>3. QED BY <3>1, <3>2
  <2>2. CASE loc[c].todo = {} /\ UNCHANGED loc
             /\ Goto(c, IF loc[c].kind = "up" THEN "creds" ELSE "load")
    BY <1>1, <2>2 DEF Goto
  <2>3. QED
    BY <2>1, <2>2 DEF SyncRead
<1>5. loc[c].kind \in Kinds /\ pc'[c] \in {"sync", "write", "creds", "load"}
  BY <1>1, <1>4 DEF RunOK, KindOK
<1>6. TemplatesOK'
  BY <1>1, <1>2 DEF TemplatesOK, Current
<1>7. KindOK(c)' /\ LoadedOK(c)'
  BY <1>1, <1>2, <1>4, <1>5 DEF RunOK, KindOK, LoadedOK, Refreshed, Synced
<1>8. SyncOK(c)'
  <2>1. CASE loc[c].todo = {} /\ loc' = loc
    BY <1>1, <1>2, <1>4, <1>5, <2>1 DEF RunOK, SyncOK, Synced, Current
  <2>2. ASSUME NEW s \in loc[c].todo, loc'[c].todo = loc[c].todo \ {s},
               ~Current(s) /\ pc'[c] = "write" /\ loc'[c].at = s
               /\ (loc'[c].missing <=> template[s] = NULL)
        PROVE  SyncOK(c)'
    BY <1>1, <1>2, <2>2 DEF RunOK, SyncOK, Synced, Current, Locals
  <2>3. ASSUME NEW s \in loc[c].todo, loc'[c].todo = loc[c].todo \ {s},
               Current(s) /\ pc'[c] = "sync"
        PROVE  SyncOK(c)'
    BY <1>1, <1>2, <2>3 DEF RunOK, SyncOK, Synced, Current
  <2>4. QED BY <1>4, <2>1, <2>2, <2>3
<1>9. InstallOK(c)' /\ RecordOK(c)' /\ AppliedOK(c)'
  BY <1>1, <1>4, <1>5 DEF RunOK, KindOK, InstallOK, RecordOK, AppliedOK, Refreshed, Synced
<1>10. MatchesOK'
  BY <1>1, <1>2, <1>3, StepAlone DEF MatchesOK
<1>11. QED
  BY <1>6, <1>7, <1>8, <1>9, <1>10 DEF After, RunOK

\* Writing a stale row: nobody has chosen anything for it under this build.
LEMMA SyncWriteStep ==
  ASSUME IInv, NEW c \in Runs, SyncWrite(c), failures' = failures
  PROVE  After(c)
<1> DEFINE s == loc[c].at
<1>1. /\ pc \in [Runs -> Steps] /\ loc[c] \in Locals /\ TypeOK
      /\ RunOK(c) /\ TemplatesOK /\ MatchesOK /\ pc[c] = "write"
  BY DEF IInv, TypeOK, SyncWrite
<1>2. UNCHANGED <<build, chosen, rendered, persisted, swarm, row, secrets, dynamic>>
  BY DEF SyncWrite, cluster
<1>3. Step(c)
  BY DEF Step
<1>4. /\ s \in Stacks /\ ~Current(s) /\ (loc[c].missing <=> template[s] = NULL)
      /\ \A t \in Stacks \ (loc[c].todo \union {s}) : template[t] # NULL
      /\ Embedded[s][build] \in Contents
  BY <1>1, PlatformConstants DEF RunOK, SyncOK, TypeOK
<1>5. pc'[c] = "sync" /\ loc' = loc
  BY <1>1, <1>4 DEF SyncWrite, Goto
<1>6. /\ template'[s] # NULL
      /\ \A t \in Stacks \ {s} : template'[t] = template[t] /\ history'[t] = history[t]
  <2>1. CASE template[s] = NULL
    <3>1. /\ template' = [template EXCEPT ![s] = [content |-> Embedded[s][build],
                                                  version |-> build]]
          /\ history' = history
      BY <1>4, <2>1 DEF SyncWrite
    <3>2. [content |-> Embedded[s][build], version |-> build] # NULL
      BY <1>1, <1>4, PlatformConstants DEF TypeOK
    <3>3. QED BY <1>1, <1>4, <3>1, <3>2 DEF TypeOK
  <2>2. CASE template[s] # NULL
    <3>1. UpdateConfig(s, Embedded[s][build])
      BY <1>4, <2>2 DEF SyncWrite
    <3> HIDE DEF s
    <3>2. QED BY <1>1, <1>4, <2>2, <3>1, UpdateType
  <2>3. QED BY <2>1, <2>2
<1>7. chosen[s] = NULL
  BY <1>1, <1>4 DEF TemplatesOK
<1>8. TemplatesOK'
  BY <1>1, <1>2, <1>4, <1>6, <1>7 DEF TemplatesOK, Current
<1>9. KindOK(c)' /\ LoadedOK(c)'
  BY <1>1, <1>2, <1>5 DEF RunOK, KindOK, LoadedOK, Refreshed, Synced
<1>10. SyncOK(c)'
  BY <1>4, <1>5, <1>6 DEF SyncOK, Synced
<1>11. InstallOK(c)' /\ RecordOK(c)' /\ AppliedOK(c)'
  BY <1>5 DEF InstallOK, RecordOK, AppliedOK, Refreshed, Synced
<1>12. MatchesOK'
  BY <1>1, <1>2, <1>3, StepAlone DEF MatchesOK
<1>13. QED
  BY <1>8, <1>9, <1>10, <1>11, <1>12 DEF After, RunOK

\* Loading the certificate row and the install state; up has it from its flags.
LEMMA LoadStep ==
  ASSUME IInv, NEW c \in Runs, Load(c), failures' = failures
  PROVE  After(c)
<1>1. /\ pc \in [Runs -> Steps] /\ loc \in [Runs -> Locals] /\ loc[c] \in Locals
      /\ RunOK(c) /\ TemplatesOK /\ MatchesOK /\ pc[c] = "load"
  BY DEF IInv, TypeOK, Load
<1>2. UNCHANGED <<build, template, history, chosen, rendered, persisted, swarm, row,
                  secrets, dynamic>>
  BY DEF Load, operator, cluster
<1>3. Step(c)
  BY DEF Step
<1>4. \/ pc'[c] = "idle"
      \/ /\ pc'[c] = "configs" /\ loc'[c].row = row
         /\ loc'[c].kind = loc[c].kind /\ loc'[c].refresh = loc[c].refresh
         /\ loc'[c].dynamic = loc[c].dynamic
  <2>1. CASE loc' = [loc EXCEPT ![c].row = row] /\ Goto(c, "configs")
    BY <1>1, <2>1 DEF Goto, Locals
  <2>2. CASE Return(c)
    BY <1>1, <2>2 DEF Return, Goto
  <2>3. QED BY <2>1, <2>2 DEF Load
<1>5. TemplatesOK'
  BY <1>1, <1>2 DEF TemplatesOK, Current
<1>6. MatchesOK'
  BY <1>1, <1>2, <1>3, <1>4, StepAlone DEF MatchesOK
<1>7. CASE pc'[c] = "idle"
  <2>1. loc'[c].kind # "down" \/ pc'[c] = "idle"
    BY <1>7
  <2>2. RunOK(c)'
    BY <1>7 DEF RunOK, KindOK, SyncOK, LoadedOK, InstallOK, RecordOK, AppliedOK,
                Refreshed, Synced
  <2>3. QED BY <1>5, <1>6, <2>2 DEF After
<1>8. CASE pc'[c] # "idle"
  <2>1. KindOK(c)' /\ SyncOK(c)' /\ LoadedOK(c)'
    BY <1>1, <1>2, <1>4, <1>8 DEF RunOK, KindOK, SyncOK, LoadedOK, Refreshed, Synced
  <2>2. InstallOK(c)' /\ RecordOK(c)' /\ AppliedOK(c)'
    BY <1>1, <1>2, <1>4, <1>8
       DEF RunOK, InstallOK, RecordOK, AppliedOK, Refreshed, Synced
  <2>3. QED BY <1>5, <1>6, <2>1, <2>2 DEF After, RunOK
<1>9. QED BY <1>7, <1>8

\* Making the dynamic config: from here on the run goes by the newest one.
LEMMA ConfigsStep ==
  ASSUME IInv, NEW c \in Runs, Configs(c), failures' = failures
  PROVE  After(c)
<1>1. /\ pc \in [Runs -> Steps] /\ loc \in [Runs -> Locals] /\ loc[c] \in Locals
      /\ RunOK(c) /\ TemplatesOK /\ MatchesOK /\ pc[c] = "configs" /\ loc[c].row = row
  BY DEF IInv, TypeOK, Configs, RunOK, LoadedOK
<1>2. UNCHANGED <<build, template, history, chosen, rendered, persisted, swarm, row,
                  secrets>>
  BY DEF Configs, operator
<1>3. Step(c)
  BY DEF Step
<1>4. /\ loc'[c].kind = loc[c].kind /\ loc'[c].refresh = loc[c].refresh
      /\ loc'[c].dynamic = dynamic' /\ loc'[c].todo = Stacks
      /\ pc'[c] = IF loc[c].kind = "up" THEN "deploy" ELSE "plan"
  <2>1. loc' = [loc EXCEPT ![c].dynamic = dynamic', ![c].todo = Stacks]
    BY DEF Configs
  <2>2. QED BY <1>1, <2>1 DEF Configs, Goto, Locals
<1>5. dynamic'.row = row
  BY <1>1 DEF Configs, Reusable
<1>6. TemplatesOK'
  BY <1>1, <1>2 DEF TemplatesOK, Current
<1>7. MatchesOK'
  BY <1>1, <1>2, <1>3, StepAlone DEF MatchesOK
<1>8. KindOK(c)' /\ SyncOK(c)' /\ LoadedOK(c)'
  BY <1>1, <1>2, <1>4, <1>5 DEF RunOK, KindOK, SyncOK, LoadedOK, Refreshed, Synced
<1>9. InstallOK(c)' /\ RecordOK(c)' /\ AppliedOK(c)'
  BY <1>1, <1>2, <1>4 DEF RunOK, KindOK, InstallOK, RecordOK, AppliedOK, Refreshed, Synced
<1>10. QED
  BY <1>6, <1>7, <1>8, <1>9 DEF After, RunOK

\* Rendering everything: what need not be redeployed is what is on record, which
\* is what runs.
LEMMA RenderSteps ==
  ASSUME IInv, NEW c \in Runs, Plan(c) \/ Healthy(c), failures' = failures
  PROVE  After(c)
<1>1. /\ pc \in [Runs -> Steps] /\ loc \in [Runs -> Locals] /\ loc[c] \in Locals
      /\ RunOK(c) /\ TemplatesOK /\ MatchesOK /\ pc[c] \in {"plan", "healthy"}
  BY DEF IInv, TypeOK, Plan, Healthy
<1>2. UNCHANGED <<build, template, history, chosen, rendered, persisted, swarm, row,
                  secrets, dynamic>>
  BY DEF Plan, Healthy, operator, cluster
<1>3. Step(c)
  BY DEF Step
<1>4. /\ loc'[c].kind = loc[c].kind /\ loc'[c].refresh = loc[c].refresh
      /\ loc'[c].dynamic = loc[c].dynamic /\ pc'[c] = "store"
      /\ loc'[c].fresh = Snapshot(c) /\ loc'[c].left = Stacks
      /\ pc[c] = "plan" => loc'[c].todo = Changed(c)
  <2>1. CASE Plan(c)
    <3>1. loc' = [loc EXCEPT ![c].fresh = Snapshot(c), ![c].left = Stacks,
                             ![c].todo = Changed(c)]
      BY <2>1 DEF Plan
    <3>2. QED BY <1>1, <2>1, <3>1 DEF Plan, Goto, Locals
  <2>2. CASE Healthy(c)
    <3>1. loc' = [loc EXCEPT ![c].fresh = Snapshot(c), ![c].left = Stacks]
      BY <2>2 DEF Healthy
    <3>2. QED BY <1>1, <2>2, <3>1 DEF Healthy, Goto, Locals
  <2>3. QED BY <2>1, <2>2
<1>5. /\ \A s \in Stacks : Shown(c, s)' = Shown(c, s)
      /\ Snapshot(c)' = Snapshot(c)
  BY <1>2, <1>4, ShownFixed DEF Shown, Snapshot
<1>6. TemplatesOK'
  BY <1>1, <1>2 DEF TemplatesOK, Current
<1>7. MatchesOK'
  BY <1>4 DEF MatchesOK
<1>8. KindOK(c)' /\ SyncOK(c)' /\ LoadedOK(c)'
  BY <1>1, <1>2, <1>4 DEF RunOK, KindOK, SyncOK, LoadedOK, Refreshed, Synced
<1>9. InstallOK(c)' /\ RecordOK(c)'
  BY <1>1, <1>2, <1>4, <1>5 DEF RunOK, KindOK, InstallOK, RecordOK, Synced
<1>10. AppliedOK(c)'
  <2> SUFFICES ASSUME failures = 0, loc[c].kind # "up", NEW s \in Stacks \ loc'[c].todo
               PROVE  swarm[s] \in {NULL, Shown(c, s)}
    BY <1>2, <1>4, <1>5 DEF AppliedOK, Refreshed
  <2>1. pc[c] = "plan"
    BY <1>1 DEF RunOK, KindOK
  <2>2. rendered[s] = Shown(c, s)
    BY <1>4, <2>1 DEF Changed, Shown
  <2>3. swarm[s] \in {NULL, rendered[s]}
    BY <1>1, <1>3, <2>1, StepAlone DEF MatchesOK
  <2>4. QED BY <2>2, <2>3
<1>11. QED
  BY <1>6, <1>7, <1>8, <1>9, <1>10 DEF After, RunOK

\* Recording the renderings, one row at a time.
LEMMA StoreStep ==
  ASSUME IInv, NEW c \in Runs, Store(c), failures' = failures
  PROVE  After(c)
<1>1. /\ pc \in [Runs -> Steps] /\ loc \in [Runs -> Locals] /\ loc[c] \in Locals
      /\ rendered \in [Stacks -> Renderings \union {NULL}]
      /\ RunOK(c) /\ TemplatesOK /\ MatchesOK /\ pc[c] = "store"
      /\ \A s \in Stacks : template[s] # NULL
  BY DEF IInv, TypeOK, Store, RunOK, SyncOK, Synced
<1>2. UNCHANGED <<build, template, history, chosen, persisted, swarm, row, secrets,
                  dynamic>>
  BY DEF Store, operator
<1>3. Step(c)
  BY DEF Step
<1>4. /\ loc'[c].kind = loc[c].kind /\ loc'[c].refresh = loc[c].refresh
      /\ loc'[c].dynamic = loc[c].dynamic /\ loc'[c].fresh = loc[c].fresh
      /\ loc'[c].todo = loc[c].todo
      /\ \/ \E s \in loc[c].left :
              /\ rendered' = [rendered EXCEPT ![s] = loc[c].fresh[s]]
              /\ loc'[c].left = loc[c].left \ {s} /\ pc'[c] = "store"
         \/ /\ loc[c].left = {} /\ rendered' = rendered /\ loc' = loc
            /\ pc'[c] = IF loc[c].kind = "up" THEN "tls" ELSE "deploy"
  <2>1. ASSUME NEW s \in loc[c].left,
               rendered' = [rendered EXCEPT
                              ![s] = IF template[s] = NULL THEN @ ELSE loc[c].fresh[s]],
               loc' = [loc EXCEPT ![c].left = @ \ {s}], UNCHANGED pc
        PROVE  /\ loc'[c].kind = loc[c].kind /\ loc'[c].refresh = loc[c].refresh
               /\ loc'[c].dynamic = loc[c].dynamic /\ loc'[c].fresh = loc[c].fresh
               /\ loc'[c].todo = loc[c].todo
               /\ rendered' = [rendered EXCEPT ![s] = loc[c].fresh[s]]
               /\ loc'[c].left = loc[c].left \ {s} /\ pc'[c] = "store"
    <3>1. template[s] # NULL
      BY <1>1 DEF Locals
    <3>2. rendered' = [rendered EXCEPT ![s] = loc[c].fresh[s]]
      BY <2>1, <3>1
    <3>3. loc'[c] = [loc[c] EXCEPT !.left = @ \ {s}]
      BY <1>1, <2>1
    <3>4. QED BY <1>1, <2>1, <3>2, <3>3 DEF Locals
  <2>2. CASE loc[c].left = {} /\ UNCHANGED <<rendered, loc>>
             /\ Goto(c, IF loc[c].kind = "up" THEN "tls" ELSE "deploy")
    BY <1>1, <2>2 DEF Goto
  <2>3. QED BY <2>1, <2>2 DEF Store
<1>5. /\ \A s \in Stacks : Shown(c, s)' = Shown(c, s)
      /\ Snapshot(c)' = Snapshot(c) /\ loc[c].fresh = Snapshot(c)
      /\ \A s \in Stacks \ loc[c].left : rendered[s] = Shown(c, s)
  BY <1>1, <1>2, <1>4, ShownFixed DEF Shown, Snapshot, RunOK, RecordOK
<1>6. \A s \in Stacks \ loc'[c].left : rendered'[s] = Shown(c, s)
  <2>1. CASE loc[c].left = {} /\ rendered' = rendered
    BY <1>5, <2>1
  <2>2. ASSUME NEW t \in loc[c].left,
               rendered' = [rendered EXCEPT ![t] = loc[c].fresh[t]],
               loc'[c].left = loc[c].left \ {t}
        PROVE  \A s \in Stacks \ loc'[c].left : rendered'[s] = Shown(c, s)
    <3>1. t \in Stacks
      BY <1>1 DEF Locals
    <3>2. rendered'[t] = Shown(c, t)
      BY <1>1, <1>5, <2>2, <3>1 DEF Snapshot, Shown
    <3>3. QED BY <1>1, <1>5, <2>2, <3>2
  <2>3. QED BY <1>4, <2>1, <2>2
<1>7. /\ pc'[c] \in {"store", "tls", "deploy"}
      /\ pc'[c] # "store" => /\ loc'[c].left = {}
                             /\ pc'[c] = "tls" <=> loc[c].kind = "up"
  BY <1>4
<1>8. TemplatesOK'
  BY <1>1, <1>2 DEF TemplatesOK, Current
<1>9. MatchesOK'
  <2> SUFFICES ASSUME failures = 0, pc'[c] = "tls", NEW s \in Stacks
               PROVE  swarm[s] \in {NULL, rendered'[s]}
    BY <1>2, <1>7 DEF MatchesOK
  <2>1. swarm[s] = Shown(c, s)
    BY <1>1, <1>7 DEF RunOK, InstallOK
  <2>2. QED BY <1>6, <1>7, <2>1
<1>10. KindOK(c)' /\ SyncOK(c)' /\ LoadedOK(c)'
  BY <1>1, <1>2, <1>4, <1>7 DEF RunOK, KindOK, SyncOK, LoadedOK, Refreshed, Synced
<1>11. InstallOK(c)' /\ AppliedOK(c)'
  BY <1>1, <1>2, <1>4, <1>5, <1>7
     DEF RunOK, KindOK, InstallOK, AppliedOK, Refreshed, Synced
<1>12. RecordOK(c)'
  BY <1>4, <1>5, <1>6, <1>7 DEF RecordOK
<1>13. QED
  BY <1>8, <1>9, <1>10, <1>11, <1>12 DEF After, RunOK

\* Deploying the stacks that changed, or for up all of them.
LEMMA DeployStep ==
  ASSUME IInv, NEW c \in Runs, Deploy(c), failures' = failures
  PROVE  After(c)
<1>1. /\ pc \in [Runs -> Steps] /\ loc \in [Runs -> Locals] /\ loc[c] \in Locals
      /\ swarm \in [Stacks -> Renderings \union {NULL}]
      /\ RunOK(c) /\ TemplatesOK /\ MatchesOK /\ pc[c] = "deploy"
  BY DEF IInv, TypeOK, Deploy
<1>2. UNCHANGED <<build, template, history, chosen, rendered, persisted, row, secrets,
                  dynamic>>
  BY DEF Deploy, operator
<1>3. Step(c)
  BY DEF Step
<1>4. /\ loc'[c].kind = loc[c].kind /\ loc'[c].refresh = loc[c].refresh
      /\ loc'[c].dynamic = loc[c].dynamic
      /\ \/ \E s \in loc[c].todo :
              /\ swarm' = [swarm EXCEPT ![s] = Shown(c, s)]
              /\ loc'[c].todo = loc[c].todo \ {s} /\ pc'[c] = "deploy"
         \/ /\ loc[c].todo = {} /\ swarm' = swarm /\ loc' = loc
            /\ pc'[c] = AfterDeploy(loc[c].kind)
  <2>1. ASSUME NEW s \in loc[c].todo,
               swarm' = [swarm EXCEPT ![s] = Rendering(s, loc[c].dynamic)],
               loc' = [loc EXCEPT ![c].todo = @ \ {s}], UNCHANGED pc
        PROVE  /\ loc'[c].kind = loc[c].kind /\ loc'[c].refresh = loc[c].refresh
               /\ loc'[c].dynamic = loc[c].dynamic
               /\ swarm' = [swarm EXCEPT ![s] = Shown(c, s)]
               /\ loc'[c].todo = loc[c].todo \ {s} /\ pc'[c] = "deploy"
    <3>1. loc'[c] = [loc[c] EXCEPT !.todo = @ \ {s}]
      BY <1>1, <2>1
    <3>2. QED BY <1>1, <2>1, <3>1 DEF Locals, Shown
  <2>2. CASE loc[c].todo = {} /\ UNCHANGED <<swarm, loc>>
             /\ Goto(c, AfterDeploy(loc[c].kind))
    BY <1>1, <2>2 DEF Goto
  <2>3. QED BY <2>1, <2>2 DEF Deploy
<1>5. \A s \in Stacks : Shown(c, s)' = Shown(c, s)
  BY <1>2, <1>4, ShownFixed
<1>6. /\ \A s \in Stacks : s \notin loc'[c].todo => s \notin loc[c].todo
                                                    \/ swarm'[s] = Shown(c, s)
      /\ \A s \in Stacks : swarm'[s] \in {swarm[s], Shown(c, s)}
  <2>1. CASE loc[c].todo = {} /\ swarm' = swarm
    BY <2>1
  <2>2. ASSUME NEW t \in loc[c].todo, swarm' = [swarm EXCEPT ![t] = Shown(c, t)],
               loc'[c].todo = loc[c].todo \ {t}
        PROVE  /\ \A s \in Stacks : s \notin loc'[c].todo => s \notin loc[c].todo
                                                             \/ swarm'[s] = Shown(c, s)
               /\ \A s \in Stacks : swarm'[s] \in {swarm[s], Shown(c, s)}
    <3>1. t \in Stacks
      BY <1>1 DEF Locals
    <3>2. QED BY <1>1, <2>2, <3>1
  <2>3. QED BY <1>4, <2>1, <2>2
<1>7. /\ pc'[c] \in {"deploy", "healthy", "putrow", "done"}
      /\ pc'[c] # "deploy" => loc'[c].todo = {} /\ pc'[c] = AfterDeploy(loc[c].kind)
  BY <1>4 DEF AfterDeploy
<1>8. loc[c].kind = "up" => \A s \in Stacks \ loc'[c].todo : swarm'[s] = Shown(c, s)
  <2> SUFFICES ASSUME loc[c].kind = "up", NEW s \in Stacks \ loc'[c].todo
               PROVE  swarm'[s] = Shown(c, s)
    OBVIOUS
  <2>1. s \notin loc[c].todo => swarm[s] = Shown(c, s)
    BY <1>1 DEF RunOK, InstallOK
  <2>2. QED BY <1>6, <2>1
<1>9. failures = 0 /\ loc[c].kind # "up" =>
        \A s \in Stacks \ loc'[c].todo : swarm'[s] \in {NULL, Shown(c, s)}
  <2> SUFFICES ASSUME failures = 0, loc[c].kind # "up", NEW s \in Stacks \ loc'[c].todo
               PROVE  swarm'[s] \in {NULL, Shown(c, s)}
    OBVIOUS
  <2>1. s \notin loc[c].todo => swarm[s] \in {NULL, Shown(c, s)}
    BY <1>1 DEF RunOK, AppliedOK
  <2>2. QED BY <1>6, <2>1
<1>10. loc[c].kind # "up" => \A s \in Stacks : rendered[s] = Shown(c, s)
  BY <1>1 DEF RunOK, RecordOK
<1>11. TemplatesOK'
  BY <1>1, <1>2 DEF TemplatesOK, Current
<1>12. MatchesOK'
  <2> SUFFICES ASSUME failures = 0, pc'[c] \notin {"deploy", "healthy"}, NEW s \in Stacks
               PROVE  swarm'[s] \in {NULL, rendered[s]}
    BY <1>2 DEF MatchesOK
  <2>1. loc[c].kind # "up" /\ loc'[c].todo = {}
    BY <1>7 DEF AfterDeploy
  <2>2. QED BY <1>9, <1>10, <2>1
<1>13. KindOK(c)' /\ SyncOK(c)'
  <2>1. loc[c].kind \in Kinds \ {"down"}
    BY <1>1 DEF RunOK, KindOK
  <2>2. pc'[c] \in {"deploy", "healthy", "putrow", "done"}
        /\ (pc'[c] = "healthy" => loc[c].kind = "up")
        /\ (pc'[c] = "putrow" => loc[c].kind = "apply")
    BY <1>7, <2>1 DEF AfterDeploy, Kinds
  <2>3. QED BY <1>1, <1>2, <1>4, <2>1, <2>2 DEF RunOK, KindOK, SyncOK, Synced
<1>14. LoadedOK(c)'
  BY <1>1, <1>2, <1>4, <1>7 DEF RunOK, LoadedOK, Refreshed
<1>15. InstallOK(c)'
  <2>1. loc[c].kind = "up" => pc'[c] \in {"deploy", "healthy"}
    BY <1>7 DEF AfterDeploy
  <2>2. QED BY <1>1, <1>2, <1>4, <1>5, <1>7, <1>8, <2>1 DEF RunOK, InstallOK, Synced
<1>16. RecordOK(c)'
  <2>1. loc[c].kind = "up" => pc'[c] \in {"deploy", "healthy"}
    BY <1>7 DEF AfterDeploy
  <2>2. QED BY <1>2, <1>4, <1>5, <1>7, <1>10, <2>1 DEF RecordOK
<1>17. AppliedOK(c)'
  BY <1>4, <1>5, <1>7, <1>9 DEF AppliedOK, Refreshed
<1>18. QED
  BY <1>11, <1>12, <1>13, <1>14, <1>15, <1>16, <1>17 DEF After, RunOK

\* The secret of a host's certificate and its row.
LEMMA CertSteps ==
  ASSUME IInv, NEW c \in Runs, Mint(c) \/ PutRow(c) \/ RemoveSecret(c), failures' = failures
  PROVE  After(c)
<1>1. /\ pc \in [Runs -> Steps] /\ loc \in [Runs -> Locals] /\ loc[c] \in Locals
      /\ RunOK(c) /\ TemplatesOK /\ MatchesOK
  BY DEF IInv, TypeOK
<1>2. /\ UNCHANGED <<build, template, history, chosen, rendered, persisted, swarm, dynamic>>
      /\ row' = row \/ pc[c] = "putrow"
  BY DEF Mint, PutRow, RemoveSecret, operator
<1>3. Step(c)
  BY DEF Step
<1>4. /\ loc'[c].kind = loc[c].kind /\ loc'[c].refresh = loc[c].refresh
      /\ loc'[c].dynamic = loc[c].dynamic /\ loc'[c].todo = loc[c].todo
      /\ \/ /\ pc[c] = "mint"
            /\ pc'[c] = IF loc[c].refresh THEN "sync" ELSE "putrow"
         \/ pc[c] = "putrow" /\ pc'[c] = "done"
         \/ /\ pc[c] = "rmsecret"
            /\ pc'[c] = IF loc[c].refresh THEN "sync" ELSE "done"
  <2>1. CASE Mint(c)
    <3>1. PICK n \in 1 .. MaxCert : loc' = [loc EXCEPT ![c].cert = n]
      BY <2>1 DEF Mint
    <3>2. QED BY <1>1, <2>1, <3>1 DEF Mint, Goto, Locals
  <2>2. CASE PutRow(c) \/ RemoveSecret(c)
    BY <1>1, <2>2 DEF PutRow, RemoveSecret, Goto
  <2>3. QED BY <2>1, <2>2
<1>5. /\ pc[c] \in {"mint", "putrow"} => loc[c].kind = "apply"
      /\ pc[c] = "rmsecret" => loc[c].kind = "remove"
  BY <1>1 DEF RunOK, KindOK
<1>6. TemplatesOK'
  BY <1>1, <1>2 DEF TemplatesOK, Current
<1>7. MatchesOK'
  BY <1>1, <1>2, <1>3, <1>4, StepAlone DEF MatchesOK
<1>8. KindOK(c)' /\ SyncOK(c)' /\ LoadedOK(c)'
  BY <1>1, <1>2, <1>4, <1>5 DEF RunOK, KindOK, SyncOK, LoadedOK, Refreshed, Synced, Kinds
<1>9. InstallOK(c)' /\ RecordOK(c)' /\ AppliedOK(c)'
  BY <1>1, <1>2, <1>4, <1>5
     DEF RunOK, InstallOK, RecordOK, AppliedOK, Refreshed, Synced
<1>10. QED
  BY <1>6, <1>7, <1>8, <1>9 DEF After, RunOK

\* Removing stacks, and the end of a run.
LEMMA EndSteps ==
  ASSUME IInv, NEW c \in Runs, RemoveStack(c) \/ Done(c), failures' = failures
  PROVE  After(c)
<1>1. /\ pc \in [Runs -> Steps] /\ loc \in [Runs -> Locals] /\ loc[c] \in Locals
      /\ swarm \in [Stacks -> Renderings \union {NULL}]
      /\ RunOK(c) /\ TemplatesOK /\ MatchesOK
  BY DEF IInv, TypeOK
<1>2. UNCHANGED <<build, template, history, chosen, rendered, persisted, row, dynamic>>
  BY DEF RemoveStack, Done, operator, cluster
<1>3. Step(c)
  BY DEF Step
<1>4. \A s \in Stacks : swarm'[s] \in {NULL, swarm[s]}
  BY <1>1 DEF RemoveStack, Done, cluster
<1>5. /\ pc[c] \in {"rmstacks", "done"} /\ pc'[c] \in {"rmstacks", "done", "idle"}
      /\ pc'[c] = "idle" \/ (pc[c] = "rmstacks" /\ loc'[c].kind = loc[c].kind)
  <2>1. CASE RemoveStack(c)
    <3>1. CASE loc' = loc
      BY <1>1, <2>1, <3>1 DEF RemoveStack, Goto
    <3>2. ASSUME NEW s \in loc[c].todo, loc' = [loc EXCEPT ![c].todo = @ \ {s}], pc' = pc
          PROVE  pc[c] = "rmstacks" /\ pc'[c] = "rmstacks" /\ loc'[c].kind = loc[c].kind
      BY <1>1, <2>1, <3>2 DEF RemoveStack, Locals
    <3>3. QED BY <2>1, <3>1, <3>2 DEF RemoveStack
  <2>2. CASE Done(c)
    BY <1>1, <2>2 DEF Done, Return, Goto
  <2>3. QED BY <2>1, <2>2
<1>6. pc[c] = "rmstacks" => loc[c].kind = "down"
  BY <1>1 DEF RunOK, KindOK
<1>7. TemplatesOK'
  BY <1>1, <1>2 DEF TemplatesOK, Current
<1>8. MatchesOK'
  BY <1>1, <1>2, <1>3, <1>4, <1>5, StepAlone DEF MatchesOK
<1>9. RunOK(c)'
  BY <1>5, <1>6
     DEF RunOK, KindOK, SyncOK, LoadedOK, InstallOK, RecordOK, AppliedOK, Refreshed,
         Synced, Kinds
<1>10. QED
  BY <1>7, <1>8, <1>9 DEF After

-----------------------------------------------------------------------------
(* Between runs *)

Starts(c) ==
  \/ StartUp(c) \/ StartUpdate(c) \/ StartSetup(c) \/ StartDown(c)
  \/ \E r \in BOOLEAN : StartApply(c, r) \/ StartRemove(c, r)

\* A run starts when none is under way, with a fresh set of local variables.
LEMMA StartSteps ==
  ASSUME IInv, Serial, NEW c \in Runs, Starts(c), failures' = failures
  PROVE  IInv'
<1>1. /\ pc \in [Runs -> Steps] /\ loc \in [Runs -> Locals] /\ TypeOK
      /\ TemplatesOK /\ MatchesOK /\ 0 \in Versions /\ row \in Versions
  BY PlatformConstants DEF IInv, TypeOK, Versions
<1>2. /\ UNCHANGED <<build, template, history, chosen, rendered, persisted, swarm,
                     secrets, dynamic>>
      /\ \A d \in Runs : pc[d] = "idle"
  BY DEF Starts, StartUp, StartUpdate, StartSetup, StartDown, StartApply, StartRemove,
         Start, MayStart, Quiet, operator, cluster
<1>3. PICK l \in Locals, step \in {"sync", "setdomain", "rmstacks", "mint", "rmsecret"} :
        /\ loc' = [loc EXCEPT ![c] = l] /\ pc' = [pc EXCEPT ![c] = step]
        /\ l.todo = Stacks /\ l.kind \in Kinds
        /\ \/ step = "sync" /\ l.kind \in {"up", "update"} /\ row' = row
           \/ step = "setdomain" /\ l.kind = "update" /\ row' = row
           \/ step = "rmstacks" /\ l.kind = "down" /\ row' = row
           \/ step = "mint" /\ l.kind = "apply" /\ row' = row
           \/ step = "rmsecret" /\ l.kind = "remove" /\ row' = 0
  <2>1. CASE StartUp(c) \/ StartUpdate(c) \/ StartSetup(c) \/ StartDown(c)
    <3>1. PICK k \in Kinds, r \in BOOLEAN,
               step \in {"sync", "setdomain", "rmstacks", "mint", "rmsecret"} :
            /\ Start(c, k, r, step) /\ row' = row
            /\ \/ step = "sync" /\ k \in {"up", "update"}
               \/ step = "setdomain" /\ k = "update"
               \/ step = "rmstacks" /\ k = "down"
      BY <2>1 DEF StartUp, StartUpdate, StartSetup, StartDown, Kinds, cluster
    <3>2. Started(k, r) \in Locals /\ Started(k, r).kind = k
      BY StartedType
    <3>3. Started(k, r).todo = Stacks
      BY DEF Started
    <3>4. QED BY <3>1, <3>2, <3>3 DEF Start, Goto
  <2>2. ASSUME NEW r \in BOOLEAN, StartApply(c, r)
        PROVE  /\ loc' = [loc EXCEPT ![c] = Started("apply", r)]
               /\ pc' = [pc EXCEPT ![c] = "mint"] /\ row' = row
               /\ Started("apply", r) \in Locals /\ Started("apply", r).kind = "apply"
               /\ Started("apply", r).todo = Stacks
    <3>1. Started("apply", r) \in Locals /\ Started("apply", r).kind = "apply"
      BY StartedType DEF Kinds
    <3>2. QED BY <2>2, <3>1 DEF StartApply, Start, Goto, cluster, Started
  <2>3. ASSUME NEW r \in BOOLEAN, StartRemove(c, r)
        PROVE  LET l == [Started("remove", r) EXCEPT !.cert = row]
               IN  /\ loc' = [loc EXCEPT ![c] = l]
                   /\ pc' = [pc EXCEPT ![c] = "rmsecret"] /\ row' = 0
                   /\ l \in Locals /\ l.kind = "remove" /\ l.todo = Stacks
    <3> DEFINE l == [Started("remove", r) EXCEPT !.cert = row]
    <3>1. l \in Locals /\ l.kind = "remove"
      BY <1>1, StartedType DEF Kinds
    <3>2. l.todo = Stacks
      BY DEF Started
    <3>3. QED BY <2>3, <3>1, <3>2 DEF StartRemove, Goto
  <2>4. CASE \E r \in BOOLEAN : StartApply(c, r)
    <3>1. PICK r \in BOOLEAN : StartApply(c, r)
      BY <2>4
    <3>2. PICK l : l = Started("apply", r)
      OBVIOUS
    <3>3. QED BY <2>2, <3>1, <3>2 DEF Kinds
  <2>5. CASE \E r \in BOOLEAN : StartRemove(c, r)
    <3>1. PICK r \in BOOLEAN : StartRemove(c, r)
      BY <2>5
    <3>2. PICK l : l = [Started("remove", r) EXCEPT !.cert = row]
      OBVIOUS
    <3>3. QED BY <2>3, <3>1, <3>2 DEF Kinds
  <2>6. QED BY <2>1, <2>4, <2>5 DEF Starts
<1>4. TypeOK'
  BY <1>1, <1>2, <1>3 DEF TypeOK, Steps
<1>5. Solo' /\ TemplatesOK'
  BY <1>1, <1>2, <1>3 DEF Solo, TemplatesOK, Current
<1>6. MatchesOK'
  BY <1>1, <1>2, <1>3 DEF MatchesOK
<1>7. loc'[c] = l /\ pc'[c] = step
  BY <1>1, <1>3
<1>8. RunOK(c)'
  BY <1>3, <1>7 DEF RunOK, KindOK, SyncOK, LoadedOK, InstallOK, RecordOK, AppliedOK,
                    Refreshed, Synced
<1>9. ASSUME NEW d \in Runs, d # c PROVE RunOK(d)'
  <2>1. pc'[d] = "idle"
    BY <1>1, <1>2, <1>3, <1>9
  <2>2. QED
    BY <2>1 DEF RunOK, KindOK, SyncOK, LoadedOK, InstallOK, RecordOK, AppliedOK,
                Refreshed, Synced
<1>10. QED
  BY <1>4, <1>5, <1>6, <1>8, <1>9 DEF IInv

\* A run that is not under way has nothing to keep.
LEMMA IdleOK ==
  ASSUME NEW c \in Runs, pc'[c] = "idle"
  PROVE  RunOK(c)'
BY DEF RunOK, KindOK, SyncOK, LoadedOK, InstallOK, RecordOK, AppliedOK, Refreshed, Synced

\* The operator edits, rolls back and upgrades between runs; an edit makes a row of
\* this build, a rollback leaves the build of a row alone.
LEMMA OperatorSteps ==
  ASSUME IInv, Serial, failures' = failures,
         \/ \E s \in Stacks, d \in Edits : Edit(s, d)
         \/ \E s \in Stacks, d \in Contents : RollbackConfig(s, d)
         \/ Upgrade
  PROVE  IInv'
<1>1. TypeOK /\ TemplatesOK /\ MatchesOK /\ Solo
  BY DEF IInv
<1>2. /\ UNCHANGED <<rendered, persisted, swarm, row, secrets, dynamic, pc, loc>>
      /\ \A c \in Runs : pc[c] = "idle"
  BY DEF Edit, RollbackConfig, Upgrade, Quiet, cluster
<1>3. /\ build' \in 1 .. MaxBuild
      /\ template' \in [Stacks -> [content : Contents, version : 1 .. MaxBuild]
                                    \union {NULL}]
      /\ history' \in [Stacks -> SUBSET Contents]
      /\ chosen' \in [Stacks -> Contents \union {NULL}]
      /\ TemplatesOK'
  <2>1. ASSUME NEW s \in Stacks, NEW d \in Edits, Edit(s, d)
        PROVE  <1>3!:
    <3>1. d \in Contents /\ template[s] # NULL /\ UpdateConfig(s, d) /\ build' = build
      BY <2>1, PlatformConstants DEF Edit
    <3>2. CASE template[s].content = d
      <4>1. UNCHANGED <<template, history, chosen>>
        BY <2>1, <3>1, <3>2 DEF Edit, UpdateConfig
      <4>2. QED BY <1>1, <3>1, <4>1 DEF TypeOK, TemplatesOK, Current
    <3>3. CASE template[s].content # d
      <4>1. /\ template' \in [Stacks -> [content : Contents, version : 1 .. MaxBuild]
                                          \union {NULL}]
            /\ history' \in [Stacks -> SUBSET Contents]
            /\ template'[s] # NULL /\ template'[s] = [content |-> d, version |-> build]
            /\ \A t \in Stacks \ {s} : template'[t] = template[t] /\ history'[t] = history[t]
        BY <1>1, <3>1, <3>3, UpdateType
      <4>2. chosen' = [chosen EXCEPT ![s] = d]
        BY <2>1, <3>3 DEF Edit
      <4>3. chosen' \in [Stacks -> Contents \union {NULL}]
        BY <1>1, <3>1, <4>2 DEF TypeOK
      <4>4. TemplatesOK'
        BY <1>1, <3>1, <4>1, <4>2 DEF TypeOK, TemplatesOK, Current
      <4>5. QED BY <1>1, <3>1, <4>1, <4>3, <4>4 DEF TypeOK
    <3>4. QED BY <3>2, <3>3
  <2>2. ASSUME NEW s \in Stacks, NEW d \in Contents, RollbackConfig(s, d)
        PROVE  <1>3!:
    <3> DEFINE Templates == [content : Contents, version : 1 .. MaxBuild]
    <3>1. /\ template[s] # NULL /\ template[s] \in Templates /\ NULL \notin Templates
          /\ template' = [template EXCEPT ![s].content = d] /\ build' = build
          /\ history' = [history EXCEPT ![s] = @ \union {template[s].content}]
          /\ chosen' = IF chosen[s] = NULL THEN chosen ELSE [chosen EXCEPT ![s] = d]
      BY <1>1, <2>2, PlatformConstants DEF RollbackConfig, TypeOK, TemplatesOK
    <3>2. PICK new \in Templates : /\ template' = [template EXCEPT ![s] = new]
                                   /\ new.content = d /\ new.version = template[s].version
      <4>1. [template[s] EXCEPT !.content = d] \in Templates
        BY <3>1
      <4>2. QED BY <3>1, <4>1
    <3>3. /\ template' \in [Stacks -> Templates \union {NULL}]
          /\ history' \in [Stacks -> SUBSET Contents]
          /\ chosen' \in [Stacks -> Contents \union {NULL}]
      BY <1>1, <3>1, <3>2 DEF TypeOK
    <3>4. /\ template'[s] = new /\ template'[s] # NULL
          /\ \A t \in Stacks \ {s} : /\ template'[t] = template[t]
                                     /\ history'[t] = history[t] /\ chosen'[t] = chosen[t]
          /\ chosen'[s] = IF chosen[s] = NULL THEN NULL ELSE d
      BY <1>1, <3>1, <3>2 DEF TypeOK
    <3>5. TemplatesOK'
      <4>1. ASSUME NEW t \in Stacks, t # s
            PROVE  /\ history'[t] # {} => template'[t] # NULL
                   /\ chosen'[t] # NULL => Current(t)' /\ template'[t].content = chosen'[t]
        BY <1>1, <3>1, <3>4, <4>1 DEF TemplatesOK, Current
      <4>2. chosen'[s] # NULL => Current(s)' /\ template'[s].content = chosen'[s]
        BY <1>1, <3>1, <3>2, <3>4 DEF TemplatesOK, Current
      <4>3. QED BY <3>4, <4>1, <4>2 DEF TemplatesOK
    <3>6. QED BY <1>1, <3>1, <3>3, <3>5 DEF TypeOK
  <2>3. CASE Upgrade
    <3>1. /\ build' \in 1 .. MaxBuild /\ UNCHANGED <<template, history>>
          /\ chosen' = [s \in Stacks |-> NULL]
      BY <1>1, <2>3, PlatformConstants DEF Upgrade, TypeOK
    <3>2. QED BY <1>1, <3>1 DEF TypeOK, TemplatesOK
  <2>4. QED BY <2>1, <2>2, <2>3
<1>4. TypeOK'
  BY <1>1, <1>2, <1>3 DEF TypeOK
<1>5. Solo' /\ MatchesOK'
  BY <1>1, <1>2 DEF Solo, MatchesOK
<1>6. \A c \in Runs : RunOK(c)'
  BY <1>2, IdleOK
<1>7. QED
  BY <1>3, <1>4, <1>5, <1>6 DEF IInv

-----------------------------------------------------------------------------
(* What fails *)

\* A failure is counted, so what holds only while nothing has failed is over.
LEMMA FailureSteps ==
  ASSUME IInv, NEW c \in Runs, Fail(c) \/ SkipSecret(c) \/ SkipStack(c),
         failures < MaxFailures, failures' = failures + 1
  PROVE  IInv'
<1>1. /\ TypeOK /\ pc \in [Runs -> Steps] /\ loc \in [Runs -> Locals] /\ loc[c] \in Locals
      /\ RunOK(c) /\ TemplatesOK /\ Solo /\ \A d \in Runs : RunOK(d)
  BY DEF IInv, TypeOK
<1>2. UNCHANGED <<build, template, history, chosen, rendered, persisted, swarm, row,
                  secrets, dynamic>>
  BY DEF Fail, SkipSecret, SkipStack, operator, cluster
<1>3. failures' # 0 /\ failures' \in 0 .. MaxFailures
  BY <1>1, PlatformConstants DEF TypeOK
<1>4. /\ loc' \in [Runs -> Locals] /\ pc' \in [Runs -> Steps]
      /\ \A d \in Runs \ {c} : pc'[d] = pc[d]
      /\ pc[c] # "idle"
      /\ \/ pc'[c] = "idle"
         \/ /\ pc[c] = "rmsecret" /\ loc' = loc
            /\ pc'[c] = IF loc[c].refresh THEN "sync" ELSE "done"
         \/ /\ pc[c] = "rmstacks" /\ pc'[c] = "rmstacks" /\ loc'[c].kind = loc[c].kind
  <2>1. CASE Fail(c)
    <3>1. NoLocals \in Locals
      BY StartedType DEF NoLocals
    <3>2. QED BY <1>1, <2>1, <3>1 DEF Fail, Return, Goto, Steps
  <2>2. CASE SkipSecret(c)
    BY <1>1, <2>2 DEF SkipSecret, Goto, Steps
  <2>3. CASE SkipStack(c)
    <3>1. PICK s \in loc[c].todo : loc' = [loc EXCEPT ![c].todo = @ \ {s}]
      BY <2>3 DEF SkipStack
    <3>2. loc' \in [Runs -> Locals] /\ loc'[c].kind = loc[c].kind
      BY <1>1, <3>1 DEF Locals
    <3>3. QED BY <1>1, <2>3, <3>2 DEF SkipStack
  <2>4. QED BY <2>1, <2>2, <2>3
<1>5. TypeOK' /\ TemplatesOK' /\ MatchesOK'
  BY <1>1, <1>2, <1>3, <1>4 DEF TypeOK, TemplatesOK, MatchesOK, Current
<1>6. \A d \in Runs \ {c} : pc[d] = "idle" /\ pc'[d] = "idle"
  BY <1>1, <1>4 DEF Solo
<1>7. RunOK(c)'
  <2>1. CASE pc'[c] = "idle"
    BY <2>1, IdleOK
  <2>2. CASE pc[c] = "rmsecret" /\ loc' = loc
             /\ pc'[c] = IF loc[c].refresh THEN "sync" ELSE "done"
    <3>1. loc[c].kind = "remove" /\ loc[c].todo = Stacks
      BY <1>1, <2>2 DEF RunOK, KindOK, SyncOK
    <3>2. KindOK(c)' /\ SyncOK(c)' /\ LoadedOK(c)'
      BY <1>1, <1>2, <2>2, <3>1 DEF RunOK, KindOK, SyncOK, LoadedOK, Refreshed, Synced, Kinds
    <3>3. InstallOK(c)' /\ RecordOK(c)' /\ AppliedOK(c)'
      BY <1>3, <2>2, <3>1 DEF InstallOK, RecordOK, AppliedOK, Synced
    <3>4. QED BY <3>2, <3>3 DEF RunOK
  <2>3. CASE pc[c] = "rmstacks" /\ pc'[c] = "rmstacks" /\ loc'[c].kind = loc[c].kind
    BY <1>1, <2>3
       DEF RunOK, KindOK, SyncOK, LoadedOK, InstallOK, RecordOK, AppliedOK, Refreshed,
           Synced, Kinds
  <2>4. QED BY <1>4, <2>1, <2>2, <2>3
<1>8. QED
  BY <1>5, <1>6, <1>7, IdleOK DEF IInv, Solo

-----------------------------------------------------------------------------
LEMMA InitEstablishes ==
  ASSUME Init PROVE IInv
<1>1. NoLocals \in Locals
  BY StartedType DEF NoLocals
<1>2. TypeOK
  BY <1>1, PlatformConstants
     DEF Init, TypeOK, Steps, Versions, Dynamics, InstallState
<1>3. \A c \in Runs : pc[c] = "idle"
  BY DEF Init
<1>4. \A c \in Runs : RunOK(c)
  BY <1>3 DEF RunOK, KindOK, SyncOK, LoadedOK, InstallOK, RecordOK, AppliedOK, Refreshed,
              Synced
<1>5. QED
  BY <1>2, <1>3, <1>4 DEF Init, IInv, Solo, TemplatesOK, MatchesOK

LEMMA NextPreserves ==
  ASSUME IInv, Serial, [Next]_vars PROVE IInv'
<1>1. ASSUME NEW c \in Runs, Step(c), failures' = failures
      PROVE  IInv'
  <2>1. After(c)
    BY <1>1, SettingsSteps, SyncReadStep, SyncWriteStep, LoadStep, ConfigsStep,
       RenderSteps, StoreStep, DeployStep, CertSteps, EndSteps DEF Step
  <2>2. TypeOK' /\ \A d \in Runs \ {c} : pc'[d] = "idle"
    BY <1>1, StepType, StepAlone
  <2>3. \A d \in Runs : RunOK(d)'
    BY <2>1, <2>2, IdleOK DEF After
  <2>4. Solo'
    BY <2>2 DEF Solo
  <2>5. QED BY <2>1, <2>2, <2>3, <2>4 DEF After, IInv
<1>2. CASE UNCHANGED vars
  <2>1. UNCHANGED <<build, template, history, chosen, rendered, persisted, swarm, row,
                    secrets, dynamic, failures, pc, loc>>
    BY <1>2 DEF vars, operator, cluster
  <2>2. ASSUME NEW c \in Runs PROVE RunOK(c)'
    <3>1. RunOK(c)
      BY DEF IInv
    <3>2. QED
      BY <2>1, <3>1
         DEF RunOK, KindOK, SyncOK, LoadedOK, InstallOK, RecordOK, AppliedOK, Refreshed,
             Synced, Snapshot, Shown, Rendering, Source, Current
  <2>3. QED
    BY <2>1, <2>2 DEF IInv, TypeOK, Solo, TemplatesOK, MatchesOK, Current
<1>3. CASE Normal /\ UNCHANGED failures
  BY <1>1, <1>3, StartSteps, OperatorSteps DEF Normal, Starts
<1>4. CASE Failure
  BY <1>4, FailureSteps DEF Failure
<1>5. QED
  BY <1>2, <1>3, <1>4 DEF Next

LEMMA IInvAlways ==
  ASSUME Serial PROVE Spec => []IInv
BY InitEstablishes, NextPreserves, PTL DEF Spec

\* readConfigFile and SyncClusterConfigs: what an operator saved or rolled back to
\* under the installed build is what every later run renders, whatever it syncs and
\* whichever of its steps fail.
THEOREM EditsAreRendered == ASSUME Serial PROVE Spec => [](TypeOK /\ EditKept)
<1>1. IInv => TypeOK /\ EditKept
  BY DEF IInv, TemplatesOK, EditKept, Source
<1>2. QED
  BY <1>1, IInvAlways, PTL

\* Update and Up tell the truth: a success of update has applied every change as long
\* as nothing has failed, a success of up has installed, recorded and persisted it all.
THEOREM ReportsAreTrue == ASSUME Serial PROVE Spec => []SuccessIsReal
<1>1. ASSUME IInv PROVE UpdateApplies
  <2> SUFFICES ASSUME failures = 0, NEW c \in Runs, Completed(c, {"update"})
               PROVE  Applied
    BY DEF UpdateApplies
  <2>1. RunOK(c) /\ Refreshed(c) /\ loc[c].kind = "update"
    BY <1>1 DEF IInv, Completed, Refreshed
  <2>2. loc[c].dynamic = dynamic /\ dynamic.row = row
    BY <2>1 DEF RunOK, LoadedOK
  <2>3. \A s \in Stacks : swarm[s] \in {NULL, Shown(c, s)}
    BY <2>1 DEF RunOK, AppliedOK
  <2>4. QED BY <2>2, <2>3 DEF Applied, Shown
<1>2. ASSUME IInv PROVE UpInstalls
  <2> SUFFICES ASSUME NEW c \in Runs, Completed(c, {"up"})
               PROVE  /\ persisted = InstallState
                      /\ \A s \in Stacks : /\ swarm[s] = Rendering(s, loc[c].dynamic)
                                           /\ rendered[s] = swarm[s]
    BY DEF UpInstalls
  <2>1. RunOK(c) /\ pc[c] = "done" /\ loc[c].kind = "up" /\ persisted \subseteq InstallState
    BY <1>2 DEF IInv, TypeOK, Completed
  <2>2. {"creds", "tls", "domain"} \subseteq persisted
    BY <2>1 DEF RunOK, InstallOK
  <2>3. \A s \in Stacks : swarm[s] = Shown(c, s) /\ rendered[s] = Shown(c, s)
    BY <2>1 DEF RunOK, InstallOK, RecordOK
  <2>4. QED BY <2>1, <2>2, <2>3 DEF InstallState, Shown
<1>3. IInv => SuccessIsReal
  BY <1>1, <1>2 DEF SuccessIsReal
<1>4. QED
  BY <1>3, IInvAlways, PTL

\* SetRendered and deployStack: as long as nothing has failed, the hash that the next
\* update compares with is that of what the Swarm runs.
THEOREM RecordIsWhatRuns == ASSUME Serial PROVE Spec => []HashMatchesSwarm
<1>1. IInv => HashMatchesSwarm
  BY DEF IInv, MatchesOK, HashMatchesSwarm, Quiet
<1>2. QED
  BY <1>1, IInvAlways, PTL

\* RemoveCert drops the row before it renders: after a removal that refreshed the
\* stacks, Traefik's dynamic config names the certificate no more.
THEOREM RemovalsAreServed == ASSUME Serial PROVE Spec => []RemovedIsGone
<1>1. ASSUME IInv PROVE RemovedIsGone
  <2> SUFFICES ASSUME failures = 0, NEW c \in Runs, Completed(c, {"remove"}),
                      loc[c].refresh
               PROVE  swarm[Infra] = NULL \/ swarm[Infra].dynamic.row = 0
    BY DEF RemovedIsGone
  <2>1. RunOK(c) /\ Refreshed(c) /\ pc[c] = "done" /\ loc[c].kind = "remove"
    BY <1>1 DEF IInv, Completed, Refreshed
  <2>2. loc[c].dynamic = dynamic /\ dynamic.row = 0
    BY <2>1 DEF RunOK, LoadedOK
  <2>3. swarm[Infra] \in {NULL, Shown(c, Infra)}
    BY <2>1, PlatformConstants DEF RunOK, AppliedOK
  <2>4. Shown(c, Infra).dynamic = dynamic
    BY <2>2 DEF Shown, Rendering
  <2>5. QED BY <2>2, <2>3, <2>4
<1>2. QED
  BY <1>1, IInvAlways, PTL
=============================================================================
