------------------------- MODULE StackDeployProofs -------------------------
(***************************************************************************)
(* Proofs about StackDeploy for any number of stacks, requests, manifests  *)
(* and config contents, any bound on the clock, and whether or not the     *)
(* requests are serialised.                                                *)
(***************************************************************************)
EXTENDS StackDeploy, TLAPS

\* Every request at a step of the deploy pipeline has its manifest and stack,
\* and from the clock on its rendering: the strengthening type correctness
\* needs, because these fields start as NULL.
HasStack(o)  == req[o].stack \in Stacks
HasSource(o) == req[o].source \in Manifests
HasRow(o)    == HasSource(o) /\ req[o].rendered \in Renderings

PipelineOK ==
  \A o \in Ops :
    /\ pc[o] # "idle" => HasStack(o)
    /\ pc[o] = "translate" => HasSource(o)
    /\ pc[o] \in {"compare", "readclock", "probe", "record", "backup",
                  "trigger", "apply"}
         => HasRow(o)

TypeInv == TypeOK /\ PipelineOK

LEMMA RenderType ==
  ASSUME NEW m \in Manifests, NEW c \in Contents \union {NULL}
  PROVE  Render(m, c) \in Renderings
  BY DEF Render, Renderings

\* What an action has to establish for the one request it touches.
LEMMA OneRequest ==
  ASSUME TypeInv, NEW o \in Ops, NEW step \in Steps, NEW r \in ReqType,
         pc' = [pc EXCEPT ![o] = step], req' = [req EXCEPT ![o] = r],
         r.stack \in Stacks,
         step = "translate" => r.source \in Manifests,
         step \in {"compare", "readclock", "probe", "record", "backup",
                  "trigger", "apply"}
           => r.source \in Manifests /\ r.rendered \in Renderings
  PROVE  PipelineOK' /\ pc' \in [Ops -> Steps] /\ req' \in [Ops -> ReqType]
  BY DEF TypeInv, TypeOK, PipelineOK, HasStack, HasSource, HasRow

LEMMA RequestType ==
  ASSUME NEW k \in Kinds, NEW s \in Stacks \union {NULL},
         NEW m \in Manifests \union {NULL}, NEW d \in Renderings \union {NULL},
         NEW r \in Nat
  PROVE  /\ Request(k, s, m, d, r) \in ReqType
         /\ Request(k, s, m, d, r).stack = s
         /\ Request(k, s, m, d, r).source = m
         /\ Request(k, s, m, d, r).rendered = d
  BY DEF Request, ReqType

LEMMA InitTypeInv == Init => TypeInv
<1> SUFFICES ASSUME Init PROVE TypeInv
  OBVIOUS
<1>1. req \in [Ops -> ReqType]
  BY RequestType DEF Init, Kinds
<1>2. QED
  BY <1>1 DEF Init, TypeInv, TypeOK, PipelineOK, Steps, Rows

\* Submitting a request changes nothing but its step and its local variables.
LEMMA AcceptTypeInv ==
  ASSUME TypeInv, UNCHANGED serial, NEW o \in Ops, NEW step \in Steps, NEW r \in ReqType,
         Accept(o, r, step), r.stack \in Stacks,
         step = "translate" => r.source \in Manifests,
         step \in {"compare", "readclock", "probe", "record", "backup",
                  "trigger", "apply"}
           => r.source \in Manifests /\ r.rendered \in Renderings
  PROVE  TypeInv'
<1>1. PipelineOK' /\ pc' \in [Ops -> Steps] /\ req' \in [Ops -> ReqType]
  BY OneRequest DEF Accept, Goto
<1>2. QED
  BY <1>1 DEF Accept, TypeInv, TypeOK, store

LEMMA AcceptEmptyTypeInv ==
  ASSUME TypeInv, UNCHANGED serial, NEW o \in Ops, NEW k \in Kinds, NEW s \in Stacks,
         NEW step \in {"failed", "remove"},
         Accept(o, Request(k, s, NULL, NULL, 0), step)
  PROVE  TypeInv'
<1> DEFINE r == Request(k, s, NULL, NULL, 0)
<1>1. r \in ReqType /\ r.stack = s
  BY RequestType
<1>2. step \in Steps /\ Accept(o, r, step)
  BY DEF Steps, Ended
<1> HIDE DEF r
<1>3. QED
  BY <1>1, <1>2, AcceptTypeInv

LEMMA AcceptRowTypeInv ==
  ASSUME TypeInv, UNCHANGED serial, NEW o \in Ops, NEW k \in Kinds, NEW s \in Stacks,
         NEW row \in revisions[s], NEW step \in {"compare", "readclock"},
         Accept(o, Request(k, s, row.source, row.rendered, row.revision), step)
  PROVE  TypeInv'
<1> DEFINE r == Request(k, s, row.source, row.rendered, row.revision)
<1>1. row \in Rows
  BY DEF TypeInv, TypeOK
<1>2. /\ r \in ReqType /\ r.stack = s /\ r.source \in Manifests
      /\ r.rendered \in Renderings
  BY <1>1, RequestType DEF Rows
<1>3. step \in Steps /\ Accept(o, r, step)
  BY DEF Steps, Ended
<1> HIDE DEF r
<1>4. QED
  BY <1>2, <1>3, AcceptTypeInv

LEMMA SubmitTypeInv ==
  ASSUME TypeInv, UNCHANGED serial, NEW o \in Ops, Submit(o)
  PROVE  TypeInv'
<1>1. ASSUME NEW s \in Stacks, NEW m \in Manifests, StartDeploy(o, s, m)
      PROVE  TypeInv'
  BY <1>1, RequestType, AcceptTypeInv DEF StartDeploy, Kinds, Steps
<1>2. ASSUME NEW s \in Stacks, StartSync(o, s)
      PROVE  TypeInv'
  BY <1>2, AcceptEmptyTypeInv, AcceptRowTypeInv DEF StartSync, Kinds
<1>3. ASSUME NEW s \in Stacks, StartRollback(o, s)
      PROVE  TypeInv'
  BY <1>3, AcceptEmptyTypeInv, AcceptRowTypeInv DEF StartRollback, Kinds
<1>4. ASSUME NEW s \in Stacks, StartUndeploy(o, s)
      PROVE  TypeInv'
  BY <1>4, AcceptEmptyTypeInv DEF StartUndeploy, Kinds
<1>5. QED
  BY <1>1, <1>2, <1>3, <1>4 DEF Submit

\* A step that only moves the request on leaves its local variables alone.
LEMMA MoveTypeInv ==
  ASSUME TypeInv, NEW o \in Ops, NEW step \in Steps, Goto(o, step), req' = req,
         pc[o] # "idle",
         step = "translate" => HasSource(o),
         step \in {"compare", "readclock", "probe", "record", "backup",
                  "trigger", "apply"}
           => HasRow(o)
  PROVE  PipelineOK' /\ pc' \in [Ops -> Steps] /\ req' \in [Ops -> ReqType]
<1>1. req' = [req EXCEPT ![o] = req[o]] /\ req[o] \in ReqType
  BY DEF TypeInv, TypeOK
<1>2. QED
  BY <1>1, OneRequest
     DEF Goto, TypeInv, PipelineOK, HasStack, HasSource, HasRow

LEMMA StepTypeInv ==
  ASSUME TypeInv, UNCHANGED serial, NEW o \in Ops, Step(o)
  PROVE  TypeInv'
<1> USE DEF Steps, Ended
<1>1. ASSUME Compare(o) PROVE TypeInv'
  <2>1. HasSource(o) /\ pc[o] = "compare"
    BY <1>1 DEF Compare, TypeInv, PipelineOK, HasRow
  <2>2. QED
    BY <1>1, <2>1, MoveTypeInv DEF Compare, TypeInv, TypeOK, store
<1>2. ASSUME Translate(o) PROVE TypeInv'
  <2> DEFINE m == req[o].source
             c == configs[req[o].stack]
  <2>1. /\ pc[o] = "translate" /\ req[o] \in ReqType
        /\ req[o].stack \in Stacks /\ m \in Manifests
        /\ c \in Contents \union {NULL}
    BY <1>2 DEF Translate, TypeInv, TypeOK, PipelineOK, HasStack, HasSource
  <2>2. CASE CanRender(m, c)
    <3> DEFINE r == [req[o] EXCEPT !.rendered = Render(m, c)]
    <3>1. /\ r \in ReqType /\ r.stack \in Stacks /\ r.source \in Manifests
          /\ r.rendered \in Renderings
      BY <2>1, RenderType DEF ReqType
    <3>2. req' = [req EXCEPT ![o] = r] /\ pc' = [pc EXCEPT ![o] = "readclock"]
      BY <1>2, <2>2 DEF Translate, Goto
    <3>3. PipelineOK' /\ pc' \in [Ops -> Steps] /\ req' \in [Ops -> ReqType]
      BY <3>1, <3>2, OneRequest
    <3>4. QED BY <1>2, <3>3 DEF Translate, TypeInv, TypeOK, store
  <2>3. CASE ~CanRender(m, c)
    BY <1>2, <2>1, <2>3, MoveTypeInv DEF Translate, TypeInv, TypeOK, store
  <2>4. QED BY <2>2, <2>3
<1>3. ASSUME ReadClock(o) PROVE TypeInv'
  <2> DEFINE r == [req[o] EXCEPT !.rev = clock]
  <2>1. /\ r \in ReqType /\ r.stack \in Stacks /\ r.source \in Manifests
        /\ r.rendered \in Renderings
    BY <1>3 DEF ReadClock, TypeInv, TypeOK, PipelineOK, HasStack, HasRow,
                HasSource, ReqType
  <2>2. req' = [req EXCEPT ![o] = r] /\ pc' = [pc EXCEPT ![o] = "probe"]
    BY <1>3 DEF ReadClock, Goto
  <2>3. PipelineOK' /\ pc' \in [Ops -> Steps] /\ req' \in [Ops -> ReqType]
    BY <2>1, <2>2, OneRequest
  <2>4. QED BY <1>3, <2>3 DEF ReadClock, TypeInv, TypeOK, store
<1>4. ASSUME Probe(o) PROVE TypeInv'
  <2> DEFINE r == [req[o] EXCEPT !.rev = @ + 1]
  <2>1. /\ r \in ReqType /\ r.stack \in Stacks /\ r.source \in Manifests
        /\ r.rendered \in Renderings /\ HasRow(o) /\ pc[o] = "probe"
    BY <1>4 DEF Probe, TypeInv, TypeOK, PipelineOK, HasStack, HasRow,
                HasSource, ReqType
  <2>2. CASE req' = [req EXCEPT ![o].rev = @ + 1] /\ pc' = pc
    <3>1. req' = [req EXCEPT ![o] = r] /\ pc' = [pc EXCEPT ![o] = "probe"]
      BY <2>1, <2>2 DEF TypeInv, TypeOK
    <3>2. PipelineOK' /\ pc' \in [Ops -> Steps] /\ req' \in [Ops -> ReqType]
      BY <2>1, <3>1, OneRequest
    <3>3. QED BY <1>4, <3>2 DEF Probe, TypeInv, TypeOK, store
  <2>3. CASE Goto(o, "record") /\ req' = req
    BY <1>4, <2>1, <2>3, MoveTypeInv DEF Probe, TypeInv, TypeOK, store
  <2>4. QED BY <1>4, <2>2, <2>3 DEF Probe, NextCandidate
<1>5. ASSUME RecordDeploy(o) PROVE TypeInv'
  <2>1. HasRow(o) /\ HasStack(o) /\ pc[o] = "record" /\ req[o] \in ReqType
    BY <1>5 DEF RecordDeploy, TypeInv, TypeOK, PipelineOK
  <2>2. Row(o) \in Rows
    BY <2>1 DEF Row, Rows, HasRow, HasSource, ReqType
  <2>3. PipelineOK' /\ pc' \in [Ops -> Steps] /\ req' \in [Ops -> ReqType]
    BY <1>5, <2>1, MoveTypeInv DEF RecordDeploy, HasRow
  <2>4. current' \in [Stacks -> Nat \union {NULL}]
    BY <1>5, <2>1 DEF RecordDeploy, PointerAfter, TypeInv, TypeOK, ReqType, HasStack
  <2>5. revisions' \in [Stacks -> SUBSET Rows]
    BY <1>5, <2>1, <2>2 DEF RecordDeploy, Inserted, TypeInv, TypeOK, HasStack
  <2>6. QED
    BY <1>5, <2>3, <2>4, <2>5 DEF RecordDeploy, TypeInv, TypeOK
<1>6. ASSUME CreateBackup(o) PROVE TypeInv'
  <2>1. HasRow(o) /\ pc[o] = "backup"
    BY <1>6 DEF CreateBackup, TypeInv, PipelineOK
  <2>2. QED
    BY <1>6, <2>1, MoveTypeInv
       DEF CreateBackup, AfterFailedBackup, TypeInv, TypeOK, store
<1>7. ASSUME TriggerBackup(o) PROVE TypeInv'
  <2>1. HasRow(o) /\ pc[o] = "trigger"
    BY <1>7 DEF TriggerBackup, TypeInv, PipelineOK
  <2>2. QED
    BY <1>7, <2>1, MoveTypeInv
       DEF TriggerBackup, AfterFailedBackup, TypeInv, TypeOK, store
<1>8. ASSUME Apply(o) PROVE TypeInv'
  <2>1. HasRow(o) /\ HasStack(o) /\ pc[o] = "apply"
    BY <1>8 DEF Apply, TypeInv, PipelineOK
  <2>2. PipelineOK' /\ pc' \in [Ops -> Steps] /\ req' \in [Ops -> ReqType]
    BY <1>8, <2>1, MoveTypeInv DEF Apply
  <2>3. QED
    BY <1>8, <2>1, <2>2
       DEF Apply, Compose, TypeInv, TypeOK, store, HasRow, HasStack
<1>9. ASSUME RemoveStack(o) PROVE TypeInv'
  <2>1. HasStack(o) /\ pc[o] = "remove"
    BY <1>9 DEF RemoveStack, TypeInv, PipelineOK
  <2>2. PipelineOK' /\ pc' \in [Ops -> Steps] /\ req' \in [Ops -> ReqType]
    BY <1>9, <2>1, MoveTypeInv DEF RemoveStack
  <2>3. QED
    BY <1>9, <2>1, <2>2 DEF RemoveStack, TypeInv, TypeOK, store, HasStack
<1>10. ASSUME DeleteConfigs(o) PROVE TypeInv'
  <2>1. PipelineOK' /\ pc' \in [Ops -> Steps] /\ req' \in [Ops -> ReqType]
    BY <1>10, MoveTypeInv DEF DeleteConfigs
  <2>2. QED BY <1>10, <2>1 DEF DeleteConfigs, TypeInv, TypeOK
<1>11. ASSUME DeleteRow(o) PROVE TypeInv'
  <2>1. PipelineOK' /\ pc' \in [Ops -> Steps] /\ req' \in [Ops -> ReqType]
    BY <1>11, MoveTypeInv DEF DeleteRow
  <2>2. QED BY <1>11, <2>1 DEF DeleteRow, TypeInv, TypeOK
<1>12. QED
  BY <1>1, <1>2, <1>3, <1>4, <1>5, <1>6, <1>7, <1>8, <1>9, <1>10, <1>11 DEF Step

LEMMA CrashTypeInv ==
  ASSUME TypeInv, UNCHANGED serial, NEW o \in Ops, Crash(o)
  PROVE  TypeInv'
<1>1. PipelineOK' /\ pc' \in [Ops -> Steps] /\ req' \in [Ops -> ReqType]
  BY MoveTypeInv DEF Crash, Active, Steps, Ended
<1>2. QED
  BY <1>1 DEF Crash, TypeInv, TypeOK, store

LEMMA EnvironmentTypeInv ==
  ASSUME TypeInv, UNCHANGED serial,
         Tick \/ (\E s \in Stacks : EditConfig(s)) \/ UNCHANGED vars
  PROVE  TypeInv'
  BY DEF TypeInv, TypeOK, PipelineOK, HasStack, HasSource, HasRow, Tick,
     EditConfig, store, vars

LEMMA TypeInvInductive == TypeInv /\ [Next]_vars => TypeInv'
  BY SubmitTypeInv, StepTypeInv, CrashTypeInv, EnvironmentTypeInv DEF Next, vars

\* Type correctness of the deploy engine: a step reads only what an earlier
\* step of its own pipeline has set.
THEOREM TypeCorrect == Spec => []TypeOK
<1>1. TypeInv /\ [Next]_vars => TypeInv'
  BY TypeInvInductive
<1>2. Spec => []TypeInv
  BY <1>1, InitTypeInv, PTL DEF Spec
<1>3. QED
  BY <1>2, PTL DEF TypeInv

-----------------------------------------------------------------------------
(* The stack row, its revisions, and the abstract revision log *)

Acts(o) == (Submit(o) \/ Step(o) \/ Crash(o)) /\ UNCHANGED serial

\* Two steps write stack rows and revisions.
LEMMA StoreSteps ==
  ASSUME TypeInv, [Next]_vars
  PROVE  \/ UNCHANGED <<current, revisions>>
         \/ \E o \in Ops : RecordDeploy(o) \/ DeleteRow(o)
<1>1. ASSUME NEW o \in Ops, Submit(o)
      PROVE  UNCHANGED <<current, revisions>>
  BY <1>1 DEF Submit, StartDeploy, StartSync, StartRollback, StartUndeploy,
              Accept, store
<1>2. ASSUME NEW o \in Ops, Step(o)
      PROVE  UNCHANGED <<current, revisions>> \/ RecordDeploy(o) \/ DeleteRow(o)
  BY <1>2 DEF Step, Compare, Translate, ReadClock, Probe, CreateBackup,
              TriggerBackup, Apply, RemoveStack, DeleteConfigs, store
<1>3. QED
  BY <1>1, <1>2 DEF Next, Tick, EditConfig, Crash, vars, store

\* A request's own row cannot be there before RecordDeploy inserts it under a
\* number that is free; afterwards the pointer names it.
LEMMA RecordEffect ==
  ASSUME TypeInv, NEW o \in Ops, RecordDeploy(o)
  PROVE  \/ UNCHANGED <<current, revisions>>
         \/ /\ req[o].stack \in Stacks
            /\ ~Taken(req[o].stack, req[o].rev)
            /\ revisions' = [revisions EXCEPT ![req[o].stack] = @ \union {Row(o)}]
            /\ current' = [current EXCEPT ![req[o].stack] = req[o].rev]
            /\ req[o].rev \in Nat /\ Row(o).revision = req[o].rev
  BY DEF RecordDeploy, KeyClash, Inserted, PointerAfter, TypeInv, TypeOK,
         PipelineOK, HasStack, Row, ReqType

LEMMA DeleteEffect ==
  ASSUME TypeInv, NEW o \in Ops, DeleteRow(o)
  PROVE  /\ req[o].stack \in Stacks
         /\ revisions' = [revisions EXCEPT ![req[o].stack] = {}]
         /\ current' = [current EXCEPT ![req[o].stack] = NULL]
  BY DEF DeleteRow, TypeInv, TypeOK, PipelineOK, HasStack

LEMMA PointerInductive ==
  ASSUME TypeInv, CurrentIsRecorded, [Next]_vars
  PROVE  CurrentIsRecorded'
<1>1. CASE UNCHANGED <<current, revisions>>
  BY <1>1 DEF CurrentIsRecorded, Taken
<1>2. ASSUME NEW o \in Ops, RecordDeploy(o), ~UNCHANGED <<current, revisions>>
      PROVE  CurrentIsRecorded'
  <2> DEFINE t == req[o].stack
  <2>1. /\ t \in Stacks /\ req[o].rev \in Nat /\ Row(o).revision = req[o].rev
        /\ revisions' = [revisions EXCEPT ![t] = @ \union {Row(o)}]
        /\ current' = [current EXCEPT ![t] = req[o].rev]
    BY <1>2, RecordEffect
  <2>2. ASSUME NEW s \in Stacks
        PROVE  IF current'[s] = NULL THEN revisions'[s] = {}
               ELSE \E row \in revisions'[s] : row.revision = current'[s]
    <3>1. CASE s = t
      <4>1. /\ current'[s] = req[o].rev /\ current'[s] # NULL
            /\ Row(o) \in revisions'[s]
        BY <2>1, <3>1, ConstantsOK DEF TypeInv, TypeOK
      <4>2. QED BY <2>1, <4>1
    <3>2. CASE s # t
      <4>1. current'[s] = current[s] /\ revisions'[s] = revisions[s]
        BY <2>1, <3>2 DEF TypeInv, TypeOK
      <4>2. QED BY <4>1 DEF CurrentIsRecorded, Taken
    <3>3. QED BY <3>1, <3>2
  <2>3. QED BY <2>2 DEF CurrentIsRecorded, Taken
<1>3. ASSUME NEW o \in Ops, DeleteRow(o)
      PROVE  CurrentIsRecorded'
  BY <1>3, DeleteEffect DEF CurrentIsRecorded, Taken, TypeInv, TypeOK
<1>4. QED
  BY <1>1, <1>2, <1>3, StoreSteps

\* The stack row and its revisions come and go together, and the pointer names
\* a recorded revision: RecordDeploy and DeleteStack's cascade.
THEOREM PointerIsRecorded == Spec => [](TypeInv /\ CurrentIsRecorded)
<1>1. Init => TypeInv /\ CurrentIsRecorded
  BY InitTypeInv DEF Init, CurrentIsRecorded
<1>2. TypeInv /\ CurrentIsRecorded /\ [Next]_vars
        => (TypeInv /\ CurrentIsRecorded)'
  BY PointerInductive, TypeInvInductive
<1>3. QED
  BY <1>1, <1>2, PTL DEF Spec

LEMMA LogStep ==
  ASSUME TypeInv, CurrentIsRecorded, [Next]_vars
  PROVE  [Log!Next]_(Log!vars)
<1>1. CASE UNCHANGED <<current, revisions>>
  BY <1>1 DEF Log!vars
<1>2. ASSUME NEW o \in Ops, RecordDeploy(o), ~UNCHANGED <<current, revisions>>
      PROVE  Log!Next
  <2> DEFINE t == req[o].stack
  <2>1. /\ t \in Stacks /\ ~Taken(t, req[o].rev)
        /\ revisions' = [revisions EXCEPT ![t] = @ \union {Row(o)}]
        /\ current' = [current EXCEPT ![t] = req[o].rev]
        /\ Row(o).revision = req[o].rev
    BY <1>2, RecordEffect
  <2>2. Row(o) \in revisions'[t]
    BY <2>1 DEF TypeInv, TypeOK
  <2>3. Log!Publish(t, Row(o))
    BY <2>1 DEF Log!Publish, Taken
  <2>4. QED BY <2>1, <2>2, <2>3 DEF Log!Next
<1>3. ASSUME NEW o \in Ops, DeleteRow(o)
      PROVE  [Log!Next]_(Log!vars)
  <2> DEFINE t == req[o].stack
  <2>1. /\ t \in Stacks
        /\ revisions' = [revisions EXCEPT ![t] = {}]
        /\ current' = [current EXCEPT ![t] = NULL]
    BY <1>3, DeleteEffect
  <2>2. CASE current[t] = NULL
    <3>1. revisions[t] = {}
      BY <2>1, <2>2 DEF CurrentIsRecorded
    <3>2. revisions' = revisions /\ current' = current
      BY <2>1, <2>2, <3>1 DEF TypeInv, TypeOK
    <3>3. QED BY <3>2 DEF Log!vars
  <2>3. CASE current[t] # NULL
    BY <2>1, <2>3 DEF Log!Drop, Log!Next
  <2>4. QED BY <2>2, <2>3
<1>4. QED
  BY <1>1, <1>2, <1>3, StoreSteps

\* The interleaved pipelines implement the atomic revision log: every step of
\* any request publishes one revision, drops one stack, or changes no log.
THEOREM ImplementsLog == Spec => LogSpec
<1>1. Init => Log!Init
  BY DEF Init, Log!Init
<1>2. TypeInv /\ CurrentIsRecorded /\ [Next]_vars => [Log!Next]_(Log!vars)
  BY LogStep
<1>3. QED
  BY <1>1, <1>2, PointerIsRecorded, PTL DEF Spec, LogSpec, Log!Spec

-----------------------------------------------------------------------------
(* The Swarm is reached in order, however the requests interleave *)

Undeployed(s) == \E o \in Ops : req[o].kind = "undeploy" /\ req[o].stack = s

\* What a request's step says of its kind: only an undeploy is at one of the
\* steps of Undeploy, and one that was not submitted has no kind.
KindOK(o) == /\ pc[o] = "idle" => req[o].kind = "none"
             /\ pc[o] \in {"remove", "delconfigs", "delrow"}
                  => req[o].kind = "undeploy"

\* What its audit row says: the trigger runs under a pending row, and a strict
\* deploy has one that did not fail when it goes to docker.
BackupOK(o) ==
  /\ pc[o] = "trigger" => backups[o] = "pending"
  /\ /\ pc[o] \in {"apply", "done"} /\ req[o].kind \in {"deploy", "sync"}
     /\ req[o].source \in BackupFirst \intersect StrictBackup
     => backups[o] \in {"pending", "succeeded"}

\* What it hands to docker is in the history, or an undeploy has cascaded it
\* away in between.
RecordedOK(o) ==
  pc[o] \in {"backup", "trigger", "apply"}
    => Row(o) \in revisions[req[o].stack] \/ Undeployed(req[o].stack)

OrderInv == /\ TypeInv
            /\ \A o \in Ops : KindOK(o) /\ BackupOK(o) /\ RecordedOK(o)
            /\ SwarmIsExplained


\* A step of one request leaves the local variables and the audit row of the
\* others alone.
LEMMA OthersUntouched ==
  ASSUME TypeInv, NEW o \in Ops, Acts(o), NEW p \in Ops, p # o
  PROVE  pc'[p] = pc[p] /\ req'[p] = req[p] /\ backups'[p] = backups[p]
<1>1. CASE Submit(o)
  BY <1>1 DEF Submit, StartDeploy, StartSync, StartRollback, StartUndeploy,
              Accept, Goto, TypeInv, TypeOK
<1>2. CASE Step(o)
  BY <1>2 DEF Step, Compare, Translate, ReadClock, Probe, RecordDeploy,
              CreateBackup, TriggerBackup, AfterFailedBackup, Apply,
              RemoveStack, DeleteConfigs, DeleteRow, Goto, TypeInv, TypeOK
<1>3. CASE Crash(o)
  BY <1>3 DEF Crash, Goto, TypeInv, TypeOK
<1>4. QED
  BY <1>1, <1>2, <1>3 DEF Acts

\* Submitting a request writes its own local variables only, and puts it at
\* the first step of its kind.
LEMMA SubmitEffect ==
  ASSUME TypeInv, NEW o \in Ops, Submit(o)
  PROVE  /\ pc[o] = "idle"
         /\ UNCHANGED <<clock, configs, current, revisions, swarm, backups>>
         /\ \/ /\ pc'[o] \in {"translate", "compare", "readclock", "failed"}
               /\ req'[o].kind \in {"deploy", "sync", "rollback"}
            \/ /\ pc'[o] \in {"remove", "failed"}
               /\ req'[o].kind = "undeploy"
  BY DEF Submit, StartDeploy, StartSync, StartRollback, StartUndeploy, Accept,
         MaySubmit, Goto, Request, store, TypeInv, TypeOK

\* From then on a request keeps its kind and its stack.
LEMMA KindAndStackStay ==
  ASSUME TypeInv, NEW o \in Ops, Step(o) \/ Crash(o)
  PROVE  req'[o].kind = req[o].kind /\ req'[o].stack = req[o].stack
  BY DEF Step, Compare, Translate, ReadClock, Probe, RecordDeploy,
         CreateBackup, TriggerBackup, Apply, RemoveStack, DeleteConfigs,
         DeleteRow, Crash, TypeInv, TypeOK, ReqType

\* The step an accepted request moves to is the next one of its kind.
LEMMA KindInductive ==
  ASSUME TypeInv, NEW o \in Ops, KindOK(o), Acts(o)
  PROVE  KindOK(o)'
<1>1. CASE Submit(o)
  BY <1>1, SubmitEffect DEF KindOK
<1>2. CASE Step(o)
  <2>1. req'[o].kind = req[o].kind
    BY <1>2, KindAndStackStay
  <2>2. QED
    BY <1>2, <2>1
       DEF Step, Compare, Translate, ReadClock, Probe, RecordDeploy,
           CreateBackup, TriggerBackup, AfterFailedBackup, Apply,
           RemoveStack, DeleteConfigs, DeleteRow, Goto, TypeInv, TypeOK, KindOK
<1>3. CASE Crash(o)
  BY <1>3 DEF Crash, Goto, TypeInv, TypeOK, KindOK
<1>4. QED
  BY <1>1, <1>2, <1>3 DEF Acts

\* A strict deploy goes to docker only from a trigger that ran, under the
\* pending row it created or the one that says it succeeded.
LEMMA BackupInductive ==
  ASSUME TypeInv, NEW o \in Ops, KindOK(o), BackupOK(o), Acts(o)
  PROVE  BackupOK(o)'
<1> USE DEF BackupOK, Goto, TypeInv, TypeOK
<1>1. CASE Submit(o)
  BY <1>1, SubmitEffect
<1>2. CASE Compare(o) \/ Translate(o) \/ ReadClock(o) \/ Probe(o)
  BY <1>2 DEF Compare, Translate, ReadClock, Probe
<1>3. CASE RecordDeploy(o)
  BY <1>3 DEF RecordDeploy
<1>4. CASE CreateBackup(o) \/ TriggerBackup(o)
  BY <1>4 DEF CreateBackup, TriggerBackup, AfterFailedBackup
<1>5. CASE Apply(o)
  BY <1>5 DEF Apply
<1>6. CASE RemoveStack(o) \/ DeleteConfigs(o) \/ DeleteRow(o)
  BY <1>6 DEF RemoveStack, DeleteConfigs, DeleteRow, KindOK
<1>7. CASE Crash(o)
  BY <1>7 DEF Crash
<1>8. QED
  BY <1>1, <1>2, <1>3, <1>4, <1>5, <1>6, <1>7 DEF Acts, Step

\* An undeploy that was submitted is never forgotten.
LEMMA UndeployedStays ==
  ASSUME TypeInv, \A p \in Ops : KindOK(p), NEW s, Undeployed(s), [Next]_vars
  PROVE  Undeployed(s)'
<1>1. PICK p \in Ops : req[p].kind = "undeploy" /\ req[p].stack = s
  BY DEF Undeployed
<1>2. pc[p] # "idle"
  BY <1>1 DEF KindOK
<1>3. req'[p].kind = "undeploy" /\ req'[p].stack = s
  <2>1. ASSUME NEW o \in Ops, Acts(o)
        PROVE  req'[p].kind = req[p].kind /\ req'[p].stack = req[p].stack
    <3>1. CASE o = p
      BY <2>1, <3>1, <1>2, SubmitEffect, KindAndStackStay DEF Acts
    <3>2. CASE o # p
      BY <2>1, <3>2, OthersUntouched
    <3>3. QED BY <3>1, <3>2
  <2>2. CASE Tick \/ (\E t \in Stacks : EditConfig(t)) \/ UNCHANGED vars
    BY <2>2, <1>1 DEF Tick, EditConfig, vars
  <2>3. QED BY <2>1, <2>2, <1>1 DEF Next, Acts
<1>4. QED
  BY <1>3 DEF Undeployed

\* A row that is gone was deleted by an undeploy of its stack.
LEMMA RowsStay ==
  ASSUME TypeInv, \A p \in Ops : KindOK(p), [Next]_vars,
         NEW s \in Stacks, NEW row \in revisions[s]
  PROVE  row \in revisions'[s] \/ Undeployed(s)'
<1>1. CASE UNCHANGED <<current, revisions>>
  BY <1>1
<1>2. ASSUME NEW o \in Ops, RecordDeploy(o)
      PROVE  row \in revisions'[s]
  BY <1>2, RecordEffect DEF TypeInv, TypeOK
<1>3. ASSUME NEW o \in Ops, DeleteRow(o)
      PROVE  row \in revisions'[s] \/ Undeployed(s)'
  <2>1. CASE s = req[o].stack
    <3>1. req[o].kind = "undeploy"
      BY <1>3 DEF DeleteRow, KindOK
    <3>2. Undeployed(s)
      BY <2>1, <3>1 DEF Undeployed
    <3>3. QED BY <3>2, UndeployedStays
  <2>2. CASE s # req[o].stack
    BY <1>3, <2>2, DeleteEffect DEF TypeInv, TypeOK
  <2>3. QED BY <2>1, <2>2
<1>4. QED
  BY <1>1, <1>2, <1>3, StoreSteps

\* RecordDeploy puts the request's row into the history before the request
\* reaches the backup and docker; only an undeploy takes it out again.
LEMMA RecordedInductive ==
  ASSUME TypeInv, \A p \in Ops : KindOK(p) /\ RecordedOK(p), [Next]_vars,
         NEW p \in Ops
  PROVE  RecordedOK(p)'
<1>1. ASSUME UNCHANGED <<pc, req>> \/ (pc'[p] = pc[p] /\ req'[p] = req[p])
      PROVE  RecordedOK(p)'
  <2> SUFFICES ASSUME pc'[p] \in {"backup", "trigger", "apply"}
               PROVE  (Row(p) \in revisions[req[p].stack]
                       \/ Undeployed(req[p].stack))'
    BY DEF RecordedOK
  <2> DEFINE s == req[p].stack
  <2>1. pc[p] = pc'[p] /\ req'[p].stack = s /\ Row(p)' = Row(p) /\ s \in Stacks
    BY <1>1 DEF Row, TypeInv, PipelineOK, HasStack
  <2>2. Row(p) \in revisions[s] \/ Undeployed(s)
    BY <2>1 DEF RecordedOK
  <2>3. Row(p) \in revisions'[s] \/ Undeployed(s)'
    BY <2>1, <2>2, RowsStay, UndeployedStays
  <2>4. Undeployed(req[p].stack)' <=> Undeployed(s)'
    BY <2>1 DEF Undeployed
  <2>5. QED BY <2>1, <2>3, <2>4
<1>2. ASSUME NEW o \in Ops, Acts(o), o # p
      PROVE  RecordedOK(p)'
  BY <1>1, <1>2, OthersUntouched
<1>3. ASSUME Acts(p)
      PROVE  RecordedOK(p)'
  <2>1. CASE Submit(p)
    BY <2>1, SubmitEffect DEF RecordedOK
  <2>2. CASE RecordDeploy(p)
    <3>1. Row(p)' = Row(p) /\ req' = req
      BY <2>2 DEF RecordDeploy, Row
    <3>2. pc'[p] = "failed" \/ Row(p) \in revisions'[req[p].stack]
      BY <2>2 DEF RecordDeploy, Inserted, Goto, TypeInv, TypeOK, PipelineOK,
                  HasStack
    <3>3. QED BY <3>1, <3>2 DEF RecordedOK
  <2>3. CASE CreateBackup(p) \/ TriggerBackup(p)
    <3>1. /\ pc[p] \in {"backup", "trigger"} /\ Row(p)' = Row(p)
          /\ req' = req /\ revisions' = revisions
          /\ Undeployed(req[p].stack)' <=> Undeployed(req[p].stack)
      BY <2>3 DEF CreateBackup, TriggerBackup, Row, store, Undeployed
    <3>2. QED BY <3>1 DEF RecordedOK
  <2>4. CASE Compare(p) \/ Translate(p) \/ ReadClock(p) \/ Probe(p) \/ Apply(p)
             \/ RemoveStack(p) \/ DeleteConfigs(p) \/ DeleteRow(p) \/ Crash(p)
    <3>1. pc'[p] \notin {"backup", "trigger", "apply"}
      BY <2>4 DEF Compare, Translate, ReadClock, Probe, Apply, RemoveStack,
                  DeleteConfigs, DeleteRow, Crash, Goto, TypeInv, TypeOK
    <3>2. QED BY <3>1 DEF RecordedOK
  <2>5. QED BY <1>3, <2>1, <2>2, <2>3, <2>4 DEF Acts, Step
<1>4. CASE Tick \/ (\E t \in Stacks : EditConfig(t)) \/ UNCHANGED vars
  BY <1>4, <1>1 DEF Tick, EditConfig, vars
<1>5. QED
  BY <1>2, <1>3, <1>4 DEF Next, Acts

\* What a step may put under a stack's name: what is there, nothing, a
\* mixture, or the rendering a request carries to docker.
LEMMA SwarmEffect ==
  ASSUME TypeInv, [Next]_vars, NEW s \in Stacks
  PROVE  \/ swarm'[s] \in {swarm[s], NULL, Mixed}
         \/ \E o \in Ops : /\ Apply(o) /\ req[o].stack = s
                           /\ swarm'[s] = Row(o).rendered
                           /\ UNCHANGED <<revisions, req>>
<1>1. ASSUME NEW o \in Ops, Submit(o)
      PROVE  swarm'[s] = swarm[s]
  BY <1>1, SubmitEffect
<1>2. ASSUME NEW o \in Ops, Apply(o)
      PROVE  \/ swarm'[s] \in {swarm[s], NULL, Mixed}
             \/ /\ req[o].stack = s /\ swarm'[s] = Row(o).rendered
                /\ UNCHANGED <<revisions, req>>
  BY <1>2 DEF Apply, Compose, Row, store, TypeInv, TypeOK
<1>3. ASSUME NEW o \in Ops, RemoveStack(o)
      PROVE  swarm'[s] \in {swarm[s], NULL, Mixed}
  BY <1>3 DEF RemoveStack, TypeInv, TypeOK
<1>4. ASSUME NEW o \in Ops, Step(o) \/ Crash(o), ~Apply(o), ~RemoveStack(o)
      PROVE  swarm'[s] = swarm[s]
  BY <1>4 DEF Step, Crash, Compare, Translate, ReadClock, Probe, RecordDeploy,
              CreateBackup, TriggerBackup, DeleteConfigs, DeleteRow
<1>5. QED
  BY <1>1, <1>2, <1>3, <1>4 DEF Next, Tick, EditConfig, vars

LEMMA ExplainedInductive ==
  ASSUME OrderInv, [Next]_vars
  PROVE  SwarmIsExplained'
<1> SUFFICES ASSUME NEW s \in Stacks, swarm'[s] \notin {NULL, Mixed}
             PROVE  (\E row \in revisions'[s] : row.rendered = swarm'[s])
                    \/ Undeployed(s)'
  BY DEF SwarmIsExplained, Undeployed
<1>1. CASE swarm'[s] = swarm[s]
  <2>1. (\E row \in revisions[s] : row.rendered = swarm[s]) \/ Undeployed(s)
    BY <1>1 DEF OrderInv, SwarmIsExplained, Undeployed
  <2>2. QED BY <1>1, <2>1, RowsStay, UndeployedStays DEF OrderInv
<1>2. ASSUME NEW o \in Ops, Apply(o), req[o].stack = s,
             swarm'[s] = Row(o).rendered, UNCHANGED <<revisions, req>>
      PROVE  (\E row \in revisions'[s] : row.rendered = swarm'[s])
             \/ Undeployed(s)'
  <2>1. Row(o) \in revisions[s] \/ Undeployed(s)
    BY <1>2 DEF OrderInv, RecordedOK, Apply
  <2>2. QED BY <1>2, <2>1 DEF Undeployed
<1>3. QED
  BY <1>1, <1>2, SwarmEffect DEF OrderInv

LEMMA OrderInductive == OrderInv /\ [Next]_vars => OrderInv'
<1> SUFFICES ASSUME OrderInv, [Next]_vars PROVE OrderInv'
  OBVIOUS
<1>1. TypeInv'
  BY TypeInvInductive DEF OrderInv
<1>2. ASSUME NEW p \in Ops
      PROVE  (KindOK(p) /\ BackupOK(p))'
  <2>1. ASSUME NEW o \in Ops, Acts(o)
        PROVE  (KindOK(p) /\ BackupOK(p))'
    <3>1. CASE o = p
      BY <2>1, <3>1, KindInductive, BackupInductive DEF OrderInv
    <3>2. CASE o # p
      BY <2>1, <3>2, OthersUntouched DEF OrderInv, KindOK, BackupOK
    <3>3. QED BY <3>1, <3>2
  <2>2. CASE Tick \/ (\E t \in Stacks : EditConfig(t)) \/ UNCHANGED vars
    BY <2>2 DEF Tick, EditConfig, vars, OrderInv, KindOK, BackupOK
  <2>3. QED BY <2>1, <2>2 DEF Next, Acts
<1>3. ASSUME NEW p \in Ops
      PROVE  RecordedOK(p)'
  BY RecordedInductive DEF OrderInv
<1>4. QED
  BY <1>1, <1>2, <1>3, ExplainedInductive DEF OrderInv

\* runPreDeployBackup: however requests interleave and whatever fails, a
\* strict deploy is handed to docker only behind a backup that was started
\* and is not known to have failed.
THEOREM BackupComesFirst == Spec => []StrictBackupFirst
<1>1. Init => OrderInv
  BY InitTypeInv DEF Init, OrderInv, KindOK, BackupOK, RecordedOK,
                     SwarmIsExplained, Request
<1>2. OrderInv => StrictBackupFirst
  BY DEF OrderInv, BackupOK, StrictBackupFirst
<1>3. QED
  BY <1>1, <1>2, OrderInductive, PTL DEF Spec

\* Deploy records before it calls docker: what runs cleanly under a stack's
\* name is in the stack's history, or an undeploy of the stack was submitted.
THEOREM SwarmHasHistory == Spec => []SwarmIsExplained
<1>1. Init => OrderInv
  BY InitTypeInv DEF Init, OrderInv, KindOK, BackupOK, RecordedOK,
                     SwarmIsExplained, Request
<1>2. OrderInv => SwarmIsExplained
  BY DEF OrderInv
<1>3. QED
  BY <1>1, <1>2, OrderInductive, PTL DEF Spec

-----------------------------------------------------------------------------
(* Requests one after the other *)

Alone == \A o, p \in Ops : Active(o) /\ Active(p) => o = p

\* From number n on, the revisions of a stack are taken without a gap.
NoGapFrom(s, n) ==
  \A row \in revisions[s] : \A k \in n .. row.revision : Taken(s, k)

\* What the only active request knows: no number above its candidate is taken
\* past a gap, and those from the clock up to the candidate are; from
\* RecordDeploy on the pointer names its row; an undeploy past docker stack rm
\* has left nothing under the stack's name.
SerialOK(o) ==
  LET s == req[o].stack
      r == req[o].rev
  IN
  /\ pc[o] \in {"probe", "record"} =>
       NoGapFrom(s, r) /\ \A k \in clock .. (r - 1) : Taken(s, k)
  /\ pc[o] = "record" => ~Taken(s, r)
  /\ pc[o] \in {"backup", "trigger", "apply"} =>
       Row(o) \in revisions[s] /\ current[s] = r
  /\ pc[o] \in {"delconfigs", "delrow"} => swarm[s] = NULL

\* Without the first two parts LatestIsCurrent is not inductive: a revision
\* numbered ahead of the clock would leave room for a lower newest one.
SerialInv == /\ Alone
             /\ \A s \in Stacks : NoGapFrom(s, clock)
             /\ \A o \in Ops : SerialOK(o)
             /\ LatestIsCurrent
             /\ NoOrphanStack

\* A request that takes a step is the only active one, and was submitted when
\* none was.
LEMMA AloneInductive ==
  ASSUME serial, TypeInv, Alone, [Next]_vars
  PROVE  /\ Alone'
         /\ \A o, p \in Ops : Acts(o) /\ p # o => ~Active(p) /\ ~Active(p)'
<1>1. ASSUME NEW o \in Ops, Acts(o), NEW p \in Ops, p # o
      PROVE  ~Active(p) /\ ~Active(p)'
  <2>1. CASE Submit(o)
    <3>1. ~Active(p)
      BY <2>1 DEF Submit, StartDeploy, StartSync, StartRollback,
                  StartUndeploy, Accept, MaySubmit
    <3>2. QED BY <1>1, <3>1, OthersUntouched DEF Active
  <2>2. CASE Step(o) \/ Crash(o)
    <3>1. Active(o)
      BY <2>2 DEF Step, Crash, Active, Ended, Compare, Translate, ReadClock,
                  Probe, RecordDeploy, CreateBackup, TriggerBackup, Apply,
                  RemoveStack, DeleteConfigs, DeleteRow
    <3>2. QED BY <1>1, <3>1, OthersUntouched DEF Active, Alone
  <2>3. QED BY <1>1, <2>1, <2>2 DEF Acts
<1>2. ASSUME Tick \/ (\E t \in Stacks : EditConfig(t)) \/ UNCHANGED vars
      PROVE  Alone'
  BY <1>2 DEF Tick, EditConfig, vars, Alone, Active
<1>3. ASSUME NEW o \in Ops, Acts(o)
      PROVE  Alone'
  BY <1>1, <1>3 DEF Alone
<1>4. QED
  BY <1>1, <1>2, <1>3 DEF Next, Acts

\* The candidate a request probes: from the clock's reading upwards.
LEMMA ProbedInductive ==
  ASSUME TypeInv, NEW o \in Ops, SerialOK(o), NoGapFrom(req[o].stack, clock),
         ReadClock(o) \/ Probe(o)
  PROVE  SerialOK(o)'
<1> DEFINE s == req[o].stack
           r == req[o].rev
<1>0. r \in Nat /\ clock \in Nat /\ s \in Stacks
  BY DEF TypeInv, TypeOK, PipelineOK, HasStack, ReadClock, Probe, ReqType
<1>1. CASE ReadClock(o)
  <2>1. /\ pc'[o] = "probe" /\ req'[o].stack = s /\ req'[o].rev = clock
        /\ UNCHANGED <<clock, revisions>>
    BY <1>1 DEF ReadClock, Goto, store, TypeInv, TypeOK, ReqType
  <2>2. \A k \in clock .. (clock - 1) : Taken(s, k)
    BY <1>0
  <2>3. QED BY <2>1, <2>2 DEF SerialOK, NoGapFrom, Taken
<1>2. CASE Probe(o)
  <2>1. /\ NoGapFrom(s, r) /\ \A k \in clock .. (r - 1) : Taken(s, k)
        /\ UNCHANGED <<clock, revisions>> /\ pc[o] = "probe"
    BY <1>2 DEF Probe, SerialOK, store
  <2>2. CASE Taken(s, r)
    <3>1. pc'[o] = "probe" /\ req'[o].stack = s /\ req'[o].rev = r + 1
      BY <1>2, <2>1, <2>2 DEF Probe, NextCandidate, TypeInv, TypeOK, ReqType
    <3>2. \A row \in revisions[s] : row.revision \in Nat
      BY <1>0 DEF TypeInv, TypeOK, Rows
    <3>3. NoGapFrom(s, r + 1)
      BY <1>0, <2>1, <3>2 DEF NoGapFrom
    <3>4. \A k \in clock .. r : Taken(s, k)
      BY <1>0, <2>1, <2>2
    <3>5. (r + 1) - 1 = r
      BY <1>0
    <3>6. QED BY <2>1, <3>1, <3>3, <3>4, <3>5 DEF SerialOK, NoGapFrom, Taken
  <2>3. CASE ~Taken(s, r)
    <3>1. pc'[o] = "record" /\ req'[o].stack = s /\ req'[o].rev = r
      BY <1>2, <2>3 DEF Probe, Goto, TypeInv, TypeOK
    <3>2. QED BY <2>1, <2>3, <3>1 DEF SerialOK, NoGapFrom, Taken
  <2>4. QED BY <2>2, <2>3
<1>3. QED
  BY <1>1, <1>2

\* A free candidate with no gap above it is larger than every revision.
LEMMA FreeIsNewest ==
  ASSUME TypeInv, NEW o \in Ops, SerialOK(o), pc[o] = "record",
         NEW row \in revisions[req[o].stack]
  PROVE  row.revision < req[o].rev
<1> DEFINE s == req[o].stack
           r == req[o].rev
<1>1. r \in Nat /\ row.revision \in Nat
  BY DEF TypeInv, TypeOK, PipelineOK, HasStack, ReqType, Rows
<1>2. NoGapFrom(s, r) /\ ~Taken(s, r)
  BY DEF SerialOK
<1>3. r \notin r .. row.revision
  BY <1>2 DEF NoGapFrom
<1>4. QED
  BY <1>1, <1>3

\* RecordDeploy adds the newest row and points at it.
LEMMA RecordSerial ==
  ASSUME TypeInv, SerialInv, NEW o \in Ops, RecordDeploy(o)
  PROVE  /\ SerialOK(o)'
         /\ \A s \in Stacks : NoGapFrom(s, clock)'
         /\ LatestIsCurrent'
         /\ NoOrphanStack'
<1> DEFINE t == req[o].stack
           r == req[o].rev
<1>1. /\ pc[o] = "record" /\ SerialOK(o) /\ t \in Stacks /\ r \in Nat
      /\ clock' = clock /\ swarm' = swarm /\ req' = req /\ clock \in Nat
      /\ pc'[o] \in {"failed", "backup", "apply"}
  BY DEF RecordDeploy, Goto, SerialInv, TypeInv, TypeOK, PipelineOK, HasStack,
         ReqType
<1>2. ~Taken(t, r)
  BY <1>1 DEF SerialOK
<1>3. /\ revisions' = [revisions EXCEPT ![t] = @ \union {Row(o)}]
      /\ current' = [current EXCEPT ![t] = r]
      /\ Row(o).revision = r /\ Row(o)' = Row(o)
  BY <1>2, <1>1 DEF RecordDeploy, KeyClash, Inserted, PointerAfter, Row
<1>4. /\ revisions'[t] = revisions[t] \union {Row(o)} /\ current'[t] = r
      /\ \A s \in Stacks \ {t} : revisions'[s] = revisions[s]
                                 /\ current'[s] = current[s]
  BY <1>1, <1>3 DEF TypeInv, TypeOK
<1>5. SerialOK(o)'
  BY <1>1, <1>3, <1>4 DEF SerialOK
<1>6. ASSUME NEW s \in Stacks PROVE NoGapFrom(s, clock)'
  <2>1. CASE s # t
    BY <1>1, <1>4, <2>1 DEF SerialInv, NoGapFrom, Taken
  <2>2. CASE s = t
    <3> SUFFICES ASSUME NEW row \in revisions'[t],
                        NEW k \in clock .. row.revision
                 PROVE  \E other \in revisions'[t] : other.revision = k
      BY <1>1, <2>2 DEF NoGapFrom, Taken
    <3>1. CASE row \in revisions[t]
      <4>1. Taken(t, k)
        BY <1>1, <3>1 DEF SerialInv, NoGapFrom
      <4>2. QED BY <1>4, <4>1 DEF Taken
    <3>2. CASE row = Row(o)
      <4>1. k = r \/ k \in clock .. (r - 1)
        BY <1>1, <1>3, <3>2
      <4>2. CASE k = r
        BY <1>3, <1>4, <4>2
      <4>3. CASE k \in clock .. (r - 1)
        <5>1. Taken(t, k)
          BY <1>1, <4>3 DEF SerialOK
        <5>2. QED BY <1>4, <5>1 DEF Taken
      <4>4. QED BY <4>1, <4>2, <4>3
    <3>3. QED BY <1>4, <3>1, <3>2
  <2>3. QED BY <2>1, <2>2
<1>7. LatestIsCurrent'
  <2> SUFFICES ASSUME NEW s \in Stacks, NEW row \in revisions'[s],
                      \A other \in revisions'[s] : other.revision <= row.revision
               PROVE  row.revision = current'[s]
    BY DEF LatestIsCurrent, IsLatest
  <2>1. CASE s # t
    BY <1>4, <2>1 DEF SerialInv, LatestIsCurrent, IsLatest
  <2>2. CASE s = t
    <3>1. r <= row.revision
      BY <1>3, <1>4, <2>2
    <3>2. CASE row \in revisions[t]
      <4>1. row.revision < r /\ row.revision \in Nat
        BY <1>1, <3>2, FreeIsNewest DEF TypeInv, TypeOK, Rows
      <4>2. QED BY <1>1, <3>1, <4>1
    <3>3. QED BY <1>3, <1>4, <2>2, <3>2
  <2>3. QED BY <2>1, <2>2
<1>8. NoOrphanStack'
  BY <1>1, <1>4, ConstantsOK DEF SerialInv, NoOrphanStack
<1>9. QED
  BY <1>5, <1>6, <1>7, <1>8

\* The steps of docker: what Apply leaves running has its row, and docker
\* stack rm is done before anything is deleted.
LEMMA SwarmSerial ==
  ASSUME TypeInv, SerialInv, NEW o \in Ops,
         Apply(o) \/ RemoveStack(o) \/ DeleteConfigs(o) \/ DeleteRow(o)
  PROVE  /\ SerialOK(o)'
         /\ \A s \in Stacks : NoGapFrom(s, clock)'
         /\ LatestIsCurrent'
         /\ NoOrphanStack'
<1> DEFINE t == req[o].stack
<1>0. /\ t \in Stacks /\ SerialOK(o) /\ NULL \notin Nat
      /\ req[o].rev \in Nat
  BY ConstantsOK DEF SerialInv, TypeInv, TypeOK, PipelineOK, HasStack, Apply,
     RemoveStack, DeleteConfigs, DeleteRow, ReqType
<1>1. CASE Apply(o)
  <2>1. /\ current[t] # NULL /\ pc'[o] \in {"done", "failed"}
        /\ \A s \in Stacks \ {t} : swarm'[s] = swarm[s]
        /\ UNCHANGED <<clock, current, revisions>>
    BY <1>0, <1>1 DEF Apply, Goto, store, SerialOK, TypeInv, TypeOK
  <2>2. QED
    BY <2>1 DEF SerialInv, SerialOK, NoGapFrom, Taken, LatestIsCurrent,
                IsLatest, NoOrphanStack
<1>2. CASE RemoveStack(o)
  <2>1. /\ pc'[o] \in {"delconfigs", "failed"} /\ req' = req
        /\ pc'[o] = "delconfigs" => swarm'[t] = NULL
        /\ swarm[t] = NULL => swarm'[t] = NULL
        /\ \A s \in Stacks \ {t} : swarm'[s] = swarm[s]
        /\ UNCHANGED <<clock, current, revisions>>
    BY <1>0, <1>2 DEF RemoveStack, Goto, store, TypeInv, TypeOK
  <2>2. QED
    BY <1>0, <2>1 DEF SerialInv, SerialOK, NoGapFrom, Taken, LatestIsCurrent,
                IsLatest, NoOrphanStack
<1>3. CASE DeleteConfigs(o)
  <2>1. /\ pc[o] = "delconfigs" /\ pc'[o] = "delrow" /\ req' = req
        /\ UNCHANGED <<clock, current, revisions, swarm>>
    BY <1>3 DEF DeleteConfigs, Goto, TypeInv, TypeOK
  <2>2. QED
    BY <1>0, <2>1 DEF SerialInv, SerialOK, NoGapFrom, Taken, LatestIsCurrent,
                IsLatest, NoOrphanStack
<1>4. CASE DeleteRow(o)
  <2>1. /\ pc[o] = "delrow" /\ pc'[o] \in {"failed", "done"} /\ req' = req
        /\ revisions'[t] = {} /\ current'[t] = NULL
        /\ \A s \in Stacks \ {t} : revisions'[s] = revisions[s]
                                   /\ current'[s] = current[s]
        /\ UNCHANGED <<clock, swarm>>
    BY <1>0, <1>4, DeleteEffect DEF DeleteRow, Goto, TypeInv, TypeOK
  <2>2. ASSUME NEW s \in Stacks PROVE NoGapFrom(s, clock)'
    BY <2>1 DEF SerialInv, NoGapFrom, Taken
  <2>3. LatestIsCurrent'
    BY <2>1 DEF SerialInv, LatestIsCurrent, IsLatest
  <2>4. swarm[t] = NULL
    BY <1>0, <2>1 DEF SerialOK
  <2>5. NoOrphanStack'
    BY <2>1, <2>4 DEF SerialInv, NoOrphanStack
  <2>6. SerialOK(o)'
    BY <2>1 DEF SerialOK
  <2>7. QED BY <2>2, <2>3, <2>5, <2>6
<1>5. QED
  BY <1>1, <1>2, <1>3, <1>4

\* The other steps touch neither the stack tables nor the Swarm.
LEMMA QuietSerial ==
  ASSUME TypeInv, SerialInv, [Next]_vars,
         UNCHANGED <<current, revisions, swarm>>
  PROVE  /\ \A s \in Stacks : NoGapFrom(s, clock)'
         /\ LatestIsCurrent'
         /\ NoOrphanStack'
<1>1. clock \in Nat /\ clock' \in Nat /\ clock <= clock'
  <2>1. clock \in Nat
    BY DEF TypeInv, TypeOK
  <2>2. ASSUME NEW o \in Ops, Acts(o) PROVE clock' = clock
    BY <2>2 DEF Acts, Submit, StartDeploy, StartSync, StartRollback,
                StartUndeploy, Accept, Step, Compare, Translate, ReadClock,
                Probe, RecordDeploy, CreateBackup, TriggerBackup, Apply,
                RemoveStack, DeleteConfigs, DeleteRow, Crash
  <2>3. clock' = clock \/ Tick
    BY <2>2 DEF Next, Acts, EditConfig, vars
  <2>4. QED BY <2>1, <2>3 DEF Tick
<1>2. ASSUME NEW s \in Stacks PROVE NoGapFrom(s, clock)'
  <2> SUFFICES ASSUME NEW row \in revisions[s], NEW k \in clock' .. row.revision
               PROVE  Taken(s, k)
    BY DEF NoGapFrom, Taken
  <2>1. row.revision \in Nat
    BY DEF TypeInv, TypeOK, Rows
  <2>2. k \in clock .. row.revision
    BY <1>1, <2>1
  <2>3. QED BY <2>2 DEF SerialInv, NoGapFrom
<1>3. QED
  BY <1>2 DEF SerialInv, LatestIsCurrent, IsLatest, NoOrphanStack

LEMMA StepSerial ==
  ASSUME TypeInv, SerialInv, NEW o \in Ops, Acts(o)
  PROVE  /\ SerialOK(o)'
         /\ \A s \in Stacks : NoGapFrom(s, clock)'
         /\ LatestIsCurrent'
         /\ NoOrphanStack'
<1>0. [Next]_vars /\ SerialOK(o)
  BY DEF Acts, Next, SerialInv
<1>1. CASE Submit(o)
  <2>1. SerialOK(o)'
    BY <1>1, SubmitEffect DEF SerialOK
  <2>2. QED BY <1>0, <1>1, <2>1, SubmitEffect, QuietSerial
<1>2. CASE ReadClock(o) \/ Probe(o)
  <2>1. req[o].stack \in Stacks
    BY <1>2 DEF ReadClock, Probe, TypeInv, PipelineOK, HasStack
  <2>2. SerialOK(o)'
    BY <1>0, <1>2, <2>1, ProbedInductive DEF SerialInv
  <2>3. UNCHANGED <<current, revisions, swarm>>
    BY <1>2 DEF ReadClock, Probe, store
  <2>4. QED BY <1>0, <2>2, <2>3, QuietSerial
<1>3. CASE CreateBackup(o) \/ TriggerBackup(o)
  <2>1. /\ pc[o] \in {"backup", "trigger"} /\ req' = req /\ Row(o)' = Row(o)
        /\ pc'[o] \in {"trigger", "apply", "failed"}
        /\ UNCHANGED <<current, revisions, swarm>>
    BY <1>3 DEF CreateBackup, TriggerBackup, AfterFailedBackup, Goto, Row,
                store, TypeInv, TypeOK
  <2>2. SerialOK(o)'
    BY <1>0, <2>1 DEF SerialOK
  <2>3. QED BY <1>0, <2>1, <2>2, QuietSerial
<1>4. CASE Compare(o) \/ Translate(o) \/ Crash(o)
  <2>1. /\ pc'[o] \in {"unchanged", "translate", "readclock", "failed", "crashed"}
        /\ UNCHANGED <<current, revisions, swarm>>
    BY <1>4 DEF Compare, Translate, Crash, Goto, store, TypeInv, TypeOK
  <2>2. SerialOK(o)'
    BY <2>1 DEF SerialOK
  <2>3. QED BY <1>0, <2>1, <2>2, QuietSerial
<1>5. QED
  BY <1>1, <1>2, <1>3, <1>4, RecordSerial, SwarmSerial DEF Acts, Step

LEMMA SerialInductive ==
  ASSUME serial, TypeInv, SerialInv, [Next]_vars
  PROVE  SerialInv'
<1>1. Alone'
  BY AloneInductive DEF SerialInv
<1>2. ASSUME NEW o \in Ops, Acts(o)
      PROVE  SerialInv'
  <2>1. ASSUME NEW p \in Ops, p # o PROVE SerialOK(p)'
    <3>1. ~Active(p)'
      BY <1>2, <2>1, AloneInductive DEF SerialInv
    <3>2. QED BY <3>1 DEF SerialOK, Active, Ended
  <2>2. QED
    BY <1>1, <1>2, <2>1, StepSerial DEF SerialInv
<1>3. ASSUME UNCHANGED serial,
             Tick \/ (\E t \in Stacks : EditConfig(t)) \/ UNCHANGED vars
      PROVE  SerialInv'
  <2>1. /\ UNCHANGED <<current, revisions, swarm, pc, req, serial>>
        /\ clock \in Nat /\ clock' \in Nat /\ clock <= clock'
    BY <1>3 DEF Tick, EditConfig, vars, store, TypeInv, TypeOK
  <2>2. ASSUME NEW o \in Ops PROVE SerialOK(o)'
    <3>1. SerialOK(o) /\ req[o].rev \in Nat
      BY DEF SerialInv, TypeInv, TypeOK, ReqType
    <3>2. \A k \in clock' .. (req[o].rev - 1) : k \in clock .. (req[o].rev - 1)
      BY <2>1, <3>1
    <3>3. QED BY <2>1, <3>1, <3>2 DEF SerialOK, NoGapFrom, Taken, Row
  <2>3. QED
    BY <1>1, <2>1, <2>2, QuietSerial DEF SerialInv
<1>4. QED
  BY <1>2, <1>3 DEF Next, Acts, vars

LEMMA InitSerial == Init => SerialInv
  BY DEF Init, SerialInv, Alone, Active, NoGapFrom, SerialOK, LatestIsCurrent,
         NoOrphanStack

LEMMA SuccessStep ==
  ASSUME TypeInv, SerialInv, [Next]_vars
  PROVE  \A o \in Ops : Succeeds(o) => RunsItsRevision(o)
<1> SUFFICES ASSUME NEW o \in Ops, pc[o] = "apply", pc'[o] = "done"
             PROVE  \E row \in revisions'[req[o].stack] :
                       /\ row.revision = current'[req[o].stack]
                       /\ row.rendered = swarm'[req[o].stack]
  BY DEF Succeeds, RunsItsRevision
<1>1. Acts(o)
  BY OthersUntouched DEF Next, Acts, Tick, EditConfig, vars
<1>2. Apply(o) /\ req[o].stack \in Stacks
  BY <1>1, SubmitEffect
     DEF Acts, Step, Compare, Translate, ReadClock, Probe, RecordDeploy,
         CreateBackup, TriggerBackup, RemoveStack, DeleteConfigs, DeleteRow,
         Crash, Goto, TypeInv, TypeOK, PipelineOK, HasStack
<1>3. /\ UNCHANGED <<current, revisions>>
      /\ swarm'[req[o].stack] = req[o].rendered
  BY <1>2 DEF Apply, Compose, Goto, store, TypeInv, TypeOK
<1>4. Row(o) \in revisions[req[o].stack] /\ current[req[o].stack] = req[o].rev
  BY DEF SerialInv, SerialOK
<1>5. Row(o).revision = req[o].rev /\ Row(o).rendered = req[o].rendered
  BY DEF Row
<1>6. QED
  BY <1>3, <1>4, <1>5

\* The store is right after any sequence of requests that do not overlap, any
\* of which may fail or die between two steps.
THEOREM StoreStaysRight == Spec => []StoreIsRight
<1>1. TypeInv /\ (serial => SerialInv) /\ [Next]_vars
        => (TypeInv /\ (serial => SerialInv))'
  BY TypeInvInductive, SerialInductive DEF Next, vars
<1>2. Init => TypeInv /\ (serial => SerialInv)
  BY InitTypeInv, InitSerial
<1>3. (serial => SerialInv) => StoreIsRight
  BY DEF StoreIsRight, SerialInv
<1>4. QED
  BY <1>1, <1>2, <1>3, PTL DEF Spec

\* A reported success is what the Swarm runs, when requests do not overlap.
THEOREM SuccessIsTrue == Spec => SuccessIsLive
<1>1. TypeInv /\ (serial => SerialInv) /\ [Next]_vars
        => (TypeInv /\ (serial => SerialInv))'
  BY TypeInvInductive, SerialInductive DEF Next, vars
<1>2. Init => TypeInv /\ (serial => SerialInv)
  BY InitTypeInv, InitSerial
<1>3. TypeInv /\ (serial => SerialInv) /\ [Next]_vars
        => [serial => \A o \in Ops : Succeeds(o) => RunsItsRevision(o)]_vars
  BY SuccessStep
<1>4. QED
  BY <1>1, <1>2, <1>3, PTL DEF Spec, SuccessIsLive
=============================================================================
