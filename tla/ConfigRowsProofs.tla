-------------------------- MODULE ConfigRowsProofs --------------------------
(***************************************************************************)
(* What an operator saves is kept and used.  The history of a config is    *)
(* complete, for any processes, names, contents and row ids: what a        *)
(* transaction has read is what it overwrites unless another has committed *)
(* in between, and then it does not commit.  A page of the console calls   *)
(* with what is or was just being saved, for any pages and values, or with *)
(* the environment's pair where its table could not be read: what an older *)
(* one leaves in the shared client does not outlive a load.  And a save of *)
(* the cluster's settings leaves those alone that it gives no value and    *)
(* has read.  What is deployed of a manifest is closed, for any manifests  *)
(* in any environment: a placeholder that is left in a field they go       *)
(* through is one that a value they put in has brought.                    *)
(***************************************************************************)
EXTENDS ConfigRows, Connection, ClusterSettings, Manifest, SequenceTheorems,
        WellFoundedInduction, TLAPS

-----------------------------------------------------------------------------
(* The inductive invariant *)

\* A transaction whose snapshot is not stale has read the row as it is, and what it
\* restores is in the history of that row.
Reads(c) ==
  pc[c] \in {"edit", "restore"} =>
    /\ loc[c].content \in Contents /\ loc[c].row \in Rows
    /\ ~loc[c].stale =>
         /\ configs[loc[c].name] = loc[c].row
         /\ pc[c] = "restore" =>
              \E v \in versions : v.cfg = loc[c].row.id /\ v.content = loc[c].content

IInv == TypeOK /\ (\A c \in Clients : Reads(c)) /\ HistoryComplete

-----------------------------------------------------------------------------
(* Ids *)

\* A non-empty set of bounded numbers has a greatest one.
LEMMA Greatest ==
  ASSUME NEW ids \in SUBSET (1 .. MaxRow), ids # {}
  PROVE  \E i \in ids : \A j \in ids : j <= i
<1> DEFINE T == {x \in Nat : MaxRow - x \in ids}
<1>0. MaxRow \in Nat
  BY RowConstants
<1>1. T \subseteq Nat /\ \A i \in ids : MaxRow - i \in T
  BY <1>0
<1>2. \E x \in T : \A y \in T : ~ (<<y, x>> \in OpToRel(<, Nat))
  <2>1. T # {}
    BY <1>1
  <2> HIDE DEF T
  <2>2. QED
    BY <1>1, <2>1, NatLessThanWellFounded, WFMin
<1>3. PICK x \in T : \A y \in T : ~ (y < x)
  BY <1>1, <1>2 DEF OpToRel
<1>4. ASSUME NEW j \in ids PROVE j <= MaxRow - x
  <2>1. ~ (MaxRow - j < x)
    BY <1>1, <1>3
  <2>2. QED
    BY <1>0, <1>3, <2>1
<1>5. QED
  BY <1>3, <1>4

\* The next id of a table is a number that no row of it has.
LEMMA NextIdFresh ==
  ASSUME NEW ids \in SUBSET (1 .. MaxRow)
  PROVE  NextId(ids) \in Nat \ {0} /\ NextId(ids) \notin ids
<1>1. CASE ids = {}
  BY <1>1 DEF NextId
<1>2. CASE ids # {}
  <2> DEFINE top == CHOOSE i \in ids : \A j \in ids : j <= i
  <2>1. top \in ids /\ \A j \in ids : j <= top
    BY <1>2, Greatest
  <2>2. NextId(ids) = 1 + top
    BY <1>2 DEF NextId
  <2> HIDE DEF top
  <2>3. QED
    BY <2>1, <2>2, RowConstants
<1>3. QED
  BY <1>1, <1>2

-----------------------------------------------------------------------------
(* Types *)

LEMMA IdleType == Idle \in Locals /\ ~Idle.stale /\ Idle.row = NULL
<1>1. \E l \in Locals : l.content = NULL /\ l.vid = 0 /\ l.row = NULL /\ ~l.stale
  <2>1. PICK n \in Names : TRUE
    BY RowConstants
  <2> DEFINE l == [name |-> n, content |-> NULL, vid |-> 0, row |-> NULL, stale |-> FALSE]
  <2>2. l \in Locals
    BY RowConstants DEF Locals
  <2>3. QED
    BY <2>2
<1>2. QED
  BY <1>1 DEF Idle

LEMMA IdsTyped == TypeOK => ConfigIds \in SUBSET (1 .. MaxRow) /\ VersionIds \in SUBSET (1 .. MaxRow)
  BY DEF TypeOK, ConfigIds, VersionIds, Existing, Rows, Versions

\* A commit ends the transaction of its client and spoils those of the others; one
\* that does not commit ends alone.
LEMMA CommittedTypes ==
  ASSUME TypeOK, NEW c \in Clients, Committed(c)
  PROVE  /\ loc' \in [Clients -> Locals] /\ loc'[c] = Idle
         /\ \A d \in Clients \ {c} :
              /\ loc'[d].content = loc[d].content /\ loc'[d].row = loc[d].row
              /\ pc[d] \in {"edit", "restore"} => loc'[d].stale
  BY IdleType DEF Committed, TypeOK, Locals

LEMMA FailTypes ==
  ASSUME TypeOK, NEW c \in Clients, Fail(c)
  PROVE  /\ loc' \in [Clients -> Locals] /\ pc' \in [Clients -> {"idle", "edit", "listed", "restore"}]
         /\ pc'[c] = "idle" /\ UNCHANGED <<configs, versions, had>>
         /\ \A d \in Clients \ {c} : pc'[d] = pc[d] /\ loc'[d] = loc[d]
  BY IdleType DEF Fail, End, Untouched, TypeOK

LEMMA TablesKept ==
  ASSUME TypeOK, HistoryComplete, UNCHANGED <<configs, versions, had>>,
         pc' \in [Clients -> {"idle", "edit", "listed", "restore"}], loc' \in [Clients -> Locals]
  PROVE  TypeOK' /\ HistoryComplete'
<1>1. UNCHANGED <<ConfigIds, Existing>> /\ \A n \in Names : VersionsOf(n)' = VersionsOf(n)
  BY DEF ConfigIds, Existing, VersionsOf, Of
<1>2. TypeOK'
  BY <1>1 DEF TypeOK
<1>3. HistoryComplete'
  BY <1>1 DEF HistoryComplete, Existing
<1>4. QED
  BY <1>2, <1>3

\* The other steps of a client leave the tables and the other clients alone.
LEMMA ReadsKept ==
  ASSUME TypeOK, \A d \in Clients : Reads(d), NEW c \in Clients, Reads(c)',
         UNCHANGED <<configs, versions>>,
         \A d \in Clients \ {c} : pc'[d] = pc[d] /\ loc'[d] = loc[d]
  PROVE  \A d \in Clients : Reads(d)'
  BY DEF Reads

\* After a commit, no other transaction may still rely on what it has read.
LEMMA ReadsSpoiled ==
  ASSUME TypeOK, \A d \in Clients : Reads(d), NEW c \in Clients, Committed(c),
         pc'[c] = "idle", \A d \in Clients \ {c} : pc'[d] = pc[d]
  PROVE  \A d \in Clients : Reads(d)'
  BY CommittedTypes DEF Reads

-----------------------------------------------------------------------------
(* The operations *)

LEMMA CreateKeeps ==
  ASSUME IInv, NEW c \in Clients, NEW n \in Names, NEW x \in Contents, Create(c, n, x)
  PROVE  IInv'
<1>0. TypeOK /\ HistoryComplete
  BY DEF IInv
<1>1. PICK i \in 1 .. MaxRow : i = NextId(ConfigIds) /\ i \notin ConfigIds
  BY <1>0, IdsTyped, NextIdFresh, RowConstants DEF Create
<1> DEFINE row == [id |-> i, content |-> x]
<1>2. row \in Rows /\ row # NULL /\ row.id = i /\ row.content = x
  BY NullIsNoRow DEF Rows
<1>3. configs' = [configs EXCEPT ![n] = row] /\ UNCHANGED versions
  BY <1>1 DEF Create
<1> HIDE DEF row
<1>4. /\ configs' \in [Names -> Rows \union {NULL}] /\ configs'[n] = row
      /\ \A m \in Names \ {n} : configs'[m] = configs[m]
      /\ Existing' = Existing \union {n} /\ n \notin Existing
  BY <1>0, <1>2, <1>3 DEF Create, TypeOK, Existing
<1>5. /\ ConfigIds \subseteq ConfigIds'
      /\ \A l, m \in Existing' : configs'[l].id = configs'[m].id => l = m
  <2>1. \A m \in Existing : configs'[m] = configs[m] /\ configs[m].id # i
    BY <1>1, <1>4 DEF ConfigIds, Existing
  <2>2. ConfigIds \subseteq ConfigIds'
    BY <1>4, <2>1 DEF ConfigIds
  <2>3. \A l, m \in Existing' : configs'[l].id = configs'[m].id => l = m
    BY <1>0, <1>2, <1>4, <2>1 DEF TypeOK
  <2>4. QED
    BY <2>2, <2>3
<1>6. /\ had' \in [Names -> SUBSET Contents] /\ had'[n] = {x}
      /\ \A m \in Existing : had'[m] = had[m] /\ m # n
  BY <1>0, <1>4 DEF Create, TypeOK, Existing
<1>7. TypeOK'
  BY <1>0, <1>3, <1>4, <1>5, <1>6, CommittedTypes DEF Create, TypeOK
<1>8. \A d \in Clients : Reads(d)'
  BY <1>0, ReadsSpoiled DEF IInv, Create
<1>9. \A m \in Existing' : had'[m] = {configs'[m].content} \union {v.content : v \in VersionsOf(m)'}
  <2>1. VersionsOf(n)' = {}
    BY <1>0, <1>1, <1>2, <1>3, <1>4 DEF VersionsOf, Of, TypeOK
  <2>2. ASSUME NEW m \in Existing
        PROVE  had'[m] = {configs'[m].content} \union {v.content : v \in VersionsOf(m)'}
    <3>1. VersionsOf(m)' = VersionsOf(m) /\ configs'[m] = configs[m]
      BY <1>3, <1>4 DEF VersionsOf, Of, Existing
    <3>2. QED
      BY <1>0, <1>6, <3>1 DEF HistoryComplete
  <2>3. QED
    BY <1>2, <1>4, <1>6, <2>1, <2>2
<1>10. QED
  BY <1>7, <1>8, <1>9 DEF IInv, HistoryComplete
LEMMA DeleteKeeps ==
  ASSUME IInv, NEW c \in Clients, NEW n \in Names, Delete(c, n)
  PROVE  IInv'
<1>0. TypeOK /\ HistoryComplete
  BY DEF IInv
<1>1. PICK i : i = configs[n].id /\ n \in Existing
  BY DEF Delete, Existing
<1>2. versions' = {v \in versions : v.cfg # i}
  BY <1>1 DEF Delete, DropHistory, VersionsOf, Of
<1>3. /\ configs' \in [Names -> Rows \union {NULL}]
      /\ \A m \in Names \ {n} : configs'[m] = configs[m]
      /\ Existing' = Existing \ {n}
  BY <1>0 DEF Delete, TypeOK, Existing
<1>4. \A m \in Existing' : configs'[m] = configs[m] /\ configs[m].id # i
  BY <1>0, <1>1, <1>3 DEF TypeOK, Existing
<1>5. {v.cfg : v \in versions'} \subseteq ConfigIds'
  <2>1. ASSUME NEW v \in versions' PROVE v.cfg \in ConfigIds'
    <3>1. v \in versions /\ {w.cfg : w \in versions} \subseteq ConfigIds
      BY <1>0, <1>2, <2>1 DEF TypeOK
    <3>2. v.cfg \in ConfigIds
      BY <3>1
    <3>3. PICK m \in Existing : configs[m].id = v.cfg
      BY <3>2 DEF ConfigIds
    <3>4. m \in Existing' /\ configs'[m].id = v.cfg
      BY <1>1, <1>2, <1>3, <1>4, <3>3
    <3>5. QED
      BY <3>4 DEF ConfigIds
  <2>2. QED
    BY <2>1
<1>6. had' \in [Names -> SUBSET Contents] /\ \A m \in Existing' : had'[m] = had[m]
  BY <1>0, <1>3 DEF Delete, TypeOK
<1>7. TypeOK'
  BY <1>0, <1>2, <1>3, <1>4, <1>5, <1>6, CommittedTypes DEF Delete, TypeOK
<1>8. \A d \in Clients : Reads(d)'
  BY <1>0, ReadsSpoiled DEF IInv, Delete
<1>9. ASSUME NEW m \in Existing'
      PROVE  had'[m] = {configs'[m].content} \union {v.content : v \in VersionsOf(m)'}
  <2>1. VersionsOf(m)' = VersionsOf(m) /\ m \in Existing
    BY <1>2, <1>3, <1>4, <1>9 DEF VersionsOf, Of
  <2>2. QED
    BY <1>0, <1>4, <1>6, <2>1 DEF HistoryComplete
<1>10. QED
  BY <1>7, <1>8, <1>9 DEF IInv, HistoryComplete

LEMMA BeginEditKeeps ==
  ASSUME IInv, NEW c \in Clients, NEW n \in Names, NEW x \in Contents, BeginEdit(c, n, x)
  PROVE  IInv'
<1>0. TypeOK /\ HistoryComplete
  BY DEF IInv
<1> DEFINE l == [name |-> n, content |-> x, vid |-> 0, row |-> configs[n], stale |-> FALSE]
<1>1. /\ l \in Locals /\ l.row \in Rows /\ l.row = configs[n]
      /\ l.content = x /\ l.name = n
  BY <1>0, RowConstants DEF BeginEdit, TypeOK, Locals
<1>2. pc' = [pc EXCEPT ![c] = "edit"] /\ loc' = [loc EXCEPT ![c] = l]
  BY DEF BeginEdit
<1>3. UNCHANGED <<configs, versions, had>>
  BY DEF BeginEdit, Untouched
<1> HIDE DEF l
<1>4. /\ pc' \in [Clients -> {"idle", "edit", "listed", "restore"}] /\ loc' \in [Clients -> Locals]
      /\ pc'[c] = "edit" /\ loc'[c] = l
      /\ \A d \in Clients \ {c} : pc'[d] = pc[d] /\ loc'[d] = loc[d]
  BY <1>0, <1>1, <1>2 DEF TypeOK
<1>5. Reads(c)'
  BY <1>1, <1>3, <1>4 DEF Reads
<1>6. \A d \in Clients : Reads(d)'
  BY <1>0, <1>3, <1>4, <1>5, ReadsKept DEF IInv
<1>7. QED
  BY <1>0, <1>3, <1>4, <1>6, TablesKept DEF IInv

LEMMA ListVersionsKeeps ==
  ASSUME IInv, NEW c \in Clients, NEW n \in Names, ListVersions(c, n)
  PROVE  IInv'
<1>0. TypeOK /\ HistoryComplete
  BY DEF IInv
<1>1. PICK v \in VersionsOf(n) : loc' = [loc EXCEPT ![c] = [Idle EXCEPT !.name = n, !.vid = v.id]]
  BY DEF ListVersions
<1> DEFINE l == [Idle EXCEPT !.name = n, !.vid = v.id]
<1>2. l \in Locals
  <2>1. v \in versions
    BY DEF VersionsOf, Of
  <2>2. v.id \in 0 .. MaxRow
    BY <1>0, <2>1, RowConstants DEF TypeOK, Versions
  <2>3. QED
    BY <2>2, IdleType DEF Locals
<1>3. UNCHANGED <<configs, versions, had>>
  BY DEF ListVersions, Untouched
<1> HIDE DEF l
<1>4. /\ pc' \in [Clients -> {"idle", "edit", "listed", "restore"}] /\ loc' \in [Clients -> Locals]
      /\ pc'[c] = "listed"
      /\ \A d \in Clients \ {c} : pc'[d] = pc[d] /\ loc'[d] = loc[d]
  BY <1>0, <1>1, <1>2 DEF TypeOK, ListVersions, l
<1>5. \A d \in Clients : Reads(d)'
  BY <1>0, <1>3, <1>4, ReadsKept DEF IInv, Reads
<1>6. QED
  BY <1>0, <1>3, <1>4, <1>5, TablesKept DEF IInv

LEMMA FailKeeps ==
  ASSUME IInv, NEW c \in Clients, Fail(c)
  PROVE  IInv'
<1>0. TypeOK /\ HistoryComplete
  BY DEF IInv
<1>1. \A d \in Clients : Reads(d)'
  BY <1>0, FailTypes, ReadsKept DEF IInv, Reads
<1>2. QED
  BY <1>0, <1>1, FailTypes, TablesKept DEF IInv

LEMMA BeginRollbackKeeps ==
  ASSUME IInv, NEW c \in Clients, BeginRollback(c)
  PROVE  IInv'
<1>0. TypeOK /\ HistoryComplete
  BY DEF IInv
<1> DEFINE n == loc[c].name
<1>1. CASE Fail(c)
  BY <1>1, FailKeeps
<1>2. ASSUME configs[n] # NULL, NEW v \in FoundVersion(configs[n], loc[c].vid),
             pc' = [pc EXCEPT ![c] = "restore"],
             loc' = [loc EXCEPT ![c].row = configs[n], ![c].content = v.content],
             UNCHANGED <<configs, versions, had>>
      PROVE  IInv'
  <2>1. /\ n \in Names /\ configs[n] \in Rows /\ v \in versions
        /\ v.cfg = configs[n].id /\ v.content \in Contents
    BY <1>0, <1>2 DEF TypeOK, Locals, FoundVersion, Versions
  <2>2. /\ pc' \in [Clients -> {"idle", "edit", "listed", "restore"}] /\ loc' \in [Clients -> Locals]
        /\ pc'[c] = "restore" /\ loc'[c].row = configs[n]
        /\ loc'[c].content = v.content /\ loc'[c].name = n
        /\ \A d \in Clients \ {c} : pc'[d] = pc[d] /\ loc'[d] = loc[d]
    BY <1>0, <1>2, <2>1 DEF TypeOK, Locals
  <2> HIDE DEF n
  <2>3. Reads(c)'
    BY <1>2, <2>1, <2>2 DEF Reads
  <2>4. \A d \in Clients : Reads(d)'
    BY <1>0, <1>2, <2>2, <2>3, ReadsKept DEF IInv
  <2>5. QED
    BY <1>0, <1>2, <2>2, <2>4, TablesKept DEF IInv
<1>3. QED
  BY <1>1, <1>2 DEF BeginRollback, Untouched
\* The write of an edit or a rollback: it is to the row that was read, and that row
\* holds what was read.
LEMMA CommitKeeps ==
  ASSUME IInv, NEW c \in Clients, Commit(c)
  PROVE  IInv'
<1>0. TypeOK /\ HistoryComplete
  BY DEF IInv
<1>1. CASE Fail(c)
  BY <1>1, FailKeeps
<1>2. CASE ~Fail(c)
  <2>0. PICK n \in Names : n = loc[c].name
    BY <1>0 DEF TypeOK, Locals
  <2> DEFINE x == loc[c].content
             row == loc[c].row
             past == [id |-> NextId(VersionIds), cfg |-> row.id, content |-> row.content]
  <2>1. /\ n \in Names /\ x \in Contents /\ row \in Rows /\ configs[n] = row
        /\ pc[c] = "restore" => \E v \in versions : v.cfg = row.id /\ v.content = x
    BY <1>0, <1>2, <2>0 DEF Commit, MayCommit, IInv, Reads
  <2>2. n \in Existing /\ row.id \in ConfigIds
    BY <2>1, NullIsNoRow DEF Existing, ConfigIds
  <2>3. NextId(VersionIds) \in 1 .. MaxRow
    BY <1>0, <1>2, IdsTyped, NextIdFresh, RowConstants DEF Commit
  <2>4. past \in Versions /\ past.cfg = row.id /\ past.content = row.content
    BY <2>1, <2>3 DEF Versions, Rows
  <2>5. versions' = versions \union {past}
    BY <1>2 DEF Commit, Pushed
  <2>6. /\ configs' = [m \in Names |-> IF configs[m] # NULL /\ configs[m].id = row.id
                                         THEN [configs[m] EXCEPT !.content = x] ELSE configs[m]]
        /\ had' = [had EXCEPT ![n] = IF pc[c] = "edit" THEN had[n] \union {x} ELSE had[n]]
        /\ pc' = [pc EXCEPT ![c] = "idle"] /\ Committed(c)
        /\ pc[c] \in {"edit", "restore"}
    BY <1>2, <2>0 DEF Commit, End
  <2> HIDE DEF x, row, past
  <2>7. /\ configs'[n] \in Rows /\ configs'[n].id = row.id /\ configs'[n].content = x
        /\ \A m \in Names \ {n} : configs'[m] = configs[m]
        /\ configs' \in [Names -> Rows \union {NULL}]
    <3>1. \A m \in Existing : configs[m].id = row.id => m = n
      BY <1>0, <2>1, <2>2 DEF TypeOK
    <3>2. \A m \in Names \ {n} : configs'[m] = configs[m]
      BY <2>6, <3>1 DEF Existing
    <3>3. configs'[n] = [row EXCEPT !.content = x]
      BY <2>1, <2>2, <2>6 DEF Existing
    <3>4. /\ configs'[n] \in Rows /\ configs'[n].id = row.id /\ configs'[n].content = x
      BY <2>1, <3>3 DEF Rows
    <3>5. configs' \in [Names -> Rows \union {NULL}]
      BY <1>0, <2>6, <3>2, <3>4 DEF TypeOK
    <3>6. QED
      BY <3>2, <3>4, <3>5
  <2>8. /\ Existing' = Existing
        /\ \A m \in Existing : configs'[m].id = configs[m].id
        /\ ConfigIds' = ConfigIds
    <3>1. Existing' = Existing
      BY <2>2, <2>7, NullIsNoRow DEF Existing
    <3>2. \A m \in Existing : configs'[m].id = configs[m].id
      BY <2>1, <2>7 DEF Existing
    <3>3. QED
      BY <3>1, <3>2 DEF ConfigIds
  <2>9. /\ had' \in [Names -> SUBSET Contents]
        /\ had'[n] = had[n] \union (IF pc[c] = "edit" THEN {x} ELSE {})
        /\ \A m \in Names \ {n} : had'[m] = had[m]
    BY <1>0, <2>1, <2>6 DEF TypeOK
  <2>10. {v.cfg : v \in versions'} \subseteq ConfigIds'
    BY <1>0, <2>2, <2>4, <2>5, <2>8 DEF TypeOK
  <2>11. TypeOK'
    BY <1>0, <2>4, <2>5, <2>6, <2>7, <2>8, <2>9, <2>10, CommittedTypes DEF TypeOK
  <2>12. \A d \in Clients : Reads(d)'
    <3>1. pc'[c] = "idle" /\ \A d \in Clients \ {c} : pc'[d] = pc[d]
      BY <1>0, <2>6 DEF TypeOK
    <3>2. QED
      BY <1>0, <2>6, <3>1, ReadsSpoiled DEF IInv
  <2>13. had'[n] = {configs'[n].content} \union {v.content : v \in VersionsOf(n)'}
    <3>1. /\ VersionsOf(n) = {v \in versions : v.cfg = row.id}
          /\ VersionsOf(n)' = VersionsOf(n) \union {past}
      <4>1. VersionsOf(n) = {v \in versions : v.cfg = row.id}
        BY <2>1, <2>2 DEF VersionsOf, Of, Existing
      <4>2. VersionsOf(n)' = {v \in versions' : v.cfg = row.id}
        BY <2>7, NullIsNoRow DEF VersionsOf, Of
      <4>3. QED
        BY <2>4, <2>5, <4>1, <4>2
    <3>2. had[n] = {row.content} \union {v.content : v \in VersionsOf(n)}
      BY <1>0, <2>1, <2>2 DEF HistoryComplete
    <3>3. {v.content : v \in VersionsOf(n)'} = {row.content} \union {v.content : v \in VersionsOf(n)}
      BY <2>4, <3>1
    <3>4. pc[c] = "restore" => x \in {v.content : v \in VersionsOf(n)}
      BY <2>1, <3>1
    <3>5. QED
      <4> DEFINE older == {v.content : v \in VersionsOf(n)}
      <4>1. had'[n] = {x} \union {row.content} \union older
        <5> HIDE DEF older
        <5>1. had[n] = {row.content} \union older /\ (pc[c] = "restore" => x \in older)
          BY <3>2, <3>4 DEF older
        <5>2. CASE pc[c] = "edit"
          BY <2>9, <5>1, <5>2
        <5>3. CASE pc[c] = "restore"
          BY <2>9, <5>1, <5>3
        <5>4. QED
          BY <2>6, <5>2, <5>3
      <4>2. QED
        BY <2>7, <3>3, <4>1
  <2>14. ASSUME NEW m \in Existing, m # n
         PROVE  had'[m] = {configs'[m].content} \union {v.content : v \in VersionsOf(m)'}
    <3>1. m \in Names /\ configs'[m] = configs[m] /\ had'[m] = had[m] /\ configs[m].id # row.id
      BY <1>0, <2>1, <2>2, <2>7, <2>9, <2>14 DEF TypeOK, Existing
    <3>2. VersionsOf(m)' = VersionsOf(m)
      BY <2>4, <2>5, <3>1 DEF VersionsOf, Of
    <3>3. QED
      BY <1>0, <3>1, <3>2 DEF HistoryComplete
  <2>15. QED
    <3>1. \A m \in Existing' : had'[m] = {configs'[m].content} \union {v.content : v \in VersionsOf(m)'}
      BY <2>8, <2>13, <2>14
    <3>2. HistoryComplete'
      BY <3>1 DEF HistoryComplete
    <3>3. QED
      BY <2>11, <2>12, <3>2 DEF IInv
<1>3. QED
  BY <1>1, <1>2

-----------------------------------------------------------------------------
(* The invariant and what follows from it *)

LEMMA InitIInv == Init => IInv
<1> SUFFICES ASSUME Init PROVE IInv
  OBVIOUS
<1>1. Existing = {} /\ ConfigIds = {}
  BY DEF Init, Existing, ConfigIds
<1>2. TypeOK
  BY <1>1, IdleType DEF Init, TypeOK
<1>3. HistoryComplete /\ \A c \in Clients : Reads(c)
  BY <1>1 DEF HistoryComplete, Init, Reads
<1>4. QED
  BY <1>2, <1>3 DEF IInv

LEMMA IInvInductive == IInv /\ [Next]_vars => IInv'
<1> SUFFICES ASSUME IInv, [Next]_vars PROVE IInv'
  OBVIOUS
<1>1. ASSUME NEW c \in Clients, NEW n \in Names, NEW x \in Contents,
             Create(c, n, x) \/ BeginEdit(c, n, x)
      PROVE  IInv'
  BY <1>1, CreateKeeps, BeginEditKeeps
<1>2. ASSUME NEW c \in Clients, NEW n \in Names, Delete(c, n) \/ ListVersions(c, n)
      PROVE  IInv'
  BY <1>2, DeleteKeeps, ListVersionsKeeps
<1>3. ASSUME NEW c \in Clients, BeginRollback(c) \/ Commit(c)
      PROVE  IInv'
  BY <1>3, BeginRollbackKeeps, CommitKeeps
<1>4. CASE UNCHANGED vars
  BY <1>4 DEF vars, IInv, TypeOK, Reads, HistoryComplete, ConfigIds, Existing, VersionsOf, Of
<1>5. QED
  BY <1>1, <1>2, <1>3, <1>4 DEF Next

\* UpdateConfig, RollbackConfig, CreateConfig and DeleteConfig of any number of
\* processes, in any order: a config holds, between its row and its history, exactly
\* what edits have given it since it was created.
THEOREM NothingIsLost == Spec => [](TypeOK /\ HistoryComplete)
<1>1. IInv => TypeOK /\ HistoryComplete
  BY DEF IInv
<1>2. QED
  BY <1>1, InitIInv, IInvInductive, PTL DEF Spec
-----------------------------------------------------------------------------
(* The console's connection *)

Saving   == {"save base", "use base", "save token", "use token"}
Setting  == {"set base", "set token"}
ConSteps == {"idle", "load", "call", "loaded", "loaded base", "call base", "loaded call", "bare call"}
              \union Setting \union Saving

ConTypeOK ==
  /\ stored \in Pairs /\ client \in Pairs
  /\ page \in [Requests -> ConSteps] /\ got \in [Requests -> Pairs]
  /\ due = [f \in Fields |-> due[f]]

\* While a request is served, what it may read is among what is due, and so is what it has
\* read and is about to set, what it has set, and what it has read of the client again.
Reading(r) ==
  page[r] # "idle" => \A f \in Fields : InForce(stored[f]) \in due[f]
About(r) ==
  /\ page[r] \in Setting => \A f \in Fields : got[r][f] \in due[f]
  /\ page[r] = "use base" => InForce(got[r]["base"]) \in due["base"]
  /\ page[r] = "use token" => InForce(got[r]["token"]) \in due["token"]
Uses(r) ==
  /\ page[r] \in {"set token", "loaded", "loaded base"} => client["base"] \in due["base"]
  /\ page[r] \in {"loaded", "loaded base"} => client["token"] \in due["token"]
  /\ page[r] = "loaded base" => got[r]["base"] \in due["base"]
  /\ page[r] = "loaded call" => \A f \in Fields : got[r][f] \in due[f]

ConInv ==
  /\ ConTypeOK
  /\ \A r \in Requests : Reading(r) /\ About(r) /\ Uses(r)

\* A pair with one field set.
LEMMA PairUpdate ==
  ASSUME NEW f \in Pairs, NEW k \in Fields
  PROVE  /\ f[k] \in Given \union {Env, ""}
         /\ \A v \in Given \union {Env, ""} : [f EXCEPT ![k] = v] \in Pairs
  BY DEF Pairs

LEMMA ConTypeInductive == ConTypeOK /\ ConNext => ConTypeOK'
<1> SUFFICES ASSUME ConTypeOK, ConNext PROVE ConTypeOK'
  OBVIOUS
<1> DEFINE GivenTexts == Given \union {Env, ""}
<1>1. Blank \in Pairs /\ "base" \in Fields /\ "token" \in Fields /\ "" \in GivenTexts /\ Env \in GivenTexts
  BY DEF Pairs, Blank, Fields
<1>2. PICK p \in Requests :
         \/ Save(p) \/ SaveBase(p) \/ UseBase(p) \/ SaveToken(p) \/ UseToken(p)
         \/ Begin(p) \/ Load(p) \/ SetBase(p) \/ SetToken(p)
         \/ CallBase(p) \/ CallToken(p) \/ Return(p)
  BY DEF ConNext
<1>3. got[p] \in Pairs /\ \A k \in Fields : got[p][k] \in GivenTexts /\ client[k] \in GivenTexts
  BY PairUpdate DEF ConTypeOK
<1>4. page' \in [Requests -> ConSteps]
  <2>1. \E s \in ConSteps : Goto(p, s)
    BY <1>2 DEF Save, SaveBase, SaveToken, Store, UseBase, UseToken, Begin, Load, SetBase, SetToken,
                SetField, CallBase, CallToken, Return, ConSteps, Setting, Saving
  <2>2. QED
    BY <2>1 DEF Goto, ConTypeOK
<1>5. due' = [f \in Fields |-> due'[f]]
  BY <1>2 DEF Save, SaveBase, SaveToken, Store, UseBase, UseToken, Use, Begin, Anew, Load, SetBase,
              SetToken, SetField, CallBase, CallToken, Return, ConTypeOK
<1>6. got' \in [Requests -> Pairs]
  <2>1. got' = got \/ \E x \in Pairs : got' = [got EXCEPT ![p] = x]
    <3>1. CASE Load(p)
      BY <3>1, <1>1 DEF Load, Pairs, InForce, ConTypeOK
    <3>2. CASE CallToken(p)
      BY <3>2, <1>1, <1>3, PairUpdate DEF CallToken
    <3>3. CASE CallBase(p)
      BY <3>3, <1>1, <1>3, PairUpdate DEF CallBase
    <3>4. CASE Save(p) \/ UseBase(p)
      BY <3>4, <1>1, PairUpdate DEF Save, UseBase
    <3>5. CASE Return(p)
      BY <3>5, <1>1 DEF Return
    <3>6. CASE SaveBase(p) \/ SaveToken(p) \/ UseToken(p) \/ Begin(p) \/ SetBase(p) \/ SetToken(p)
      BY <3>6 DEF SaveBase, SaveToken, Store, UseToken, Begin, SetBase, SetToken, SetField
    <3>7. QED
      BY <1>2, <3>1, <3>2, <3>3, <3>4, <3>5, <3>6
  <2>2. QED
    BY <2>1 DEF ConTypeOK
<1>7. client' \in Pairs
  <2>1. client' = client \/ \E k \in Fields, v \in GivenTexts : client' = [client EXCEPT ![k] = v]
    BY <1>1, <1>2, <1>3 DEF Save, SaveBase, SaveToken, Store, UseBase, UseToken, Use, InForce, Begin, Load,
                            SetBase, SetToken, SetField, CallBase, CallToken, Return
  <2>2. ASSUME NEW k \in Fields, NEW v \in GivenTexts
        PROVE  [client EXCEPT ![k] = v] \in Pairs
    BY PairUpdate DEF ConTypeOK
  <2>3. QED
    BY <2>1, <2>2 DEF ConTypeOK
<1>8. stored' \in Pairs
  <2>1. stored' = stored \/ \E k \in Fields : stored' = [stored EXCEPT ![k] = got[p][k]]
    BY <1>1, <1>2 DEF Save, SaveBase, SaveToken, Store, UseBase, UseToken, Use, Begin, Load, SetBase,
                      SetToken, SetField, CallBase, CallToken, Return
  <2>2. ASSUME NEW k \in Fields
        PROVE  [stored EXCEPT ![k] = got[p][k]] \in Pairs
    BY <1>3, PairUpdate DEF ConTypeOK
  <2>3. QED
    BY <2>1, <2>2 DEF ConTypeOK
<1>9. QED
  BY <1>4, <1>5, <1>6, <1>7, <1>8 DEF ConTypeOK

\* What a request that is not alone may use is never taken from it.
LEMMA DueGrows ==
  ASSUME ConInv, NEW p \in Requests,
         \/ Save(p) \/ SaveBase(p) \/ UseBase(p) \/ SaveToken(p) \/ UseToken(p)
         \/ Begin(p) \/ Load(p) \/ SetBase(p) \/ SetToken(p)
         \/ CallBase(p) \/ CallToken(p) \/ Return(p),
         NEW r \in Requests, page[r] # "idle"
  PROVE  \A f \in Fields : due[f] \subseteq due'[f]
<1>1. CASE Save(p) \/ Begin(p)
  <2>1. r \in Requests \ {p}
    BY <1>1 DEF Save, Begin, Waiting
  <2>2. ~OthersWait(p)
    BY <2>1 DEF OthersWait, Waiting
  <2>3. QED
    BY <1>1, <2>2 DEF Save, Begin, Anew
<1>2. CASE SaveBase(p) \/ SaveToken(p) \/ Load(p)
  BY <1>2 DEF SaveBase, SaveToken, Store, Load, ConInv, ConTypeOK
<1>3. QED
  BY <1>1, <1>2 DEF UseBase, UseToken, Use, SetBase, SetToken, SetField, CallBase, CallToken, Return

LEMMA ConInvInductive == ConInv /\ [ConNext]_conVars => ConInv'
<1> SUFFICES ASSUME ConInv, ConNext PROVE ConInv'
  BY DEF ConInv, ConTypeOK, Reading, About, Uses, conVars
<1>1. ConTypeOK /\ ConTypeOK'
  BY ConTypeInductive DEF ConInv
<1>2. PICK p \in Requests :
         \/ Save(p) \/ SaveBase(p) \/ UseBase(p) \/ SaveToken(p) \/ UseToken(p)
         \/ Begin(p) \/ Load(p) \/ SetBase(p) \/ SetToken(p)
         \/ CallBase(p) \/ CallToken(p) \/ Return(p)
  BY DEF ConNext
<1>3. /\ \A r \in Requests : page[r] # "idle" => \A f \in Fields : due[f] \subseteq due'[f]
      /\ \A r \in Requests \ {p} : page'[r] = page[r] /\ got'[r] = got[r]
  <2>1. \A r \in Requests : page[r] # "idle" => \A f \in Fields : due[f] \subseteq due'[f]
    BY <1>2, DueGrows
  <2>2. (\E s : Goto(p, s)) /\ (got' = got \/ \E x : got' = [got EXCEPT ![p] = x])
    <3>1. CASE Load(p) \/ CallBase(p) \/ Return(p) \/ Save(p) \/ UseBase(p)
      BY <3>1 DEF Load, CallBase, Return, Save, UseBase
    <3>2. CASE CallToken(p)
      BY <1>1, <3>2 DEF CallToken, ConTypeOK
    <3>3. QED
      BY <1>2, <3>1, <3>2 DEF SaveBase, SaveToken, Store, UseToken, Use, Begin, SetBase, SetToken, SetField
  <2>3. QED
    BY <1>1, <2>1, <2>2 DEF Goto, ConTypeOK
<1>4. "base" \in Fields /\ "token" \in Fields
  BY DEF Fields
\* What may be read: a step that stores a value says that it is due.
<1>5. ASSUME NEW r \in Requests PROVE Reading(r)'
  <2> SUFFICES ASSUME page'[r] # "idle", NEW f \in Fields PROVE InForce(stored'[f]) \in due'[f]
    BY DEF Reading, InForce
  <2>1. CASE Save(p) \/ Begin(p)
    <3>1. stored' = stored
      BY <2>1 DEF Save, Begin
    <3>2. CASE OthersWait(p)
      BY <2>1, <3>1, <3>2 DEF Save, Begin, Anew
    <3>3. CASE ~OthersWait(p)
      <4>1. PICK q \in Requests : page[q] # "idle"
        BY <3>3 DEF OthersWait, Waiting
      <4>2. InForce(stored[f]) \in due[f] /\ due' = due
        BY <2>1, <3>3, <4>1 DEF ConInv, Reading, Save, Begin, Anew
      <4> QED
        BY <3>1, <4>2
    <3> QED
      BY <3>2, <3>3
  <2>2. CASE ~(Save(p) \/ Begin(p))
    <3>1. page[p] # "idle"
      BY <1>2, <2>2 DEF SaveBase, SaveToken, Store, UseBase, UseToken, Use, Load, SetBase, SetToken,
                        SetField, CallBase, CallToken, Return
    <3>2. InForce(stored[f]) \in due[f] /\ due[f] \subseteq due'[f]
      BY <1>3, <3>1 DEF ConInv, Reading
    <3>3. stored'[f] = stored[f] \/ InForce(stored'[f]) \in due'[f]
      <4>1. ASSUME NEW g \in Fields, NEW s, NEW t, Store(p, g, s, t)
            PROVE  stored'[f] = stored[f] \/ InForce(stored'[f]) \in due'[f]
        BY <1>1, <4>1 DEF Store, ConTypeOK, Pairs
      <4>2. CASE SaveBase(p) \/ SaveToken(p)
        BY <1>4, <4>1, <4>2 DEF SaveBase, SaveToken
      <4> QED
        BY <1>2, <2>2, <4>2 DEF UseBase, UseToken, Use, Load, SetBase, SetToken,
                                SetField, CallBase, CallToken, Return
    <3> QED
      BY <3>2, <3>3
  <2> QED
    BY <2>1, <2>2
<1>6. ASSUME NEW r \in Requests PROVE About(r)'
  <2>1. CASE r # p
    <3>1. page'[r] = page[r] /\ got'[r] = got[r]
      BY <1>3, <2>1
    <3>2. page[r] # "idle" => \A f \in Fields : due[f] \subseteq due'[f]
      BY <1>3
    <3> QED
      BY <1>4, <3>1, <3>2 DEF ConInv, About, Setting, InForce
  <2>2. CASE r = p
    <3>1. CASE Load(p)
      <4>1. page'[p] = "set base" /\ \A f \in Fields : got'[p][f] = InForce(stored[f]) \/ (Env \in due'[f] /\ got'[p][f] = Env)
        <5>1. \/ got' = [got EXCEPT ![p] = [f \in Fields |-> InForce(stored[f])]]
              \/ /\ got' = [got EXCEPT ![p] = [f \in Fields |-> Env]]
                 /\ due' = [f \in Fields |-> due[f] \union {Env}]
          BY <3>1 DEF Load
        <5>2. page'[p] = "set base"
          BY <1>1, <3>1 DEF Load, Goto, ConTypeOK
        <5>3. \A x : got' = [got EXCEPT ![p] = x] => got'[p] = x
          BY <1>1 DEF ConTypeOK
        <5>4. got'[p] = [f \in Fields |-> InForce(stored[f])]
              \/ (got'[p] = [f \in Fields |-> Env] /\ \A f \in Fields : Env \in due'[f])
          BY <5>1, <5>3
        <5> QED
          BY <5>2, <5>4
      <4>2. \A f \in Fields : InForce(stored[f]) \in due'[f]
        <5>1. page[p] # "idle"
          BY <3>1 DEF Load
        <5> QED
          BY <1>3, <5>1 DEF ConInv, Reading
      <4> QED
        BY <2>2, <4>1, <4>2 DEF About
    <3>2. CASE SetBase(p)
      BY <1>1, <2>2, <3>2 DEF SetBase, SetField, Goto, ConTypeOK, ConInv, About, Setting
    <3>3. CASE SaveBase(p)
      BY <1>1, <1>4, <2>2, <3>3 DEF SaveBase, Store, Goto, ConTypeOK, About, Setting, InForce
    <3>4. CASE SaveToken(p)
      BY <1>1, <1>4, <2>2, <3>4 DEF SaveToken, Store, Goto, ConTypeOK, About, Setting, InForce
    <3>5. CASE ~(Load(p) \/ SetBase(p) \/ SaveBase(p) \/ SaveToken(p))
      <4>1. page'[p] \notin Setting \union {"use base", "use token"}
        BY <1>1, <1>2, <3>5 DEF Save, UseBase, UseToken, Use, Begin, SetToken, SetField,
                                CallBase, CallToken, Return, Goto, ConTypeOK, Setting
      <4> QED
        BY <2>2, <4>1 DEF About
    <3> QED
      BY <3>1, <3>2, <3>3, <3>4, <3>5
  <2> QED
    BY <2>1, <2>2
\* What the client holds: whoever sets it sets what is due.
<1>7. ASSUME NEW f \in Fields PROVE client'[f] = client[f] \/ (client'[f] \in due[f] /\ due' = due)
  <2>1. ASSUME NEW g \in Fields, NEW s \in Setting, NEW t, SetField(p, g, s, t)
        PROVE  client'[f] = client[f] \/ (client'[f] \in due[f] /\ due' = due)
    BY <1>1, <2>1 DEF SetField, ConTypeOK, Pairs, ConInv, About
  <2>2. CASE SetBase(p) \/ SetToken(p)
    BY <1>4, <2>1, <2>2 DEF SetBase, SetToken, Setting
  <2>3. CASE UseBase(p)
    BY <1>1, <2>3 DEF UseBase, Use, ConTypeOK, Pairs, ConInv, About
  <2>4. CASE UseToken(p)
    BY <1>1, <2>4 DEF UseToken, Use, ConTypeOK, Pairs, ConInv, About
  <2> QED
    BY <1>2, <2>2, <2>3, <2>4 DEF Save, SaveBase, SaveToken, Store, Begin, Load, CallBase, CallToken, Return
<1>8. ASSUME NEW r \in Requests PROVE Uses(r)'
  <2>1. page[r] # "idle" => \A f \in Fields : due[f] \subseteq due'[f]
    BY <1>3
  <2>2. CASE r # p
    <3>1. page'[r] = page[r] /\ got'[r] = got[r]
      BY <1>3, <2>2
    <3> QED
      BY <1>4, <1>7, <2>1, <3>1 DEF ConInv, Uses
  <2>3. CASE r = p
    <3>1. CASE SetBase(p)
      BY <1>1, <1>4, <2>3, <3>1 DEF SetBase, SetField, Goto, ConTypeOK, Pairs, ConInv, About, Setting, Uses
    <3>2. CASE SetToken(p)
      <4>1. /\ page[p] = "set token" /\ page'[p] = "loaded" /\ due' = due
            /\ client' = [client EXCEPT !["token"] = got[p]["token"]]
        BY <1>1, <3>2 DEF SetToken, SetField, Goto, ConTypeOK
      <4>2. client'["base"] = client["base"] /\ client'["token"] = got[p]["token"]
        BY <1>1, <4>1 DEF ConTypeOK, Pairs, Fields
      <4>3. got[p]["token"] \in due["token"] /\ client["base"] \in due["base"]
        BY <1>4, <4>1 DEF ConInv, About, Uses, Setting
      <4> QED
        BY <2>3, <4>1, <4>2, <4>3 DEF Uses
    <3>3. CASE CallBase(p)
      <4>1. /\ page'[p] \in {"loaded base", "call base"}
            /\ page'[p] = "loaded base" => page[p] = "loaded"
            /\ due' = due /\ client' = client /\ got'[p]["base"] = client["base"]
        BY <1>1, <3>3 DEF CallBase, Goto, ConTypeOK, Blank, Fields
      <4> QED
        BY <2>3, <4>1 DEF ConInv, Uses
    <3>4. CASE CallToken(p)
      <4>1. /\ page'[p] \in {"loaded call", "bare call"}
            /\ page'[p] = "loaded call" => page[p] = "loaded base"
            /\ due' = due /\ client' = client
            /\ got'[p]["base"] = got[p]["base"] /\ got'[p]["token"] = client["token"]
        BY <1>1, <3>4 DEF CallToken, Goto, ConTypeOK, Pairs, Fields
      <4>2. page'[p] = "loaded call" => \A f \in Fields : got'[p][f] \in due'[f]
        BY <4>1 DEF ConInv, Uses, Fields
      <4> QED
        BY <2>3, <4>1, <4>2 DEF Uses
    <3>5. CASE ~(SetBase(p) \/ SetToken(p) \/ CallBase(p) \/ CallToken(p))
      <4>1. page'[p] \notin {"set token", "loaded", "loaded base", "loaded call"}
        BY <1>1, <1>2, <3>5 DEF Save, SaveBase, SaveToken, Store, UseBase, UseToken, Use, Begin, Load,
                                Return, Goto, ConTypeOK
      <4> QED
        BY <2>3, <4>1 DEF Uses
    <3> QED
      BY <3>1, <3>2, <3>3, <3>4, <3>5
  <2> QED
    BY <2>2, <2>3
<1>9. QED
  BY <1>1, <1>5, <1>6, <1>8 DEF ConInv

\* For any number of requests and any values, whatever reads and writes of the console's
\* table fail: a page calls with what was stored when the console was last idle, what saves
\* were told since, or the environment's if a read failed (loadParams, Settings.Save).
THEOREM SavesAreUsed == ConSpec => []SavedIsUsed
<1>1. ConInit => ConInv
  <2> SUFFICES ASSUME ConInit PROVE ConInv
    OBVIOUS
  <2>1. ConTypeOK
    BY DEF ConInit, ConTypeOK, ConSteps, Pairs, Fields, Blank
  <2>2. QED
    BY <2>1 DEF ConInit, ConInv, Reading, About, Uses, Setting
<1>2. ConInv => SavedIsUsed
  BY DEF ConInv, Uses, SavedIsUsed
<1>3. QED
  BY <1>1, <1>2, ConInvInductive, PTL DEF ConSpec

-----------------------------------------------------------------------------
(* The settings of the cluster: the inductive invariant *)

Maps(K) == UNION {[D -> Values] : D \in SUBSET K}

\* Rows, forms and updates are of the right shape.  Nothing is shown to a saver but
\* between the load of the page and its post, and a page shows every key when it is done.
SettingTypes ==
  /\ rows \in [Keys -> Values \union {NULL}]
  /\ doing \in [Savers -> {"idle", "get", "form", "put", "setup"}]
  /\ shown \in [Savers -> Maps(Keys)]
  /\ sent \in [Savers -> Maps(Keys \union {Foreign})]
  /\ touched \in [Savers -> SUBSET (Keys \union {Foreign})]
  /\ alone \in [Savers -> BOOLEAN] /\ misread \in [Savers -> SUBSET Keys]
  /\ \A s \in Savers : /\ doing[s] \notin {"get", "form"} => DOMAIN shown[s] = {}
                       /\ doing[s] = "form" => DOMAIN shown[s] = Keys

\* What a page has read and shows is still stored, if no other saver has written since.
ShownIsStored(s) ==
  doing[s] \in {"get", "form"} /\ alone[s] =>
    \A k \in DOMAIN shown[s] \ misread[s] : shown[s][k] = IF rows[k] = NULL THEN Empty ELSE rows[k]

\* What is sent for a key its operator left alone means what is stored.
SentMeansStored(s) ==
  doing[s] = "put" /\ alone[s] =>
    \A k \in DOMAIN sent[s] \ (touched[s] \union Blanked(s)) :
      k \in Keys /\ rows[k] # NULL => Effective(k, sent[s][k]) = Effective(k, rows[k])

SettingsInv == SettingTypes /\ \A s \in Savers : ShownIsStored(s) /\ SentMeansStored(s)

-----------------------------------------------------------------------------
(* The settings of the cluster: the steps *)

\* A map is a function on some of the keys.
LEMMA MapIs ==
  ASSUME NEW K, NEW D \in SUBSET K, NEW f \in [D -> Values]
  PROVE  f \in Maps(K)
BY DEF Maps

LEMMA MapHas ==
  ASSUME NEW K, NEW f \in Maps(K)
  PROVE  DOMAIN f \in SUBSET K /\ f \in [DOMAIN f -> Values]
BY DEF Maps

\* The words of a key are values, and no value is NULL.
LEMMA WordsAreValues ==
  /\ \A k \in Keys \union {Foreign} : Words(k) \subseteq Values
  /\ {Empty, "true", "false", "1h", "x"} \subseteq Values
  /\ NULL \notin Values
<1>1. Words(Foreign) = {"x"} /\ Words(Days) = {"x"} /\ Days \in Keys
  BY DEF Words, Foreign, Days, Login, Cookie, Secret, Keys
<1>2. \A k \in Keys : Words(k) \subseteq Values
  BY DEF Values
<1>3. Words(Login) = {"true", "false"} /\ Words(Cookie) = {Empty, "1h"} /\ Words(Secret) = {Empty, "x"}
      /\ {Login, Cookie, Secret} \subseteq Keys
  BY DEF Words, Foreign, Days, Login, Cookie, Secret, Keys
<1> QED
  BY <1>1, <1>2, <1>3, NoRowIsNoValue

LEMMA NothingIsAMap ==
  Nothing \in Maps(Keys) /\ Nothing \in Maps(Keys \union {Foreign}) /\ DOMAIN Nothing = {}
BY DEF Maps, Nothing

LEMMA SettingsInvInit == SettingsInit => SettingsInv
<1> SUFFICES ASSUME SettingsInit PROVE SettingsInv
  OBVIOUS
<1>1. SettingTypes
  BY NothingIsAMap DEF SettingTypes, SettingsInit
<1> QED
  BY <1>1 DEF SettingsInv, SettingsInit, ShownIsStored, SentMeansStored, Blanked

\* A step that leaves the rows and what the other savers hold alone leaves their
\* part of the invariant alone.
LEMMA OthersKeep ==
  ASSUME SettingsInv, NEW s \in Savers, UNCHANGED rows,
         NEW r \in Savers, r # s,
         doing'[r] = doing[r], shown'[r] = shown[r], sent'[r] = sent[r],
         touched'[r] = touched[r], alone'[r] = alone[r], misread'[r] = misread[r]
  PROVE  ShownIsStored(r)' /\ SentMeansStored(r)'
BY DEF SettingsInv, ShownIsStored, SentMeansStored, Blanked

LEMMA ShowKeeps == ASSUME SettingsInv, NEW s \in Pages, Show(s) PROVE SettingsInv'
<1>1. s \in Savers /\ SettingTypes /\ DOMAIN shown[s] = {}
  BY DEF Savers, SettingsInv, SettingTypes, Show, At
<1>2. SettingTypes'
  BY <1>1 DEF SettingTypes, Show, At
<1>3. ShownIsStored(s)' /\ SentMeansStored(s)'
  BY <1>1 DEF SettingTypes, ShownIsStored, SentMeansStored, Show, At
<1>4. ASSUME NEW r \in Savers, r # s PROVE ShownIsStored(r)' /\ SentMeansStored(r)'
  BY <1>1, <1>4, OthersKeep DEF SettingTypes, Show, At
<1> QED
  BY <1>2, <1>3, <1>4 DEF SettingsInv

\* A read adds the value of one key to the page, "" for a row that is not there.
LEMMA ReadKeeps == ASSUME SettingsInv, NEW s \in Pages, Read(s) PROVE SettingsInv'
<1> DEFINE todo == Keys \ DOMAIN shown[s]
           k    == CHOOSE x \in todo : TRUE
<1>1. s \in Savers /\ SettingTypes /\ doing[s] = "get" /\ DOMAIN shown[s] \in SUBSET Keys
      /\ shown[s] \in [DOMAIN shown[s] -> Values] /\ UNCHANGED <<rows, sent, touched, alone>>
  <2>1. s \in Savers /\ SettingTypes /\ doing[s] = "get" /\ UNCHANGED <<rows, sent, touched, alone>>
    BY DEF Savers, SettingsInv, Read
  <2> QED
    BY <2>1, MapHas DEF SettingTypes
<1>2. CASE todo = {}
  <2>1. shown' = shown /\ misread' = misread /\ doing' = [doing EXCEPT ![s] = "form"] /\ DOMAIN shown[s] = Keys
    BY <1>1, <1>2 DEF Read, At
  <2>2. SettingTypes'
    BY <1>1, <2>1 DEF SettingTypes
  <2>3. ShownIsStored(s)' /\ SentMeansStored(s)'
    BY <1>1, <2>1 DEF SettingTypes, SettingsInv, ShownIsStored, SentMeansStored, Blanked
  <2>4. ASSUME NEW r \in Savers, r # s PROVE ShownIsStored(r)' /\ SentMeansStored(r)'
    BY <1>1, <2>1, <2>4, OthersKeep DEF SettingTypes
  <2> QED
    BY <2>2, <2>3, <2>4 DEF SettingsInv
<1>3. CASE todo # {}
  <2>0. PICK fails \in BOOLEAN :
          /\ shown' = [shown EXCEPT ![s] = [x \in DOMAIN shown[s] \union {k} |->
                IF x # k THEN shown[s][x] ELSE IF fails \/ rows[k] = NULL THEN Empty ELSE rows[k]]]
          /\ misread' = [misread EXCEPT ![s] = misread[s] \union {x \in {k} : fails}]
    BY <1>1, <1>3 DEF Read, SettingTypes
  <2> DEFINE D    == DOMAIN shown[s] \union {k}
             more == [x \in D |-> IF x # k THEN shown[s][x]
                                  ELSE IF fails \/ rows[k] = NULL THEN Empty ELSE rows[k]]
             missed == misread[s] \union {x \in {k} : fails}
  <2>1. k \in Keys /\ k \notin DOMAIN shown[s] /\ D \in SUBSET Keys
    BY <1>1, <1>3
  <2>2. doing' = doing /\ shown' = [shown EXCEPT ![s] = more]
    BY <1>1, <1>3, <2>0 DEF Read, At
  <2>3. more \in [D -> Values]
    <3>1. (IF fails \/ rows[k] = NULL THEN Empty ELSE rows[k]) \in Values
      BY <1>1, <2>1, WordsAreValues DEF SettingTypes
    <3> QED
      BY <1>1, <3>1
  <2>4. more \in Maps(Keys) /\ shown'[s] = more
    BY <1>1, <2>1, <2>2, <2>3, MapIs DEF SettingTypes
  <2>8. misread' = [misread EXCEPT ![s] = missed] /\ misread'[s] = missed /\ missed \in SUBSET Keys
    BY <1>1, <2>0, <2>1 DEF SettingTypes
  <2>9. misread[s] \subseteq missed /\ (fails => k \in missed)
    OBVIOUS
  <2> HIDE DEF D, more, missed
  <2>5. SettingTypes'
    BY <1>1, <2>2, <2>4, <2>8 DEF SettingTypes
  <2>6. ShownIsStored(s)' /\ SentMeansStored(s)'
    <3>1. ASSUME ShownIsStored(s), alone[s], NEW x \in D \ missed
          PROVE  more[x] = IF rows[x] = NULL THEN Empty ELSE rows[x]
      BY <1>1, <2>1, <2>9, <3>1 DEF ShownIsStored, D, more
    <3>2. DOMAIN more = D
      BY DEF more
    <3>3. ShownIsStored(s)
      BY <1>1 DEF SettingsInv
    <3> QED
      BY <1>1, <2>2, <2>4, <2>8, <3>1, <3>2, <3>3 DEF SettingTypes, ShownIsStored, SentMeansStored
  <2>7. ASSUME NEW r \in Savers, r # s PROVE ShownIsStored(r)' /\ SentMeansStored(r)'
    BY <1>1, <2>2, <2>7, <2>8, OthersKeep DEF SettingTypes
  <2> QED
    BY <2>5, <2>6, <2>7 DEF SettingsInv
<1> QED
  BY <1>2, <1>3

LEMMA FormIsOfKeys ==
  /\ FormKeys \subseteq Keys /\ FormKeys = {Login, Cookie, Secret}
  /\ Login # Cookie /\ Login # Secret /\ Cookie # Secret /\ Foreign \notin Keys
BY DEF FormKeys, Keys, Login, Cookie, Secret, Days, Foreign

\* A form posts, for a key its operator left alone, what means the stored value: not
\* the secret, and the box of the flag as it was ticked.
LEMMA FormMeansStored ==
  ASSUME NEW s \in Savers, SettingTypes, ShownIsStored(s), doing[s] = "form", alone[s],
         NEW form \in [FormKeys -> Values], NEW k \in DOMAIN Posted(form),
         form[k] = Masked(s, k), rows[k] # NULL, k \notin Blanked(s)
  PROVE  Effective(k, Posted(form)[k]) = Effective(k, rows[k])
<1>1. k \in FormKeys /\ Posted(form)[k] = form[k] /\ (k = Secret => form[k] # Empty)
  BY DEF Posted
<1>2. k # Secret
  BY <1>1 DEF Masked
<1>3. shown[s][k] = rows[k]
  BY <1>1, <1>2, FormIsOfKeys DEF SettingTypes, ShownIsStored, Blanked
<1>4. CASE k = Cookie
  BY <1>1, <1>2, <1>3, <1>4, FormIsOfKeys DEF Masked
<1>5. CASE k = Login
  <2>1. form[k] = IF rows[k] = "true" THEN "true" ELSE "false"
    BY <1>2, <1>3, <1>5 DEF Masked
  <2>2. NULL # "true" /\ NULL # "false"
    BY WordsAreValues
  <2>3. \A v : Effective(k, v) = (v \in {NULL, "true"})
    BY <1>5 DEF Effective, Login, Cookie, Secret, Days
  <2> QED
    BY <1>1, <2>1, <2>2, <2>3
<1> QED
  BY <1>1, <1>2, <1>4, <1>5, FormIsOfKeys

LEMMA PostKeeps == ASSUME SettingsInv, NEW s \in Pages, Post(s) PROVE SettingsInv'
<1>1. s \in Savers /\ SettingTypes /\ doing[s] = "form" /\ ShownIsStored(s)
  BY DEF Savers, SettingsInv, Post, At
<1>2. PICK form \in [FormKeys -> Values] :
        /\ sent' = [sent EXCEPT ![s] = Posted(form)]
        /\ touched' = [touched EXCEPT ![s] = {k \in FormKeys : form[k] # Masked(s, k)}]
  BY DEF Post
<1> DEFINE edits == {k \in FormKeys : form[k] # Masked(s, k)}
<1>3. /\ \A k \in FormKeys \ edits : form[k] = Masked(s, k)
      /\ edits \in SUBSET FormKeys
      /\ sent' = [sent EXCEPT ![s] = Posted(form)]
      /\ touched' = [touched EXCEPT ![s] = edits]
  BY <1>2
<1> HIDE DEF edits
<1>4. /\ doing' = [doing EXCEPT ![s] = "put"] /\ shown' = [shown EXCEPT ![s] = Nothing]
      /\ rows' = rows /\ alone' = alone /\ misread' = misread
  BY DEF Post, At, Quiet
<1>5. DOMAIN Posted(form) \in SUBSET FormKeys /\ Posted(form) \in [DOMAIN Posted(form) -> Values]
  BY DEF Posted
<1>6. Posted(form) \in Maps(Keys \union {Foreign}) /\ Nothing \in Maps(Keys) /\ DOMAIN Nothing = {}
  <2>1. DOMAIN Posted(form) \in SUBSET (Keys \union {Foreign})
    BY <1>5, FormIsOfKeys
  <2>2. Posted(form) \in Maps(Keys \union {Foreign})
    BY <1>5, <2>1, MapIs
  <2> QED
    BY <2>2, NothingIsAMap
<1>7. SettingTypes'
  BY <1>1, <1>3, <1>4, <1>6, FormIsOfKeys DEF SettingTypes
<1>8. ShownIsStored(s)' /\ SentMeansStored(s)'
  <2>1. sent'[s] = Posted(form) /\ touched'[s] = edits /\ doing'[s] = "put"
    BY <1>1, <1>3, <1>4 DEF SettingTypes
  <2>2. ASSUME alone[s], NEW k \in DOMAIN Posted(form) \ (edits \union Blanked(s)), rows[k] # NULL
        PROVE  Effective(k, Posted(form)[k]) = Effective(k, rows[k])
    BY <1>1, <1>3, <1>5, <2>2, FormMeansStored
  <2> QED
    BY <1>4, <2>1, <2>2 DEF ShownIsStored, SentMeansStored, Blanked
<1>9. ASSUME NEW r \in Savers, r # s PROVE ShownIsStored(r)' /\ SentMeansStored(r)'
  BY <1>1, <1>3, <1>4, <1>9, OthersKeep DEF SettingTypes
<1> QED
  BY <1>7, <1>8, <1>9 DEF SettingsInv

\* What a command is told is of its own keys, and all of it is told.
LEMMA SetKeeps == ASSUME SettingsInv, NEW s \in Commands, Set(s) PROVE SettingsInv'
<1>1. s \in Savers /\ SettingTypes /\ doing[s] = "idle"
  BY DEF Savers, SettingsInv, Set, At
<1>2. PICK k \in Keys \union {Foreign} : \E v \in Words(k) :
        sent' = [sent EXCEPT ![s] = [x \in {k} |-> v]] /\ touched' = [touched EXCEPT ![s] = {k}]
  BY DEF Set
<1>3. PICK v \in Words(k) :
        sent' = [sent EXCEPT ![s] = [x \in {k} |-> v]] /\ touched' = [touched EXCEPT ![s] = {k}]
  BY <1>2
<1>4. /\ doing' = [doing EXCEPT ![s] = "put"] /\ alone' = [alone EXCEPT ![s] = TRUE]
      /\ rows' = rows /\ shown' = shown /\ misread' = misread
  BY DEF Set, At
<1>5. [x \in {k} |-> v] \in Maps(Keys \union {Foreign})
  <2>1. [x \in {k} |-> v] \in [{k} -> Values] /\ {k} \in SUBSET (Keys \union {Foreign})
    BY WordsAreValues
  <2> QED
    BY <2>1, MapIs
<1>6. SettingTypes'
  BY <1>1, <1>3, <1>4, <1>5 DEF SettingTypes
<1>7. ShownIsStored(s)' /\ SentMeansStored(s)'
  BY <1>1, <1>3, <1>4 DEF SettingTypes, ShownIsStored, SentMeansStored
<1>8. ASSUME NEW r \in Savers, r # s PROVE ShownIsStored(r)' /\ SentMeansStored(r)'
  BY <1>1, <1>3, <1>4, <1>8, OthersKeep DEF SettingTypes
<1> QED
  BY <1>6, <1>7, <1>8 DEF SettingsInv

LEMMA AnswerKeeps == ASSUME SettingsInv, NEW s \in Commands, Answer(s) PROVE SettingsInv'
<1>1. s \in Savers /\ SettingTypes /\ doing[s] = "idle"
  BY DEF Savers, SettingsInv, Answer, At
<1>0. PICK f \in [FormKeys -> Values] : \E given \in SUBSET FormKeys :
        sent' = [sent EXCEPT ![s] = f] /\ touched' = [touched EXCEPT ![s] = given]
  <2>1. PICK f \in [FormKeys -> Values] :
          /\ sent' = [sent EXCEPT ![s] = f]
          /\ touched' = [touched EXCEPT ![s] = {k \in FormKeys : f[k] # Unasked(k)}]
    BY DEF Answer
  <2> QED
    BY <2>1
<1>2. PICK given \in SUBSET FormKeys :
        sent' = [sent EXCEPT ![s] = f] /\ touched' = [touched EXCEPT ![s] = given]
  BY <1>0
<1>3. /\ doing' = [doing EXCEPT ![s] = "setup"] /\ alone' = [alone EXCEPT ![s] = TRUE]
      /\ rows' = rows /\ shown' = shown /\ misread' = misread
  BY DEF Answer, At
<1>4. f \in Maps(Keys \union {Foreign})
  <2>1. FormKeys \in SUBSET (Keys \union {Foreign})
    BY FormIsOfKeys
  <2> QED
    BY <2>1, MapIs
<1>5. SettingTypes'
  BY <1>1, <1>2, <1>3, <1>4, FormIsOfKeys DEF SettingTypes
<1>6. ShownIsStored(s)' /\ SentMeansStored(s)'
  BY <1>1, <1>3 DEF SettingTypes, ShownIsStored, SentMeansStored
<1>7. ASSUME NEW r \in Savers, r # s PROVE ShownIsStored(r)' /\ SentMeansStored(r)'
  BY <1>1, <1>2, <1>3, <1>7, OthersKeep DEF SettingTypes
<1> QED
  BY <1>5, <1>6, <1>7 DEF SettingsInv

LEMMA LeaveKeeps == ASSUME SettingsInv, NEW s \in Savers, Leave(s), rows' = rows PROVE SettingsInv'
<1>1. SettingTypes'
  BY NothingIsAMap DEF SettingsInv, SettingTypes, Leave, Quiet
<1>2. ShownIsStored(s)' /\ SentMeansStored(s)'
  BY DEF SettingsInv, SettingTypes, ShownIsStored, SentMeansStored, Leave, Quiet
<1>3. ASSUME NEW r \in Savers, r # s PROVE ShownIsStored(r)' /\ SentMeansStored(r)'
  BY <1>3, OthersKeep DEF SettingsInv, SettingTypes, Leave, Quiet
<1> QED
  BY <1>1, <1>2, <1>3 DEF SettingsInv

\* A write changes one row, and none but its own saver goes on alone.
LEMMA WriteIs ==
  ASSUME SettingTypes, NEW s \in Savers, Write(s)
  PROVE  \E k \in Keys :
           /\ k \in DOMAIN sent[s] /\ sent[s] \in [DOMAIN sent[s] -> Values] /\ DOMAIN sent[s] \subseteq Keys
           /\ rows' = [rows EXCEPT ![k] = sent[s][k]]
           /\ sent' = [sent EXCEPT ![s] = [x \in DOMAIN sent[s] \ {k} |-> sent[s][x]]]
           /\ touched' = [touched EXCEPT ![s] = touched[s] \ {k}]
<1>1. DOMAIN sent[s] \subseteq Keys /\ sent[s] \in [DOMAIN sent[s] -> Values]
  BY MapHas DEF SettingTypes, Write
<1> QED
  BY <1>1 DEF SettingTypes, Write

LEMMA WriteKeeps == ASSUME SettingsInv, NEW s \in Savers, Write(s) PROVE SettingsInv'
<1>1. SettingTypes
  BY DEF SettingsInv
<1>2. PICK k \in Keys :
        /\ k \in DOMAIN sent[s] /\ sent[s] \in [DOMAIN sent[s] -> Values] /\ DOMAIN sent[s] \subseteq Keys
        /\ rows' = [rows EXCEPT ![k] = sent[s][k]]
        /\ sent' = [sent EXCEPT ![s] = [x \in DOMAIN sent[s] \ {k} |-> sent[s][x]]]
        /\ touched' = [touched EXCEPT ![s] = touched[s] \ {k}]
  BY <1>1, WriteIs
<1>3. /\ doing' = doing /\ shown' = shown /\ misread' = misread /\ doing[s] \in {"put", "setup"}
      /\ alone' = [r \in Savers |-> alone[r] /\ (r = s \/ doing[r] = "idle")]
  BY DEF Write
<1> DEFINE rest == [x \in DOMAIN sent[s] \ {k} |-> sent[s][x]]
<1>4. rest \in Maps(Keys \union {Foreign}) /\ DOMAIN rest = DOMAIN sent[s] \ {k}
  <2>1. rest \in [DOMAIN sent[s] \ {k} -> Values]
    BY <1>2
  <2>2. DOMAIN sent[s] \ {k} \in SUBSET (Keys \union {Foreign})
    BY <1>2
  <2> QED
    BY <2>1, <2>2, MapIs
<1>5. sent'[s] = rest /\ \A x \in DOMAIN rest : x # k /\ rest[x] = sent[s][x]
  BY <1>1, <1>2 DEF SettingTypes
<1> HIDE DEF rest
<1>6. SettingTypes'
  <2>1. rows' \in [Keys -> Values \union {NULL}]
    BY <1>1, <1>2 DEF SettingTypes
  <2>2. sent' \in [Savers -> Maps(Keys \union {Foreign})]
    BY <1>1, <1>2, <1>4 DEF SettingTypes, rest
  <2>3. touched' \in [Savers -> SUBSET (Keys \union {Foreign})] /\ alone' \in [Savers -> BOOLEAN]
    BY <1>1, <1>2, <1>3 DEF SettingTypes
  <2> QED
    BY <1>1, <1>3, <2>1, <2>2, <2>3 DEF SettingTypes
<1>7. ASSUME NEW r \in Savers PROVE ShownIsStored(r)' /\ SentMeansStored(r)'
  <2>1. CASE r = s
    <3>1. ShownIsStored(s)'
      BY <1>3 DEF ShownIsStored
    <3>2. ASSUME doing[s] = "put", alone[s], NEW x \in DOMAIN rest \ (touched'[s] \union Blanked(s)), x \in Keys, rows'[x] # NULL
          PROVE  Effective(x, rest[x]) = Effective(x, rows'[x])
      <4>1. x # k /\ rest[x] = sent[s][x] /\ rows'[x] = rows[x] /\ x \in DOMAIN sent[s] \ (touched[s] \union Blanked(s))
        BY <1>1, <1>2, <1>4, <1>5, <3>2 DEF SettingTypes
      <4> QED
        BY <3>2, <4>1 DEF SettingsInv, SentMeansStored
    <3> QED
      BY <1>3, <1>5, <2>1, <3>1, <3>2 DEF SentMeansStored, Blanked
  <2>2. CASE r # s
    BY <1>3, <2>2 DEF ShownIsStored, SentMeansStored, Blanked
  <2> QED
    BY <2>1, <2>2
<1> QED
  BY <1>6, <1>7 DEF SettingsInv

LEMMA SettingsInvStep == SettingsInv /\ [SettingsNext]_settingVars => SettingsInv'
<1> SUFFICES ASSUME SettingsInv, [SettingsNext]_settingVars PROVE SettingsInv'
  OBVIOUS
<1>1. ASSUME NEW s \in Pages, Show(s) \/ Read(s) \/ Post(s) PROVE SettingsInv'
  BY <1>1, ShowKeeps, ReadKeeps, PostKeeps
<1>2. ASSUME NEW s \in Commands, Set(s) \/ Answer(s) \/ Refuse(s) PROVE SettingsInv'
  BY <1>2, SetKeeps, AnswerKeeps, LeaveKeeps DEF Refuse, Savers
<1>3. ASSUME NEW s \in Savers, Write(s) \/ EndUpdate(s) PROVE SettingsInv'
  BY <1>3, WriteKeeps, LeaveKeeps DEF EndUpdate
<1>4. CASE UNCHANGED settingVars
  BY <1>4 DEF settingVars, SettingsInv, SettingTypes, ShownIsStored, SentMeansStored, Blanked
<1> QED
  BY <1>1, <1>2, <1>3, <1>4 DEF SettingsNext

\* A step that changes a row is a write, and one that changes what s has yet to send as
\* well is its own.
LEMMA UntouchedStep ==
  ASSUME SettingsInv, [SettingsNext]_settingVars, NEW s \in Savers, NEW k \in Keys,
         doing[s] = "put", Writes(s, k), k \notin touched[s] \union Blanked(s), rows[k] # NULL
  PROVE  Same(k)
<1>1. PICK r \in Savers : Write(r)
  BY DEF Writes, SettingsNext, settingVars, Show, Read, Post, Set, Answer, Refuse, EndUpdate, Savers
<1>2. SettingTypes /\ SentMeansStored(s)
  BY DEF SettingsInv
<1>3. Write(s)
  <2>1. \E v : sent' = [sent EXCEPT ![r] = v]
    BY <1>1, <1>2, WriteIs
  <2>2. r = s
    BY <1>2, <2>1 DEF Writes, SettingTypes
  <2> QED
    BY <1>1, <2>2
<1>4. PICK j \in Keys :
        /\ j \in DOMAIN sent[s] /\ sent[s] \in [DOMAIN sent[s] -> Values] /\ DOMAIN sent[s] \subseteq Keys
        /\ rows' = [rows EXCEPT ![j] = sent[s][j]]
        /\ sent' = [sent EXCEPT ![s] = [x \in DOMAIN sent[s] \ {j} |-> sent[s][x]]]
        /\ touched' = [touched EXCEPT ![s] = touched[s] \ {j}]
  BY <1>2, <1>3, WriteIs
<1>5. j = k /\ rows'[k] = sent[s][k]
  BY <1>2, <1>4 DEF Writes, SettingTypes
<1> QED
  BY <1>2, <1>4, <1>5 DEF Writes, SentMeansStored, Same

-----------------------------------------------------------------------------
\* For any pages, commands and keys of the four kinds, however saves come one after the
\* other, whichever are cut off and whichever reads fail: a save that no other overlaps
\* changes what the cluster makes of a stored setting only where its operator gave it a
\* value or the page could not read it (maskClusterSettings, ClusterSettingsSave, Local.Update).
THEOREM SavesLeaveTheRest == SettingsSpec => UntouchedStays
<1>1. SettingsSpec => []SettingsInv
  <2>1. SettingsInit => SettingsInv
    BY SettingsInvInit
  <2>2. SettingsInv /\ [SettingsNext]_settingVars => SettingsInv'
    BY SettingsInvStep
  <2> QED
    BY <2>1, <2>2, PTL DEF SettingsSpec
<1>2. SettingsInv /\ [SettingsNext]_settingVars
        => [\A s \in Savers, k \in Keys :
              doing[s] = "put" /\ Writes(s, k) /\ k \notin touched[s] \union Blanked(s) /\ rows[k] # NULL
                => Same(k)]_settingVars
  BY UntouchedStep
<1> QED
  BY <1>1, <1>2, PTL DEF SettingsSpec, UntouchedStays

-----------------------------------------------------------------------------
(* Manifests: what the replacements make of a text *)

\* A non-empty set of numbers has a least one.
LEMMA Leasts ==
  ASSUME NEW T \in SUBSET Nat, T # {}
  PROVE  \E k \in T : \A i \in T : ~(i < k)
<1>1. \E k \in T : \A i \in T : ~ (<<i, k>> \in OpToRel(<, Nat))
  BY NatLessThanWellFounded, WFMin, Zenon
<1> QED
  BY <1>1 DEF OpToRel

\* A sequence of texts put together is a text over the same atoms.
LEMMA FlattenType ==
  ASSUME NEW S, NEW ss \in Seq(Seq(S))
  PROVE  FlattenSeq(ss) \in Seq(S)
<1> DEFINE n      == Len(ss)
           Sums(f, k) == f = [i \in 1 .. k |-> IF i = 1 THEN ss[i] ELSE f[i - 1] \o ss[i]]
           flat   == CHOOSE f : Sums(f, n)
<1>1. n \in Nat /\ \A i \in 1 .. n : ss[i] \in Seq(S)
  OBVIOUS
<1>2. CASE n = 0
  BY <1>2 DEF FlattenSeq
<1>3. CASE n # 0
  <2>1. FlattenSeq(ss) = flat[n]
    BY <1>3 DEF FlattenSeq
  <2>2. \A k \in 1 .. n : \E f : Sums(f, k)
    <3> DEFINE T == {k \in 1 .. n : ~ \E f : Sums(f, k)}
    <3> SUFFICES ASSUME T # {} PROVE FALSE
      OBVIOUS
    <3>1. PICK k \in T : \A i \in T : ~(i < k)
      <4>1. T \in SUBSET Nat
        <5>1. 1 .. n \subseteq Nat
          BY <1>1
        <5> HIDE DEF n, Sums
        <5> QED
          BY <5>1
      <4> HIDE DEF T
      <4> QED
        BY <4>1, Leasts
    <3>2. CASE k = 1
      <4>1. Sums([i \in 1 .. 1 |-> ss[i]], 1)
        OBVIOUS
      <4> HIDE DEF Sums
      <4> QED
        BY <3>1, <3>2, <4>1
    <3>3. CASE k # 1
      <4>1. k \in 2 .. n /\ k - 1 \in 1 .. n /\ k - 1 < k
        BY <1>1, <3>1, <3>3
      <4>2. PICK f : Sums(f, k - 1)
        <5> HIDE DEF Sums
        <5> QED
          BY <3>1, <4>1
      <4> DEFINE h == [i \in 1 .. k |-> IF i = k THEN f[k - 1] \o ss[k] ELSE f[i]]
      <4>3. ASSUME NEW i \in 1 .. k PROVE h[i] = IF i = 1 THEN ss[i] ELSE h[i - 1] \o ss[i]
        <5>1. i \in 1 .. k - 1 => f[i] = IF i = 1 THEN ss[i] ELSE f[i - 1] \o ss[i]
          BY <4>2
        <5>2. i # 1 => i - 1 \in 1 .. k - 1 /\ i - 1 \in 1 .. k /\ i - 1 # k
          BY <4>1, <4>3
        <5>3. i # k => i \in 1 .. k - 1
          BY <4>1, <4>3
        <5> HIDE DEF Sums, n
        <5>4. i # 1 => h[i - 1] = f[i - 1]
          BY <5>2
        <5> QED
          BY <4>1, <4>3, <5>1, <5>3, <5>4
      <4>4. Sums(h, k)
        BY <4>3
      <4> HIDE DEF Sums, h
      <4> QED
        BY <3>1, <4>4
    <3> QED
      BY <3>2, <3>3
  <2>3. Sums(flat, n)
    <3>1. \E f : Sums(f, n)
      <4> HIDE DEF Sums
      <4> QED
        BY <1>1, <1>3, <2>2
    <3> HIDE DEF Sums
    <3> QED
      BY <3>1
  <2> HIDE DEF flat
  <2>4. \A k \in 1 .. n : flat[k] \in Seq(S)
    <3> DEFINE T == {k \in 1 .. n : flat[k] \notin Seq(S)}
    <3> SUFFICES ASSUME T # {} PROVE FALSE
      OBVIOUS
    <3>1. PICK k \in T : \A i \in T : ~(i < k)
      <4>1. T \in SUBSET Nat
        BY <1>1
      <4> HIDE DEF T
      <4> QED
        BY <4>1, Leasts
    <3>2. flat[k] = IF k = 1 THEN ss[k] ELSE flat[k - 1] \o ss[k]
      BY <2>3, <3>1
    <3>3. k # 1 => flat[k - 1] \in Seq(S)
      BY <1>1, <3>1
    <3>4. ss[k] \in Seq(S) /\ flat[k] \notin Seq(S)
      BY <1>1, <3>1
    <3>5. \A s, t \in Seq(S) : s \o t \in Seq(S)
      OBVIOUS
    <3> QED
      BY <3>2, <3>3, <3>4, <3>5
  <2> QED
    BY <1>1, <1>3, <2>1, <2>4
<1> QED
  BY <1>2, <1>3

Symbols == Literals \union Placeholder
Bare    == Symbols \ Builtins
Clean   == Symbols \ Placeholder

\* Nothing that an app puts in for a placeholder holds one that is not put in after it.
Tame(m) == Flat(m) /\ ~Has(m.name, Builtins)

\* What puts a text for every atom of another makes texts of it.
LEMMA PiecesType ==
  ASSUME NEW S, NEW T, NEW t \in Seq(S), NEW f, f = [i \in DOMAIN t |-> f[i]],
         \A i \in DOMAIN t : f[i] \in Seq(T)
  PROVE  f \in Seq(Seq(T))
<1>1. Len(t) \in Nat /\ DOMAIN t = 1 .. Len(t)
  OBVIOUS
<1>2. f \in [1 .. Len(t) -> Seq(T)]
  BY <1>1
<1> QED
  BY <1>1, <1>2, SeqDef

\* ReplaceAll takes the atom out that it replaces, and puts nothing in that the value does
\* not hold.
LEMMA ReplaceType ==
  ASSUME NEW S, NEW U, NEW t \in Seq(S), NEW p, NEW v \in Seq(U), S \ {p} \subseteq U
  PROVE  Replace(t, p, v) \in Seq(U)
<1> DEFINE pieces == [i \in DOMAIN t |-> IF t[i] = p THEN v ELSE <<t[i]>>]
<1>1. ASSUME NEW i \in DOMAIN t PROVE (IF t[i] = p THEN v ELSE <<t[i]>>) \in Seq(U)
  <2>1. t[i] \in S
    OBVIOUS
  <2>2. t[i] # p => <<t[i]>> \in Seq(U)
    BY <2>1
  <2> QED
    BY <2>2
<1>2. pieces \in Seq(Seq(U))
  BY <1>1, PiecesType
<1> QED
  BY <1>2, FlattenType DEF Replace

LEMMA BareText ==
  ASSUME NEW t \in Texts, ~Has(t, Builtins)
  PROVE  t \in Seq(Bare)
BY DEF Texts, Has, Bare, Symbols

LEMMA CleanText ==
  ASSUME NEW t \in Texts, ~Has(t, Placeholder)
  PROVE  t \in Seq(Clean)
BY DEF Texts, Has, Clean, Symbols

LEMMA CleanHasNone ==
  ASSUME NEW t \in Seq(Clean)
  PROVE  ~Has(t, Placeholder)
BY DEF Has, Clean

LEMMA CleanTail ==
  ASSUME NEW t \in Texts, t # <<>>
  PROVE  Tail(t) \in Texts /\ (t \in Seq(Clean) => Tail(t) \in Seq(Clean))
BY DEF Texts

LEMMA HasInConcat ==
  ASSUME NEW S, NEW s \in Seq(S), NEW t \in Seq(S), NEW atoms, Has(s, atoms) \/ Has(t, atoms)
  PROVE  Has(s \o t, atoms)
<1>1. /\ Len(s) \in Nat /\ Len(t) \in Nat /\ DOMAIN s = 1 .. Len(s) /\ DOMAIN t = 1 .. Len(t)
      /\ DOMAIN (s \o t) = 1 .. Len(s) + Len(t)
  BY ConcatProperties
<1>2. ASSUME NEW i \in DOMAIN s, s[i] \in atoms PROVE Has(s \o t, atoms)
  <2>1. i \in 1 .. Len(s) + Len(t) /\ i <= Len(s)
    BY <1>1
  <2>2. (s \o t)[i] = s[i]
    BY <2>1, ConcatProperties
  <2> QED
    BY <1>1, <1>2, <2>1, <2>2 DEF Has
<1>3. ASSUME NEW i \in DOMAIN t, t[i] \in atoms PROVE Has(s \o t, atoms)
  <2> DEFINE j == i + Len(s)
  <2>1. j \in 1 .. Len(s) + Len(t) /\ ~(j <= Len(s)) /\ j - Len(s) = i
    BY <1>1
  <2>2. (s \o t)[j] = t[i]
    BY <2>1, ConcatProperties
  <2> QED
    BY <1>1, <1>3, <2>1, <2>2 DEF Has
<1> QED
  BY <1>2, <1>3 DEF Has

LEMMA ValueType ==
  ASSUME NEW m, ManifestType(m), NEW p \in Builtins
  PROVE  /\ Value(m, p) \in Texts
         /\ Tame(m) => Value(m, p) \in Seq(Bare)
<1>1. {m.name, m.env, m.domain} \subseteq Texts
  BY DEF ManifestType
<1>2. Value(m, p) \in {m.name, m.env, m.domain}
  BY DEF Value, Builtins
<1>4. m.domain \in Seq(Symbols) /\ m.env \in Seq(Symbols)
  BY <1>1 DEF Texts, Symbols
<1>3. ASSUME Tame(m) PROVE ~Has(m.name, Builtins) /\ ~Has(m.env, Builtins) /\ ~Has(m.domain, Builtins)
  <2>1. ~Has(m.domain \o m.env, Builtins) /\ ~Has(m.name, Builtins)
    BY <1>3 DEF Tame, Flat
  <2> QED
    BY <1>4, <2>1, HasInConcat
<1>5. Tame(m) => \A t \in {m.name, m.env, m.domain} : t \in Seq(Bare)
  BY <1>1, <1>3, BareText
<1> QED
  BY <1>1, <1>2, <1>5

\* The three replacements in any order: none of what they replace is left where no value
\* brings it back.
LEMMA SubstitutedType ==
  ASSUME NEW m, ManifestType(m), NEW t \in Texts, NEW s \in Substituted(m, t)
  PROVE  /\ s \in Texts
         /\ Tame(m) => s \in Seq(Bare)
<1>1. PICK o \in Orders : s = Put(m, Put(m, Put(m, t, o[1]), o[2]), o[3])
  BY DEF Substituted
<1>2. {o[1], o[2], o[3]} = Builtins
  <2>1. o[1] \in Builtins /\ o[2] \in Builtins /\ o[3] \in Builtins
        /\ o[1] # o[2] /\ o[1] # o[3] /\ o[2] # o[3]
    BY DEF Orders
  <2>2. ASSUME NEW x, NEW y, NEW z, NEW a, NEW b, NEW c, {x, y, z} \subseteq {a, b, c},
               x # y, x # z, y # z
        PROVE  {x, y, z} = {a, b, c}
    BY <2>2
  <2>3. {o[1], o[2], o[3]} \subseteq {"${app}", "${env}", "${domain}"}
    BY <2>1 DEF Builtins
  <2>4. {o[1], o[2], o[3]} = {"${app}", "${env}", "${domain}"}
    BY <2>1, <2>2, <2>3
  <2> QED
    BY <2>4 DEF Builtins
<1>3. ASSUME NEW S, NEW U, NEW x \in Seq(S), NEW p \in Builtins, Value(m, p) \in Seq(U), S \ {p} \subseteq U
      PROVE  Put(m, x, p) \in Seq(U)
  BY <1>3, ReplaceType DEF Put
<1>4. s \in Texts
  <2>1. \A x \in Texts, p \in Builtins : Put(m, x, p) \in Texts
    BY <1>3, ValueType DEF Texts
  <2> QED
    BY <1>1, <1>2, <2>1
<1>5. ASSUME Tame(m) PROVE s \in Seq(Bare)
  <2> DEFINE S1 == Symbols \ {o[1]}
             S2 == S1 \ {o[2]}
  <2>1. \A p \in Builtins : Value(m, p) \in Seq(Bare)
    BY <1>5, ValueType
  <2>2. Bare = S2 \ {o[3]} /\ Bare \subseteq S1 /\ Bare \subseteq S2
    BY <1>2 DEF Bare
  <2>3. \A p \in Builtins : Value(m, p) \in Seq(S1) /\ Value(m, p) \in Seq(S2)
    BY <2>1, <2>2
  <2>4. t \in Seq(Symbols)
    BY DEF Texts, Symbols
  <2>5. Put(m, t, o[1]) \in Seq(S1)
    BY <1>2, <1>3, <2>3, <2>4
  <2>6. Put(m, Put(m, t, o[1]), o[2]) \in Seq(S2)
    BY <1>2, <1>3, <2>3, <2>5
  <2>7. Put(m, Put(m, Put(m, t, o[1]), o[2]), o[3]) \in Seq(Bare)
    BY <1>2, <1>3, <2>1, <2>2, <2>6
  <2> QED
    BY <1>1, <2>7
<1> QED
  BY <1>4, <1>5

\* The values of the environment take the place of the last placeholders.
LEMMA GetenvType ==
  ASSUME NEW t, NEW S, t \in Seq(S), NEW U, S \ Variables \subseteq U,
         \A v \in DOMAIN Environment : Environment[v] \in Seq(U)
  PROVE  Getenv(t) # NULL => Getenv(t) \in Seq(U)
<1> DEFINE pieces == [i \in DOMAIN t |-> IF t[i] \in DOMAIN Environment THEN Environment[t[i]] ELSE <<t[i]>>]
<1>1. ASSUME ~Has(t, Variables \ DOMAIN Environment), NEW i \in DOMAIN t
      PROVE  (IF t[i] \in DOMAIN Environment THEN Environment[t[i]] ELSE <<t[i]>>) \in Seq(U)
  <2>1. t[i] \in S /\ t[i] \notin Variables \ DOMAIN Environment
    BY <1>1 DEF Has
  <2>2. t[i] \notin DOMAIN Environment => <<t[i]>> \in Seq(U)
    <3>1. t[i] \notin DOMAIN Environment => t[i] \in U
      BY <2>1
    <3> QED
      BY <3>1
  <2> QED
    BY <2>2
<1>2. ~Has(t, Variables \ DOMAIN Environment) => pieces \in Seq(Seq(U))
  BY <1>1, PiecesType
<1>3. ~Has(t, Variables \ DOMAIN Environment) => FlattenSeq(pieces) \in Seq(U)
  BY <1>2, FlattenType
<1> QED
  BY <1>3 DEF Getenv

LEMMA OutcomeType ==
  ASSUME NEW m, ManifestType(m), NEW t \in Texts, NEW x \in Outcomes(m, t), x # NULL
  PROVE  /\ x \in Texts
         /\ Tame(m) => x \in Seq(Clean)
<1>1. PICK s \in Substituted(m, t) : x = Getenv(s)
  BY DEF Outcomes
<1>2. s \in Texts /\ (Tame(m) => s \in Seq(Bare))
  BY SubstitutedType
<1>3. \A v \in DOMAIN Environment : Environment[v] \in Texts
  BY ManifestConstants
<1>4. x \in Texts
  BY <1>1, <1>2, <1>3, GetenvType DEF Texts
<1>5. ASSUME Tame(m) PROVE x \in Seq(Clean)
  <2>1. \A v \in DOMAIN Environment : Environment[v] \in Seq(Clean)
    BY <1>3, <1>5, CleanText DEF Tame, Flat
  <2>2. Bare \ Variables \subseteq Clean
    BY DEF Bare, Clean, Placeholder
  <2> QED
    BY <1>1, <1>2, <1>5, <2>1, <2>2, GetenvType
<1> QED
  BY <1>4, <1>5

-----------------------------------------------------------------------------
(* Manifests: the inductive invariant *)

IsClean(s) == ServiceTexts(s) \subseteq Seq(Clean)

\* What a rendered or deployed service d of a file that declares secrets has to be.
IsClosed(d, secrets) ==
  /\ d.mounts \subseteq secrets
  /\ d.env # <<>> /\ Head(d.env) = "/run/secrets" => Tail(d.env) \in d.mounts
IsResolved(d) ==
  /\ ~Has(d.image, Placeholder) /\ ~Has(d.command, Placeholder)
  /\ Has(d.env, Placeholder) => \E x \in DOMAIN ConfigContent : d.env = ConfigContent[x]

ManifestInv ==
  /\ stage \in {"none", "parsed", "interpolated", "valid", "built"}
  /\ stage # "none" => ManifestType(written)
  /\ stage = "parsed" => app = written
  /\ stage \in {"interpolated", "valid"} =>
       /\ ManifestType(app) /\ app.name = written.name
       /\ Tame(written) => \A n \in DOMAIN app.services : IsClean(app.services[n])
  /\ stage = "valid" =>
       /\ ~Has(app.name, Placeholder)
       /\ \A n \in DOMAIN app.services : EnvIsMounted(app.services[n])
  /\ stage = "built" =>
       \A n \in DOMAIN ir.services : LET s == ir.services[n] IN
         /\ IsClosed(s, ir.secrets)
         /\ Flat(written) => /\ IsResolved(s) /\ ~Has(s.host, Placeholder) /\ ~Has(s.alias, Placeholder)
                             /\ ~Has(Directory(ir.name, s.volume)[2], Placeholder)
  /\ stacks \in [AppNames -> {stacks[a] : a \in AppNames}]
  /\ RenderingIsClosed

\* An interpolated service has the fields of a service.
LEMMA InterpolatedServiceType ==
  ASSUME NEW m, ManifestType(m), NEW s \in ServiceType, NEW x \in InterpolateService(m, s),
         NULL \notin ServiceTexts(x)
  PROVE  x \in ServiceType /\ (Tame(m) => IsClean(x))
<1>1. ServiceTexts(s) \subseteq Texts
  BY DEF ServiceType, ServiceTexts
<1>2. PICK t \in [image : Outcomes(m, s.image), command : Outcomes(m, s.command), env : Outcomes(m, s.env),
                  volume : Outcomes(m, s.volume), host : Outcomes(m, s.host), alias : Outcomes(m, s.alias)] :
        x = [s EXCEPT !.image = t.image, !.command = t.command, !.env = t.env, !.volume = t.volume,
                      !.host = t.host, !.alias = t.alias]
  BY DEF InterpolateService
<1>3. /\ x.image = t.image /\ x.command = t.command /\ x.env = t.env /\ x.volume = t.volume
      /\ x.host = t.host /\ x.alias = t.alias
  BY <1>2 DEF ServiceType
<1>4. /\ t.image # NULL /\ t.command # NULL /\ t.env # NULL /\ t.volume # NULL
      /\ t.host # NULL /\ t.alias # NULL
  BY <1>3 DEF ServiceTexts
<1>5. ASSUME NEW w \in ServiceTexts(s), NEW o \in Outcomes(m, w), o # NULL
      PROVE  o \in Texts /\ (Tame(m) => o \in Seq(Clean))
  BY <1>1, <1>5, OutcomeType
<1>6. \A o \in ServiceTexts(x) : o \in Texts /\ (Tame(m) => o \in Seq(Clean))
  BY <1>2, <1>3, <1>4, <1>5 DEF ServiceTexts
<1>7. x \in ServiceType
  <2>1. x.image \in Texts /\ x.command \in Texts /\ x.env \in Texts /\ x.volume \in Texts
        /\ x.host \in Texts /\ x.alias \in Texts
    BY <1>6 DEF ServiceTexts
  <2> QED
    BY <1>2, <1>3, <2>1 DEF ServiceType
<1> QED
  BY <1>6, <1>7 DEF IsClean

\* An interpolated manifest is one, under the same name.
LEMMA InterpolatedType ==
  ASSUME NEW m, ManifestType(m), NEW x \in Interpolated(m), ~Unresolved(x)
  PROVE  /\ ManifestType(x) /\ x.name = m.name
         /\ Tame(m) => \A n \in DOMAIN x.services : IsClean(x.services[n])
<1>1. PICK u \in [domain : Outcomes(m, m.domain), secret : Outcomes(m, m.secret),
                  services : InterpolatedServices(m)] :
        x = [m EXCEPT !.domain = u.domain, !.secret = u.secret, !.services = u.services]
  BY DEF Interpolated
<1> DEFINE d  == u.domain
           t  == u.secret
           sv == u.services
<1>2. /\ x = [name |-> m.name, env |-> m.env, domain |-> d, secret |-> t,
              services |-> sv, unknownKey |-> m.unknownKey]
      /\ DOMAIN sv = DOMAIN m.services /\ sv = [n \in DOMAIN sv |-> sv[n]]
      /\ \A n \in DOMAIN m.services : sv[n] \in InterpolateService(m, m.services[n])
  BY <1>1 DEF ManifestType, InterpolatedServices
<1>3. d # NULL /\ t # NULL /\ \A n \in DOMAIN sv : NULL \notin ServiceTexts(sv[n])
  BY <1>2 DEF Unresolved
<1>4. d \in Texts /\ t \in Texts
  BY <1>3, OutcomeType DEF ManifestType
<1>5. ASSUME NEW n \in DOMAIN sv PROVE sv[n] \in ServiceType /\ (Tame(m) => IsClean(sv[n]))
  <2>1. m.services[n] \in ServiceType
    BY <1>2 DEF ManifestType
  <2> QED
    BY <1>1, <1>2, <1>3, <2>1, InterpolatedServiceType
<1>6. sv \in [DOMAIN sv -> ServiceType]
  BY <1>2, <1>5
<1>7. ManifestType(x)
  BY <1>2, <1>4, <1>6 DEF ManifestType
<1> QED
  BY <1>2, <1>5, <1>7

\* What a service's value of the environment is rendered to: a path it mounts, or a text
\* that does not look like one.
LEMMA ResolvedEnv ==
  ASSUME NEW s \in ServiceType, EnvIsMounted(s), Resolves(s)
  PROVE  /\ Resolved(s) # <<>> /\ Head(Resolved(s)) = "/run/secrets" => Tail(Resolved(s)) \in s.mounts
         /\ IsClean(s) /\ Has(Resolved(s), Placeholder) =>
              \E x \in DOMAIN ConfigContent : Resolved(s) = ConfigContent[x]
<1>1. s.env \in Texts
  BY DEF ServiceType
<1>2. ASSUME NEW t \in Texts, t # <<>> PROVE Head(t) # "/run/secrets"
  <2>1. Head(t) \in Symbols
    BY <1>2 DEF Texts, Symbols
  <2>2. "/run/secrets" \notin Symbols
    BY ManifestConstants DEF Symbols, Placeholder, Builtins, Variables
  <2> QED
    BY <2>1, <2>2
<1>3. IsClean(s) => s.env \in Seq(Clean)
  BY DEF IsClean, ServiceTexts
<1>4. CASE ~Refers(s.env, "secrets()") /\ ~Refers(s.env, "config()")
  <2>1. Resolved(s) = s.env
    BY <1>4 DEF Resolved
  <2> QED
    BY <1>1, <1>2, <1>3, <2>1, CleanHasNone
<1>5. CASE ~Refers(s.env, "secrets()") /\ Refers(s.env, "config()")
  <2>1. /\ Resolved(s) = ConfigContent[Tail(s.env)] /\ Tail(s.env) \in DOMAIN ConfigContent
        /\ ConfigContent[Tail(s.env)] \in Texts
    BY <1>5, ManifestConstants DEF Resolved, Resolves
  <2> QED
    BY <1>2, <2>1
<1>6. CASE Refers(s.env, "secrets()")
  <2> DEFINE t == Tail(s.env)
  <2>1. s.env # <<>> /\ ~Refers(s.env, "config()")
    BY <1>6 DEF Refers
  <2>2. Resolved(s) = <<"/run/secrets">> \o t /\ t \in s.mounts
    BY <1>6, <2>1 DEF Resolved, Path, EnvIsMounted
  <2>3. t \in Texts /\ (IsClean(s) => t \in Seq(Clean))
    BY <1>1, <1>3, <2>1, CleanTail
  <2> HIDE DEF t
  <2>4. t \in Seq(Symbols \union {"/run/secrets"}) /\ <<"/run/secrets">> \in Seq(Symbols \union {"/run/secrets"})
    BY <2>3 DEF Texts, Symbols
  <2>5. Tail(<<"/run/secrets">> \o t) = t
    BY <2>4
  <2>6. ASSUME t \in Seq(Clean) PROVE ~Has(<<"/run/secrets">> \o t, Placeholder)
    <3>1. t \in Seq(Clean \union {"/run/secrets"}) /\ <<"/run/secrets">> \in Seq(Clean \union {"/run/secrets"})
      BY <2>6
    <3>2. <<"/run/secrets">> \o t \in Seq(Clean \union {"/run/secrets"})
      BY <3>1, ConcatProperties
    <3>3. "/run/secrets" \notin Placeholder
      BY DEF Placeholder, Builtins, Variables
    <3> QED
      BY <3>2, <3>3 DEF Has, Clean
  <2> QED
    BY <2>2, <2>3, <2>5, <2>6
<1> QED
  BY <1>4, <1>5, <1>6

\* The directory of a volume is named by the volume's text, or by what follows its slash.
LEMMA DirectoryIsClean ==
  ASSUME NEW a, NEW s \in ServiceType, IsClean(s)
  PROVE  ~Has(Directory(a, s.volume)[2], Placeholder)
<1>1. s.volume \in Texts /\ s.volume \in Seq(Clean)
  BY DEF ServiceType, IsClean, ServiceTexts
<1>2. Directory(a, s.volume)[2] = IF IsHost(s.volume) THEN Tail(s.volume) ELSE s.volume
  BY DEF Directory
<1>3. IsHost(s.volume) => Tail(s.volume) \in Seq(Clean)
  BY <1>1, CleanTail DEF IsHost
<1> QED
  BY <1>1, <1>2, <1>3, CleanHasNone

LEMMA ManifestInitEstablishes == ManifestInit => ManifestInv
BY DEF ManifestInit, ManifestInv, RenderingIsClosed, MountedIsDeclared, NothingUnresolved, Deployed

\* A step that deploys nothing new leaves what is deployed closed.
LEMMA DeployedStays ==
  ASSUME ManifestInv, UNCHANGED stacks
  PROVE  RenderingIsClosed' /\ (stacks \in [AppNames -> {stacks[a] : a \in AppNames}])'
BY DEF ManifestInv, RenderingIsClosed, MountedIsDeclared, NothingUnresolved, Deployed

LEMMA RejectKeeps == ASSUME ManifestInv, Reject PROVE ManifestInv'
BY DeployedStays DEF Reject, Drop, ManifestInv

LEMMA ParseKeeps == ASSUME ManifestInv, Parse PROVE ManifestInv'
<1>1. PICK m \in Manifests : IF m.unknownKey THEN UNCHANGED manifestVars
                             ELSE stage' = "parsed" /\ written' = m /\ app' = m /\ UNCHANGED <<ir, stacks>>
  BY DEF Parse, ToStage
<1>2. CASE m.unknownKey
  BY <1>1, <1>2, DeployedStays DEF manifestVars, ManifestInv
<1>3. CASE ~m.unknownKey
  BY <1>1, <1>3, DeployedStays, ManifestConstants DEF ManifestInv
<1> QED
  BY <1>2, <1>3

LEMMA InterpolateKeeps == ASSUME ManifestInv, Interpolate PROVE ManifestInv'
<1>1. stage = "parsed" /\ ManifestType(app) /\ app = written
  BY DEF Interpolate, ManifestInv
<1>2. PICK m \in Interpolated(app) :
        \/ Reject
        \/ ~Unresolved(m) /\ stage' = "interpolated" /\ app' = m /\ UNCHANGED <<written, ir, stacks>>
  BY DEF Interpolate, ToStage
<1>3. CASE Reject
  BY <1>3, RejectKeeps
<1>4. CASE ~Unresolved(m) /\ stage' = "interpolated" /\ app' = m /\ UNCHANGED <<written, ir, stacks>>
  <2>1. /\ ManifestType(m) /\ m.name = app.name
        /\ Tame(app) => \A n \in DOMAIN m.services : IsClean(m.services[n])
    BY <1>1, <1>4, InterpolatedType
  <2> QED
    BY <1>1, <1>4, <2>1, DeployedStays DEF ManifestInv
<1> QED
  BY <1>2, <1>3, <1>4

LEMMA ValidateKeeps == ASSUME ManifestInv, Validate PROVE ManifestInv'
<1>1. CASE Reject
  BY <1>1, RejectKeeps
<1>2. CASE ~Reject
  <2>1. /\ stage = "interpolated" /\ stage' = "valid" /\ UNCHANGED <<written, app, ir, stacks>>
        /\ IsName(app.name) /\ \A n \in DOMAIN app.services : Valid(app.services[n])
    BY <1>2 DEF Validate, ToStage
  <2>2. \A n \in DOMAIN app.services : EnvIsMounted(app.services[n])
    <3>1. ASSUME NEW s, Valid(s) PROVE EnvIsMounted(s)
      BY <3>1, Zenon DEF Valid
    <3> QED
      BY <2>1, <3>1, Zenon
  <2> QED
    BY <2>1, <2>2, DeployedStays DEF ManifestInv, IsName
<1> QED
  BY <1>1, <1>2

LEMMA BuildIRKeeps == ASSUME ManifestInv, BuildIR PROVE ManifestInv'
<1>1. CASE Reject
  BY <1>1, RejectKeeps
<1>2. CASE ~Reject
  <2>1. /\ stage = "valid" /\ stage' = "built" /\ UNCHANGED <<written, app, stacks>>
        /\ \A n \in DOMAIN app.services : Resolves(app.services[n])
        /\ ir'.name = app.name /\ ir'.secrets = DeclaredSecrets(app)
        /\ ir'.services = [n \in DOMAIN app.services |-> IRService(app.services[n])]
    BY <1>2 DEF BuildIR, ToStage
  <2>2. ManifestType(app) /\ ManifestType(written) /\ app.name = written.name /\ ~Has(app.name, Placeholder)
    BY <2>1 DEF ManifestInv
  <2>3. ASSUME NEW n \in DOMAIN app.services
        PROVE  /\ IsClosed(IRService(app.services[n]), DeclaredSecrets(app))
               /\ Flat(written) => LET s == IRService(app.services[n]) IN
                    /\ IsResolved(s) /\ ~Has(s.host, Placeholder) /\ ~Has(s.alias, Placeholder)
                    /\ ~Has(Directory(app.name, s.volume)[2], Placeholder)
    <3> DEFINE s == app.services[n]
               d == IRService(s)
    <3>1. s \in ServiceType /\ EnvIsMounted(s) /\ Resolves(s)
      BY <2>1, <2>2 DEF ManifestInv, ManifestType
    <3>2. /\ d.env = Resolved(s) /\ d.mounts = s.mounts /\ d.image = s.image /\ d.command = s.command
          /\ d.host = s.host /\ d.alias = s.alias /\ d.volume = s.volume
      BY DEF IRService
    <3>3. s.mounts \subseteq DeclaredSecrets(app)
      BY DEF DeclaredSecrets
    <3>4. Flat(written) => IsClean(s)
      <4>1. ~Has(written.name, Placeholder) => ~Has(written.name, Builtins)
        BY DEF Has, Placeholder
      <4> QED
        BY <2>1, <2>2, <4>1 DEF ManifestInv, Tame
    <3> HIDE DEF s, d
    <3>5. IsClosed(d, DeclaredSecrets(app))
      BY <3>1, <3>2, <3>3, ResolvedEnv DEF IsClosed
    <3>6. ASSUME Flat(written)
          PROVE  /\ IsResolved(d) /\ ~Has(d.host, Placeholder) /\ ~Has(d.alias, Placeholder)
                 /\ ~Has(Directory(app.name, d.volume)[2], Placeholder)
      <4>1. {s.image, s.command, s.host, s.alias} \subseteq Seq(Clean)
        BY <3>4, <3>6 DEF IsClean, ServiceTexts
      <4>2. \A t \in {s.image, s.command, s.host, s.alias} : ~Has(t, Placeholder)
        BY <4>1, CleanHasNone
      <4>3. ~Has(Directory(app.name, d.volume)[2], Placeholder)
        BY <3>1, <3>2, <3>4, <3>6, DirectoryIsClean
      <4> QED
        BY <3>1, <3>2, <3>4, <3>6, <4>2, <4>3, ResolvedEnv DEF IsResolved
    <3> QED
      BY <3>5, <3>6 DEF s, d
  <2> QED
    BY <2>1, <2>2, <2>3, DeployedStays DEF ManifestInv
<1> QED
  BY <1>1, <1>2

LEMMA WriteComposeKeeps == ASSUME ManifestInv, WriteCompose PROVE ManifestInv'
<1> DEFINE file == [secrets |-> ir.secrets, volumes |-> ir.volumes, flat |-> Flat(written),
                    services |-> [n \in DOMAIN ir.services |-> ComposeService(ir.name, n, ir.services[n])]]
<1>1. stage = "built" /\ stacks' = [stacks EXCEPT ![ir.name] = file] /\ stage' = "none"
  BY DEF WriteCompose, Drop
<1>2. /\ DOMAIN stacks = AppNames /\ DOMAIN stacks' = AppNames
      /\ \A a \in AppNames : stacks'[a] = stacks[a] \/ stacks'[a] = file
  BY <1>1 DEF ManifestInv
<1>3. ASSUME NEW n \in DOMAIN file.services
      PROVE  LET s == file.services[n] IN
             /\ IsClosed(s, file.secrets)
             /\ file.flat => /\ IsResolved(s) /\ ~Has(s.dir[2], Placeholder)
                             /\ \A h \in s.hosts : ~Has(h, Placeholder)
  <2> DEFINE d == ir.services[n]
             s == file.services[n]
  <2>1. /\ s.mounts = d.mounts /\ s.env = d.env /\ s.image = d.image /\ s.command = d.command
        /\ s.dir = Directory(ir.name, d.volume) /\ s.hosts = {d.host, d.alias} \ {<<>>}
        /\ file.secrets = ir.secrets /\ file.flat = Flat(written)
    BY DEF ComposeService
  <2>2. /\ IsClosed(d, ir.secrets)
        /\ Flat(written) => /\ IsResolved(d) /\ ~Has(d.host, Placeholder) /\ ~Has(d.alias, Placeholder)
                            /\ ~Has(Directory(ir.name, d.volume)[2], Placeholder)
    BY <1>1 DEF ManifestInv
  <2> HIDE DEF s, d, file
  <2>3. IsClosed(s, file.secrets)
    BY <2>1, <2>2 DEF IsClosed
  <2>4. file.flat => /\ IsResolved(s) /\ ~Has(s.dir[2], Placeholder)
                     /\ \A h \in s.hosts : ~Has(h, Placeholder)
    BY <2>1, <2>2 DEF IsResolved
  <2> QED
    BY <2>3, <2>4 DEF s
<1> HIDE DEF file
<1>4. RenderingIsClosed'
  BY <1>2, <1>3 DEF ManifestInv, RenderingIsClosed, MountedIsDeclared, NothingUnresolved, Deployed,
     IsClosed, IsResolved
<1>5. (stacks \in [AppNames -> {stacks[a] : a \in AppNames}])'
  BY <1>1, <1>2 DEF ManifestInv
<1> QED
  BY <1>1, <1>4, <1>5 DEF ManifestInv

\* Whatever manifests are deployed in whatever environment, what is deployed declares and
\* mounts the secrets its environment points at; and where nothing that is put in for a
\* placeholder brings one in, none is left in an image, a command, a volume, a host, or a
\* value of the environment that is no config's content (manifest.Interpolate, Validate,
\* TranslateIR).  Of the names a service mounts secrets under, which the code does not go
\* through, it says nothing.
THEOREM DeploymentsAreClosed == ManifestSpec => []RenderingIsClosed
<1>1. ManifestInv /\ [ManifestNext]_manifestVars => ManifestInv'
  <2> SUFFICES ASSUME ManifestInv, [ManifestNext]_manifestVars PROVE ManifestInv'
    OBVIOUS
  <2>1. CASE UNCHANGED manifestVars
    BY <2>1, DeployedStays DEF ManifestInv, manifestVars
  <2> QED
    BY <2>1, ParseKeeps, InterpolateKeeps, ValidateKeeps, BuildIRKeeps, WriteComposeKeeps DEF ManifestNext
<1>2. ManifestInv => RenderingIsClosed
  BY DEF ManifestInv
<1> QED
  BY <1>1, <1>2, ManifestInitEstablishes, PTL DEF ManifestSpec
=============================================================================
