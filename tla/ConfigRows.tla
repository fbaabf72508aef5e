----------------------------- MODULE ConfigRows -----------------------------
(***************************************************************************)
(* The operator's configs: the tables configs and config_versions          *)
(* (internal/store/configs.go) and the services and pages that edit them.  *)
(* Each client is a process of its own, the daemon or a command: a process *)
(* has one connection, so its transactions do not overlap, those of two    *)
(* processes may.  SQLite gives a transaction a snapshot and refuses its   *)
(* first write when another process has committed since (SQLITE_BUSY).     *)
(* Contents stand for their own hash.                                      *)
(***************************************************************************)
EXTENDS Integers, FiniteSets, Nil

CONSTANTS
  Clients,   \* processes that edit the rows
  Names,     \* config names
  Contents,  \* contents of configs
  MaxRow     \* bound on the row ids of the two config tables

ASSUME RowConstants == MaxRow \in Nat \ {0} /\ NULL \notin Contents /\ Names # {}

VARIABLES
  configs,   \* name -> row, or NULL
  versions,  \* the rows of config_versions
  pc, loc,   \* per client: next step, what it was asked and has read
  had        \* name -> the contents an edit has given the row since its creation

vars == <<configs, versions, pc, loc, had>>
-----------------------------------------------------------------------------
Rows     == [id : 1 .. MaxRow, content : Contents]
ASSUME NullIsNoRow == NULL \notin Rows
Versions == [id : 1 .. MaxRow, cfg : 1 .. MaxRow, content : Contents]
Locals   == [name : Names, content : Contents \union {NULL}, vid : 0 .. MaxRow,
             row : Rows \union {NULL}, stale : BOOLEAN]

Idle == CHOOSE l \in Locals : l.content = NULL /\ l.vid = 0 /\ l.row = NULL /\ ~l.stale

\* Both tables are INTEGER PRIMARY KEY without AUTOINCREMENT: a new row follows
\* the last one there is, so that the id of a deleted last row is given again.
NextId(ids) == IF ids = {} THEN 1 ELSE 1 + CHOOSE i \in ids : \A j \in ids : j <= i

Existing   == {n \in Names : configs[n] # NULL}
ConfigIds  == {configs[n].id : n \in Existing}
VersionIds == {v.id : v \in versions}
Of(id)     == {v \in versions : v.cfg = id}
VersionsOf(n) == IF configs[n] = NULL THEN {} ELSE Of(configs[n].id)

Init ==
  /\ configs = [n \in Names |-> NULL] /\ versions = {}
  /\ pc = [c \in Clients |-> "idle"] /\ loc = [c \in Clients |-> Idle]
  /\ had = [n \in Names |-> {}]

\* A commit makes the snapshots stale that other transactions hold.
Committed(c) ==
  loc' = [d \in Clients |-> IF d = c THEN Idle ELSE
            [loc[d] EXCEPT !.stale = @ \/ pc[d] \in {"edit", "restore"}]]
Untouched  == UNCHANGED <<configs, versions, had>>
End(c)     == pc' = [pc EXCEPT ![c] = "idle"]
Fail(c)    == End(c) /\ loc' = [loc EXCEPT ![c] = Idle] /\ Untouched
-----------------------------------------------------------------------------
\* CreateConfig: the name is UNIQUE; a refused insert changes nothing.
Create(c, n, x) ==
  /\ pc[c] = "idle" /\ configs[n] = NULL
  /\ NextId(ConfigIds) <= MaxRow
  /\ configs' = [configs EXCEPT ![n] = [id |-> NextId(ConfigIds), content |-> x]]
  /\ had' = [had EXCEPT ![n] = {x}]
  /\ Committed(c) /\ UNCHANGED <<versions, pc>>

\* DeleteConfig: the history goes with the row, ON DELETE CASCADE.  
DropHistory(n) == versions \ VersionsOf(n)

Delete(c, n) ==
  /\ pc[c] = "idle" /\ configs[n] # NULL
  /\ configs' = [configs EXCEPT ![n] = NULL]
  /\ versions' = DropHistory(n)
  /\ had' = [had EXCEPT ![n] = {}]
  /\ Committed(c) /\ UNCHANGED pc

\* UpdateConfig, its SELECT: an unknown config and an unchanged hash end it.
BeginEdit(c, n, x) ==
  /\ pc[c] = "idle" /\ configs[n] # NULL /\ configs[n].content # x
  /\ pc' = [pc EXCEPT ![c] = "edit"]
  /\ loc' = [loc EXCEPT ![c] = [name |-> n, content |-> x, vid |-> 0,
                                row |-> configs[n], stale |-> FALSE]]
  /\ Untouched

\* The rollback forms offer the versions of the row, the command takes the last.
ListVersions(c, n) ==
  /\ pc[c] = "idle"
  /\ \E v \in VersionsOf(n) :
       loc' = [loc EXCEPT ![c] = [Idle EXCEPT !.name = n, !.vid = v.id]]
  /\ pc' = [pc EXCEPT ![c] = "listed"]
  /\ Untouched

\* RollbackConfig, its two SELECTs; the faulty variant does not ask whose version it is.
AnyVersion(row, vid)   == {v \in versions : v.id = vid}
FoundVersion(row, vid) == {v \in versions : v.id = vid /\ v.cfg = row.id}

BeginRollback(c) ==
  LET n == loc[c].name
      found == IF configs[n] = NULL THEN {} ELSE FoundVersion(configs[n], loc[c].vid)
  IN  /\ pc[c] = "listed"
      /\ \/ found = {} /\ Fail(c)
         \/ \E v \in found :
              /\ pc' = [pc EXCEPT ![c] = "restore"]
              /\ loc' = [loc EXCEPT ![c].row = configs[n], ![c].content = v.content]
              /\ Untouched

\* The write of both: the value that was current joins the history, then the row
\* changes, by id.  
MayCommit(c)   == ~loc[c].stale
Pushed(c, row) == {row.content}

Commit(c) ==
  LET l == loc[c]  IN
  /\ pc[c] \in {"edit", "restore"}
  /\ \/ ~MayCommit(c) /\ Fail(c)
     \/ /\ MayCommit(c)
        /\ NextId(VersionIds) <= MaxRow
        /\ versions' = versions \union
             {[id |-> NextId(VersionIds), cfg |-> l.row.id, content |-> x] : x \in Pushed(c, l.row)}
        /\ configs' = [n \in Names |-> IF configs[n] # NULL /\ configs[n].id = l.row.id
                                         THEN [configs[n] EXCEPT !.content = l.content]
                                         ELSE configs[n]]
        /\ had' = [had EXCEPT ![l.name] = IF pc[c] = "edit" THEN @ \union {l.content} ELSE @]
        /\ End(c) /\ Committed(c)
Next ==
  \E c \in Clients :
       \/ \E n \in Names, x \in Contents : Create(c, n, x) \/ BeginEdit(c, n, x)
       \/ \E n \in Names : Delete(c, n) \/ ListVersions(c, n)
       \/ BeginRollback(c) \/ Commit(c)

Spec == Init /\ [][Next]_vars
-----------------------------------------------------------------------------
\* The tables and what the clients hold are of the right shape, every version
\* belongs to a row and no two rows share an id.
TypeOK ==
  /\ configs \in [Names -> Rows \union {NULL}] /\ versions \subseteq Versions
  /\ pc \in [Clients -> {"idle", "edit", "listed", "restore"}] /\ loc \in [Clients -> Locals]
  /\ had \in [Names -> SUBSET Contents]
  /\ {v.cfg : v \in versions} \subseteq ConfigIds
  /\ \A m, n \in Existing : configs[m].id = configs[n].id => m = n

\* The current content and the history of a config are exactly the contents it was
\* given since it was created: no edit or rollback, whatever it overlaps with, loses
\* one or brings in the content of another config (UpdateConfig, RollbackConfig).
HistoryComplete ==
  \A n \in Existing :
    had[n] = {configs[n].content} \union {v.content : v \in VersionsOf(n)}
=============================================================================
