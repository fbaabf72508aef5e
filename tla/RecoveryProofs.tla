--------------------------- MODULE RecoveryProofs ---------------------------
(***************************************************************************)
(* What is kept and what comes back.  Failover: for any managers, data     *)
(* directories, registries, crashes and elections, no start of a daemon    *)
(* brings back less than was last checkpointed.  Backups: for any runs,    *)
(* lists, restores and archives, the rows and the archives agree, no       *)
(* archive is removed before its time, and a restore that reports success  *)
(* has extracted the whole archive of its row.                             *)
(***************************************************************************)
EXTENDS Failover, Backups, SequenceTheorems, WellFoundedInduction, TLAPS

-----------------------------------------------------------------------------
(* The start of the daemon *)

Cmds == [op : {"none", "add", "remove", "update"}, node : {First}, reg : Registries \union {NULL},
         step : {"idle", "login", "row", "logout", "restart", "close"}]

\* Directories, daemons and the command are of the right shape.  Who has a database open
\* has one.
FailTypes ==
  /\ FailTypeOK
  /\ due \in [Nodes -> Content \union {NULL}]
  /\ cmd \in Cmds /\ (cmd.op = "add" => cmd.reg \in Registries)
  /\ \A n \in Nodes : daemon[n] \in Opened => db[home[n]] # NULL

\* What was last checkpointed is what the database holds; where a start may still
\* write the newest archive over it, or has decided to, that holds it as well.
Restoring(d) == \E n \in Nodes : home[n] = d /\ daemon[n] = "restore"
KeptOK(d) ==
  /\ Restoring(d) => newest[d] # NULL
  /\ due[d] # NULL =>
       /\ db[d] # NULL => Visible(db[d]) = due[d]
       /\ newest[d] # NULL /\ (db[d] = NULL \/ d \in older \/ Restoring(d)) => Visible(newest[d]) = due[d]

FailInv == FailTypes /\ \A d \in Nodes : KeptOK(d)

LEMMA FilesShape ==
  ASSUME FailConstants, NEW f \in DbFiles
  PROVE  /\ f # NULL /\ Visible(f) \in Content /\ Visible(f) # NULL
         /\ Flushed(f) \in DbFiles /\ Visible(Flushed(f)) = Visible(f)
         /\ Closed(f) \in DbFiles /\ Visible(Closed(f)) = Visible(f)
         /\ [f EXCEPT !.wal = Visible(f)] \in DbFiles /\ Visible([f EXCEPT !.wal = Visible(f)]) = Visible(f)
         /\ \A content \in Content : Written(f, content) \in DbFiles
<1>1. f.file \in Content /\ f.wal \in Content \union {NULL} /\ f.frames \in BOOLEAN
      /\ f = [file |-> f.file, wal |-> f.wal, frames |-> f.frames]
  BY DEF DbFiles
<1>2. f # NULL /\ Visible(f) \in Content /\ Visible(f) # NULL
  BY <1>1 DEF FailConstants, Visible
<1>3. [f EXCEPT !.wal = Visible(f)] = [file |-> f.file, wal |-> Visible(f), frames |-> f.frames]
  BY <1>1
<1>4. QED
  BY <1>1, <1>2, <1>3 DEF DbFiles, Visible, Flushed, Closed, Written

LEMMA RestoredShape ==
  ASSUME FailConstants, NEW f \in DbFiles \union {NULL}, NEW a \in DbFiles
  PROVE  /\ Restored(f, a) \in DbFiles
         /\ Visible(Restored(f, a)) = Visible(a) \/ (f # NULL /\ Visible(Restored(f, a)) = Visible(f))
<1>1. CASE a.wal = NULL /\ f # NULL
  <2>1. f \in DbFiles /\ Restored(f, a) = [file |-> a.file, wal |-> f.wal, frames |-> f.frames]
    BY <1>1 DEF Restored, DbFiles
  <2>2. QED
    BY <1>1, <2>1 DEF DbFiles, Visible
<1>2. CASE ~ (a.wal = NULL /\ f # NULL)
  BY <1>2 DEF Restored
<1>3. QED
  BY <1>1, <1>2

\* The last close of a database, by a process that leaves its directory to nobody.
LEMMA CloseKeeps ==
  ASSUME FailConstants, FailInv, NEW p, NEW d \in Nodes, db[d] # NULL, Close(p, d), UNCHANGED <<home, newest>>,
         \A e \in Nodes : Restoring(e)' => Restoring(e)
  PROVE  /\ db' \in [Nodes -> DbFiles \union {NULL}] /\ due' \in [Nodes -> Content \union {NULL}]
         /\ \A e \in Nodes : (db'[e] = NULL <=> db[e] = NULL) /\ KeptOK(e)'
<1>1. /\ db \in [Nodes -> DbFiles \union {NULL}] /\ due \in [Nodes -> Content \union {NULL}]
      /\ \A e \in Nodes : KeptOK(e)
  BY DEF FailInv, FailTypes, FailTypeOK
<1>2. /\ db[d] \in DbFiles /\ Closed(db[d]) \in DbFiles /\ Visible(Closed(db[d])) = Visible(db[d])
      /\ Closed(db[d]) # NULL /\ Visible(db[d]) \in Content
  BY <1>1, FilesShape
<1>3. CASE UNCHANGED <<db, older, due>>
  BY <1>1, <1>3 DEF KeptOK
<1>4. CASE db' = [db EXCEPT ![d] = Closed(@)] /\ ~db[d].frames /\ UNCHANGED <<older, due>>
  BY <1>1, <1>2, <1>4 DEF KeptOK
<1>5. CASE /\ db' = [db EXCEPT ![d] = Closed(@)] /\ db[d].frames
           /\ older' = older \ {d} /\ Settle(d, Visible(db[d]))
  <2>1. /\ due'[d] = IF Restoring(d) THEN NULL ELSE Visible(db[d])
        /\ \A e \in Nodes \ {d} : due'[e] = due[e]
        /\ due' \in [Nodes -> Content \union {NULL}]
    BY <1>1, <1>2, <1>5 DEF Settle, Restoring
  <2>2. \A e \in Nodes \ {d} : KeptOK(e)'
    BY <1>1, <1>5, <2>1 DEF KeptOK
  <2>3. KeptOK(d)'
    BY <1>1, <1>2, <1>5, <2>1 DEF KeptOK
  <2>4. QED
    BY <1>1, <1>2, <1>5, <2>1, <2>2, <2>3
<1>6. QED
  BY <1>3, <1>4, <1>5 DEF Close

LEMMA FailInvInductive ==
  ASSUME FailConstants, FailInv, [FailNext]_failVars
  PROVE  FailInv'
<1> USE DEF FailInv
<1>0. /\ home \in [Nodes -> Nodes] /\ leader \in Nodes
      /\ db \in [Nodes -> DbFiles \union {NULL}] /\ newest \in [Nodes -> DbFiles \union {NULL}]
      /\ daemon \in [Nodes -> Stages] /\ todo \in [Nodes -> Content]
      /\ due \in [Nodes -> Content \union {NULL}]
      /\ cmd \in Cmds /\ (cmd.op = "add" => cmd.reg \in Registries)
      /\ \A n \in Nodes : daemon[n] \in Opened => db[home[n]] # NULL
      /\ \A d \in Nodes : KeptOK(d)
      /\ First \in Nodes /\ Dirs \subseteq Nodes
  BY DEF FailTypes, FailTypeOK, FailConstants, Dirs
\* A daemon goes on, or ends; no new one decides to restore.
<1>1. ASSUME UNCHANGED <<home, db, older, newest, due, cmd>>, leader' \in Nodes, todo' \in [Nodes -> Content],
             NEW n \in Nodes, NEW s \in Stages \ Opened, daemon' = [daemon EXCEPT ![n] = s],
             s = "restore" => Stale(home[n])
      PROVE  FailInv'
  <2>1. FailTypes'
    BY <1>0, <1>1 DEF FailTypes, FailTypeOK
  <2>2. ASSUME NEW d \in Nodes PROVE KeptOK(d)'
    <3>1. Restoring(d)' => Restoring(d) \/ Stale(d)
      BY <1>0, <1>1 DEF Restoring
    <3>2. QED
      BY <1>0, <1>1, <3>1 DEF KeptOK, Stale
  <2>3. QED
    BY <2>1, <2>2
\* A command goes on, or nothing moves.
<1>2. ASSUME UNCHANGED <<home, db, older, newest, due, daemon>>, leader' \in Nodes, todo' \in [Nodes -> Content],
             cmd' \in Cmds /\ (cmd'.op = "add" => cmd'.reg \in Registries)
      PROVE  FailInv'
  BY <1>0, <1>2 DEF FailTypes, FailTypeOK, KeptOK, Restoring
<1>3. ASSUME NEW n \in Nodes, Start(n) PROVE FailInv'
  BY <1>0, <1>1, <1>3 DEF Start, Enter, Stages, Opened
<1>4. ASSUME NEW n \in Nodes, NEW answers \in BOOLEAN, Lead(n, answers) PROVE FailInv'
  BY <1>0, <1>1, <1>4 DEF Lead, Awaited, Enter, Stages, Opened
<1>5. ASSUME NEW n \in Nodes, Fresh(n) PROVE FailInv'
  BY <1>0, <1>1, <1>5 DEF Fresh, Enter, Stages, Opened
<1>6. ASSUME NEW n \in Nodes, RestoreControlPlane(n) PROVE FailInv'
  <2>1. PICK d \in Nodes : d = home[n]
    BY <1>0
  <2>2. /\ daemon' = [daemon EXCEPT ![n] = "open"] /\ db' = [db EXCEPT ![d] = Restored(@, newest[d])]
        /\ older' = older \ {d} /\ UNCHANGED <<home, newest, leader, todo, cmd, due>> /\ Restoring(d)
    BY <1>6, <2>1 DEF RestoreControlPlane, Enter, Restoring
  <2>3. /\ Restored(db[d], newest[d]) \in DbFiles /\ Restored(db[d], newest[d]) # NULL
        /\ \/ Visible(Restored(db[d], newest[d])) = Visible(newest[d])
           \/ db[d] # NULL /\ Visible(Restored(db[d], newest[d])) = Visible(db[d])
    BY <1>0, <2>2, RestoredShape, FilesShape, ZenonT(30) DEF KeptOK
  <2>4. FailTypes'
    BY <1>0, <2>2, <2>3 DEF FailTypes, FailTypeOK, Stages, Opened
  <2>5. ASSUME NEW e \in Nodes PROVE KeptOK(e)'
    <3>1. Restoring(e)' => Restoring(e)
      BY <1>0, <2>2 DEF Restoring
    <3>2. CASE e = d
      BY <1>0, <2>2, <2>3, <3>1, <3>2 DEF KeptOK
    <3>3. CASE e # d
      BY <1>0, <2>2, <3>1, <3>3 DEF KeptOK
    <3>4. QED
      BY <3>2, <3>3
  <2>6. QED
    BY <2>4, <2>5
<1>7. ASSUME NEW n \in Nodes, Open(n) PROVE FailInv'
  <2>1. PICK d \in Nodes : d = home[n]
    BY <1>0
  <2>2. /\ db[d] # NULL /\ daemon' = [daemon EXCEPT ![n] = "replay"] /\ db' = [db EXCEPT ![d].wal = Visible(db[d])]
        /\ todo' = [todo EXCEPT ![n] = Visible(db[d])] /\ UNCHANGED <<home, older, newest, leader, cmd, due>>
    BY <1>7, <2>1 DEF Open, Enter
  <2>3. /\ [db[d] EXCEPT !.wal = Visible(db[d])] \in DbFiles /\ Visible(db[d]) \in Content
        /\ Visible([db[d] EXCEPT !.wal = Visible(db[d])]) = Visible(db[d])
        /\ [db[d] EXCEPT !.wal = Visible(db[d])] # NULL
    BY <1>0, <2>2, FilesShape
  <2>4. FailTypes'
    BY <1>0, <2>1, <2>2, <2>3 DEF FailTypes, FailTypeOK, Stages, Opened
  <2>5. ASSUME NEW e \in Nodes PROVE KeptOK(e)'
    <3>1. Restoring(e)' => Restoring(e)
      BY <1>0, <2>2 DEF Restoring
    <3>2. QED
      BY <1>0, <2>2, <2>3, <3>1 DEF KeptOK
  <2>6. QED
    BY <2>4, <2>5
<1>8. ASSUME NEW n \in Nodes, Login(n) PROVE FailInv'
  <2>1. CASE UNCHANGED daemon
    BY <1>0, <1>2, <1>8, <2>1 DEF Login, LoggedIn, Content
  <2>2. CASE daemon' = [daemon EXCEPT ![n] = "serving"] /\ UNCHANGED todo
    <3>1. daemon[n] = "replay" /\ UNCHANGED <<home, db, older, newest, leader, cmd, due>>
      BY <1>8 DEF Login
    <3>2. QED
      BY <1>0, <2>2, <3>1 DEF FailTypes, FailTypeOK, KeptOK, Restoring, Stages, Opened
  <2>3. QED
    BY <1>8, <2>1, <2>2 DEF Login, LoggedIn, Enter
<1>9. ASSUME NEW op \in {"add", "remove", "update"}, NEW r \in Registries \union {NULL},
             op = "update" \/ r \in Registries, Run(op, r)
      PROVE  FailInv'
  <2>1. PICK d \in Nodes : d = home[First]
    BY <1>0
  <2>2. /\ db[d] # NULL /\ db' = [db EXCEPT ![d].wal = Visible(db[d])]
        /\ UNCHANGED <<home, older, newest, leader, daemon, todo, due>>
        /\ cmd' \in Cmds /\ (cmd'.op = "add" => cmd'.reg \in Registries)
    BY <1>9, <2>1 DEF Run, Cmds
  <2>3. /\ [db[d] EXCEPT !.wal = Visible(db[d])] \in DbFiles /\ Visible(db[d]) \in Content
        /\ Visible([db[d] EXCEPT !.wal = Visible(db[d])]) = Visible(db[d])
        /\ [db[d] EXCEPT !.wal = Visible(db[d])] # NULL
    BY <1>0, <2>2, FilesShape
  <2>4. QED
    BY <1>0, <2>2, <2>3 DEF FailTypes, FailTypeOK, KeptOK, Restoring
<1>10. CASE Docker
  BY <1>0, <1>2, <1>10 DEF Docker, Then, Cmds
<1>11. CASE CmdRow
  <2>1. PICK d \in Nodes : d = home[cmd.node]
    BY <1>0 DEF Cmds
  <2>2. /\ db[d] # NULL /\ UNCHANGED <<home, newest, leader, daemon, todo>>
        /\ cmd' \in Cmds /\ (cmd'.op = "add" => cmd'.reg \in Registries)
    BY <1>0, <1>11, <2>1 DEF CmdRow, Then, Cmds
  <2>3. CASE UNCHANGED <<db, older, due>>
    BY <1>0, <1>2, <2>2, <2>3
  <2>4. ASSUME NEW content \in Content, Commit(d, content) PROVE FailInv'
    <3>1. /\ db' = [db EXCEPT ![d] = Written(@, content)] /\ due' = [due EXCEPT ![d] = NULL] /\ UNCHANGED older
          /\ Written(db[d], content) \in DbFiles /\ Written(db[d], content) # NULL
      BY <1>0, <2>2, <2>4, FilesShape DEF Commit
    <3>2. QED
      BY <1>0, <2>2, <3>1 DEF FailTypes, FailTypeOK, KeptOK, Restoring
  <2>5. Visible(db[d]) \in Content
    BY <1>0, <2>2, FilesShape
  <2>6. cmd.op = "add" => Visible(db[d]) \union {cmd.reg} \in Content
    BY <1>0, <2>5 DEF Content
  <2>7. Visible(db[d]) \ {cmd.reg} \in Content
    BY <2>5 DEF Content
  <2>8. QED
    BY <1>11, <2>1, <2>3, <2>4, <2>6, <2>7 DEF CmdRow
<1>12. CASE CmdRestart
  <2>1. /\ UNCHANGED <<home, db, older, newest, leader, due>> /\ daemon' = [daemon EXCEPT ![First] = "check"]
        /\ todo' \in [Nodes -> Content] /\ cmd' \in Cmds /\ (cmd'.op = "add" => cmd'.reg \in Registries)
    BY <1>0, <1>12 DEF CmdRestart, Enter, Then, Cmds, Content
  <2>2. QED
    BY <1>0, <2>1 DEF FailTypes, FailTypeOK, KeptOK, Restoring, Stages, Opened
<1>13. CASE CmdClose
  <2>1. PICK d \in Nodes : d = home[cmd.node]
    BY <1>0 DEF Cmds
  <2>2. /\ UNCHANGED <<home, newest, leader, daemon, todo>>
        /\ cmd' \in Cmds /\ (cmd'.op = "add" => cmd'.reg \in Registries)
    BY <1>13 DEF CmdClose, NoCmd, Cmds
  <2>3. CASE db[d] = NULL
    BY <1>0, <1>2, <1>13, <2>1, <2>2, <2>3 DEF CmdClose
  <2>4. CASE db[d] # NULL
    <3>1. Close("cmd", d) /\ \A e \in Nodes : Restoring(e)' => Restoring(e)
      BY <1>13, <2>1, <2>2, <2>4 DEF CmdClose, Restoring
    <3>2. /\ db' \in [Nodes -> DbFiles \union {NULL}] /\ due' \in [Nodes -> Content \union {NULL}]
          /\ \A e \in Nodes : (db'[e] = NULL <=> db[e] = NULL) /\ KeptOK(e)'
      BY <2>2, <2>4, <3>1, CloseKeeps
    <3>3. QED
      BY <1>0, <2>2, <3>2 DEF FailTypes, FailTypeOK
  <2>5. QED
    BY <2>3, <2>4
<1>14. ASSUME NEW d \in Nodes, Checkpoint(d) PROVE FailInv'
  <2>1. /\ db[d] # NULL /\ db' = [db EXCEPT ![d] = Flushed(@)]
        /\ older' = older \ {d} /\ UNCHANGED <<home, newest, leader, daemon, todo, cmd>>
    BY <1>14 DEF Checkpoint
  <2>2. /\ Flushed(db[d]) \in DbFiles /\ Flushed(db[d]) # NULL
        /\ Visible(Flushed(db[d])) = Visible(db[d]) /\ Visible(db[d]) \in Content
    BY <1>0, <2>1, FilesShape
  <2>3. /\ due'[d] = IF Restoring(d) THEN NULL ELSE Visible(db[d])
        /\ \A e \in Nodes \ {d} : due'[e] = due[e]
        /\ due' \in [Nodes -> Content \union {NULL}]
    BY <1>0, <1>14, <2>2 DEF Checkpoint, Settle, Restoring
  <2>4. FailTypes'
    BY <1>0, <2>1, <2>2, <2>3 DEF FailTypes, FailTypeOK
  <2>5. ASSUME NEW e \in Nodes PROVE KeptOK(e)'
    <3>1. Restoring(e)' <=> Restoring(e)
      BY <2>1 DEF Restoring
    <3>2. QED
      BY <1>0, <2>1, <2>2, <2>3, <3>1 DEF KeptOK
  <2>6. QED
    BY <2>4, <2>5
<1>15. ASSUME NEW d \in Nodes, Archive(d) PROVE FailInv'
  <2>1. /\ db[d] # NULL /\ newest' = [newest EXCEPT ![d] = db[d]] /\ older' = older \union {d}
        /\ UNCHANGED <<home, db, leader, daemon, todo, cmd, due>>
    BY <1>15 DEF Archive
  <2>2. FailTypes'
    BY <1>0, <2>1 DEF FailTypes, FailTypeOK
  <2>3. ASSUME NEW e \in Nodes PROVE KeptOK(e)'
    BY <1>0, <2>1 DEF KeptOK, Restoring
  <2>4. QED
    BY <2>2, <2>3
<1>16. ASSUME NEW n \in Nodes, Stop(n) PROVE FailInv'
  <2>1. PICK d \in Nodes : d = home[n]
    BY <1>0
  <2>2. /\ daemon[n] = "serving" /\ daemon' = [daemon EXCEPT ![n] = "down"] /\ Close(n, d)
        /\ UNCHANGED <<home, newest, leader, todo, cmd>>
    BY <1>16, <2>1 DEF Stop, Enter
  <2>3. db[d] # NULL /\ \A e \in Nodes : Restoring(e)' => Restoring(e)
    BY <1>0, <2>1, <2>2 DEF Opened, Restoring
  <2>4. /\ db' \in [Nodes -> DbFiles \union {NULL}] /\ due' \in [Nodes -> Content \union {NULL}]
        /\ \A e \in Nodes : (db'[e] = NULL <=> db[e] = NULL) /\ KeptOK(e)'
    BY <2>2, <2>3, CloseKeeps
  <2>5. QED
    BY <1>0, <2>2, <2>4 DEF FailTypes, FailTypeOK, Stages, Opened
<1>17. ASSUME NEW n \in Nodes, Kill(n) PROVE FailInv'
  BY <1>0, <1>1, <1>17 DEF Kill, Enter, Stages, Opened, Content
<1>18. CASE CutOff
  BY <1>0, <1>2, <1>18 DEF CutOff, NoCmd, Cmds
<1>19. ASSUME NEW n \in Nodes, LoseDisk(n) PROVE FailInv'
  <2>1. PICK d \in Nodes : d = home[n]
    BY <1>0
  <2>2. /\ newest[d] # NULL /\ \A m \in Nodes : home[m] = d => daemon[m] = "down"
        /\ db' = [db EXCEPT ![d] = NULL] /\ due' = [due EXCEPT ![d] = Visible(newest[d])]
        /\ UNCHANGED <<home, older, newest, leader, daemon, todo, cmd>>
    BY <1>19, <2>1 DEF LoseDisk
  <2>3. Visible(newest[d]) \in Content
    BY <1>0, <2>2, FilesShape
  <2>4. QED
    BY <1>0, <2>2, <2>3 DEF FailTypes, FailTypeOK, KeptOK, Restoring, Opened
<1>20. ASSUME NEW n \in Nodes, Elect(n) PROVE FailInv'
  BY <1>0, <1>2, <1>20 DEF Elect
<1>21. CASE UNCHANGED failVars
  BY <1>0, <1>2, <1>21 DEF failVars
<1>22. QED
  BY <1>0, <1>3, <1>4, <1>5, <1>6, <1>7, <1>8, <1>9, <1>10, <1>11, <1>12, <1>13, <1>14, <1>15, <1>16, <1>17, <1>18,
     <1>19, <1>20, <1>21 DEF FailNext, DaemonStep, CmdStep

LEMMA FailInitially == ASSUME FailConstants, FailInit PROVE FailInv
<1>1. /\ [file |-> {}, wal |-> NULL, frames |-> FALSE] \in DbFiles
      /\ Visible([file |-> {}, wal |-> NULL, frames |-> FALSE]) = {}
  BY DEF DbFiles, Content, Visible
<1>2. FailTypes
  <2>1. FailTypeOK
    BY <1>1 DEF FailInit, FailTypeOK, FailConstants, Stages, Content
  <2>2. cmd \in Cmds /\ cmd.op # "add" /\ due \in [Nodes -> Content \union {NULL}]
    BY DEF FailInit, NoCmd, Cmds, Content
  <2>3. QED
    BY <2>1, <2>2 DEF FailInit, FailTypes, Opened
<1>3. ASSUME NEW d \in Nodes PROVE KeptOK(d)
  BY <1>1 DEF FailInit, KeptOK, Restoring
<1>4. QED
  BY <1>2, <1>3 DEF FailInv

\* A start restores the newest archive only where there is no database or one it takes for
\* older, and both hold what was last checkpointed: a checkpoint makes the main file look
\* newer than every archive, an archive made later has all of it, and a log the archive
\* has not is left beside it (ensureControlPlaneFresh, RestoreControlPlane).
THEOREM NothingCheckpointedIsLost == FailSpec => [](FailTypeOK /\ CheckpointedIsKept)
<1>1. FailInit => FailInv
  BY FailInitially, FailAssumption
<1>2. FailInv /\ [FailNext]_failVars => FailInv'
  BY FailInvInductive, FailAssumption
<1>3. FailInv => FailTypeOK /\ CheckpointedIsKept
  <2> SUFFICES ASSUME FailInv PROVE FailTypeOK /\ CheckpointedIsKept
    OBVIOUS
  <2>1. FailTypeOK /\ Dirs \subseteq Nodes
    BY DEF FailInv, FailTypes, FailTypeOK, Dirs
  <2>2. QED
    BY <2>1 DEF FailInv, KeptOK, CheckpointedIsKept
<1>4. QED
  BY <1>1, <1>2, <1>3, PTL DEF FailSpec


-----------------------------------------------------------------------------
(* The table of backups and the archives *)

\* What a row of that age says of the archive it names: the archive is as old as the row
\* or up to the length of a run younger, and once it is gone the row is about to expire.
Names(path, since) ==
  path \in Archives =>
    /\ path \in used
    /\ disk[path] # NULL => since <= disk[path].at /\ disk[path].at <= since + MaxRun
    /\ disk[path] = NULL => since < now - KeptFor(path) + MaxRun

DiskOK == \A a \in Archives : disk[a] # NULL => a \in used /\ disk[a].at <= now

\* A discovered row names its own archive.
RowOK(i) == /\ rows[i].filename # NULL => rows[i].path = rows[i].filename
            /\ Names(rows[i].path, rows[i].started)

\* The row of a run that goes on is there, younger than the retention, and empty, and no
\* other run has it.
RowOf(t, row) ==
  /\ row.filename = NULL /\ row.path = NULL
  /\ row.started <= now /\ now <= row.started + MaxRun
  /\ pc[t] \in {"exec", "fallback"} => row.started <= loc[t].started
  /\ Names(loc[t].path, row.started)
RunOK(t) ==
  InFlight(t) =>
    /\ loc[t].id \in Ids /\ RowOf(t, rows[loc[t].id])
    /\ \A u \in Triggers \ {t} : InFlight(u) => loc[u].id # loc[t].id

\* What a list has read of an outdated row stays true until the row is deleted.
OutdatedOK(o) == /\ o.id \in DOMAIN rows /\ o.started < now - Retention
                 /\ rows[o.id] # NULL => rows[o.id].path = o.path /\ rows[o.id].started = o.started
                 /\ Names(o.path, o.started)
Settled(a) == disk[a] = NULL \/ a \in stuck \/ Recorded(a)
ListAt(step, v) ==
  /\ v.saw \subseteq used
  /\ v.found # NULL => Names(v.found.archive, v.found.at)
  /\ \A o \in v.old : OutdatedOK(o)
  /\ step = "insert" => v.found # NULL
  /\ step \in {"remove", "delete"} => v.todo = {}
  /\ step = "delete" => /\ v.old # {}
                       /\ LET path == OldestOf(v.old).path IN HasFile(path) => path \in stuck
  /\ step \in {"scan", "insert", "remove", "delete"} =>
       \A a \in v.saw \ v.todo : Settled(a) \/ (step = "insert" /\ a = v.found.archive)
ListOK(l) == ListAt(pc[l], loc[l])

\* A restore that extracts has looked at what it names.
RestoreOK(r) == pc[r] = "extract" => loc[r].path \notin ControlPlane

\* What has not begun names nothing.
IdleOK(p) == pc[p] = "idle" => loc[p].path = NULL

BackupInv ==
  /\ TypeOK
  /\ DiskOK
  /\ \A i \in Ids : RowOK(i)
  /\ \A t \in Triggers : RunOK(t)
  /\ \A l \in Listers : ListOK(l)
  /\ \A r \in Restorers : RestoreOK(r)
  /\ \A p \in Processes : IdleOK(p)
  /\ VolumesHoldData

LEMMA KeptForBounds ==
  ASSUME BackupsConstants, NEW a
  PROVE  KeptFor(a) \in Nat /\ KeptFor(a) <= Retention /\ KeptFor(a) <= Keep(a) /\ Keep(a) \in Nat
BY DEF BackupsConstants, KeptFor, Keep

LEMMA OldestIsOld ==
  ASSUME NEW old \in SUBSET Outdated, old # {}, MaxTime \in Nat
  PROVE  OldestOf(old) \in old
<1> DEFINE S == {o.started : o \in old}
<1>0. \A o \in old : o.started \in Nat /\ o.id \in Nat
  BY DEF Outdated
<1>1. PICK s \in S : \A x \in S : ~ (x < s)
  <2>1. S \subseteq Nat /\ S # {}
    BY <1>0
  <2> HIDE DEF S
  <2>2. PICK s \in S : \A x \in S : ~ (<<x, s>> \in OpToRel(<, Nat))
    BY <2>1, NatLessThanWellFounded, WFMin
  <2>3. QED
    BY <2>1, <2>2 DEF OpToRel
<1> DEFINE I == {o.id : o \in {p \in old : p.started = s}}
<1>2. PICK i \in I : \A x \in I : ~ (x < i)
  <2>1. I \subseteq Nat /\ I # {}
    BY <1>0, <1>1
  <2> HIDE DEF I, S
  <2>2. PICK i \in I : \A x \in I : ~ (<<x, i>> \in OpToRel(<, Nat))
    BY <2>1, NatLessThanWellFounded, WFMin
  <2>3. QED
    BY <2>1, <2>2 DEF OpToRel
<1>3. PICK o \in old : o.started = s /\ o.id = i
  BY <1>2
<1>4. \A p \in old : o.started < p.started \/ (o.started = p.started /\ o.id <= p.id)
  <2>1. ASSUME NEW p \in old, ~ (o.started < p.started) PROVE o.started = p.started /\ o.id <= p.id
    <3>1. p.started = s
      BY <1>0, <1>1, <1>3, <2>1
    <3>2. ~ (p.id < i)
      BY <1>2, <3>1
    <3>3. QED
      BY <1>0, <1>3, <3>1, <3>2
  <2>2. QED
    BY <2>1
<1>5. QED
  BY <1>4 DEF OldestOf

\* The table as FinishBackup, DeleteBackup and CreateBackup leave it.
LEMMA TableShape ==
  ASSUME rows \in Seq(Rows \union {NULL})
  PROVE  /\ DOMAIN rows = 1 .. Len(rows) /\ Len(rows) \in Nat
         /\ \A i \in Ids : rows[i] \in Rows
         /\ \A i \in DOMAIN rows \ Ids : rows[i] = NULL
BY LenProperties, ElementOfSeq DEF Ids

LEMMA FinishedShape ==
  ASSUME rows \in Seq(Rows \union {NULL}), NEW id \in Ids, NEW status \in {"failed", "succeeded"}, NEW path \in Paths
  PROVE  /\ Finished(id, status, path) \in Seq(Rows \union {NULL})
         /\ DOMAIN Finished(id, status, path) = DOMAIN rows
         /\ Finished(id, status, path)[id] = [filename |-> rows[id].filename, status |-> status,
                                             path |-> path, started |-> rows[id].started]
         /\ \A i \in DOMAIN rows \ {id} : Finished(id, status, path)[i] = rows[i]
<1>1. /\ DOMAIN rows = 1 .. Len(rows) /\ Len(rows) \in Nat /\ id \in DOMAIN rows /\ rows[id] # NULL
      /\ rows[id] \in Rows /\ \A i \in DOMAIN rows : rows[i] \in Rows \union {NULL}
  BY TableShape DEF Ids
<1>2. [filename |-> rows[id].filename, status |-> status, path |-> path, started |-> rows[id].started] \in Rows
  BY <1>1 DEF Rows
<1>3. Finished(id, status, path) \in [1 .. Len(rows) -> Rows \union {NULL}]
  BY <1>1, <1>2 DEF Finished
<1>4. Finished(id, status, path) \in Seq(Rows \union {NULL})
  BY <1>1, <1>3, SeqDef
<1>5. QED
  BY <1>1, <1>2, <1>4 DEF Finished

LEMMA AppendedShape ==
  ASSUME rows \in Seq(Rows \union {NULL}), NEW row \in Rows
  PROVE  /\ Append(rows, row) \in Seq(Rows \union {NULL})
         /\ DOMAIN Append(rows, row) = 1 .. Len(rows) + 1
         /\ \A i \in DOMAIN rows : Append(rows, row)[i] = rows[i]
         /\ Append(rows, row)[Len(rows) + 1] = row
<1>1. DOMAIN rows = 1 .. Len(rows) /\ Len(rows) \in Nat
  BY TableShape
<1>2. QED
  BY <1>1

LEMMA DeletedShape ==
  ASSUME rows \in Seq(Rows \union {NULL}), NEW id \in DOMAIN rows
  PROVE  /\ [rows EXCEPT ![id] = NULL] \in Seq(Rows \union {NULL})
         /\ DOMAIN [rows EXCEPT ![id] = NULL] = DOMAIN rows
         /\ [rows EXCEPT ![id] = NULL][id] = NULL
         /\ \A i \in DOMAIN rows \ {id} : [rows EXCEPT ![id] = NULL][i] = rows[i]
BY TableShape, ExceptSeq

\* The assignments to the variables of a process keep their types.
LEMMA LocalsMove ==
  ASSUME NEW old \in Locals
  PROVE  /\ \A run \in Runs, id \in Nat : [old EXCEPT !.run = run, !.id = id] \in Locals
         /\ \A since \in 0 .. MaxTime : [old EXCEPT !.started = since] \in Locals
         /\ \A a \in Archives : [old EXCEPT !.made = a] \in Locals
         /\ \A path \in Paths : [old EXCEPT !.path = path] \in Locals
         /\ \A a \in Archives : [old EXCEPT !.todo = old.todo \ {a}] \in Locals
         /\ \A a \in Archives, f \in Entries :
              [[old EXCEPT !.todo = old.todo \ {a}] EXCEPT !.found = f] \in Locals
BY DEF Locals

LEMMA BackupTypesStay ==
  ASSUME BackupInv, [Next]_vars
  PROVE  TypeOK'
<1>0. /\ TypeOK /\ \A t \in Triggers : InFlight(t) => loc[t].id \in Ids
      /\ NULL \notin Archives /\ MaxTime \in Nat /\ MaxFailures \in Nat /\ NoLocals \in Locals
      /\ DOMAIN rows = 1 .. Len(rows) /\ Len(rows) \in Nat
      /\ (\A i \in Ids : i \in DOMAIN rows /\ rows[i] \in Rows) /\ \A p \in Processes : loc[p] \in Locals
  BY BackupsConstants, TableShape DEF BackupInv, RunOK, BackupsConstants, NoLocals, Locals, Runs, Paths,
     TypeOK, Ids
<1> USE DEF files, Processes
<1>1. ASSUME NEW p \in Processes, NEW s \in Steps, NEW new \in Locals, Goto(p, s) \/ UNCHANGED pc,
             Set(p, new) \/ UNCHANGED loc
      PROVE  pc' \in [Processes -> Steps] /\ loc' \in [Processes -> Locals]
  BY <1>0, <1>1 DEF TypeOK, Goto, Set
<1>2. Fails => failures' \in 0 .. MaxFailures
  BY <1>0 DEF TypeOK, Fails
<1>3. ASSUME NEW p \in Processes, NEW result \in {"ok", "error"}, End(p, result)
      PROVE  pc' \in [Processes -> Steps] /\ loc' \in [Processes -> Locals]
  BY <1>0, <1>3 DEF TypeOK, End, Goto, Set, Steps, Locals, NoLocals
<1>4. ASSUME NEW t \in Triggers, NEW run \in Runs, CreateBackup(t, run) PROVE TypeOK'
  <2>1. [filename |-> NULL, status |-> "pending", path |-> NULL, started |-> now] \in Rows
    BY <1>0 DEF TypeOK, Rows, Paths
  <2>2. rows' \in Seq(Rows \union {NULL})
    BY <1>0, <1>4, <2>1, AppendedShape DEF TypeOK, CreateBackup
  <2>3. [loc[t] EXCEPT !.run = run, !.id = Len(rows) + 1] \in Locals
    <3>1. \A id \in Nat : [loc[t] EXCEPT !.run = run, !.id = id] \in Locals
      BY <1>0, LocalsMove
    <3>2. Len(rows) + 1 \in Nat
      BY <1>0
    <3>3. QED
      BY <3>1, <3>2
  <2>4. QED
    BY <1>0, <1>1, <1>4, <2>2, <2>3 DEF TypeOK, CreateBackup, Steps
<1>5. ASSUME NEW t \in Triggers, Exec(t) PROVE TypeOK'
  <2>1. /\ [loc[t] EXCEPT !.started = now] \in Locals /\ {"exec", "failed"} \subseteq Steps
        /\ Set(t, [loc[t] EXCEPT !.started = now]) /\ (Goto(t, "exec") \/ Goto(t, "failed"))
        /\ UNCHANGED <<now, files, rows, volume, stuck>>
    BY <1>0, <1>5, LocalsMove DEF TypeOK, Exec, Steps
  <2>2. failures' \in 0 .. MaxFailures
    BY <1>0, <1>2, <1>5 DEF TypeOK, Exec
  <2>3. QED
    BY <1>0, <1>1, <2>1, <2>2 DEF TypeOK
<1>6. ASSUME NEW t \in Triggers, NEW a \in Archives, ArchiveOf(t, a) PROVE TypeOK'
  <2>1. [at |-> now, whole |-> FALSE] \in Files
    BY <1>0 DEF TypeOK, Files
  <2>2. QED
    BY <1>0, <1>1, <1>6, <2>1, LocalsMove DEF TypeOK, ArchiveOf, NewArchive, Steps
<1>7. ASSUME NEW t \in Triggers, ExecEnds(t) PROVE TypeOK'
  BY <1>0, <1>1, <1>7, LocalsMove DEF TypeOK, ExecEnds, NoPathIn, Steps, Paths
<1>8. ASSUME NEW t \in Triggers, ExecFails(t) PROVE TypeOK'
  BY <1>0, <1>2, <1>8 DEF TypeOK, ExecFails, Goto, Steps
<1>9. ASSUME NEW t \in Triggers, Fallback(t) PROVE TypeOK'
  BY <1>0, <1>1, <1>9, LocalsMove DEF TypeOK, Fallback, Newest, OnDisk, Steps, Paths
<1>10. ASSUME NEW t \in Triggers, Finish(t) PROVE TypeOK'
  <2>1. loc[t].id \in Ids /\ loc[t].path \in Paths
    BY <1>0, <1>10 DEF TypeOK, Finish, InFlight, Locals
  <2>2. \A status \in {"failed", "succeeded"}, path \in Paths :
          Finished(loc[t].id, status, path) \in Seq(Rows \union {NULL})
    BY <1>0, <2>1, FinishedShape DEF TypeOK
  <2>3. rows' \in Seq(Rows \union {NULL})
    BY <1>0, <1>10, <2>1, <2>2 DEF TypeOK, Finish
  <2>4. QED
    BY <1>0, <1>2, <1>3, <1>10, <2>3 DEF TypeOK, Finish, Unrecorded
<1>11. ASSUME NEW t \in Triggers, FinishFailed(t) PROVE TypeOK'
  <2>1. loc[t].id \in Ids /\ NULL \in Paths
    BY <1>0, <1>11 DEF FinishFailed, InFlight, Paths
  <2>2. \A status \in {"failed", "succeeded"}, path \in Paths :
          Finished(loc[t].id, status, path) \in Seq(Rows \union {NULL})
    BY <1>0, <2>1, FinishedShape DEF TypeOK
  <2>3. rows' \in Seq(Rows \union {NULL})
    BY <1>0, <1>11, <2>1, <2>2 DEF TypeOK, FinishFailed
  <2>4. QED
    BY <1>0, <1>2, <1>3, <1>11, <2>3 DEF TypeOK, FinishFailed
<1>12. ASSUME NEW t \in Triggers, Cancel(t) PROVE TypeOK'
  BY <1>0, <1>2, <1>12 DEF TypeOK, Cancel, Set, Locals
<1>13. ASSUME NEW l \in Listers, ReadDir(l) PROVE TypeOK'
  BY <1>0, <1>13 DEF TypeOK, ReadDir, OnDisk, Goto, Set, Steps, Locals
<1>14. ASSUME NEW l \in Listers, NEW a \in Archives, CheckArchive(l, a) PROVE TypeOK'
  <2>1. disk[a] # NULL => [archive |-> a, at |-> disk[a].at] \in Entries
    BY <1>0 DEF TypeOK, Files, Entries
  <2>2. QED
    BY <1>0, <1>1, <1>14, <2>1, LocalsMove DEF TypeOK, CheckArchive, Steps
<1>15. ASSUME NEW l \in Listers, InsertDiscovered(l), loc[l].found # NULL PROVE TypeOK'
  <2>1. loc[l].found \in Entries
    BY <1>0, <1>15 DEF TypeOK, Locals
  <2>2. [filename |-> loc[l].found.archive, status |-> "succeeded",
         path |-> loc[l].found.archive, started |-> loc[l].found.at] \in Rows
    BY <2>1 DEF Rows, Paths, Entries
  <2>3. rows' \in Seq(Rows \union {NULL})
    BY <1>0, <1>15, <2>2, AppendedShape DEF TypeOK, InsertDiscovered, Discovered
  <2>4. QED
    BY <1>0, <1>15, <2>3 DEF TypeOK, InsertDiscovered, Goto, Set, Steps, Locals
<1>16. ASSUME NEW l \in Listers, ListOld(l) PROVE TypeOK'
  <2>1. {[id |-> i, started |-> rows[i].started, path |-> rows[i].path] : i \in Expired} \subseteq Outdated
    BY <1>0 DEF Expired, Outdated, Rows
  <2>2. QED
    BY <1>0, <1>16, <2>1 DEF TypeOK, ListOld, Goto, Set, Steps, Locals
<1>17. ASSUME NEW l \in Listers, RemoveArchive(l) PROVE TypeOK'
  BY <1>0, <1>2, <1>17 DEF TypeOK, RemoveArchive, HasFile, OnDisk, Goto, Steps
<1>18. ASSUME NEW l \in Listers, DeleteRow(l), OldestOf(loc[l].old).id \in DOMAIN rows PROVE TypeOK'
  <2>1. rows' \in Seq(Rows \union {NULL})
    BY <1>0, <1>18, DeletedShape DEF TypeOK, DeleteRow
  <2>2. QED
    BY <1>0, <1>18, <2>1 DEF TypeOK, DeleteRow, Goto, Set, Steps, Locals
<1>19. ASSUME NEW l \in Listers, ReturnList(l) PROVE TypeOK'
  BY <1>0, <1>19 DEF TypeOK, ReturnList, Goto, Set, Steps
<1>20. ASSUME NEW r \in Restorers, NEW i \in Ids, GetBackup(r, i) PROVE TypeOK'
  <2>1. rows[i].path \in Paths
    BY <1>0 DEF Rows
  <2>2. QED
    BY <1>0, <1>1, <1>3, <1>20, <2>1, LocalsMove DEF TypeOK, GetBackup, Steps
<1>21. ASSUME NEW r \in Restorers, Inspect(r) PROVE TypeOK'
  BY <1>0, <1>3, <1>21 DEF TypeOK, Inspect, Goto, Steps
<1>22. ASSUME NEW r \in Restorers, Extract(r) PROVE TypeOK'
  BY <1>0, <1>3, <1>22 DEF TypeOK, Extract, HasFile, OnDisk, Fails
<1>23. ASSUME NEW a \in Archives, Scheduled(a) \/ Completed(a) \/ AgentPrunes(a) PROVE TypeOK'
  <2>1. [at |-> now, whole |-> FALSE] \in Files /\ (disk[a] # NULL => [disk[a] EXCEPT !.whole = TRUE] \in Files)
    BY <1>0 DEF TypeOK, Files
  <2>2. used' \subseteq Archives /\ UNCHANGED <<now, rows, volume, stuck, failures, pc, loc>>
    BY <1>0, <1>23 DEF TypeOK, Scheduled, NewArchive, Completed, AgentPrunes
  <2>3. disk' \in [Archives -> Files \union {NULL}]
    <3>1. CASE Scheduled(a)
      BY <1>0, <2>1, <3>1 DEF TypeOK, Scheduled, NewArchive
    <3>2. CASE Completed(a)
      BY <1>0, <2>1, <3>2 DEF TypeOK, Completed
    <3>3. CASE AgentPrunes(a)
      BY <1>0, <3>3 DEF TypeOK, AgentPrunes
    <3>4. QED
      BY <1>23, <3>1, <3>2, <3>3
  <2>4. QED
    BY <1>0, <2>2, <2>3 DEF TypeOK
<1>24. CASE Tick
  BY <1>0, <1>24 DEF TypeOK, Tick
<1>25. CASE Crash
  BY <1>0, <1>2, <1>25 DEF TypeOK, Crash, Steps
<1>26. CASE UNCHANGED vars
  BY <1>0, <1>26 DEF TypeOK, vars
<1>27. ASSUME NEW l \in Listers
       PROVE  /\ pc[l] = "insert" => loc[l].found # NULL
              /\ pc[l] = "delete" => OldestOf(loc[l].old).id \in DOMAIN rows
  <2>1. loc[l].old \in SUBSET Outdated
    BY <1>0 DEF TypeOK, Locals
  <2>2. QED
    BY <1>0, <2>1, OldestIsOld DEF BackupInv, ListOK, ListAt, OutdatedOK
<1>28. QED
  BY <1>4, <1>5, <1>6, <1>7, <1>8, <1>9, <1>10, <1>11, <1>12, <1>13, <1>14, <1>15, <1>16, <1>17, <1>18, <1>19, <1>20,
     <1>21, <1>22, <1>23, <1>24, <1>25, <1>26, <1>27
  DEF Next, Trigger, List, Restore, InsertDiscovered, DeleteRow

\* What a step may do to the archives: make one, or remove one that is old enough.
FilesKept ==
  /\ now <= now' /\ used \subseteq used' /\ stuck \subseteq stuck'
  /\ \A a \in used : /\ disk'[a] # NULL => disk[a] # NULL /\ disk'[a].at = disk[a].at
                     /\ disk[a] # NULL /\ disk'[a] = NULL => disk[a].at < now - KeptFor(a) + MaxRun
  /\ \A a \in Archives \ used : disk'[a] # NULL => a \in used' /\ disk'[a].at = now

LEMMA OldestIsOutdated ==
  ASSUME BackupInv, NEW l \in Listers, loc[l].old # {}
  PROVE  LET o == OldestOf(loc[l].old) IN o \in loc[l].old /\ o \in Outdated /\ OutdatedOK(o)
<1>1. loc[l].old \in SUBSET Outdated /\ MaxTime \in Nat
  BY BackupsConstants DEF BackupInv, TypeOK, Locals, Processes, BackupsConstants
<1>2. QED
  BY <1>1, OldestIsOld DEF BackupInv, ListOK, ListAt

LEMMA FilesAreKept ==
  ASSUME BackupInv, [Next]_vars
  PROVE  FilesKept
<1>0. /\ TypeOK /\ now \in Nat /\ DiskOK /\ MaxRun \in Nat /\ Retention \in Nat
      /\ \A a \in Archives : KeptFor(a) \in Nat /\ KeptFor(a) <= Retention /\ KeptFor(a) <= Keep(a) /\ Keep(a) \in Nat
      /\ \A a \in Archives : disk[a] \in Files \union {NULL} /\ (disk[a] # NULL => disk[a].at \in Nat)
  BY BackupsConstants, KeptForBounds DEF BackupInv, BackupsConstants, TypeOK, Files
<1> USE DEF files
<1>1. CASE UNCHANGED <<now, files, stuck>>
  BY <1>0, <1>1 DEF FilesKept, TypeOK, DiskOK
<1>2. ASSUME NEW a \in Archives, NewArchive(a), UNCHANGED <<now, stuck>> PROVE FilesKept
  BY <1>0, <1>2, NothingIsNull DEF FilesKept, TypeOK, DiskOK, NewArchive
<1>3. ASSUME NEW a \in Archives, disk' = [disk EXCEPT ![a] = NULL], UNCHANGED <<now, used, stuck>>,
             disk[a] # NULL => disk[a].at < now - KeptFor(a) + MaxRun
      PROVE  FilesKept
  BY <1>0, <1>3 DEF FilesKept, TypeOK, DiskOK
<1>4. ASSUME NEW a \in Archives, Completed(a) PROVE FilesKept
  <2>1. PICK f \in Files : f = [disk[a] EXCEPT !.whole = TRUE] /\ f.at = disk[a].at
    <3>1. disk[a] \in Files
      BY <1>0, <1>4 DEF Completed
    <3>2. [disk[a] EXCEPT !.whole = TRUE] \in Files /\ [disk[a] EXCEPT !.whole = TRUE].at = disk[a].at
      BY <3>1 DEF Files
    <3>3. QED
      BY <3>2
  <2>2. disk' = [disk EXCEPT ![a] = f] /\ UNCHANGED <<now, used, stuck>> /\ disk[a] # NULL /\ f # NULL
    BY <1>4, <2>1, NothingIsNull DEF Completed
  <2>3. QED
    BY <1>0, <2>1, <2>2 DEF FilesKept, TypeOK, DiskOK
<1>5. ASSUME NEW a \in Archives, AgentPrunes(a) PROVE FilesKept
  <2>1. disk[a] # NULL /\ disk[a].at < now - Keep(a)
    BY <1>5 DEF AgentPrunes
  <2>2. disk[a].at < now - KeptFor(a) + MaxRun
    BY <1>0, <2>1
  <2>3. QED
    BY <1>3, <1>5, <2>2 DEF AgentPrunes
<1>6. ASSUME NEW l \in Listers, RemoveArchive(l) PROVE FilesKept
  <2>1. PICK o \in Outdated : o = OldestOf(loc[l].old) /\ OutdatedOK(o)
    BY <1>6, OldestIsOutdated DEF RemoveArchive
  <2>2. CASE UNCHANGED disk
    BY <1>0, <1>6, <2>2 DEF RemoveArchive, FilesKept, TypeOK, DiskOK
  <2>3. CASE HasFile(o.path) /\ disk' = [disk EXCEPT ![o.path] = NULL] /\ UNCHANGED stuck
    <3>1. o.path \in Archives /\ disk[o.path] # NULL /\ o.started \in Nat
      BY <2>3 DEF HasFile, OnDisk, Outdated
    <3>2. disk[o.path].at <= o.started + MaxRun /\ o.started < now - Retention
      BY <2>1, <3>1 DEF OutdatedOK, Names
    <3>3. disk[o.path].at < now - KeptFor(o.path) + MaxRun
      BY <1>0, <3>1, <3>2
    <3>4. QED
      BY <1>3, <1>6, <2>3, <3>1, <3>3 DEF RemoveArchive
  <2>4. QED
    BY <1>6, <2>1, <2>2, <2>3 DEF RemoveArchive
<1>7. CASE Tick
  BY <1>0, <1>7 DEF FilesKept, TypeOK, DiskOK, Tick
<1>8. ASSUME NEW t \in Triggers, Trigger(t) PROVE FilesKept
  BY <1>1, <1>2, <1>8 DEF Trigger, CreateBackup, Exec, ArchiveOf, ExecEnds, ExecFails, Fallback, Finish,
     FinishFailed, Cancel
<1>9. ASSUME NEW l \in Listers, List(l) PROVE FilesKept
  BY <1>1, <1>6, <1>9 DEF List, ReadDir, CheckArchive, InsertDiscovered, ListOld, DeleteRow, ReturnList
<1>10. ASSUME NEW r \in Restorers, Restore(r) PROVE FilesKept
  BY <1>1, <1>10 DEF Restore, GetBackup, Inspect, Extract
<1>11. QED
  BY <1>1, <1>2, <1>4, <1>5, <1>7, <1>8, <1>9, <1>10 DEF Next, Scheduled, Crash, vars

\* What a row says of an archive goes on holding, however time and the archives move.
LEMMA NamesStay ==
  ASSUME BackupInv, TypeOK', FilesKept, NEW path, NEW since \in 0 .. MaxTime, Names(path, since)
  PROVE  Names(path, since)'
<1>0. /\ now \in Nat /\ now' \in Nat /\ MaxRun \in Nat /\ (\A a \in Archives : KeptFor(a) \in Nat)
      /\ \A a \in Archives : disk[a] # NULL => disk[a].at \in Nat
  BY BackupsConstants, KeptForBounds DEF BackupInv, BackupsConstants, TypeOK, Files
<1>1. SUFFICES ASSUME path \in Archives PROVE Names(path, since)'
  BY DEF Names
<1>2. path \in used /\ path \in used'
  BY <1>1 DEF Names, FilesKept
<1>3. CASE disk'[path] # NULL
  BY <1>2, <1>3 DEF Names, FilesKept
<1>4. CASE disk'[path] = NULL /\ disk[path] # NULL
  BY <1>0, <1>1, <1>2, <1>4 DEF Names, FilesKept
<1>5. CASE disk'[path] = NULL /\ disk[path] = NULL
  BY <1>0, <1>1, <1>2, <1>5 DEF Names, FilesKept
<1>6. QED
  BY <1>3, <1>4, <1>5

\* What a step may do to the table: add a row, record how a run ended, or delete a row
\* that is old enough and whose archive has been removed, as far as it can be.
Recording(t) ==
  /\ InFlight(t) /\ ~InFlight(t)' /\ rows'[loc[t].id] \in Rows
  /\ rows'[loc[t].id].filename = rows[loc[t].id].filename
  /\ rows'[loc[t].id].started = rows[loc[t].id].started
  /\ rows'[loc[t].id].path \in {NULL, loc[t].path}
RowDropped(i) ==
  /\ rows'[i] = NULL /\ rows[i].started < now - Retention
  /\ rows[i].path \in Archives => disk'[rows[i].path] = NULL \/ rows[i].path \in stuck'
RowsKept ==
  /\ DOMAIN rows \subseteq DOMAIN rows' /\ \A i \in DOMAIN rows \ Ids : rows'[i] = NULL
  /\ \A i \in Ids : \/ rows'[i] = rows[i] \/ RowDropped(i)
                    \/ \E t \in Triggers : Recording(t) /\ i = loc[t].id

LEMMA RowsAreKept ==
  ASSUME BackupInv, [Next]_vars
  PROVE  RowsKept
<1>0. /\ rows \in Seq(Rows \union {NULL}) /\ \A t \in Triggers : InFlight(t) => loc[t].id \in Ids
      /\ DOMAIN rows = 1 .. Len(rows) /\ Len(rows) \in Nat
      /\ \A i \in Ids : i \in DOMAIN rows /\ rows[i] \in Rows
      /\ \A i \in DOMAIN rows \ Ids : rows[i] = NULL
  BY TableShape DEF BackupInv, RunOK, TypeOK, Ids
<1>1. CASE UNCHANGED rows
  BY <1>0, <1>1 DEF RowsKept
<1>2. ASSUME NEW row \in Rows, rows' = Append(rows, row) PROVE RowsKept
  BY <1>0, <1>2, AppendedShape DEF RowsKept
<1>3. ASSUME NEW t \in Triggers, InFlight(t), NEW result, End(t, result), NEW status \in {"failed", "succeeded"},
             NEW path \in {NULL, loc[t].path}, rows' = Finished(loc[t].id, status, path)
      PROVE  RowsKept
  <2>1. PICK id \in Ids : id = loc[t].id
    BY <1>0, <1>3
  <2>2. path \in Paths /\ pc \in [Processes -> Steps] /\ loc \in [Processes -> Locals]
    BY <1>3 DEF BackupInv, TypeOK, Locals, Paths, Processes
  <2>3. /\ DOMAIN rows' = DOMAIN rows /\ \A i \in DOMAIN rows \ {id} : rows'[i] = rows[i]
        /\ rows'[id] = [filename |-> rows[id].filename, status |-> status, path |-> path, started |-> rows[id].started]
    BY <1>0, <1>3, <2>1, <2>2, FinishedShape
  <2>4. rows'[id] \in Rows
    BY <1>0, <2>2, <2>3 DEF Rows
  <2>5. ~InFlight(t)'
    BY <1>3, <2>2 DEF End, Goto, InFlight, Processes
  <2>6. Recording(t)
    BY <1>3, <2>1, <2>3, <2>4, <2>5 DEF Recording
  <2>7. QED
    BY <1>0, <2>1, <2>3, <2>6 DEF RowsKept
<1>4. ASSUME NEW t \in Triggers, NEW run \in Runs, CreateBackup(t, run) PROVE RowsKept
  <2>1. [filename |-> NULL, status |-> "pending", path |-> NULL, started |-> now] \in Rows
    BY DEF BackupInv, TypeOK, Rows, Paths
  <2>2. QED
    BY <1>2, <1>4, <2>1 DEF CreateBackup
<1>5. ASSUME NEW t \in Triggers, Finish(t) PROVE RowsKept
  BY <1>1, <1>3, <1>5 DEF Finish, InFlight
<1>6. ASSUME NEW t \in Triggers, FinishFailed(t) PROVE RowsKept
  BY <1>1, <1>3, <1>6 DEF FinishFailed, InFlight
<1>7. ASSUME NEW l \in Listers, InsertDiscovered(l) PROVE RowsKept
  <2>1. loc[l].found \in Entries
    BY <1>7 DEF BackupInv, TypeOK, ListOK, ListAt, InsertDiscovered, Locals, Processes
  <2>2. [filename |-> loc[l].found.archive, status |-> "succeeded",
         path |-> loc[l].found.archive, started |-> loc[l].found.at] \in Rows
    BY <2>1 DEF Rows, Paths, Entries
  <2>3. QED
    BY <1>1, <1>2, <1>7, <2>2 DEF InsertDiscovered, Discovered
<1>8. ASSUME NEW l \in Listers, DeleteRow(l) PROVE RowsKept
  <2>1. loc[l].old # {} /\ pc[l] = "delete" /\ ListOK(l)
    BY <1>8 DEF BackupInv, ListOK, ListAt, DeleteRow
  <2>2. PICK o \in Outdated : o = OldestOf(loc[l].old) /\ OutdatedOK(o)
    BY <2>1, OldestIsOutdated
  <2>3. /\ rows' = [rows EXCEPT ![o.id] = NULL] /\ UNCHANGED <<now, disk, stuck>> /\ o.id \in DOMAIN rows
        /\ HasFile(o.path) => o.path \in stuck
    BY <1>8, <2>1, <2>2 DEF DeleteRow, files, ListOK, ListAt, OutdatedOK
  <2>4. DOMAIN rows' = DOMAIN rows /\ rows'[o.id] = NULL /\ \A i \in DOMAIN rows \ {o.id} : rows'[i] = rows[i]
    BY <1>0, <2>3, DeletedShape
  <2>5. o.id \in Ids => RowDropped(o.id)
    BY <2>2, <2>3, <2>4 DEF RowDropped, OutdatedOK, HasFile, OnDisk, Ids
  <2>6. QED
    BY <1>0, <2>4, <2>5 DEF RowsKept
<1>9. ASSUME NEW t \in Triggers, Trigger(t) PROVE RowsKept
  BY <1>1, <1>4, <1>5, <1>6, <1>9 DEF Trigger, Exec, ArchiveOf, ExecEnds, ExecFails, Fallback, Cancel
<1>10. ASSUME NEW l \in Listers, List(l) PROVE RowsKept
  BY <1>1, <1>7, <1>8, <1>10 DEF List, ReadDir, CheckArchive, ListOld, RemoveArchive, ReturnList
<1>11. ASSUME NEW r \in Restorers, Restore(r) PROVE RowsKept
  BY <1>1, <1>11 DEF Restore, GetBackup, Inspect, Extract
<1>12. QED
  BY <1>1, <1>9, <1>10, <1>11 DEF Next, Scheduled, Completed, AgentPrunes, Tick, Crash, vars

\* The numbers the rows and the runs are compared by.
LEMMA DaysAreInts ==
  ASSUME BackupInv
  PROVE  /\ now \in 0 .. MaxTime /\ now \in Nat /\ MaxRun \in Nat /\ Retention \in Nat /\ MaxRun <= Retention
         /\ MaxTime \in Nat /\ NULL \notin Archives
         /\ \A i \in Ids : /\ i \in DOMAIN rows /\ rows[i] \in Rows
                           /\ rows[i].started \in 0 .. MaxTime /\ rows[i].started \in Nat
BY BackupsConstants, TableShape DEF BackupInv, BackupsConstants, TypeOK, Rows, Ids

LEMMA SettledStays ==
  ASSUME BackupInv, FilesKept, RowsKept, NEW a \in used, Settled(a)
  PROVE  Settled(a)'
<1>1. CASE disk[a] = NULL
  BY <1>1 DEF Settled, FilesKept
<1>2. CASE a \in stuck
  BY <1>2 DEF Settled, FilesKept
<1>3. ASSUME NEW i \in Ids, rows[i].path = a PROVE Settled(a)'
  <2>1. a \in Archives /\ i \in DOMAIN rows /\ rows[i] # NULL
    BY DEF BackupInv, TypeOK, Ids
  <2>2. CASE rows'[i] = rows[i]
    BY <1>3, <2>1, <2>2 DEF RowsKept, Settled, Recorded, Ids
  <2>3. CASE RowDropped(i)
    BY <1>3, <2>1, <2>3 DEF RowDropped, Settled
  <2>4. ASSUME NEW t \in Triggers, Recording(t), i = loc[t].id PROVE FALSE
    BY <1>3, <2>1, <2>4, DaysAreInts DEF BackupInv, RunOK, RowOf, Recording
  <2>5. QED
    BY <2>2, <2>3, <2>4 DEF RowsKept
<1>4. QED
  BY <1>1, <1>2, <1>3 DEF Settled, Recorded

LEMMA RunRowStays ==
  ASSUME BackupInv, RowsKept, NEW t \in Triggers, InFlight(t), InFlight(t)'
  PROVE  /\ loc[t].id \in Ids /\ loc[t].id \in DOMAIN rows' /\ rows'[loc[t].id] = rows[loc[t].id]
<1>1. PICK i \in Ids : i = loc[t].id /\ rows[i].started \in Nat /\ now <= rows[i].started + MaxRun
  BY DaysAreInts DEF BackupInv, RunOK, RowOf
<1>2. ~ RowDropped(i)
  BY <1>1, DaysAreInts DEF RowDropped
<1>3. ASSUME NEW u \in Triggers, Recording(u), i = loc[u].id PROVE FALSE
  BY <1>1, <1>3 DEF BackupInv, RunOK, Recording
<1>4. QED
  BY <1>1, <1>2, <1>3 DEF RowsKept, Ids

LEMMA OutdatedStays ==
  ASSUME BackupInv, TypeOK', FilesKept, RowsKept, NEW o \in Outdated, OutdatedOK(o)
  PROVE  OutdatedOK(o)'
<1>1. /\ o.started \in 0 .. MaxTime /\ o.started \in Nat /\ o.id \in DOMAIN rows /\ o.started < now - Retention
      /\ now' \in Nat /\ now <= now'
  BY BackupsConstants DEF Outdated, OutdatedOK, FilesKept, TypeOK, BackupsConstants
<1>2. Names(o.path, o.started)'
  BY <1>1, NamesStay DEF OutdatedOK
<1>3. o.id \in DOMAIN rows' /\ o.started < now' - Retention
  BY <1>1, DaysAreInts DEF RowsKept
<1>4. rows'[o.id] # NULL => rows'[o.id].path = o.path /\ rows'[o.id].started = o.started
  <2>1. CASE o.id \notin Ids
    BY <1>1, <2>1 DEF RowsKept
  <2>2. CASE o.id \in Ids /\ rows'[o.id] = rows[o.id]
    BY <2>2 DEF OutdatedOK
  <2>3. CASE o.id \in Ids /\ RowDropped(o.id)
    BY <2>3 DEF RowDropped
  <2>4. ASSUME NEW t \in Triggers, Recording(t), o.id = loc[t].id, o.id \in Ids PROVE FALSE
    <3>1. rows[o.id].started = o.started /\ now <= rows[o.id].started + MaxRun
      BY <2>4 DEF BackupInv, RunOK, RowOf, Recording, OutdatedOK, Ids
    <3>2. QED
      BY <1>1, <3>1, DaysAreInts
  <2>5. QED
    BY <2>1, <2>2, <2>3, <2>4 DEF RowsKept
<1>5. QED
  BY <1>2, <1>3, <1>4 DEF OutdatedOK

\* Each part of the invariant survives every step.  The rows.
LEMMA RowsStayOK ==
  ASSUME BackupInv, TypeOK', FilesKept, RowsKept, [Next]_vars
  PROVE  \A i \in Ids' : RowOK(i)'
<1>1. ASSUME NEW i \in Ids PROVE i \in Ids' => RowOK(i)'
  <2>1. rows[i].started \in 0 .. MaxTime /\ RowOK(i)
    BY DaysAreInts DEF BackupInv
  <2>2. CASE rows'[i] = rows[i]
    BY <2>1, <2>2, NamesStay DEF RowOK
  <2>3. CASE RowDropped(i)
    BY <2>3 DEF RowDropped, Ids
  <2>4. ASSUME NEW t \in Triggers, Recording(t), i = loc[t].id PROVE RowOK(i)'
    <3>1. PICK path \in Paths, since \in 0 .. MaxTime :
            /\ path = loc[t].path /\ since = rows[i].started
            /\ Names(path, since) /\ rows[i].filename = NULL
      BY <2>1, <2>4 DEF BackupInv, TypeOK, Processes, Locals, RunOK, RowOf, Recording
    <3>2. Names(NULL, since)'
      BY DaysAreInts DEF Names
    <3>3. Names(path, since)'
      BY <3>1, NamesStay
    <3>4. QED
      BY <2>4, <3>1, <3>2, <3>3 DEF Recording, RowOK
  <2>5. QED
    BY <2>2, <2>3, <2>4 DEF RowsKept
<1>2. ASSUME NEW row \in Rows, rows' = Append(rows, row), row.filename # NULL => row.path = row.filename,
             Names(row.path, row.started)
      PROVE  \A i \in Ids' : RowOK(i)'
  <2>1. PICK n \in Nat : /\ DOMAIN rows = 1 .. n /\ DOMAIN rows' = 1 .. n + 1 /\ rows'[n + 1] = row
                         /\ \A i \in DOMAIN rows : rows'[i] = rows[i]
    BY <1>2, AppendedShape, TableShape DEF BackupInv, TypeOK
  <2>2. Names(row.path, row.started)'
    BY <1>2, NamesStay DEF Rows
  <2>3. RowOK(n + 1)'
    BY <1>2, <2>1, <2>2 DEF RowOK
  <2>4. QED
    BY <1>1, <2>1, <2>3 DEF Ids
<1>3. CASE DOMAIN rows' = DOMAIN rows
  BY <1>1, <1>3 DEF RowsKept, Ids
<1>4. ASSUME NEW t \in Triggers, NEW run \in Runs, CreateBackup(t, run) PROVE \A i \in Ids' : RowOK(i)'
  <2>1. [filename |-> NULL, status |-> "pending", path |-> NULL, started |-> now] \in Rows
    BY DEF BackupInv, TypeOK, Rows, Paths
  <2>2. Names(NULL, now)
    BY DaysAreInts DEF Names
  <2>3. QED
    BY <1>2, <1>4, <2>1, <2>2 DEF CreateBackup
<1>5. ASSUME NEW l \in Listers, InsertDiscovered(l) PROVE \A i \in Ids' : RowOK(i)'
  <2>1. loc[l].found \in Entries /\ Names(loc[l].found.archive, loc[l].found.at)
    BY <1>5 DEF BackupInv, TypeOK, ListOK, ListAt, InsertDiscovered, Locals, Processes
  <2>2. [filename |-> loc[l].found.archive, status |-> "succeeded",
         path |-> loc[l].found.archive, started |-> loc[l].found.at] \in Rows
    BY <2>1 DEF Rows, Paths, Entries
  <2>3. QED
    BY <1>2, <1>3, <1>5, <2>1, <2>2 DEF InsertDiscovered, Discovered
<1>6. CASE \E t \in Triggers : Finish(t) \/ FinishFailed(t)
  BY <1>3, <1>6 DEF Finish, FinishFailed, Finished
<1>7. CASE \E l \in Listers : DeleteRow(l)
  BY <1>3, <1>7 DEF DeleteRow
<1>8. QED
  BY <1>3, <1>4, <1>5, <1>6, <1>7 DEF Next, Trigger, List, Restore, Exec, ArchiveOf, ExecEnds, ExecFails,
     Fallback, Cancel,
    ReadDir, CheckArchive, ListOld, RemoveArchive, ReturnList, GetBackup, Inspect, Extract,
    Scheduled, Completed, AgentPrunes, Tick, Crash, vars

\* What a step may do to a run: begin it, end it, or have it go on with its row.
RunBegins(t) ==
  /\ ~InFlight(t) /\ pc'[t] = "run" /\ loc'[t].id = Len(rows) + 1 /\ loc'[t].path = NULL
  /\ rows' = Append(rows, [filename |-> NULL, status |-> "pending", path |-> NULL, started |-> now])
  /\ \A u \in Triggers \ {t} : UNCHANGED <<pc[u], loc[u]>>
RunGoesOn(t) ==
  /\ InFlight(t) /\ loc'[t].id = loc[t].id
  /\ loc'[t].path = loc[t].path \/ Names(loc'[t].path, rows[loc[t].id].started)
  /\ pc'[t] \in {"exec", "fallback"} =>
       \/ loc'[t].started = now
       \/ pc[t] \in {"exec", "fallback"} /\ loc'[t].started = loc[t].started

LEMMA RunsMove ==
  ASSUME BackupInv, [Next]_vars, NEW t \in Triggers
  PROVE  InFlight(t)' => RunBegins(t) \/ RunGoesOn(t)
<1>0. /\ pc \in [Processes -> Steps] /\ loc \in [Processes -> Locals] /\ Triggers \subseteq Processes
      /\ Listers \subseteq Processes /\ Restorers \subseteq Processes
      /\ t \notin Listers /\ t \notin Restorers /\ loc[t] \in Locals
  BY BackupsConstants DEF BackupInv, TypeOK, BackupsConstants, Processes
<1>1. CASE UNCHANGED <<pc[t], loc[t]>>
  BY <1>1 DEF InFlight, RunGoesOn
<1>2. ASSUME NEW run \in Runs, CreateBackup(t, run) PROVE RunBegins(t)
  BY <1>0, <1>2 DEF CreateBackup, BackupInv, IdleOK, Goto, Set, RunBegins, InFlight, Locals
<1>3. CASE Exec(t)
  BY <1>0, <1>3 DEF Exec, Goto, Set, RunGoesOn, InFlight, Locals
<1>4. ASSUME NEW a \in Archives, ArchiveOf(t, a) PROVE InFlight(t)' => RunGoesOn(t)
  BY <1>0, <1>4 DEF ArchiveOf, Set, RunGoesOn, InFlight, Locals
<1>5. CASE ExecEnds(t)
  <2>1. Names(Printed, rows[loc[t].id].started)
    BY BackupsConstants DEF BackupsConstants, Names
  <2>2. QED
    BY <1>0, <1>5, <2>1 DEF ExecEnds, Goto, Set, RunGoesOn, InFlight, Locals
<1>6. CASE ExecFails(t)
  BY <1>0, <1>6 DEF ExecFails, Goto, RunGoesOn, InFlight
<1>7. CASE Fallback(t)
  <2>1. ASSUME NEW a \in Newest(loc[t].started) PROVE Names(a, rows[loc[t].id].started)
    <3>1. PICK i \in Ids : i = loc[t].id /\ rows[i].started \in Nat /\ now <= rows[i].started + MaxRun
                           /\ rows[i].started <= loc[t].started
      BY <1>7, DaysAreInts DEF BackupInv, RunOK, RowOf, Fallback, InFlight
    <3>2. a \in Archives /\ disk[a] \in Files /\ disk[a] # NULL /\ disk[a].at >= loc[t].started
          /\ a \in used /\ disk[a].at <= now
      BY <2>1 DEF Newest, OnDisk, BackupInv, TypeOK, DiskOK
    <3>3. disk[a].at \in Nat /\ loc[t].started \in Nat
      BY <1>0, <3>2, DaysAreInts DEF Files, Locals
    <3>4. QED
      BY <3>1, <3>2, <3>3, DaysAreInts DEF Names
  <2>2. CASE UNCHANGED loc
    BY <1>0, <1>7, <2>2 DEF Fallback, Goto, RunGoesOn, InFlight
  <2>3. ASSUME NEW a \in Newest(loc[t].started), Set(t, [loc[t] EXCEPT !.path = a])
        PROVE  InFlight(t)' => RunGoesOn(t)
    BY <1>0, <1>7, <2>1, <2>3 DEF Fallback, Goto, Set, RunGoesOn, InFlight, Locals
  <2>4. QED
    BY <1>7, <2>2, <2>3 DEF Fallback
<1>8. CASE Finish(t) \/ FinishFailed(t)
  BY <1>0, <1>8 DEF Finish, FinishFailed, End, Goto, InFlight
<1>9. CASE Cancel(t)
  BY <1>0, <1>9 DEF Cancel, Set, RunGoesOn, InFlight, Locals
<1>10. ASSUME NEW u \in Triggers, u # t, Trigger(u) PROVE UNCHANGED <<pc[t], loc[t]>>
  BY <1>0, <1>10 DEF Trigger, CreateBackup, Exec, ArchiveOf, ExecEnds, ExecFails, Fallback, Finish,
     FinishFailed, Cancel,
     End, Goto, Set
<1>11. ASSUME NEW l \in Listers, List(l) PROVE UNCHANGED <<pc[t], loc[t]>>
  BY <1>0, <1>11 DEF List, ReadDir, CheckArchive, InsertDiscovered, ListOld, RemoveArchive, DeleteRow,
     ReturnList, Goto, Set
<1>12. ASSUME NEW r \in Restorers, Restore(r) PROVE UNCHANGED <<pc[t], loc[t]>>
  BY <1>0, <1>12 DEF Restore, GetBackup, Inspect, Extract, End, Goto, Set
<1>13. CASE Crash
  BY <1>0, <1>13 DEF Crash, InFlight
<1>14. QED
  BY <1>1, <1>2, <1>3, <1>4, <1>5, <1>6, <1>7, <1>8, <1>9, <1>10, <1>11, <1>12, <1>13
  DEF Next, Trigger, Scheduled, Completed, AgentPrunes, Tick, vars

LEMMA RunsStayOK ==
  ASSUME BackupInv, TypeOK', FilesKept, RowsKept, [Next]_vars, NEW t \in Triggers
  PROVE  RunOK(t)'
<1>0. /\ now <= now' /\ now' \in Nat /\ DOMAIN rows = 1 .. Len(rows) /\ Len(rows) \in Nat
      /\ loc' \in [Processes -> Locals] /\ t \in Processes
  BY BackupsConstants, TableShape DEF FilesKept, BackupInv, TypeOK, Processes, BackupsConstants
<1>1. UNCHANGED now \/ (now' = now + 1 /\ UNCHANGED <<rows, pc, loc>> /\ \A u \in Triggers :
         InFlight(u) /\ rows[loc[u].id] # NULL => now < rows[loc[u].id].started + MaxRun)
  BY DEF Next, Trigger, List, Restore, CreateBackup, Exec, ArchiveOf, ExecEnds, ExecFails, Fallback,
     Finish, FinishFailed, Cancel,
     ReadDir, CheckArchive, InsertDiscovered, ListOld, RemoveArchive, DeleteRow, ReturnList, GetBackup,
     Inspect, Extract,
     Scheduled, Completed, AgentPrunes, Tick, Crash, vars
<1>2. ASSUME RunBegins(t), InFlight(t)' PROVE loc'[t].id \in Ids' /\ RowOf(t, rows[loc[t].id])'
  <2>1. PICK row \in Rows : row = [filename |-> NULL, status |-> "pending", path |-> NULL, started |-> now]
    BY DEF BackupInv, TypeOK, Rows, Paths
  <2>2. /\ loc'[t].id = Len(rows) + 1 /\ Len(rows) + 1 \in DOMAIN rows' /\ rows'[Len(rows) + 1] = row
        /\ loc'[t].path = NULL /\ pc'[t] = "run"
    BY <1>2, <2>1, AppendedShape, <1>0 DEF RunBegins, BackupInv, TypeOK
  <2>3. UNCHANGED now
    BY <1>1, <1>2 DEF RunBegins, InFlight
  <2>4. /\ row # NULL /\ row.filename = NULL /\ row.path = NULL /\ row.started = now
        /\ now <= now + MaxRun /\ now <= now
    BY <2>1, NothingIsNull, DaysAreInts
  <2>5. loc'[t].id \in Ids'
    BY <2>2, <2>4 DEF Ids
  <2>6. QED
    BY <2>2, <2>3, <2>4, <2>5, DaysAreInts DEF RowOf, Names
<1>3. ASSUME RunGoesOn(t), InFlight(t)' PROVE loc'[t].id \in Ids' /\ RowOf(t, rows[loc[t].id])'
  <2>1. PICK i \in Ids, path \in Paths, since \in 0 .. MaxTime :
          /\ i = loc[t].id /\ path = loc'[t].path /\ since = rows[i].started
          /\ RowOf(t, rows[i])
    BY <1>0, <1>3, DaysAreInts DEF RunGoesOn, BackupInv, RunOK, Locals
  <2>2. i \in DOMAIN rows' /\ rows'[i] = rows[i] /\ loc'[t].id = i /\ rows'[i] # NULL
    BY <1>3, <2>1, RunRowStays DEF RunGoesOn, Ids
  <2>3. now' <= since + MaxRun /\ since <= now'
    <3>1. since \in Nat /\ since <= now /\ now <= since + MaxRun /\ rows[i] # NULL
      BY <2>1, DaysAreInts DEF RowOf, Ids
    <3>2. CASE UNCHANGED now
      BY <3>1, <3>2
    <3>3. CASE now' = now + 1 /\ now < since + MaxRun
      BY <3>1, <3>3, DaysAreInts
    <3>4. QED
      BY <1>1, <1>3, <2>1, <3>1, <3>2, <3>3 DEF RunGoesOn
  <2>4. Names(path, since)'
    BY <1>3, <2>1, NamesStay DEF RowOf, RunGoesOn
  <2>5. pc'[t] \in {"exec", "fallback"} => since <= loc'[t].started
    BY <1>3, <2>1, DaysAreInts DEF RowOf, RunGoesOn
  <2>6. QED
    BY <2>1, <2>2, <2>3, <2>4, <2>5 DEF RowOf, Ids
<1>4. ASSUME InFlight(t)', NEW u \in Triggers \ {t}, InFlight(u)' PROVE loc'[u].id # loc'[t].id
  <2>1. \A v \in Triggers : InFlight(v) => loc[v].id \in 1 .. Len(rows)
    BY <1>0 DEF BackupInv, RunOK, Ids
  <2>2. /\ RunBegins(t) \/ RunGoesOn(t)
        /\ RunBegins(u) \/ RunGoesOn(u)
    BY <1>4, RunsMove
  <2>3. CASE RunGoesOn(t) /\ RunGoesOn(u)
    BY <1>4, <2>3 DEF RunGoesOn, BackupInv, RunOK
  <2>4. CASE RunBegins(t)
    <3>1. InFlight(u) /\ loc'[u].id = loc[u].id
      BY <1>4, <2>4 DEF RunBegins, InFlight
    <3>2. QED
      BY <1>0, <2>1, <2>4, <3>1 DEF RunBegins
  <2>5. CASE RunBegins(u)
    <3>1. InFlight(t) /\ loc'[t].id = loc[t].id
      BY <1>4, <2>5 DEF RunBegins, InFlight
    <3>2. QED
      BY <1>0, <2>1, <2>5, <3>1 DEF RunBegins
  <2>6. QED
    BY <2>2, <2>3, <2>4, <2>5
<1>5. QED
  BY <1>2, <1>3, <1>4, RunsMove DEF RunOK

\* What a list has read goes on holding, whatever the others do.
LEMMA ListFrame ==
  ASSUME BackupInv, TypeOK', FilesKept, RowsKept, NEW step, NEW v \in Locals, ListAt(step, v)
  PROVE  ListAt(step, v)'
<1>1. v.saw \subseteq used'
  BY DEF ListAt, FilesKept
<1>2. ASSUME v.found # NULL PROVE Names(v.found.archive, v.found.at)'
  <2>1. PICK f \in Entries : f = v.found
    BY <1>2 DEF Locals
  <2>2. Names(f.archive, f.at) /\ f.at \in 0 .. MaxTime
    BY <1>2, <2>1 DEF ListAt, Entries
  <2>3. QED
    BY <2>1, <2>2, NamesStay
<1>3. ASSUME NEW o \in v.old PROVE OutdatedOK(o)' /\ o \in Outdated
  BY OutdatedStays DEF ListAt, Locals
<1>4. ASSUME step = "delete" PROVE LET path == OldestOf(v.old).path IN HasFile(path)' => path \in stuck'
  <2>1. v.old \in SUBSET Outdated /\ MaxTime \in Nat /\ v.old # {}
    BY <1>4, DaysAreInts DEF ListAt, Locals
  <2>2. PICK o \in v.old : o = OldestOf(v.old)
    BY <2>1, OldestIsOld
  <2>3. Names(o.path, o.started) /\ (HasFile(o.path) => o.path \in stuck)
    BY <1>4, <2>2 DEF ListAt, OutdatedOK
  <2>4. HasFile(o.path)' => HasFile(o.path)
    BY <2>3 DEF HasFile, OnDisk, Names, FilesKept
  <2>5. QED
    BY <2>2, <2>3, <2>4 DEF FilesKept
<1>5. ASSUME NEW a \in v.saw, Settled(a) PROVE Settled(a)'
  BY <1>5, SettledStays DEF ListAt
<1>6. QED
  BY <1>1, <1>2, <1>3, <1>4, <1>5 DEF ListAt

LEMMA ListsStayOK ==
  ASSUME BackupInv, TypeOK', FilesKept, RowsKept, [Next]_vars, NEW l \in Listers
  PROVE  ListOK(l)'
<1>0. /\ pc \in [Processes -> Steps] /\ loc \in [Processes -> Locals] /\ Triggers \subseteq Processes
      /\ Listers \subseteq Processes /\ Restorers \subseteq Processes
      /\ l \notin Triggers /\ l \notin Restorers /\ ListAt(pc[l], loc[l])
      /\ loc[l] \in Locals /\ loc' \in [Processes -> Locals] /\ pc' \in [Processes -> Steps]
  BY BackupsConstants DEF BackupInv, TypeOK, BackupsConstants, Processes, ListOK
<1>1. ASSUME ListAt(pc'[l], loc'[l]) PROVE ListOK(l)'
  <2>1. PICK v \in Locals, step \in Steps : v = loc'[l] /\ step = pc'[l]
    BY <1>0
  <2>2. ListAt(step, v)'
    BY <1>1, <2>1, ListFrame
  <2>3. QED
    BY <2>1, <2>2 DEF ListOK
<1>2. CASE UNCHANGED <<pc[l], loc[l]>>
  BY <1>0, <1>1, <1>2
<1>3. CASE ReadDir(l)
  <2>1. /\ loc'[l] = [loc[l] EXCEPT !.todo = OnDisk, !.saw = OnDisk] /\ pc'[l] = "scan"
        /\ OnDisk \subseteq used
    BY <1>0, <1>3 DEF ReadDir, Goto, Set, BackupInv, DiskOK, OnDisk
  <2>2. QED
    BY <1>0, <1>1, <2>1 DEF ListAt, Locals
<1>4. ASSUME NEW a \in Archives, CheckArchive(l, a) PROVE ListOK(l)'
  <2>1. pc[l] = "scan" /\ a \in loc[l].todo
    BY <1>4 DEF CheckArchive
  <2>2. CASE (disk[a] = NULL \/ Known(a)) /\ Set(l, [loc[l] EXCEPT !.todo = @ \ {a}]) /\ UNCHANGED pc
    BY <1>0, <1>1, <2>1, <2>2 DEF Set, ListAt, Locals, Settled, Known
  <2>3. CASE /\ disk[a] # NULL /\ Goto(l, "insert")
             /\ Set(l, [[loc[l] EXCEPT !.todo = @ \ {a}] EXCEPT !.found = [archive |-> a, at |-> disk[a].at]])
    <3>1. Names(a, disk[a].at) /\ [archive |-> a, at |-> disk[a].at] # NULL
      <4>1. a \in used /\ disk[a] \in Files /\ disk[a].at \in 0 .. MaxTime
        BY <2>3 DEF BackupInv, TypeOK, DiskOK, Files
      <4>2. QED
        BY <2>3, <4>1, DaysAreInts, NothingIsNull DEF Names, Entries
    <3>2. /\ pc'[l] = "insert" /\ loc'[l].found = [archive |-> a, at |-> disk[a].at]
          /\ loc'[l].saw = loc[l].saw /\ loc'[l].old = loc[l].old /\ loc'[l].todo = loc[l].todo \ {a}
      BY <1>0, <2>3 DEF Goto, Set, Locals
    <3>3. QED
      BY <1>0, <1>1, <2>1, <3>1, <3>2 DEF ListAt
  <2>4. QED
    BY <1>4, <2>2, <2>3 DEF CheckArchive
<1>5. CASE InsertDiscovered(l)
  <2>1. PICK v \in Locals : v = loc[l] /\ ListAt("insert", v)' /\ v.found \in Entries
    <3>1. pc[l] = "insert" /\ loc[l].found \in Entries
      BY <1>0, <1>5 DEF InsertDiscovered, ListAt, Locals
    <3>2. PICK v \in Locals : v = loc[l] /\ ListAt("insert", v)
      BY <1>0, <3>1
    <3>3. QED
      BY <3>1, <3>2, ListFrame
  <2>2. /\ pc'[l] = "scan" /\ loc'[l].found = NULL /\ loc'[l].saw = v.saw /\ loc'[l].old = v.old
        /\ loc'[l].todo = v.todo /\ rows' = Discovered(v.found)
    BY <1>0, <1>5, <2>1 DEF InsertDiscovered, Goto, Set, Locals
  <2>3. Recorded(v.found.archive)'
    <3>1. CASE \E i \in Ids : rows[i].filename = v.found.archive
      <4>1. PICK i \in Ids : rows[i].filename = v.found.archive /\ rows'[i] = rows[i] /\ rows' = rows
        BY <2>2, <3>1 DEF Discovered
      <4>2. rows[i].path = v.found.archive
        BY <2>1, <4>1, DaysAreInts DEF BackupInv, RowOK, Entries
      <4>3. QED
        BY <4>1, <4>2 DEF Recorded, Ids
    <3>2. CASE ~ \E i \in Ids : rows[i].filename = v.found.archive
      <4>1. PICK row \in Rows : row = [filename |-> v.found.archive, status |-> "succeeded",
                                       path |-> v.found.archive, started |-> v.found.at]
        BY <2>1 DEF Rows, Paths, Entries
      <4>2. rows' = Append(rows, row) /\ row # NULL /\ row.path = v.found.archive
        BY <2>2, <3>2, <4>1, NothingIsNull DEF Discovered
      <4>3. PICK n \in DOMAIN rows' : rows'[n] = row
        BY <4>2, AppendedShape, TableShape DEF BackupInv, TypeOK
      <4>4. QED
        BY <4>2, <4>3 DEF Recorded, Ids
    <3>3. QED
      BY <3>1, <3>2
  <2>4. QED
    BY <2>1, <2>2, <2>3 DEF ListOK, ListAt, Settled
<1>6. CASE ListOld(l)
  <2>1. /\ pc[l] = "scan" /\ loc[l].todo = {} /\ pc'[l] = "remove" /\ loc'[l].found = loc[l].found
        /\ loc'[l].saw = loc[l].saw /\ loc'[l].todo = {}
        /\ loc'[l].old = {[id |-> i, started |-> rows[i].started, path |-> rows[i].path] : i \in Expired}
    BY <1>0, <1>6 DEF ListOld, Goto, Set, Locals
  <2>2. \A i \in Expired : OutdatedOK([id |-> i, started |-> rows[i].started, path |-> rows[i].path])
    BY DaysAreInts DEF Expired, OutdatedOK, BackupInv, RowOK
  <2>3. \A o \in loc'[l].old : OutdatedOK(o)
    BY <2>1, <2>2
  <2>4. QED
    BY <1>0, <1>1, <2>1, <2>3 DEF ListAt
<1>7. CASE RemoveArchive(l)
  <2>1. PICK v \in Locals : v = loc[l] /\ ListAt("remove", v)'
    <3>1. PICK v \in Locals : v = loc[l] /\ ListAt("remove", v)
      BY <1>0, <1>7 DEF RemoveArchive
    <3>2. QED
      BY <3>1, ListFrame
  <2>2. /\ pc'[l] = "delete" /\ loc'[l] = v /\ v.old # {}
        /\ \/ HasFile(OldestOf(v.old).path) /\ disk' = [disk EXCEPT ![OldestOf(v.old).path] = NULL]
           \/ ~HasFile(OldestOf(v.old).path) /\ UNCHANGED disk
           \/ OldestOf(v.old).path \in stuck'
    BY <1>0, <1>7, <2>1 DEF RemoveArchive, Goto
  <2>3. PICK path : path = OldestOf(v.old).path
    OBVIOUS
  <2>4. HasFile(path)' => path \in stuck'
    BY <2>2, <2>3 DEF HasFile, OnDisk, BackupInv, TypeOK
  <2>5. QED
    BY <2>1, <2>2, <2>3, <2>4 DEF ListOK, ListAt
<1>8. CASE DeleteRow(l)
  <2>1. /\ pc[l] = "delete" /\ pc'[l] = "remove" /\ loc'[l].found = loc[l].found /\ loc'[l].saw = loc[l].saw
        /\ loc'[l].todo = loc[l].todo /\ loc'[l].old \subseteq loc[l].old
    BY <1>0, <1>8 DEF DeleteRow, Goto, Set, Locals
  <2>2. QED
    BY <1>0, <1>1, <2>1 DEF ListAt
<1>9. ASSUME pc'[l] = "idle", loc'[l] = NoLocals PROVE ListOK(l)'
  BY <1>0, <1>1, <1>9 DEF ListAt, NoLocals
<1>10. ASSUME NEW k \in Listers, k # l, List(k) PROVE UNCHANGED <<pc[l], loc[l]>>
  BY <1>0, <1>10 DEF List, ReadDir, CheckArchive, InsertDiscovered, ListOld, RemoveArchive, DeleteRow,
     ReturnList, Goto, Set
<1>11. ASSUME NEW t \in Triggers, Trigger(t) PROVE UNCHANGED <<pc[l], loc[l]>>
  BY <1>0, <1>11 DEF Trigger, CreateBackup, Exec, ArchiveOf, ExecEnds, ExecFails, Fallback, Finish,
     FinishFailed, Cancel,
     End, Goto, Set
<1>12. ASSUME NEW r \in Restorers, Restore(r) PROVE UNCHANGED <<pc[l], loc[l]>>
  BY <1>0, <1>12 DEF Restore, GetBackup, Inspect, Extract, End, Goto, Set
<1>13. CASE ReturnList(l) \/ Crash
  BY <1>0, <1>9, <1>13 DEF ReturnList, Crash, Goto, Set
<1>14. QED
  BY <1>2, <1>3, <1>4, <1>5, <1>6, <1>7, <1>8, <1>10, <1>11, <1>12, <1>13
  DEF Next, List, Scheduled, Completed, AgentPrunes, Tick, vars

LEMMA RestoresStayOK ==
  ASSUME BackupInv, [Next]_vars
  PROVE  (\A r \in Restorers : RestoreOK(r)') /\ VolumesHoldData'
<1>0. /\ pc \in [Processes -> Steps] /\ loc \in [Processes -> Locals] /\ Triggers \subseteq Processes
      /\ Listers \subseteq Processes /\ Restorers \subseteq Processes
      /\ Triggers \cap Restorers = {} /\ Listers \cap Restorers = {}
      /\ \A r \in Restorers : RestoreOK(r)
      /\ VolumesHoldData
  BY BackupsConstants DEF BackupInv, TypeOK, BackupsConstants, Processes
<1>1. ASSUME UNCHANGED volume, \A r \in Restorers : UNCHANGED <<pc[r], loc[r]>> \/ pc'[r] # "extract"
      PROVE  (\A r \in Restorers : RestoreOK(r)') /\ VolumesHoldData'
  BY <1>0, <1>1 DEF RestoreOK, VolumesHoldData
<1>2. ASSUME NEW t \in Triggers, Trigger(t) PROVE UNCHANGED volume /\ \A r \in Restorers : UNCHANGED <<pc[r], loc[r]>>
  BY <1>0, <1>2 DEF Trigger, CreateBackup, Exec, ArchiveOf, ExecEnds, ExecFails, Fallback, Finish,
     FinishFailed, Cancel,
     End, Goto, Set
<1>3. ASSUME NEW l \in Listers, List(l) PROVE UNCHANGED volume /\ \A r \in Restorers : UNCHANGED <<pc[r], loc[r]>>
  BY <1>0, <1>3 DEF List, ReadDir, CheckArchive, InsertDiscovered, ListOld, RemoveArchive, DeleteRow,
     ReturnList, Goto, Set
<1>4. ASSUME NEW r \in Restorers, NEW i \in Ids, GetBackup(r, i)
      PROVE  (\A s \in Restorers : RestoreOK(s)') /\ VolumesHoldData'
  BY <1>0, <1>1, <1>4 DEF GetBackup, End, Goto, Set
<1>5. ASSUME NEW r \in Restorers, Inspect(r)
      PROVE  (\A s \in Restorers : RestoreOK(s)') /\ VolumesHoldData'
  BY <1>0, <1>5 DEF Inspect, Refused, End, Goto, Set, RestoreOK, VolumesHoldData
<1>6. ASSUME NEW r \in Restorers, Extract(r)
      PROVE  (\A s \in Restorers : RestoreOK(s)') /\ VolumesHoldData'
  BY <1>0, <1>6 DEF Extract, End, Goto, Set, RestoreOK, VolumesHoldData
<1>7. CASE Crash
  BY <1>0, <1>1, <1>7 DEF Crash
<1>8. QED
  BY <1>1, <1>2, <1>3, <1>4, <1>5, <1>6, <1>7 DEF Next, Restore, Scheduled, Completed, AgentPrunes, Tick, vars

LEMMA IdleStaysOK ==
  ASSUME BackupInv, [Next]_vars, NEW p \in Processes
  PROVE  IdleOK(p)'
<1>0. pc \in [Processes -> Steps] /\ loc \in [Processes -> Locals] /\ NoLocals.path = NULL /\ IdleOK(p)
  BY DEF BackupInv, TypeOK, NoLocals
<1>1. ASSUME pc'[p] # "idle" \/ UNCHANGED <<pc[p], loc[p]>> \/ loc'[p] = NoLocals PROVE IdleOK(p)'
  BY <1>0, <1>1 DEF IdleOK
<1>2. ASSUME NEW t \in Triggers, Trigger(t) PROVE pc'[p] # "idle" \/ UNCHANGED <<pc[p], loc[p]>>
  <2>1. CASE p # t
    BY <1>0, <1>2, <2>1 DEF Trigger, CreateBackup, Exec, ArchiveOf, ExecEnds, ExecFails, Fallback, Finish,
       FinishFailed,
       Cancel, End, Goto, Set
  <2>2. CASE p = t
    BY <1>0, <1>2, <2>2 DEF Trigger, CreateBackup, Exec, ArchiveOf, ExecEnds, ExecFails, Fallback, Finish,
       FinishFailed,
       Cancel, InFlight, NoPathIn, End, Goto
  <2>3. QED
    BY <2>1, <2>2
<1>3. ASSUME NEW l \in Listers, List(l) PROVE IdleOK(p)'
  <2>1. CASE p # l
    BY <1>0, <1>1, <1>3, <2>1 DEF List, ReadDir, CheckArchive, InsertDiscovered, ListOld, RemoveArchive,
       DeleteRow, ReturnList,
       Goto, Set
  <2>2. CASE p = l
    BY <1>0, <1>1, <1>3, <2>2 DEF List, ReadDir, CheckArchive, InsertDiscovered, ListOld, RemoveArchive,
       DeleteRow, ReturnList,
       Goto, Set
  <2>3. QED
    BY <2>1, <2>2
<1>4. ASSUME NEW r \in Restorers, Restore(r) PROVE pc'[p] # "idle" \/ UNCHANGED <<pc[p], loc[p]>>
  BY <1>0, <1>4 DEF Restore, GetBackup, Inspect, Extract, End, Goto, Set
<1>5. CASE Crash
  BY <1>0, <1>1, <1>5 DEF Crash
<1>6. QED
  BY <1>1, <1>2, <1>3, <1>4, <1>5 DEF Next, Scheduled, Completed, AgentPrunes, Tick, vars

LEMMA BackupInvInductive == BackupInv /\ [Next]_vars => BackupInv'
<1> SUFFICES ASSUME BackupInv, [Next]_vars PROVE BackupInv'
  OBVIOUS
<1>1. TypeOK' /\ FilesKept /\ RowsKept
  BY BackupTypesStay, FilesAreKept, RowsAreKept
<1>2. DiskOK'
  <2>1. now \in Nat /\ now' \in Nat /\ now <= now' /\ used \subseteq Archives
        /\ \A a \in Archives : disk[a] # NULL => disk[a].at \in Nat
    BY <1>1, BackupsConstants DEF BackupInv, TypeOK, FilesKept, BackupsConstants, Files
  <2>2. QED
    BY <1>1, <2>1 DEF BackupInv, DiskOK, FilesKept
<1>3. QED
  BY <1>1, <1>2, RowsStayOK, RunsStayOK, ListsStayOK, RestoresStayOK, IdleStaysOK DEF BackupInv

LEMMA BackupInitially == Init => BackupInv
<1> SUFFICES ASSUME Init PROVE BackupInv
  OBVIOUS
<1>1. /\ NULL \notin Archives /\ MaxTime \in Nat /\ MaxFailures \in Nat /\ NoLocals \in Locals
      /\ <<>> \in Seq(Rows \union {NULL}) /\ DOMAIN <<>> = {}
  BY BackupsConstants, EmptySeq DEF BackupsConstants, NoLocals, Locals, Runs, Paths
<1>2. TypeOK
  BY <1>1, BackupsConstants DEF Init, TypeOK, Steps, BackupsConstants
<1>3. \A l \in Listers : ListOK(l)
  BY DEF Init, ListOK, ListAt, NoLocals, Processes
<1>4. QED
  BY <1>1, <1>2, <1>3, BackupsConstants
  DEF Init, BackupInv, DiskOK, Ids, RunOK, InFlight, RestoreOK, IdleOK, NoLocals, Processes,
  VolumesHoldData, BackupsConstants

LEMMA BackupInvHolds == Spec => []BackupInv
<1>1. QED
  BY BackupInitially, BackupInvInductive, PTL DEF Spec

LEMMA AccountsFollow == BackupInv => ArchivesAreAccounted
<1> SUFFICES ASSUME BackupInv PROVE ArchivesAreAccounted
  OBVIOUS
<1>1. RecentRowsRestorable
  <2> SUFFICES ASSUME NEW i \in Ids, rows[i].path \in Archives, disk[rows[i].path] = NULL,
                      rows[i].started >= now - KeptFor(rows[i].path) + MaxRun
               PROVE  FALSE
    BY DEF RecentRowsRestorable
  <2>1. KeptFor(rows[i].path) \in Nat
    BY BackupsConstants, KeptForBounds DEF BackupsConstants
  <2>2. rows[i].started < now - KeptFor(rows[i].path) + MaxRun
    BY DEF BackupInv, RowOK, Names
  <2>3. QED
    BY <2>1, <2>2, DaysAreInts
<1>2. EveryArchiveListed
  BY DEF BackupInv, EveryArchiveListed, ListOK, ListAt, Settled
<1>3. QED
  BY <1>1, <1>2 DEF BackupInv, ArchivesAreAccounted

\* However triggered runs, lists and restores interleave, fail, are cancelled or die, and
\* whatever the agents make and prune: a row that is not about to expire names an archive
\* that is there, a list leaves every archive it saw recorded, gone or irremovable, and
\* the volumes never hold the control plane (Local.Trigger, discover, prune, Restore).
THEOREM RowsAndArchivesAgree == Spec => []ArchivesAreAccounted
BY BackupInvHolds, AccountsFollow, PTL

\* Neither the prune, which goes by the row, nor the agent, which goes by the file, takes
\* an archive before its time, give or take the length of a run (Local.prune).
THEOREM NoRecentArchiveIsRemoved == Spec => RecentKept
<1>1. BackupInv /\ [Next]_vars =>
        [\A a \in Archives : disk[a] # NULL /\ disk'[a] = NULL => disk[a].at < now - KeptFor(a) + MaxRun]_vars
  <2> SUFFICES ASSUME BackupInv, [Next]_vars, NEW a \in Archives, disk[a] # NULL, disk'[a] = NULL
               PROVE  disk[a].at < now - KeptFor(a) + MaxRun
    OBVIOUS
  <2>1. QED
    BY FilesAreKept DEF FilesKept, BackupInv, DiskOK
<1>2. QED
  BY <1>1, BackupInvHolds, PTL DEF Spec, RecentKept
=============================================================================
