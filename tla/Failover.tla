------------------------------ MODULE Failover ------------------------------
(***************************************************************************)
(* The start of the daemon on the managers of a swarm: it stands by until  *)
(* its node is the leader (cli/leader.go), restores the newest archive of  *)
(* the control plane over a database that looks older, opens the database  *)
(* (store/store.go) and logs docker in to the registries it lists          *)
(* (cli/registry_replay.go) before it serves (cli/serve.go).  systemd      *)
(* starts it again whenever it ends, and cluster update restarts it        *)
(* (cli/daemon.go).  Meanwhile the commands of cli/registry.go edit the    *)
(* database, and the backup agent archives the data directory.             *)
(*                                                                         *)
(* The database is a main file and a write-ahead log: a commit goes to the *)
(* log, and only a checkpoint, or the last process to close the database,  *)
(* changes the main file, whose modification time is what the start        *)
(* compares with the archive's.  What the database holds is reduced to the *)
(* registries.  Each archive lies beside the directory it was made of.     *)
(***************************************************************************)
EXTENDS FiniteSets, Naturals, Nil

CONSTANTS
  Nodes,       \* managers, each with a daemon
  First,       \* the manager that was initialised; the others have joined
  Registries,
  MaxEdits,    \* bound on the commands
  MaxFaults    \* bound on crashes, lost disks and elections

VARIABLES
  home,     \* node -> data directory: its own, or one on shared storage
  db,       \* directory -> [file, wal, frames], or NULL; wal is NULL when there is none
  older,    \* directories whose main file is older than the newest archive
  newest,   \* directory -> the newest archive of it, or NULL
  leader,
  daemon,   \* node -> where its daemon is
  todo,     \* node -> registries its daemon has yet to log in to
  cmd,      \* the command that runs: [op, node, reg, step]
  edits, faults,
  due       \* directory -> what was last checkpointed, NULL once there is more

failVars == <<home, db, older, newest, leader, daemon, todo, cmd, edits, faults, due>>
-----------------------------------------------------------------------------
Stages  == {"down", "ended", "check", "fresh", "restore", "open", "replay", "serving"}
Opened  == {"replay", "serving"}
NoCmd   == [op |-> "none", node |-> First, reg |-> NULL, step |-> "idle"]
Content == SUBSET Registries
DbFiles == [file : Content, wal : Content \union {NULL}, frames : BOOLEAN]
FailConstants == /\ First \in Nodes
                 /\ (\A rows \in Content : rows # NULL) /\ (\A f \in DbFiles : f # NULL)
ASSUME FailAssumption == FailConstants

Dirs       == {home[n] : n \in Nodes}
Visible(f) == IF f.wal = NULL THEN f.file ELSE f.wal

\* Processes that have the database of a directory open, but for one of them.
Others(d, p) ==
  {n \in Nodes : n # p /\ home[n] = d /\ daemon[n] \in Opened}
    \union {c \in {"cmd"} : c # p /\ cmd.step # "idle" /\ home[cmd.node] = d}

\* init on the first manager, prepareJoinState on the others.
FailInit ==
  /\ \E shared \in BOOLEAN : home = [n \in Nodes |-> IF shared THEN First ELSE n]
  /\ db = [d \in Nodes |-> [file |-> {}, wal |-> NULL, frames |-> FALSE]]
  /\ older = {} /\ newest = [d \in Nodes |-> NULL] /\ due = [d \in Nodes |-> {}]
  /\ leader = First
  /\ daemon = [n \in Nodes |-> "down"] /\ todo = [n \in Nodes |-> {}]
  /\ cmd = NoCmd /\ edits = 0 /\ faults = 0
-----------------------------------------------------------------------------
Enter(n, s) == daemon' = [daemon EXCEPT ![n] = s]

\* What the files of a directory become.
Written(f, rows) == [file |-> f.file, wal |-> rows, frames |-> TRUE]
Flushed(f)       == [file |-> Visible(f), wal |-> f.wal, frames |-> FALSE]
Closed(f)        == [file |-> Visible(f), wal |-> NULL, frames |-> FALSE]

Commit(d, rows) ==
  /\ db' = [db EXCEPT ![d] = Written(@, rows)]
  /\ due' = [due EXCEPT ![d] = NULL]
  /\ UNCHANGED older

\* The main file has everything.  Not counted when a daemon has already decided to
\* write an archive over it.
Settle(d, rows) ==
  due' = [due EXCEPT ![d] =
            IF \E n \in Nodes : home[n] = d /\ daemon[n] = "restore" THEN NULL ELSE rows]

\* Store.Close by p: SQLite checkpoints when it is the last.
Close(p, d) ==
  IF Others(d, p) = {}
    THEN /\ db' = [db EXCEPT ![d] = Closed(@)]
         /\ older' = IF db[d].frames THEN older \ {d} ELSE older
         /\ IF db[d].frames THEN Settle(d, Visible(db[d])) ELSE UNCHANGED due
    ELSE UNCHANGED <<db, older, due>>

\* Store.WALCheckpoint before a backup is triggered, or SQLite's own.
Checkpoint(d) ==
  /\ db[d] # NULL /\ db[d].frames
  /\ db' = [db EXCEPT ![d] = Flushed(@)]
  /\ older' = older \ {d} /\ Settle(d, Visible(db[d]))
  /\ UNCHANGED <<home, newest, leader, daemon, todo, cmd, edits, faults>>

\* The nightly run of the agent.
Archive(d) ==
  /\ db[d] # NULL
  /\ newest' = [newest EXCEPT ![d] = db[d]] /\ older' = older \union {d}
  /\ UNCHANGED <<home, db, leader, daemon, todo, cmd, edits, faults, due>>

\* systemd: Restart=always.
Start(n) ==
  /\ daemon[n] = "down" /\ Enter(n, "check")
  /\ UNCHANGED <<home, db, older, newest, leader, todo, cmd, edits, faults, due>>

\* waitForSwarmLeadership asks again every leaderPollInterval; when Docker does not
\* answer the daemon goes on as if it were alone.  The faulty variant asks once.
AskOnce(n, answers) == IF leader = n THEN "fresh" ELSE "ended"
Awaited(n, answers)   == IF ~answers \/ leader = n THEN "fresh" ELSE "check"

Lead(n, answers) ==
  /\ daemon[n] = "check" /\ Enter(n, Awaited(n, answers))
  /\ UNCHANGED <<home, db, older, newest, leader, todo, cmd, edits, faults, due>>

\* ensureControlPlaneFresh: an archive, and no database or one older than it.  The
\* faulty variant does not compare them.
AnyArchive(d) == newest[d] # NULL
Stale(d)      == newest[d] # NULL /\ (db[d] = NULL \/ d \in older)

Fresh(n) ==
  /\ daemon[n] = "fresh" /\ Enter(n, IF Stale(home[n]) THEN "restore" ELSE "open")
  /\ UNCHANGED <<home, db, older, newest, leader, todo, cmd, edits, faults, due>>

\* The files the archive has are written over those of the directory; a log the archive
\* has not stays.
Restored(f, a) == IF a.wal = NULL /\ f # NULL THEN [f EXCEPT !.file = a.file] ELSE a
RestoreControlPlane(n) ==
  LET d == home[n]
  IN  /\ daemon[n] = "restore" /\ Enter(n, "open")
      /\ db' = [db EXCEPT ![d] = Restored(@, newest[d])]
      /\ older' = older \ {d}
      /\ UNCHANGED <<home, newest, leader, todo, cmd, edits, faults, due>>

\* store.Open, which starts a log, and ListRegistries.
Open(n) ==
  LET d == home[n]
  IN  /\ daemon[n] = "open" /\ db[d] # NULL /\ Enter(n, "replay")
      /\ db' = [db EXCEPT ![d].wal = Visible(db[d])]
      /\ todo' = [todo EXCEPT ![n] = Visible(db[d])]
      /\ UNCHANGED <<home, older, newest, leader, cmd, edits, faults, due>>

\* replayRegistryLogins: a login that fails is reported, and the daemon goes on with the
\* others.
LoggedIn(n, r, ok) == todo' = [todo EXCEPT ![n] = @ \ {r}] /\ UNCHANGED daemon

Login(n) ==
  /\ daemon[n] = "replay"
  /\ \/ todo[n] = {} /\ Enter(n, "serving") /\ UNCHANGED todo
     \/ \E r \in todo[n], ok \in BOOLEAN : LoggedIn(n, r, ok)
  /\ UNCHANGED <<home, db, older, newest, leader, cmd, edits, faults, due>>
-----------------------------------------------------------------------------
\* registry add, registry remove and cluster update, on the first manager.
Run(op, r) ==
  LET d == home[First]
  IN  /\ cmd.step = "idle" /\ edits < MaxEdits /\ db[d] # NULL
      /\ edits' = edits + 1
      /\ cmd' = [op |-> op, node |-> First, reg |-> r,
                 step |-> CASE op = "add" -> "login" [] op = "remove" -> "row" [] OTHER -> "restart"]
      /\ db' = [db EXCEPT ![d].wal = Visible(db[d])]
      /\ UNCHANGED <<home, older, newest, leader, daemon, todo, faults, due>>

Then(s) == cmd' = [cmd EXCEPT !.step = s]

\* docker login, which may fail; docker logout, whose failure is only reported.
Docker ==
  /\ \/ cmd.step = "login" /\ \E s \in {"row", "close"} : Then(s)
     \/ cmd.step = "logout" /\ Then("close")
  /\ UNCHANGED <<home, db, older, newest, leader, daemon, todo, edits, faults, due>>

CmdRow ==
  LET d == home[cmd.node]
  IN  /\ cmd.step = "row" /\ db[d] # NULL
      /\ IF cmd.op = "add"
           THEN Commit(d, Visible(db[d]) \union {cmd.reg}) /\ Then("close")
         ELSE IF cmd.reg \in Visible(db[d])
           THEN Commit(d, Visible(db[d]) \ {cmd.reg}) /\ Then("logout")
         ELSE Then("close") /\ UNCHANGED <<db, older, due>>
      /\ UNCHANGED <<home, newest, leader, daemon, todo, edits, faults>>

\* ensureDaemonRunning: systemctl restart.  The command keeps the database open, so that
\* the daemon it stops is not the last to close it.
CmdRestart ==
  /\ cmd.step = "restart" /\ Then("close")
  /\ Enter(cmd.node, "check")
  /\ todo' = [todo EXCEPT ![cmd.node] = {}]
  /\ UNCHANGED <<home, db, older, newest, leader, edits, faults, due>>

CmdClose ==
  /\ cmd.step = "close" /\ cmd' = NoCmd
  /\ IF db[home[cmd.node]] = NULL THEN UNCHANGED <<db, older, due>>
                                  ELSE Close("cmd", home[cmd.node])
  /\ UNCHANGED <<home, newest, leader, daemon, todo, edits, faults>>
-----------------------------------------------------------------------------
Fault == faults < MaxFaults /\ faults' = faults + 1

\* SIGTERM to the daemon, which closes the store; systemd starts it again.
Stop(n) ==
  /\ Fault /\ daemon[n] = "serving" /\ Enter(n, "down") /\ Close(n, home[n])
  /\ UNCHANGED <<home, newest, leader, todo, cmd, edits>>

Kill(n) ==
  /\ Fault /\ daemon[n] \notin {"down", "restore"} /\ Enter(n, "down")
  /\ todo' = [todo EXCEPT ![n] = {}]
  /\ UNCHANGED <<home, db, older, newest, leader, cmd, edits, due>>

CutOff ==
  /\ Fault /\ cmd.step # "idle" /\ cmd' = NoCmd
  /\ UNCHANGED <<home, db, older, newest, leader, daemon, todo, edits, due>>

\* The disk of a manager is replaced: its data directory is gone, the archives are not.
LoseDisk(n) ==
  LET d == home[n]
  IN  /\ Fault /\ newest[d] # NULL /\ cmd.step = "idle"
      /\ \A m \in Nodes : home[m] = d => daemon[m] = "down"
      /\ db' = [db EXCEPT ![d] = NULL]
      /\ due' = [due EXCEPT ![d] = Visible(newest[d])]
      /\ UNCHANGED <<home, older, newest, leader, daemon, todo, cmd, edits>>

Elect(n) ==
  /\ Fault /\ n # leader /\ leader' = n
  /\ UNCHANGED <<home, db, older, newest, daemon, todo, cmd, edits, due>>

DaemonStep(n) ==
  \/ Start(n) \/ Lead(n, TRUE) \/ Fresh(n) \/ RestoreControlPlane(n) \/ Open(n) \/ Login(n)
CmdStep == Docker \/ CmdRow \/ CmdRestart \/ CmdClose

FailNext ==
  \/ \E n \in Nodes : DaemonStep(n) \/ Lead(n, FALSE)
  \/ \E r \in Registries : Run("add", r) \/ Run("remove", r)
  \/ Run("update", NULL) \/ CmdStep
  \/ \E d \in Dirs : Checkpoint(d) \/ Archive(d)
  \/ \E n \in Nodes : Stop(n) \/ Kill(n) \/ LoseDisk(n) \/ Elect(n)
  \/ CutOff

\* The processes go on; systemd restarts a daemon that ends.
Fairness == WF_failVars(CmdStep) /\ \A n \in Nodes : WF_failVars(DaemonStep(n))
FailSpec == FailInit /\ [][FailNext]_failVars /\ Fairness
-----------------------------------------------------------------------------
FailTypeOK ==
  /\ home \in [Nodes -> Nodes] /\ leader \in Nodes
  /\ db \in [Nodes -> DbFiles \union {NULL}] /\ newest \in [Nodes -> DbFiles \union {NULL}]
  /\ daemon \in [Nodes -> Stages] /\ todo \in [Nodes -> Content]

\* What has been checkpointed stays: no start, wherever and whenever, brings back an
\* older state once the main file has everything, and a start after the loss of the disk
\* brings back all the newest archive has (ensureControlPlaneFresh compares modification
\* times of the main file only).
CheckpointedIsKept ==
  \A d \in Dirs : db[d] # NULL /\ due[d] # NULL => Visible(db[d]) = due[d]

\* A current database is never clobbered (restore-design.md:53, leader.go:83): the start
\* of the daemon that cluster update restarts leaves what has been committed alone.
CurrentIsKept ==
  [][\A d \in Dirs :
       cmd.op = "update" /\ cmd.step = "close" /\ cmd' = cmd /\ db[d] # NULL /\ db'[d] # NULL
         => Visible(db'[d]) = Visible(db[d])]_failVars

\* Once a node stays the leader its daemon ends up serving, and goes on
\* (waitForSwarmLeadership, Restart=always).
LeaderServes ==
  \A n \in Nodes : (<>[](leader = n)) => <>[](daemon[n] = "serving")
=============================================================================
