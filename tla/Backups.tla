------------------------------- MODULE Backups -------------------------------
(***************************************************************************)
(* The volume backups, internal/backups over internal/store/backups.go:    *)
(* the runs that are triggered on demand or before a deploy, the archives  *)
(* the offen agent leaves in ArchiveDir, the listing that discovers and    *)
(* prunes them, and the restore.  The CLI and the requests of the daemon   *)
(* run all of them concurrently: every statement, every scan of the        *)
(* directory and every removal is an action.  Time is counted in days.     *)
(***************************************************************************)
EXTENDS Integers, Sequences, FiniteSets, Nil

CONSTANTS
  Triggers,   \* runs of the backup that are triggered
  Listers,    \* processes that list the runs
  Restorers,  \* processes that restore one
  Archives,   \* names of archives; the agent puts the node and the time in them
  ControlPlane,  \* those with the prefix pmcluster-ctlplane-
  Retention,  \* RetentionDays
  Horizon,    \* days the agent keeps the archives of the control plane
  MaxRun,     \* midnights a triggered run may last
  MaxTime,      \* bound on the clock
  MaxFailures,  \* bound on what fails
  Printed       \* a path below /archive

ASSUME BackupsConstants ==
  /\ ControlPlane \subseteq Archives
  /\ Triggers \cap Listers = {} /\ Triggers \cap Restorers = {}
  /\ Listers \cap Restorers = {}
  /\ Retention \in Nat \ {0} /\ Horizon \in Nat /\ MaxRun \in 0 .. Retention
  /\ MaxTime \in Nat /\ MaxFailures \in Nat
  /\ Printed \notin Archives /\ NULL \notin Archives \union {Printed} /\ NULL # "ok"

VARIABLES
  now,
  used,      \* names of archives that were made
  disk,      \* the files in ArchiveDir: [at, whole] or NULL
  rows,      \* the table backups; row i has id i, a deleted one is NULL
  volume,    \* archive the volumes were last restored from
  stuck,     \* archives whose removal failed
  failures,  \* what has failed so far
  pc, loc

vars == <<now, used, disk, rows, volume, stuck, failures, pc, loc>>
files   == <<used, disk>>
-----------------------------------------------------------------------------
Processes == Triggers \union Listers \union Restorers
Runs == {"on_demand", "pre_deploy"}

\* archive_paths of a row: a run leaves one archive, so that it holds no path, that
\* of an archive in ArchiveDir, or one the agent printed, which is in its container.
Paths == Archives \union {Printed, NULL}

Rows == [filename : Archives \union {NULL}, status : {"pending", "succeeded", "failed"},
         path : Paths, started : 0 .. MaxTime]
Files == [at : 0 .. MaxTime, whole : BOOLEAN]

Steps == {"idle", "run", "exec", "failed", "fallback", "finish", "scan", "insert",
          "query", "remove", "delete", "inspect", "extract", "ended"}
Entries == [archive : Archives, at : 0 .. MaxTime]
Outdated == [id : Nat \ {0}, started : 0 .. MaxTime, path : Paths]
Locals == [run : Runs, id : Nat, started : 0 .. MaxTime, cancelled : BOOLEAN,
           path : Paths, made : Archives \union {NULL},
           todo : SUBSET Archives, saw : SUBSET Archives,
           found : Entries \union {NULL},
           old : SUBSET Outdated, result : {"ok", "error", NULL}]
NoLocals == [run |-> "on_demand", id |-> 0, started |-> 0, cancelled |-> FALSE,
             path |-> NULL, made |-> NULL, todo |-> {}, saw |-> {},
             found |-> NULL, old |-> {}, result |-> NULL]

ASSUME NothingIsNull == \A r \in Rows \union Files \union Entries : r # NULL

Goto(p, step) == pc' = [pc EXCEPT ![p] = step]
Set(p, new) == loc' = [loc EXCEPT ![p] = new]
End(p, result) ==
  /\ Goto(p, "ended")
  /\ Set(p, [NoLocals EXCEPT !.run = loc[p].run, !.id = loc[p].id, !.path = loc[p].path,
                            !.result = result])
Fails == failures < MaxFailures /\ failures' = failures + 1

OnDisk == {a \in Archives : disk[a] # NULL}
Ids == {i \in DOMAIN rows : rows[i] # NULL}
Recorded(path) == \E i \in Ids : rows[i].path = path
InFlight(t) == pc[t] \in {"run", "exec", "failed", "fallback", "finish"}

Init ==
  /\ now = 0
  /\ used = {} /\ disk = [a \in Archives |-> NULL]
  /\ rows = <<>>
  /\ volume = NULL
  /\ stuck = {} /\ failures = 0
  /\ pc = [p \in Processes |-> "idle"] /\ loc = [p \in Processes |-> NoLocals]
-----------------------------------------------------------------------------
(* A triggered run.                                                        *)

\* CreateBackup: the pending row.  run: Local.Trigger or runPreDeployBackup.
CreateBackup(t, run) ==
  /\ pc[t] = "idle"
  /\ rows' = Append(rows, [filename |-> NULL, status |-> "pending", path |-> NULL,
                           started |-> now])
  /\ Goto(t, "run")
  /\ Set(t, [loc[t] EXCEPT !.run = run, !.id = Len(rows) + 1])
  /\ UNCHANGED <<now, files, volume, stuck, failures>>

\* The clock is read for the fallback, the WAL is flushed, the container is
\* looked up and `docker exec` started; without one the run has failed.
Exec(t) ==
  /\ pc[t] = "run"
  /\ Set(t, [loc[t] EXCEPT !.started = now])
  /\ \/ ~loc[t].cancelled /\ Goto(t, "exec") /\ UNCHANGED failures
     \/ loc[t].cancelled /\ Goto(t, "failed") /\ UNCHANGED failures
     \/ Fails /\ Goto(t, "failed")
  /\ UNCHANGED <<now, files, rows, volume, stuck>>

\* The agent begins to copy an archive into ArchiveDir.
NewArchive(a) ==
  /\ a \notin used /\ used' = used \union {a}
  /\ disk' = [disk EXCEPT ![a] = [at |-> now, whole |-> FALSE]]

\* The archive of the run.
ArchiveOf(t, a) ==
  /\ pc[t] = "exec" /\ loc[t].made = NULL /\ NewArchive(a) /\ a \notin ControlPlane
  /\ Set(t, [loc[t] EXCEPT !.made = a])
  /\ UNCHANGED <<now, rows, volume, stuck, failures, pc>>

\* The exec ends well when its archive is complete; its output names the archive
\* in the agent's file system, or nothing that is recognised as one.  Only
\* Local.Trigger looks in ArchiveDir then.
NoPathIn(t) == IF loc[t].run = "on_demand" THEN "fallback" ELSE "finish"
ExecEnds(t) ==
  /\ pc[t] = "exec" /\ loc[t].made # NULL
  /\ disk[loc[t].made] # NULL /\ disk[loc[t].made].whole
  /\ \/ /\ Set(t, [loc[t] EXCEPT !.path = Printed])
        /\ Goto(t, "finish")
     \/ Goto(t, NoPathIn(t)) /\ UNCHANGED loc
  /\ UNCHANGED <<now, files, rows, volume, stuck, failures>>

\* The exec fails, or is killed with the context of the request.
ExecFails(t) ==
  /\ pc[t] = "exec" /\ Goto(t, "failed")
  /\ \/ loc[t].cancelled /\ UNCHANGED failures
     \/ Fails
  /\ UNCHANGED <<now, files, rows, volume, stuck, loc>>

\* archiveCreatedAfter: the newest archive since the run started, of any run.
\* The faulty variant takes the first archive of the directory.
FirstEntry(since) == OnDisk
Newest(since) == {a \in OnDisk : /\ disk[a].at >= since
                                 /\ \A b \in OnDisk : disk[b].at <= disk[a].at}
Fallback(t) ==
  /\ pc[t] = "fallback" /\ Goto(t, "finish")
  /\ \/ \E a \in Newest(loc[t].started) : Set(t, [loc[t] EXCEPT !.path = a])
     \/ Newest(loc[t].started) = {} /\ UNCHANGED loc
  /\ UNCHANGED <<now, files, rows, volume, stuck, failures>>

\* FinishBackup: UPDATE ... WHERE id = ?
Finished(id, status, path) ==
  [i \in DOMAIN rows |->
     IF i = id /\ rows[i] # NULL
     THEN [filename |-> rows[i].filename, status |-> status, path |-> path, started |-> rows[i].started]
     ELSE rows[i]]

\* What a run returns that could not be recorded: only Local.Trigger minds.
Unrecorded(run) == IF run = "on_demand" THEN "error" ELSE "ok"

Finish(t) ==
  /\ pc[t] = "finish"
  /\ \/ /\ ~loc[t].cancelled
        /\ rows' = Finished(loc[t].id, "succeeded", loc[t].path)
        /\ End(t, "ok") /\ UNCHANGED failures
     \/ /\ \/ loc[t].cancelled /\ UNCHANGED failures
           \/ Fails
        /\ End(t, Unrecorded(loc[t].run)) /\ UNCHANGED rows
  /\ UNCHANGED <<now, files, volume, stuck>>

\* The error of this FinishBackup is dropped.
FinishFailed(t) ==
  /\ pc[t] = "failed" /\ End(t, "error")
  /\ \/ ~loc[t].cancelled /\ rows' = Finished(loc[t].id, "failed", NULL) /\ UNCHANGED failures
     \/ loc[t].cancelled /\ UNCHANGED <<rows, failures>>
     \/ Fails /\ UNCHANGED rows
  /\ UNCHANGED <<now, files, volume, stuck>>

\* The client goes away, or the timeout of the router or of the CLI ends the context.
Cancel(t) ==
  /\ InFlight(t) /\ ~loc[t].cancelled /\ Fails
  /\ Set(t, [loc[t] EXCEPT !.cancelled = TRUE])
  /\ UNCHANGED <<now, files, rows, volume, stuck, pc>>

Trigger(t) ==
  \/ \E run \in Runs : CreateBackup(t, run)
  \/ Exec(t) \/ ExecEnds(t) \/ ExecFails(t) \/ Fallback(t)
  \/ Finish(t) \/ FinishFailed(t) \/ Cancel(t)
  \/ \E a \in Archives : ArchiveOf(t, a)
-----------------------------------------------------------------------------
(* List and ListForStack: discover, prune, query.                          *)

\* discover reads the directory.
ReadDir(l) ==
  /\ pc[l] = "idle" /\ Goto(l, "scan")
  /\ Set(l, [loc[l] EXCEPT !.todo = OnDisk, !.saw = OnDisk])
  /\ UNCHANGED <<now, files, rows, volume, stuck, failures>>

\* Info and BackupExistsByPath for one entry.
\* The faulty variant has a pattern that matches every path.
KnownIfAny(a) == \E i \in Ids : rows[i].path # NULL
Known(a) == Recorded(a)
CheckArchive(l, a) ==
  /\ pc[l] = "scan" /\ a \in loc[l].todo
  /\ LET left == [loc[l] EXCEPT !.todo = @ \ {a}] IN
     IF disk[a] = NULL \/ Known(a)
     THEN Set(l, left) /\ UNCHANGED pc
     ELSE Set(l, [left EXCEPT !.found = [archive |-> a, at |-> disk[a].at]])
          /\ Goto(l, "insert")
  /\ UNCHANGED <<now, files, rows, volume, stuck, failures>>

\* RecordDiscoveredBackup: INSERT OR IGNORE, filename is unique.
Discovered(f) ==
  IF \E i \in Ids : rows[i].filename = f.archive THEN rows
  ELSE Append(rows, [filename |-> f.archive, status |-> "succeeded",
                     path |-> f.archive, started |-> f.at])
InsertDiscovered(l) ==
  /\ pc[l] = "insert" /\ Goto(l, "scan")
  /\ rows' = Discovered(loc[l].found)
  /\ Set(l, [loc[l] EXCEPT !.found = NULL])
  /\ UNCHANGED <<now, files, volume, stuck, failures>>

\* ListBackupsOlderThan
\* The faulty variant includes rows of exactly that age.
ExpiredOrAlmost == {i \in Ids : rows[i].started <= now - Retention}
Expired == {i \in Ids : rows[i].started < now - Retention}
ListOld(l) ==
  /\ pc[l] = "scan" /\ loc[l].todo = {} /\ Goto(l, "remove")
  /\ Set(l, [loc[l] EXCEPT !.old = 
    {[id |-> i, started |-> rows[i].started, path |-> rows[i].path] : i \in Expired}])
  /\ UNCHANGED <<now, files, rows, volume, stuck, failures>>

\* os.Remove of the archive of the oldest row left: its error is dropped.
OldestOf(old) == CHOOSE o \in old :
  \A p \in old : o.started < p.started \/ (o.started = p.started /\ o.id <= p.id)
HasFile(path) == path \in OnDisk
RemoveArchive(l) ==
  /\ pc[l] = "remove" /\ loc[l].old # {} /\ Goto(l, "delete")
  /\ LET path == OldestOf(loc[l].old).path IN
     \/ /\ HasFile(path) /\ disk' = [disk EXCEPT ![path] = NULL]
        /\ UNCHANGED <<stuck, failures>>
     \/ ~HasFile(path) /\ UNCHANGED <<disk, stuck, failures>>
     \/ HasFile(path) /\ Fails /\ stuck' = stuck \union {path} /\ UNCHANGED disk
  /\ UNCHANGED <<now, used, rows, volume, loc>>

\* DeleteBackup
DeleteRow(l) ==
  /\ pc[l] = "delete" /\ Goto(l, "remove")
  /\ LET o == OldestOf(loc[l].old) IN
     /\ rows' = [rows EXCEPT ![o.id] = NULL]
     /\ Set(l, [loc[l] EXCEPT !.old = @ \ {o}])
  /\ UNCHANGED <<now, files, volume, stuck, failures>>

\* The query; the process may list again.
ReturnList(l) ==
  /\ pc[l] = "remove" /\ loc[l].old = {}
  /\ Goto(l, "idle") /\ Set(l, NoLocals)
  /\ UNCHANGED <<now, files, rows, volume, stuck, failures>>

List(l) ==
  \/ ReadDir(l) \/ InsertDiscovered(l) \/ ListOld(l) \/ RemoveArchive(l)
  \/ DeleteRow(l) \/ ReturnList(l)
  \/ \E a \in Archives : CheckArchive(l, a)
-----------------------------------------------------------------------------
(* Restore and Browse read a row; Restore extracts its archive.            *)

\* GetBackup; only succeeded runs are restorable, and a row that names no
\* archive restores nothing without an error.
GetBackup(r, i) ==
  /\ pc[r] = "idle" /\ i \in Ids
  /\ CASE rows[i].status # "succeeded" -> End(r, "error")
       [] rows[i].status = "succeeded" /\ rows[i].path = NULL -> End(r, "ok")
       [] OTHER -> Goto(r, "inspect") /\ Set(r, [loc[r] EXCEPT !.path = rows[i].path])
  /\ UNCHANGED <<now, files, rows, volume, stuck, failures>>

\* refuseControlPlaneArchive opens the archive and looks at its first entries.
\* The faulty variant refuses none.
NothingRefused(a) == FALSE
Refused(a) == a \in ControlPlane
Inspect(r) ==
  /\ pc[r] = "inspect"
  /\ IF HasFile(loc[r].path) /\ ~Refused(loc[r].path)
     THEN Goto(r, "extract") /\ UNCHANGED loc ELSE End(r, "error")
  /\ UNCHANGED <<now, files, rows, volume, stuck, failures>>

\* restoreArchive opens it again and extracts directories and regular files over the
\* volumes, as far as it goes.  A torn archive and a failed write end it with an error;
\* links are passed over and errors of Close dropped, so that a success does not
\* mean that everything in the archive is there.
Extract(r) ==
  /\ pc[r] = "extract"
  /\ IF HasFile(loc[r].path)
       THEN /\ volume' = loc[r].path
            /\ \/ End(r, IF disk[loc[r].path].whole THEN "ok" ELSE "error") /\ UNCHANGED failures
               \/ Fails /\ End(r, "error")
       ELSE End(r, "error") /\ UNCHANGED <<volume, failures>>
  /\ UNCHANGED <<now, files, rows, stuck>>

Restore(r) == Inspect(r) \/ Extract(r) \/ \E i \in Ids : GetBackup(r, i)
-----------------------------------------------------------------------------
(* The host.                                                               *)

\* The agents make their nightly archives, and the data archive of an exec
\* whose client was killed.
Scheduled(a) ==
  /\ NewArchive(a)
  /\ UNCHANGED <<now, rows, volume, stuck, failures, pc, loc>>

\* The archive is complete; when the agent dies before, it never is.
Completed(a) ==
  /\ disk[a] # NULL /\ ~disk[a].whole
  /\ disk' = [disk EXCEPT ![a].whole = TRUE]
  /\ UNCHANGED <<now, used, rows, volume, stuck, failures, pc, loc>>

\* The agents prune their own archives.
Keep(a) == IF a \in ControlPlane THEN Horizon ELSE Retention
\* Until when neither an agent nor the prune removes an archive.
KeptFor(a) == IF Keep(a) < Retention THEN Keep(a) ELSE Retention
AgentPrunes(a) ==
  /\ disk[a] # NULL /\ disk[a].at < now - Keep(a)
  /\ disk' = [disk EXCEPT ![a] = NULL]
  /\ UNCHANGED <<now, used, rows, volume, stuck, failures, pc, loc>>

\* A run ends within MaxRun midnights: the router allows it 30 seconds.
Tick ==
  /\ now < MaxTime /\ now' = now + 1
  /\ \A t \in Triggers : InFlight(t) /\ rows[loc[t].id] # NULL
       => now < rows[loc[t].id].started + MaxRun
  /\ UNCHANGED <<files, rows, volume, stuck, failures, pc, loc>>

\* The process dies with everything it was doing; the next one may list and restore.
Crash ==
  /\ Fails /\ \E p \in Processes : pc[p] \notin {"idle", "ended"}
  /\ pc' = [p \in Processes |->
              IF p \in Triggers /\ pc[p] # "idle" THEN "ended" ELSE "idle"]
  /\ loc' = [p \in Processes |-> IF p \in Triggers THEN loc[p] ELSE NoLocals]
  /\ UNCHANGED <<now, files, rows, volume, stuck>>

Next ==
  \/ \E t \in Triggers : Trigger(t)
  \/ \E l \in Listers : List(l)
  \/ \E r \in Restorers : Restore(r)
  \/ \E a \in Archives : Scheduled(a) \/ Completed(a) \/ AgentPrunes(a)
  \/ Tick \/ Crash

Spec == Init /\ [][Next]_vars
-----------------------------------------------------------------------------
(* Properties.                                                             *)

\* The tables, the files and the processes have the types the code gives them.
TypeOK ==
  /\ now \in 0 .. MaxTime
  /\ used \subseteq Archives
  /\ disk \in [Archives -> Files \union {NULL}]
  /\ rows \in Seq(Rows \union {NULL})
  /\ volume \in Archives \union {NULL}
  /\ stuck \subseteq Archives /\ failures \in 0 .. MaxFailures
  /\ pc \in [Processes -> Steps] /\ loc \in [Processes -> Locals]

\* The prune works on rows and the agent on files: although a row may be older
\* than the archive it names, and name the archive of another run, no archive is
\* removed before it is as old as the retention (for one of the control plane: as the
\* shorter of the two there are), give or take the length of a run.
RecentKept ==
  [][\A a \in Archives : disk[a] # NULL /\ disk'[a] = NULL
       => disk[a].at < now - KeptFor(a) + MaxRun]_vars

\* A row that is not about to expire names an archive that is still there, although
\* two rows may name the same archive and the older of them takes it along.
RecentRowsRestorable ==
  \A i \in Ids : /\ rows[i].path \in Archives
                 /\ rows[i].started >= now - KeptFor(rows[i].path) + MaxRun
    => disk[rows[i].path] # NULL

\* When a list has scanned the directory, every archive it saw is in the table, is
\* gone, or is one whose removal failed, whatever other processes insert and prune.
EveryArchiveListed ==
  \A l \in Listers : pc[l] \in {"remove", "delete"} =>
    \A a \in loc[l].saw : disk[a] = NULL \/ a \in stuck \/ Recorded(a)

\* The volumes are never restored from an archive of the control plane, whichever
\* archive the row of a run came to name.
VolumesHoldData == volume \notin ControlPlane

\* What a row names can be restored, what a listing saw is in the table, and no
\* restore mixes the control plane into the volumes (discover, prune and Restore run
\* in any order).
ArchivesAreAccounted == RecentRowsRestorable /\ EveryArchiveListed /\ VolumesHoldData
=============================================================================
