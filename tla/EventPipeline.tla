---------------------------- MODULE EventPipeline ----------------------------
(***************************************************************************)
(* Event files, the events watcher with its backends, and the backups of   *)
(* its database that hfutilsapp asks for.                                  *)
(*                                                                         *)
(* An EventsBuffer is renamed into events/ in one step; a backup request   *)
(* is written in place, so that it is an empty file first.  The watcher    *)
(* lists the directory, reads and unlinks file after file, and hands what  *)
(* it has read to each backend: to SQLite, which serves backup requests    *)
(* and then inserts the rest in one transaction, and to Prometheus, which  *)
(* counts.  A SIGHUP closes and rotates the database between any two of    *)
(* those steps.                                                            *)
(*                                                                         *)
(* The inotify queue is one flag, as every event on it leads to the same   *)
(* listing of the directory.  The console backend only prints.  Database   *)
(* rows are the batches that they come from.                               *)
(***************************************************************************)
EXTENDS Naturals

CONSTANTS
    Batches,        \* batches of events, one file each
    Backups,        \* backup requests, one file each
    NoBackup,       \* "no backup request"
    Faults,         \* the kinds of fault that occur: "kill", "hup", "sql" ...
    MaxFaults       \* ... and a bound on how many

ASSUME FilesAssumption == Batches \cap Backups = {} /\ NoBackup \notin Backups
ASSUME FaultAssumption == MaxFaults \in Nat

Files == Batches \cup Backups

VARIABLES
    file,       \* events/<f>: none, empty, there, gone
    noted,      \* whether an inotify event is queued
    \* the watcher
    pc,         \* where it is: see TypeOK
    watching,   \* whether its inotify watch exists
    pending,    \* the files it has listed and not read
    allEvents,  \* what it has read and not finished handing over
    taken,      \* history: the batches this incarnation has read
    raised,     \* whether a backend has raised
    \* the SQLite backend
    conn,       \* whether self.conn is open
    db,         \* events.db: none, bare (no table), table
    rows,       \* the rows of it
    archive,    \* the rows of the databases that were rotated away
    asked,      \* the backup requests of this post still to serve
    current,    \* the one being served
    copying,    \* the rows that are being copied for it
    \* the Prometheus backend
    counted,    \* how often a batch was counted
    \* hfutilsapp
    app,        \* a call of push_eventsdb: idle, writing, polling, ok, 404, 504
    wanted,     \* history: the rows of events.db when it was made
    progress,   \* backup_progress_<k>_*.log: none, empty, half, full
    backup,     \* the rows in events_bkp_<k>_*.db
    faults

dirVars     == <<file, noted>>
watcherVars == <<pc, watching, pending, allEvents, taken, raised>>
sqlVars     == <<conn, db, rows, archive>>
bkpVars     == <<asked, current, copying, progress, backup>>
appVars     == <<app, wanted>>
vars        == <<dirVars, watcherVars, sqlVars, bkpVars, counted, appVars, faults>>

TypeOK ==
    /\ file \in [Files -> {"none", "empty", "there", "gone"}]
    /\ noted \in BOOLEAN
    /\ pc \in {"down", "read", "backup", "copy", "progress", "insert", "commit",
               "count", "addwatch", "wait", "close"}
    /\ watching \in BOOLEAN
    /\ pending \subseteq Files
    /\ allEvents \subseteq Files
    /\ taken \subseteq Batches
    /\ raised \in BOOLEAN
    /\ conn \in BOOLEAN
    /\ db \in {"none", "bare", "table"}
    /\ rows \subseteq Batches
    /\ archive \subseteq Batches
    /\ rows # {} => db = "table"
    /\ conn => db # "none"
    /\ pc = "wait" => watching
    /\ asked \subseteq Backups
    /\ current \in Backups \cup {NoBackup}
    /\ copying \subseteq Batches
    /\ progress \in [Backups -> {"none", "empty", "half", "full"}]
    /\ backup \in [Backups -> SUBSET Batches]
    /\ counted \in [Batches -> Nat]
    /\ app \in [Backups -> {"idle", "writing", "polling", "ok", "404", "504"}]
    /\ wanted \in [Backups -> SUBSET Batches]
    /\ faults \in 0..MaxFaults

Init ==
    /\ file = [f \in Files |-> "none"] /\ noted = FALSE
    /\ pc = "down" /\ watching = FALSE
    /\ pending = {} /\ allEvents = {} /\ taken = {} /\ raised = FALSE
    /\ conn = FALSE /\ db = "none" /\ rows = {} /\ archive = {}
    /\ asked = {} /\ current = NoBackup /\ copying = {}
    /\ progress = [k \in Backups |-> "none"] /\ backup = [k \in Backups |-> {}]
    /\ counted = [b \in Batches |-> 0]
    /\ app = [k \in Backups |-> "idle"] /\ wanted = [k \in Backups |-> {}]
    /\ faults = 0

Fault(kind) ==
    /\ kind \in Faults
    /\ faults < MaxFaults
    /\ faults' = faults + 1

-----------------------------------------------------------------------------
(* Those who write event files.                                            *)

\* EventsBuffer._flush: written beside and renamed into place.
Flush(b) ==
    /\ file[b] = "none"
    /\ file' = [file EXCEPT ![b] = "there"]
    /\ noted' = (noted \/ watching)
    /\ UNCHANGED <<watcherVars, sqlVars, bkpVars, counted, appVars, faults>>

\* Mutant: the list is posted only where it changed.
PodsRefresh_WhenChanged == FALSE

\* RefreshPodsTask posts the list of pods again and again: a file that wakes the
\* watcher and holds nothing that is stored or counted, so that it is not kept
\* here.
PodsRefresh ==
    /\ watching /\ ~noted
    /\ noted' = TRUE
    /\ UNCHANGED <<file, watcherVars, sqlVars, bkpVars, counted, appVars, faults>>

\* _push_backup_event: without a database the answer is 404; otherwise the file
\* is created, which is the one event that inotify reports of it ...
Ask(k) ==
    /\ app[k] = "idle"
    /\ IF db = "none"
       THEN /\ app' = [app EXCEPT ![k] = "404"]
            /\ UNCHANGED <<dirVars, wanted>>
       ELSE /\ app' = [app EXCEPT ![k] = "writing"]
            /\ wanted' = [wanted EXCEPT ![k] = rows]
            /\ file' = [file EXCEPT ![k] = "empty"]
            /\ noted' = (noted \/ watching)
    /\ UNCHANGED <<watcherVars, sqlVars, bkpVars, counted, faults>>

\* ... and then filled, wherever it is by then.
WriteRequest(k) ==
    /\ app[k] = "writing"
    /\ app' = [app EXCEPT ![k] = "polling"]
    /\ file' = [file EXCEPT ![k] = IF @ = "empty" THEN "there" ELSE @]
    /\ UNCHANGED <<noted, watcherVars, sqlVars, bkpVars, counted, wanted, faults>>

Poll_HalfWillDo(k) ==
    /\ app[k] = "polling"
    /\ progress[k] \in {"half", "full"}
    /\ app' = [app EXCEPT ![k] = "ok"]
    /\ UNCHANGED <<dirVars, watcherVars, sqlVars, bkpVars, counted, wanted, faults>>

\* _poll_events_bkp: the last line of the progress file says 100 %.
Poll(k) ==
    /\ app[k] = "polling"
    /\ progress[k] = "full"
    /\ app' = [app EXCEPT ![k] = "ok"]
    /\ UNCHANGED <<dirVars, watcherVars, sqlVars, bkpVars, counted, wanted, faults>>

TimeOut_OnProgressOnly(k) ==
    /\ app[k] = "polling"
    /\ progress[k] = "half"
    /\ app' = [app EXCEPT ![k] = "504"]
    /\ UNCHANGED <<dirVars, watcherVars, sqlVars, bkpVars, counted, wanted, faults>>

\* 60 seconds are over.  A progress file without a line in it is polled again
\* before the clock is looked at.
TimeOut(k) ==
    /\ app[k] = "polling"
    /\ progress[k] \in {"none", "half"}
    /\ app' = [app EXCEPT ![k] = "504"]
    /\ UNCHANGED <<dirVars, watcherVars, sqlVars, bkpVars, counted, wanted, faults>>

AppStep == \E k \in Backups : WriteRequest(k) \/ Poll(k) \/ TimeOut(k)

-----------------------------------------------------------------------------
(* The watcher (_watch_events, _process_events).                           *)

OnDisk == {f \in Files : file[f] \in {"empty", "there"}}

BackToWait_AtOnce == pc' = "wait"

\* The rest of what one listing leads to: the first one is made before there is
\* a watch.
BackToWait == pc' = IF watching THEN "wait" ELSE "addwatch"

\* What is pending is processed before the directory is watched.
Start ==
    /\ pc = "down"
    /\ pending' = OnDisk
    /\ pc' = "read"
    /\ UNCHANGED <<dirVars, watching, allEvents, taken, raised, sqlVars, bkpVars,
                   counted, appVars, faults>>

AddWatch ==
    /\ pc = "addwatch"
    /\ watching' = TRUE
    /\ pc' = "wait"
    /\ UNCHANGED <<dirVars, pending, allEvents, taken, raised, sqlVars, bkpVars,
                   counted, appVars, faults>>

\* An event: the directory is listed again.
List ==
    /\ pc = "wait" /\ noted
    /\ noted' = FALSE
    /\ pending' = OnDisk
    /\ pc' = "read"
    /\ UNCHANGED <<file, watching, allEvents, taken, raised, sqlVars, bkpVars,
                   counted, appVars, faults>>

\* Read, and unlinked whatever was read: an empty file is "Invalid JSON".
ReadFile(f) ==
    /\ pc = "read"
    /\ f \in pending
    /\ pending' = pending \ {f}
    /\ allEvents' = IF file[f] = "there" THEN allEvents \cup {f} ELSE allEvents
    /\ taken' = taken \cup ({f} \cap Batches)
    /\ file' = [file EXCEPT ![f] = "gone"]
    /\ UNCHANGED <<noted, pc, watching, raised, sqlVars, bkpVars, counted,
                   appVars, faults>>

\* All are read: the backends are called if there is something for them.
Post ==
    /\ pc = "read" /\ pending = {}
    /\ IF allEvents = {} THEN BackToWait /\ UNCHANGED asked
       ELSE pc' = "backup" /\ asked' = allEvents \cap Backups
    /\ UNCHANGED <<dirVars, watching, pending, allEvents, taken, raised, sqlVars,
                   current, copying, progress, backup, counted, appVars, faults>>

-----------------------------------------------------------------------------
(* SqliteEventBackend.post.                                                *)

\* _prepare_event_for_db: the rows that events become; a backup request becomes
\* none.
RowsOf(events) == events \cap Batches

\* open: the database and its table are created if they are not there.
OpenDb ==
    /\ conn' = TRUE
    /\ db' = IF conn THEN db ELSE "table"

\* An exception leaves post; the next backend has its turn all the same.
Raise == raised' = TRUE /\ pc' = "count"

\* _create_backup: a connection is made if there is none, which creates a
\* database without a table if there is none ...
Connect(k) ==
    /\ pc = "backup"
    /\ k \in asked
    /\ current' = k
    /\ conn' = TRUE
    /\ db' = IF db = "none" THEN "bare" ELSE db
    /\ pc' = "copy"
    /\ UNCHANGED <<dirVars, watching, pending, allEvents, taken, raised, rows,
                   archive, asked, copying, progress, backup, counted, appVars,
                   faults>>

\* ... and copied page by page: there must still be a connection, and a page,
\* as the first report of progress divides by the number of pages.
Copy ==
    /\ pc = "copy"
    /\ IF conn /\ db = "table"
       THEN /\ copying' = rows
            /\ progress' = [progress EXCEPT ![current] = "empty"]
            /\ pc' = "progress"
            /\ UNCHANGED raised
       ELSE Raise /\ UNCHANGED <<copying, progress>>
    /\ UNCHANGED <<dirVars, watching, pending, allEvents, taken, sqlVars, asked,
                   current, backup, counted, appVars, faults>>

\* _progress_callback: a line is appended to the file that it has opened.
\* A connection that a SIGHUP has closed meanwhile is noticed only at the end,
\* and that error is caught.
Progress ==
    /\ pc = "progress"
    /\ \/ /\ progress[current] = "empty"
          /\ progress' = [progress EXCEPT ![current] = "half"]
          /\ UNCHANGED <<backup, asked, pc>>
       \/ /\ progress' = [progress EXCEPT ![current] = "full"]
          /\ backup' = [backup EXCEPT ![current] = copying]
          /\ asked' = asked \ {current}
          /\ pc' = "backup"
    /\ UNCHANGED <<dirVars, watching, pending, allEvents, taken, raised, sqlVars,
                   current, copying, counted, appVars, faults>>

\* A DatabaseError of the copy, which is logged.
BackupFails ==
    /\ \/ pc = "copy"
       \/ pc = "progress" /\ progress[current] = "half"
    /\ Fault("sql")
    /\ asked' = asked \ {current}
    /\ pc' = "backup"
    /\ UNCHANGED <<dirVars, watching, pending, allEvents, taken, raised, sqlVars,
                   current, copying, progress, backup, counted, appVars>>

\* The backups are made; with no event beside them nothing is inserted.
Open ==
    /\ pc = "backup" /\ asked = {}
    /\ IF RowsOf(allEvents) = {} THEN pc' = "count" /\ UNCHANGED <<conn, db>>
       ELSE pc' = "insert" /\ OpenDb
    /\ UNCHANGED <<dirVars, watching, pending, allEvents, taken, raised, rows,
                   archive, bkpVars, counted, appVars, faults>>

Insert ==
    /\ pc = "insert"
    /\ IF conn /\ db = "table" THEN pc' = "commit" /\ UNCHANGED raised ELSE Raise
    /\ UNCHANGED <<dirVars, watching, pending, allEvents, taken, sqlVars, bkpVars,
                   counted, appVars, faults>>

Commit_ErrorIsLogged ==
    /\ pc = "commit"
    /\ rows' = IF conn THEN rows \cup RowsOf(allEvents) ELSE rows
    /\ pc' = "count"
    /\ UNCHANGED <<dirVars, watching, pending, allEvents, taken, raised, conn, db,
                   archive, bkpVars, counted, appVars, faults>>

\* The end of `with self.conn`: what a closed connection had not committed is
\* rolled back.
Commit ==
    /\ pc = "commit"
    /\ IF conn
       THEN rows' = rows \cup RowsOf(allEvents) /\ pc' = "count" /\ UNCHANGED raised
       ELSE Raise /\ UNCHANGED rows
    /\ UNCHANGED <<dirVars, watching, pending, allEvents, taken, conn, db, archive,
                   bkpVars, counted, appVars, faults>>

\* The disk is full, or the database locked.
SqlFails ==
    /\ pc \in {"insert", "commit"}
    /\ Fault("sql")
    /\ Raise
    /\ UNCHANGED <<dirVars, watching, pending, allEvents, taken, sqlVars, bkpVars,
                   counted, appVars>>

-----------------------------------------------------------------------------
(* What follows SQLite, and the end of the process.                        *)

Count_UnlessRaised ==
    /\ pc = "count"
    /\ counted' = [b \in Batches |->
                      IF b \in allEvents /\ ~raised THEN counted[b] + 1 ELSE counted[b]]
    /\ allEvents' = {}
    /\ IF raised THEN pc' = "close" ELSE BackToWait
    /\ UNCHANGED <<dirVars, watching, pending, taken, raised, sqlVars, bkpVars,
                   appVars, faults>>

\* PrometheusEventBackend.post; then an exception of SQLite is raised again.
Count ==
    /\ pc = "count"
    /\ counted' = [b \in Batches |->
                      IF b \in allEvents THEN counted[b] + 1 ELSE counted[b]]
    /\ allEvents' = {}
    /\ IF raised THEN pc' = "close" ELSE BackToWait
    /\ UNCHANGED <<dirVars, watching, pending, taken, raised, sqlVars, bkpVars,
                   appVars, faults>>

Rotate_OneName ==
    IF conn
    THEN conn' = FALSE /\ db' = "none" /\ archive' = rows /\ rows' = {}
    ELSE UNCHANGED sqlVars

\* SqliteEventBackend.close: an open database is renamed to a name of its own.
Rotate ==
    IF conn
    THEN conn' = FALSE /\ db' = "none" /\ archive' = archive \cup rows /\ rows' = {}
    ELSE UNCHANGED sqlVars

\* A new process will know nothing of this.
Forget ==
    /\ pc' = "down" /\ watching' = FALSE /\ noted' = FALSE
    /\ pending' = {} /\ allEvents' = {} /\ taken' = {} /\ raised' = FALSE
    /\ asked' = {}
    /\ counted' = [b \in Batches |-> 0]

\* The backends are closed and the process ends.
Close ==
    /\ pc = "close"
    /\ Rotate
    /\ Forget
    /\ UNCHANGED <<file, current, copying, progress, backup, appVars, faults>>

\* SIGHUP: handled between two bytecodes of whatever is going on.
Sighup ==
    /\ pc # "down"
    /\ Fault("hup")
    /\ Rotate
    /\ UNCHANGED <<dirVars, watcherVars, bkpVars, counted, appVars>>

\* The process is killed: nothing is closed, and nothing rotated.
Kill ==
    /\ pc # "down"
    /\ Fault("kill")
    /\ conn' = FALSE
    /\ Forget
    /\ UNCHANGED <<file, db, rows, archive, current, copying, progress, backup,
                   appVars>>

WatcherStep ==
    \/ Start
    \/ AddWatch
    \/ List
    \/ \E f \in Files : ReadFile(f)
    \/ Post
    \/ \E k \in Backups : Connect(k)
    \/ Copy
    \/ Progress
    \/ Open
    \/ Insert
    \/ Commit
    \/ Count
    \/ Close

Next ==
    \/ \E b \in Batches : Flush(b)
    \/ \E k \in Backups : Ask(k)
    \/ PodsRefresh
    \/ AppStep
    \/ WatcherStep
    \/ SqlFails \/ BackupFails \/ Sighup \/ Kill

Spec == Init /\ [][Next]_vars

(***************************************************************************)
(* The watcher runs when it can and is restarted when it has ended; a call *)
(* of push_eventsdb goes on polling, and its 60 seconds pass; the refresh  *)
(* of pods is due again and again.  Nothing is assumed of the others who   *)
(* post events and of those who ask for backups.                           *)
(***************************************************************************)
FairSpec == Spec /\ WF_vars(WatcherStep) /\ WF_vars(PodsRefresh) /\ \A k \in Backups :
                WF_vars(WriteRequest(k) \/ Poll(k) \/ TimeOut(k))

-----------------------------------------------------------------------------
Stored == rows \cup archive

\* Read and unlinked, in nobody's hands, and in no database.
Lost == {b \in Batches : file[b] = "gone"} \ (allEvents \cup Stored)

(***************************************************************************)
(* A batch of events is never lost without the watcher ending: a rotation, *)
(* an error of a backend or a failed backup either keeps the batch or ends *)
(* the process, and never goes unnoticed (_process_events against close).  *)
(***************************************************************************)
LossEndsTheWatcher == [][Lost' # Lost => pc' \in {"close", "down"}]_vars

(***************************************************************************)
(* What is in a database stays in a database: across rotations at any      *)
(* step, restarts and backups (SqliteEventBackend.close).                  *)
(***************************************************************************)
StoredIsKept == [][Stored \subseteq Stored']_vars

(***************************************************************************)
(* Each batch that an incarnation of the watcher has read is counted by    *)
(* Prometheus exactly once, whatever the backend before it did with it and *)
(* whatever was listed twice (_process_events, PrometheusEventBackend).    *)
(***************************************************************************)
CountedExactlyOnce ==
    \A b \in taken : counted[b] = IF b \in allEvents THEN 0 ELSE 1

(***************************************************************************)
(* A backup that push_eventsdb uploads has every row that events.db had    *)
(* when it was asked for, but for rows that were rotated away meanwhile    *)
(* (_poll_events_bkp against _create_backup and sighup).                   *)
(***************************************************************************)
BackupIsCurrent ==
    \A k \in Backups : app[k] = "ok" => wanted[k] \subseteq backup[k] \cup archive

(***************************************************************************)
(* A batch that was flushed comes to be stored, across restarts and also   *)
(* where it came between the first listing and the watch and nothing       *)
(* reports it, unless it is lost as LossEndsTheWatcher allows              *)
(* (_watch_events; the files of RefreshPodsTask make it list again).       *)
(***************************************************************************)
FlushedIsStoredOrLost ==
    \A b \in Batches : file[b] = "there" ~> b \in Stored \cup Lost

\* A progress file that was opened and never written to: its writer is dead.
SpinsOnEmpty(k) == progress[k] = "empty" /\ ~(pc = "progress" /\ current = k)

(***************************************************************************)
(* Each call of push_eventsdb is answered: with a backup, or with 404 or   *)
(* 504, also where its request was read before it was written, was lost    *)
(* with the watcher, or met a rotation, unless the watcher died between    *)
(* opening the progress file and writing to it (_poll_events_bkp).         *)
(***************************************************************************)
AskedIsAnsweredOrSpins ==
    \A k \in Backups :
        app[k] = "writing" ~> app[k] \in {"ok", "504"} \/ SpinsOnEmpty(k)
=============================================================================
