------------------------ MODULE EventPipelineProofs ------------------------
(***************************************************************************)
(* Proofs about the event files, the databases and the backups: types,     *)
(* that what was stored is kept, that no batch is lost without the watcher *)
(* ending, that each is counted once, and that a backup that was answered  *)
(* has what it was asked for; for any number of batches, backup requests   *)
(* and faults.                                                             *)
(***************************************************************************)
EXTENDS EventPipeline, TLAPS

\* A batch is renamed into place whole, and a backup that was not asked for has
\* left no trace.
Written ==
    /\ \A b \in Batches : file[b] # "empty"
    /\ \A k \in Backups : app[k] \in {"idle", "404"} => file[k] = "none" /\ wanted[k] = {}

\* What the watcher has listed is there, and what it has read is not.
Listed ==
    /\ pending \subseteq OnDisk
    /\ \A f \in allEvents \cup taken \cup asked : file[f] = "gone"
    /\ allEvents \cap Batches \subseteq taken

\* Where SQLite is done without an error, the batches are stored; an insertion
\* goes on in a database that has a table.
Inserted ==
    /\ pc = "commit" /\ conn => db = "table"
    /\ pc = "count" /\ ~raised => RowsOf(allEvents) \subseteq Stored

CountedOnce ==
    /\ \A b \in taken : counted[b] = IF b \in allEvents THEN 0 ELSE 1
    /\ \A b \in Batches \ taken : counted[b] = 0

\* What a backup was asked for stays stored, and is in the copy, the finished
\* file and the uploaded one, or was rotated away.
Copied ==
    /\ pc \in {"copy", "progress"} => current \in Backups /\ file[current] = "gone"
    /\ \A k \in Backups :
         /\ wanted[k] \subseteq Stored
         /\ pc = "progress" /\ current = k => wanted[k] \subseteq copying \cup archive
         /\ progress[k] = "full" => /\ file[k] = "gone"
                                    /\ wanted[k] \subseteq backup[k] \cup archive
         /\ app[k] = "ok" => wanted[k] \subseteq backup[k] \cup archive

IInv == TypeOK /\ Written /\ Listed /\ Inserted /\ CountedOnce /\ Copied

-----------------------------------------------------------------------------
LEMMA Initially == Init => IInv
<1>. SUFFICES ASSUME Init PROVE IInv
  OBVIOUS
<1>1. TypeOK
  <2>1. /\ progress \in [Backups -> {"none", "empty", "half", "full"}]
        /\ app \in [Backups -> {"idle", "writing", "polling", "ok", "404", "504"}]
        /\ file \in [Files -> {"none", "empty", "there", "gone"}]
        /\ counted \in [Batches -> Nat]
    BY DEF Init
  <2>2. backup \in [Backups -> SUBSET Batches] /\ wanted \in [Backups -> SUBSET Batches]
    <3>1. {} \in SUBSET Batches
      OBVIOUS
    <3>2. [k \in Backups |-> {}] \in [Backups -> SUBSET Batches]
      BY <3>1, Zenon
    <3>. QED  BY <3>2 DEF Init
  <2>3. /\ noted = FALSE /\ watching = FALSE /\ raised = FALSE /\ conn = FALSE
        /\ pc = "down" /\ db = "none" /\ current = NoBackup /\ faults = 0
        /\ pending = {} /\ allEvents = {} /\ taken = {} /\ rows = {} /\ archive = {}
        /\ asked = {} /\ copying = {}
    BY DEF Init
  <2>4. /\ faults \in 0..MaxFaults /\ current \in Backups \cup {NoBackup}
        /\ pending \subseteq Files /\ allEvents \subseteq Files /\ asked \subseteq Backups
        /\ taken \cup rows \cup archive \cup copying \subseteq Batches
    BY <2>3, FaultAssumption
  <2>. QED  BY <2>1, <2>2, <2>3, <2>4, Zenon DEF TypeOK
<1>2. Written /\ Listed /\ Inserted /\ CountedOnce
  BY DEF Init, Written, Listed, Inserted, CountedOnce, Files
<1>3. Copied
  BY DEF Init, Copied
<1>. QED  BY <1>1, <1>2, <1>3 DEF IInv

\* A fault leaves the counter in its range.
LEMMA FaultCounted ==
    ASSUME TypeOK, NEW kind, Fault(kind)
    PROVE  faults' \in 0..MaxFaults
BY FaultAssumption DEF TypeOK, Fault

-----------------------------------------------------------------------------
(* Those who write event files.                                            *)
LEMMA FlushKeeps ==
    ASSUME IInv, NEW b \in Batches, Flush(b)
    PROVE  IInv'
<1>. USE DEF Flush, IInv, vars, watcherVars, sqlVars, bkpVars, appVars
<1>1. TypeOK'
  BY FilesAssumption DEF TypeOK, Files
<1>2. Written' /\ Listed'
  BY FilesAssumption DEF TypeOK, Written, Listed, OnDisk, Files
<1>3. Inserted' /\ CountedOnce'
  BY DEF Inserted, CountedOnce, Stored, RowsOf
<1>4. Copied'
  BY FilesAssumption DEF TypeOK, Copied, Stored, Files
<1>. QED  BY <1>1, <1>2, <1>3, <1>4

LEMMA AskKeeps ==
    ASSUME IInv, NEW k \in Backups, Ask(k)
    PROVE  IInv'
<1>. USE DEF Ask, IInv, dirVars, watcherVars, sqlVars, bkpVars
<1>1. TypeOK'
  BY FilesAssumption DEF TypeOK, Files
<1>2. Written' /\ Listed'
  BY FilesAssumption DEF TypeOK, Written, Listed, OnDisk, Files
<1>3. Inserted' /\ CountedOnce'
  BY DEF Inserted, CountedOnce, Stored, RowsOf
<1>4. Copied'
  BY FilesAssumption DEF TypeOK, Written, Copied, Stored, Files
<1>. QED  BY <1>1, <1>2, <1>3, <1>4

LEMMA AppKeeps ==
    ASSUME IInv, AppStep
    PROVE  IInv'
<1>. PICK k \in Backups : WriteRequest(k) \/ Poll(k) \/ TimeOut(k)
  BY DEF AppStep
<1>. USE DEF WriteRequest, Poll, TimeOut, IInv, dirVars, watcherVars, sqlVars, bkpVars
<1>1. TypeOK'
  BY FilesAssumption DEF TypeOK, Files
<1>2. Written' /\ Listed'
  BY FilesAssumption DEF TypeOK, Written, Listed, OnDisk, Files
<1>3. Inserted' /\ CountedOnce'
  BY DEF Inserted, CountedOnce, Stored, RowsOf
<1>4. Copied'
  BY FilesAssumption DEF TypeOK, Written, Copied, Stored, Files
<1>. QED  BY <1>1, <1>2, <1>3, <1>4

-----------------------------------------------------------------------------
(* The watcher.                                                            *)
LEMMA RefreshKeeps ==
    ASSUME IInv, PodsRefresh
    PROVE  IInv'
<1>. USE DEF PodsRefresh, IInv, dirVars, watcherVars, sqlVars, bkpVars, appVars
<1>1. TypeOK'
  BY FilesAssumption DEF TypeOK, Files, OnDisk
<1>2. Written' /\ Listed'
  BY FilesAssumption DEF TypeOK, Written, Listed, OnDisk, Files
<1>3. Inserted' /\ CountedOnce'
  BY FilesAssumption DEF TypeOK, Written, Listed, Inserted, CountedOnce, Stored, RowsOf
<1>4. Copied'
  BY FilesAssumption DEF TypeOK, Listed, Copied, Stored, Files
<1>. QED  BY <1>1, <1>2, <1>3, <1>4

LEMMA StartKeeps ==
    ASSUME IInv, Start
    PROVE  IInv'
<1>. USE DEF Start, IInv, dirVars, watcherVars, sqlVars, bkpVars, appVars
<1>1. TypeOK'
  BY FilesAssumption DEF TypeOK, Files, OnDisk
<1>2. Written' /\ Listed'
  BY FilesAssumption DEF TypeOK, Written, Listed, OnDisk, Files
<1>3. Inserted' /\ CountedOnce'
  BY FilesAssumption DEF TypeOK, Written, Listed, Inserted, CountedOnce, Stored, RowsOf
<1>4. Copied'
  BY FilesAssumption DEF TypeOK, Listed, Copied, Stored, Files
<1>. QED  BY <1>1, <1>2, <1>3, <1>4

LEMMA AddWatchKeeps ==
    ASSUME IInv, AddWatch
    PROVE  IInv'
<1>. USE DEF AddWatch, IInv, dirVars, watcherVars, sqlVars, bkpVars, appVars
<1>1. TypeOK'
  BY FilesAssumption DEF TypeOK, Files, OnDisk
<1>2. Written' /\ Listed'
  BY FilesAssumption DEF TypeOK, Written, Listed, OnDisk, Files
<1>3. Inserted' /\ CountedOnce'
  BY FilesAssumption DEF TypeOK, Written, Listed, Inserted, CountedOnce, Stored, RowsOf
<1>4. Copied'
  BY FilesAssumption DEF TypeOK, Listed, Copied, Stored, Files
<1>. QED  BY <1>1, <1>2, <1>3, <1>4

LEMMA ListKeeps ==
    ASSUME IInv, List
    PROVE  IInv'
<1>. USE DEF List, IInv, dirVars, watcherVars, sqlVars, bkpVars, appVars
<1>1. TypeOK'
  BY FilesAssumption DEF TypeOK, Files, OnDisk
<1>2. Written' /\ Listed'
  BY FilesAssumption DEF TypeOK, Written, Listed, OnDisk, Files
<1>3. Inserted' /\ CountedOnce'
  BY FilesAssumption DEF TypeOK, Written, Listed, Inserted, CountedOnce, Stored, RowsOf
<1>4. Copied'
  BY FilesAssumption DEF TypeOK, Listed, Copied, Stored, Files
<1>. QED  BY <1>1, <1>2, <1>3, <1>4

LEMMA ReadKeeps ==
    ASSUME IInv, NEW f \in Files, ReadFile(f)
    PROVE  IInv'
<1>. USE DEF ReadFile, IInv, dirVars, watcherVars, sqlVars, bkpVars, appVars
<1>1. TypeOK'
  BY FilesAssumption DEF TypeOK, Files, OnDisk
<1>2. Written' /\ Listed'
  BY FilesAssumption DEF TypeOK, Written, Listed, OnDisk, Files
<1>3. f \in Batches => file[f] = "there" /\ f \notin taken /\ counted[f] = 0
  BY DEF TypeOK, Written, Listed, OnDisk, CountedOnce
<1>4. CountedOnce'
  BY <1>3 DEF TypeOK, Listed, CountedOnce
<1>5. Inserted'
  BY DEF Inserted, Stored, RowsOf
<1>6. Copied'
  BY FilesAssumption DEF TypeOK, Listed, Copied, Stored, Files
<1>. QED  BY <1>1, <1>2, <1>4, <1>5, <1>6

LEMMA PostKeeps ==
    ASSUME IInv, Post
    PROVE  IInv'
<1>. USE DEF Post, BackToWait, IInv, dirVars, watcherVars, sqlVars, bkpVars, appVars
<1>1. TypeOK'
  BY FilesAssumption DEF TypeOK, Files, OnDisk
<1>2. Written' /\ Listed'
  BY FilesAssumption DEF TypeOK, Written, Listed, OnDisk, Files
<1>3. Inserted' /\ CountedOnce'
  BY FilesAssumption DEF TypeOK, Written, Listed, Inserted, CountedOnce, Stored, RowsOf
<1>4. Copied'
  BY FilesAssumption DEF TypeOK, Listed, Copied, Stored, Files
<1>. QED  BY <1>1, <1>2, <1>3, <1>4

LEMMA ConnectKeeps ==
    ASSUME IInv, NEW k \in Backups, Connect(k)
    PROVE  IInv'
<1>. USE DEF Connect, IInv, dirVars, watcherVars, sqlVars, bkpVars, appVars
<1>1. TypeOK'
  BY FilesAssumption DEF TypeOK, Files, OnDisk
<1>2. Written' /\ Listed'
  BY FilesAssumption DEF TypeOK, Written, Listed, OnDisk, Files
<1>3. Inserted' /\ CountedOnce'
  BY FilesAssumption DEF TypeOK, Written, Listed, Inserted, CountedOnce, Stored, RowsOf
<1>4. Copied'
  BY FilesAssumption DEF TypeOK, Listed, Copied, Stored, Files
<1>. QED  BY <1>1, <1>2, <1>3, <1>4

LEMMA CopyKeeps ==
    ASSUME IInv, Copy
    PROVE  IInv'
<1>. USE DEF Copy, Raise, IInv, dirVars, watcherVars, sqlVars, bkpVars, appVars
<1>1. TypeOK'
  BY FilesAssumption DEF TypeOK, Files, OnDisk
<1>2. Written' /\ Listed'
  BY FilesAssumption DEF TypeOK, Written, Listed, OnDisk, Files
<1>3. Inserted' /\ CountedOnce'
  BY FilesAssumption DEF TypeOK, Written, Listed, Inserted, CountedOnce, Stored, RowsOf
<1>4. Copied'
  BY FilesAssumption DEF TypeOK, Listed, Copied, Stored, Files
<1>. QED  BY <1>1, <1>2, <1>3, <1>4

LEMMA ProgressKeeps ==
    ASSUME IInv, Progress
    PROVE  IInv'
<1>. USE DEF Progress, IInv, dirVars, watcherVars, sqlVars, bkpVars, appVars
<1>1. TypeOK'
  BY FilesAssumption DEF TypeOK, Files, OnDisk
<1>2. Written' /\ Listed'
  BY FilesAssumption DEF TypeOK, Written, Listed, OnDisk, Files
<1>3. Inserted' /\ CountedOnce'
  BY FilesAssumption DEF TypeOK, Written, Listed, Inserted, CountedOnce, Stored, RowsOf
<1>4. Copied'
  BY FilesAssumption DEF TypeOK, Listed, Copied, Stored, Files
<1>. QED  BY <1>1, <1>2, <1>3, <1>4

LEMMA BackupFailsKeeps ==
    ASSUME IInv, BackupFails
    PROVE  IInv'
<1>. USE DEF BackupFails, IInv, dirVars, watcherVars, sqlVars, bkpVars, appVars
<1>1. TypeOK'
  BY FilesAssumption, FaultCounted DEF TypeOK, Files, OnDisk
<1>2. Written' /\ Listed'
  BY FilesAssumption DEF TypeOK, Written, Listed, OnDisk, Files
<1>3. Inserted' /\ CountedOnce'
  BY FilesAssumption DEF TypeOK, Written, Listed, Inserted, CountedOnce, Stored, RowsOf
<1>4. Copied'
  BY FilesAssumption DEF TypeOK, Listed, Copied, Stored, Files
<1>. QED  BY <1>1, <1>2, <1>3, <1>4

LEMMA OpenKeeps ==
    ASSUME IInv, Open
    PROVE  IInv'
<1>. USE DEF Open, OpenDb, IInv, dirVars, watcherVars, sqlVars, bkpVars, appVars
<1>1. TypeOK'
  BY FilesAssumption DEF TypeOK, Files, OnDisk
<1>2. Written' /\ Listed'
  BY FilesAssumption DEF TypeOK, Written, Listed, OnDisk, Files
<1>3. Inserted' /\ CountedOnce'
  BY FilesAssumption DEF TypeOK, Written, Listed, Inserted, CountedOnce, Stored, RowsOf
<1>4. Copied'
  BY FilesAssumption DEF TypeOK, Listed, Copied, Stored, Files
<1>. QED  BY <1>1, <1>2, <1>3, <1>4

LEMMA InsertKeeps ==
    ASSUME IInv, Insert
    PROVE  IInv'
<1>. USE DEF Insert, Raise, IInv, dirVars, watcherVars, sqlVars, bkpVars, appVars
<1>1. TypeOK'
  BY FilesAssumption DEF TypeOK, Files, OnDisk
<1>2. Written' /\ Listed'
  BY FilesAssumption DEF TypeOK, Written, Listed, OnDisk, Files
<1>3. Inserted' /\ CountedOnce'
  BY FilesAssumption DEF TypeOK, Written, Listed, Inserted, CountedOnce, Stored, RowsOf
<1>4. Copied'
  BY FilesAssumption DEF TypeOK, Listed, Copied, Stored, Files
<1>. QED  BY <1>1, <1>2, <1>3, <1>4

LEMMA CommitKeeps ==
    ASSUME IInv, Commit
    PROVE  IInv'
<1>. USE DEF Commit, Raise, IInv, dirVars, watcherVars, sqlVars, bkpVars, appVars
<1>1. TypeOK'
  BY FilesAssumption DEF TypeOK, Files, OnDisk, Inserted, RowsOf
<1>2. Written' /\ Listed'
  BY FilesAssumption DEF TypeOK, Written, Listed, OnDisk, Files
<1>3. Inserted' /\ CountedOnce'
  BY FilesAssumption DEF TypeOK, Written, Listed, Inserted, CountedOnce, Stored, RowsOf
<1>4. Copied'
  BY FilesAssumption DEF TypeOK, Listed, Copied, Stored, Files
<1>. QED  BY <1>1, <1>2, <1>3, <1>4

LEMMA SqlFailsKeeps ==
    ASSUME IInv, SqlFails
    PROVE  IInv'
<1>. USE DEF SqlFails, Raise, IInv, dirVars, watcherVars, sqlVars, bkpVars, appVars
<1>1. TypeOK'
  BY FilesAssumption, FaultCounted DEF TypeOK, Files, OnDisk
<1>2. Written' /\ Listed'
  BY FilesAssumption DEF TypeOK, Written, Listed, OnDisk, Files
<1>3. Inserted' /\ CountedOnce'
  BY FilesAssumption DEF TypeOK, Written, Listed, Inserted, CountedOnce, Stored, RowsOf
<1>4. Copied'
  BY FilesAssumption DEF TypeOK, Listed, Copied, Stored, Files
<1>. QED  BY <1>1, <1>2, <1>3, <1>4

LEMMA CountKeeps ==
    ASSUME IInv, Count
    PROVE  IInv'
<1>. USE DEF Count, BackToWait, IInv, dirVars, watcherVars, sqlVars, bkpVars, appVars
<1>1. TypeOK'
  BY FilesAssumption DEF TypeOK, Files, OnDisk
<1>2. Written' /\ Listed'
  BY FilesAssumption DEF TypeOK, Written, Listed, OnDisk, Files
<1>3. Inserted' /\ CountedOnce'
  BY FilesAssumption DEF TypeOK, Written, Listed, Inserted, CountedOnce, Stored, RowsOf
<1>4. Copied'
  BY FilesAssumption DEF TypeOK, Listed, Copied, Stored, Files
<1>. QED  BY <1>1, <1>2, <1>3, <1>4

LEMMA CloseKeeps ==
    ASSUME IInv, Close
    PROVE  IInv'
<1>. USE DEF Close, Rotate, Forget, IInv, dirVars, watcherVars, sqlVars, bkpVars, appVars
<1>1. TypeOK'
  BY FilesAssumption DEF TypeOK, Files, OnDisk
<1>2. Written' /\ Listed'
  BY FilesAssumption DEF TypeOK, Written, Listed, OnDisk, Files
<1>3. Inserted' /\ CountedOnce'
  BY FilesAssumption DEF TypeOK, Written, Listed, Inserted, CountedOnce, Stored, RowsOf
<1>4. Copied'
  BY FilesAssumption DEF TypeOK, Listed, Copied, Stored, Files
<1>. QED  BY <1>1, <1>2, <1>3, <1>4

LEMMA SighupKeeps ==
    ASSUME IInv, Sighup
    PROVE  IInv'
<1>. USE DEF Sighup, Rotate, IInv, dirVars, watcherVars, sqlVars, bkpVars, appVars
<1>1. TypeOK'
  BY FilesAssumption, FaultCounted DEF TypeOK, Files, OnDisk
<1>2. Written' /\ Listed'
  BY FilesAssumption DEF TypeOK, Written, Listed, OnDisk, Files
<1>3. Inserted' /\ CountedOnce'
  BY FilesAssumption DEF TypeOK, Written, Listed, Inserted, CountedOnce, Stored, RowsOf
<1>4. Copied'
  BY FilesAssumption DEF TypeOK, Listed, Copied, Stored, Files
<1>. QED  BY <1>1, <1>2, <1>3, <1>4

LEMMA KillKeeps ==
    ASSUME IInv, Kill
    PROVE  IInv'
<1>. USE DEF Kill, Forget, IInv, dirVars, watcherVars, sqlVars, bkpVars, appVars
<1>1. TypeOK'
  BY FilesAssumption, FaultCounted DEF TypeOK, Files, OnDisk
<1>2. Written' /\ Listed'
  BY FilesAssumption DEF TypeOK, Written, Listed, OnDisk, Files
<1>3. Inserted' /\ CountedOnce'
  BY FilesAssumption DEF TypeOK, Written, Listed, Inserted, CountedOnce, Stored, RowsOf
<1>4. Copied'
  BY FilesAssumption DEF TypeOK, Listed, Copied, Stored, Files
<1>. QED  BY <1>1, <1>2, <1>3, <1>4

-----------------------------------------------------------------------------
LEMMA Inductive == IInv /\ [Next]_vars => IInv'
<1>. SUFFICES ASSUME IInv, [Next]_vars PROVE IInv'
  OBVIOUS
<1>1. CASE \E b \in Batches : Flush(b)
  BY <1>1, FlushKeeps
<1>2. CASE \E k \in Backups : Ask(k)
  BY <1>2, AskKeeps
<1>3. CASE PodsRefresh
  BY <1>3, RefreshKeeps
<1>4. CASE AppStep
  BY <1>4, AppKeeps
<1>5. CASE WatcherStep
  BY <1>5, StartKeeps, AddWatchKeeps, ListKeeps, ReadKeeps, PostKeeps, ConnectKeeps,
     CopyKeeps, ProgressKeeps, OpenKeeps, InsertKeeps, CommitKeeps, CountKeeps, CloseKeeps
     DEF WatcherStep
<1>6. CASE SqlFails \/ BackupFails \/ Sighup \/ Kill
  BY <1>6, SqlFailsKeeps, BackupFailsKeeps, SighupKeeps, KillKeeps
<1>7. CASE UNCHANGED vars
  BY <1>7 DEF vars, dirVars, watcherVars, sqlVars, bkpVars, appVars, IInv, TypeOK, Written,
     Listed, Inserted, CountedOnce, Copied, OnDisk, Stored, RowsOf
<1>. QED  BY <1>1, <1>2, <1>3, <1>4, <1>5, <1>6, <1>7 DEF Next

LEMMA Invariance == Spec => []IInv
<1>1. Init => IInv
  BY Initially
<1>2. IInv /\ [Next]_vars => IInv'
  BY Inductive
<1>. QED  BY <1>1, <1>2, PTL DEF Spec

(***************************************************************************)
(* The state of the directory, of the watcher, of its backends and of the  *)
(* calls of push_eventsdb is always well typed: a connection that is open  *)
(* has a database, and rows are in a table (SqliteEventBackend).           *)
(***************************************************************************)
THEOREM TypeCorrect == Spec => []TypeOK
<1>1. IInv => TypeOK
  BY DEF IInv
<1>. QED  BY <1>1, Invariance, PTL

(***************************************************************************)
(* Each batch that an incarnation of the watcher has read is counted once  *)
(* (_process_events, PrometheusEventBackend).                              *)
(***************************************************************************)
THEOREM CountedExactlyOnceAlways == Spec => []CountedExactlyOnce
<1>1. IInv => CountedExactlyOnce
  BY DEF IInv, CountedOnce, CountedExactlyOnce
<1>. QED  BY <1>1, Invariance, PTL

(***************************************************************************)
(* A backup that push_eventsdb uploads has every row that events.db had    *)
(* when it was asked for, but for those rotated away (_create_backup).     *)
(***************************************************************************)
THEOREM BackupIsCurrentAlways == Spec => []BackupIsCurrent
<1>1. IInv => BackupIsCurrent
  BY DEF IInv, Copied, BackupIsCurrent
<1>. QED  BY <1>1, Invariance, PTL

(***************************************************************************)
(* What is in a database stays in a database, whatever is interrupted by a *)
(* rotation (SqliteEventBackend.close).                                    *)
(***************************************************************************)
THEOREM StoredIsKeptAlways == Spec => StoredIsKept
<1>1. [Next]_vars => Stored \subseteq Stored'
  BY DEF Next, vars, dirVars, watcherVars, sqlVars, bkpVars, appVars, Stored, Flush, Ask,
     PodsRefresh, AppStep, WriteRequest, Poll, TimeOut, WatcherStep, Start, AddWatch, List,
     ReadFile, Post, Connect, Copy, Progress, Open, OpenDb, Insert, Commit, Raise, Count,
     Close, Rotate, Forget, SqlFails, BackupFails, Sighup, Kill
<1>. QED  BY <1>1, PTL DEF Spec, StoredIsKept

(***************************************************************************)
(* No batch is lost but with the end of the watcher: what leaves its hands *)
(* after a post without an error is stored (_process_events, close).       *)
(***************************************************************************)
THEOREM LossEndsTheWatcherAlways == Spec => LossEndsTheWatcher
<1>. DEFINE Noticed == Lost' # Lost => pc' \in {"close", "down"}
<1>1. IInv /\ [Next]_vars => Noticed
  <2>. SUFFICES ASSUME IInv, [Next]_vars, pc' \notin {"close", "down"}
                PROVE  Lost' = Lost
    OBVIOUS
  <2>. USE DEF dirVars, watcherVars, sqlVars, bkpVars, appVars
  <2>1. CASE UNCHANGED <<file, allEvents, Stored>>
    BY <2>1 DEF Lost
  <2>2. CASE \E b \in Batches : Flush(b)
    BY <2>2 DEF Flush, Lost, Stored, IInv, TypeOK, Files
  <2>3. CASE \E k \in Backups : Ask(k)
    BY <2>3, FilesAssumption DEF Ask, Lost, Stored, IInv, TypeOK, Files
  <2>4. CASE AppStep
    BY <2>4, FilesAssumption
       DEF AppStep, WriteRequest, Poll, TimeOut, Lost, Stored, IInv, TypeOK, Files
  <2>5. CASE \E f \in Files : ReadFile(f)
    <3>1. PICK f \in Files : ReadFile(f)
      BY <2>5
    <3>2. f \in Batches => file[f] = "there" /\ allEvents' = allEvents \cup {f}
      BY <3>1 DEF ReadFile, IInv, Written, Listed, OnDisk
    <3>3. f \notin Batches => \A b \in Batches : b \in allEvents' <=> b \in allEvents
      BY <3>1 DEF ReadFile
    <3>4. \A b \in Batches : b \in Lost' <=> b \in Lost
      BY <3>1, <3>2, <3>3 DEF ReadFile, Lost, Stored, IInv, TypeOK
    <3>. QED  BY <3>4 DEF Lost
  <2>6. CASE Count
    <3>1. ~raised /\ allEvents' = {} /\ UNCHANGED <<file, Stored>>
      BY <2>6 DEF Count, Stored
    <3>2. RowsOf(allEvents) \subseteq Stored
      BY <2>6, <3>1 DEF Count, IInv, Inserted
    <3>. QED  BY <3>1, <3>2 DEF Lost, RowsOf
  <2>7. CASE Commit
    <3>1. UNCHANGED <<file, allEvents>>
      BY <2>7 DEF Commit
    <3>2. Stored \subseteq Stored' /\ Stored' \subseteq Stored \cup allEvents
      BY <2>7 DEF Commit, Stored, RowsOf
    <3>. QED  BY <3>1, <3>2 DEF Lost
  <2>8. CASE Sighup
    BY <2>1, <2>8 DEF Sighup, Rotate, Stored
  <2>9. CASE SqlFails \/ BackupFails \/ PodsRefresh \/ UNCHANGED vars
    BY <2>1, <2>9 DEF SqlFails, BackupFails, PodsRefresh, vars, Stored
  <2>10. CASE Start \/ AddWatch \/ List \/ Post \/ Copy \/ Progress \/ Open \/ Insert
              \/ \E k \in Backups : Connect(k)
    BY <2>1, <2>10
       DEF Start, AddWatch, List, Post, Copy, Progress, Open, Insert, Connect, Raise, Stored
  <2>11. ~Close /\ ~Kill
    BY DEF Close, Kill, Forget
  <2>. QED
    BY <2>2, <2>3, <2>4, <2>5, <2>6, <2>7, <2>8, <2>9, <2>10, <2>11 DEF Next, WatcherStep
<1>. QED  BY <1>1, Invariance, PTL DEF Spec, LossEndsTheWatcher

=============================================================================
