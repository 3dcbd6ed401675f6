----------------------------- MODULE DirWatcher -----------------------------
(***************************************************************************)
(* impl/watchers/request.py: the loop of the request-machines and of the   *)
(* request-return-machines watcher, with the handler of one entry left     *)
(* abstract (Provisioning has both handlers).                              *)
(*                                                                         *)
(* A started watcher lists the directories that have no .processed file    *)
(* and serves them; only then does it add its inotify watch, and from then *)
(* on it serves the directories that inotify reports.  The kernel queues   *)
(* an event only if the watch exists when the directory is renamed into    *)
(* place.  The process may die at any point, an exception of the handler   *)
(* included, and is restarted by a supervisor (documentation/design.md);   *)
(* the listing, the position in it and the inotify queue die with it.      *)
(***************************************************************************)
EXTENDS Naturals, Sequences

CONSTANTS
    Dirs,           \* request directories, by name
    Entries,        \* the names of entries of request directories
    NoDir,          \* "no directory"
    NoEntry,        \* "no entry"
    MaxCrashes      \* bound: how often the watcher dies

ASSUME NoDirAssumption == NoDir \notin Dirs
ASSUME NoEntryAssumption == NoEntry \notin Entries
ASSUME MaxCrashesAssumption == MaxCrashes \in Nat

VARIABLES
    published,  \* the directories renamed into place
    contents,   \* their entries
    processed,  \* the directories with a .processed file
    handled,    \* history: entries whose handler returned, by directory
    calls,      \* history: how often the handler was called for an entry
    pc,         \* down, scan, catchup (serving the scan), watching
    todo,       \* directories of the scan not yet served
    cur,        \* the directory being served
    left,       \* its entries still to visit
    busy,       \* the entry whose handler is running
    inbox,      \* directories the inotify queue holds
    crashes     \* how often the watcher died

diskVars == <<published, contents, processed>>
histVars == <<handled, calls>>
procVars == <<pc, todo, cur, left, busy, inbox>>
vars     == <<diskVars, histVars, procVars, crashes>>

InInbox(d) == \E i \in 1..Len(inbox) : inbox[i] = d

TypeOK ==
    /\ published \subseteq Dirs
    /\ contents \in [Dirs -> SUBSET Entries]
    /\ processed \subseteq Dirs
    /\ handled \in [Dirs -> SUBSET Entries]
    /\ calls \in [Dirs -> [Entries -> Nat]]
    /\ pc \in {"down", "scan", "catchup", "watching"}
    /\ todo \subseteq Dirs
    /\ cur \in Dirs \cup {NoDir}
    /\ left \subseteq Entries
    /\ busy \in Entries \cup {NoEntry}
    /\ inbox \in Seq(Dirs)
    /\ crashes \in 0..MaxCrashes

Init ==
    /\ published = {}
    /\ contents = [d \in Dirs |-> {}]
    /\ processed = {}
    /\ handled = [d \in Dirs |-> {}]
    /\ calls = [d \in Dirs |-> [e \in Entries |-> 0]]
    /\ pc = "down"
    /\ todo = {} /\ cur = NoDir /\ left = {} /\ busy = NoEntry
    /\ inbox = <<>>
    /\ crashes = 0

-----------------------------------------------------------------------------
(* Definitions named <Definition>_<Bug> are not part of the model: each is a
   way the code could be wrong that a property must notice. *)

\* The watch added before the scan, and nothing else changed.
Publish_WatchFirst(d, entries) ==
    /\ d \notin published
    /\ published' = published \cup {d}
    /\ contents' = [contents EXCEPT ![d] = entries]
    /\ inbox' = IF pc = "down" THEN inbox ELSE Append(inbox, d)
    /\ UNCHANGED <<processed, histVars, pc, todo, cur, left, busy, crashes>>

\* api.request_machines, api.request_return_machines: the prepared directory
\* is renamed into place; inotify notices if a watch is there.
Publish(d, entries) ==
    /\ d \notin published
    /\ published' = published \cup {d}
    /\ contents' = [contents EXCEPT ![d] = entries]
    /\ inbox' = IF pc = "watching" THEN Append(inbox, d) ELSE inbox
    /\ UNCHANGED <<processed, histVars, pc, todo, cur, left, busy, crashes>>

\* The supervisor (re)starts the process.
Start ==
    /\ pc = "down"
    /\ pc' = "scan"
    /\ UNCHANGED <<diskVars, histVars, todo, cur, left, busy, inbox, crashes>>

Scan_Nothing ==
    /\ pc = "scan"
    /\ todo' = {}
    /\ pc' = "catchup"
    /\ UNCHANGED <<diskVars, histVars, cur, left, busy, inbox, crashes>>

\* _process_pending_events: iterate_directory returns a finished list.
Scan ==
    /\ pc = "scan"
    /\ todo' = published \ processed
    /\ pc' = "catchup"
    /\ UNCHANGED <<diskVars, histVars, cur, left, busy, inbox, crashes>>

\* The next directory of that list ...
PickPending(d) ==
    /\ pc = "catchup" /\ cur = NoDir
    /\ d \in todo
    /\ todo' = todo \ {d}
    /\ cur' = d
    /\ left' = contents[d]
    /\ UNCHANGED <<diskVars, histVars, pc, busy, inbox, crashes>>

\* ... or, once the list is done and the watch added, of the inotify queue.
\* Nothing is asked about .processed here.
NextEvent ==
    /\ pc = "watching" /\ cur = NoDir
    /\ inbox # <<>>
    /\ inbox' = Tail(inbox)
    /\ cur' = Head(inbox)
    /\ left' = contents[Head(inbox)]
    /\ UNCHANGED <<diskVars, histVars, pc, todo, busy, crashes>>

\* handle_request: the handler is called for one entry after the other.
CallHandler(e) ==
    /\ cur # NoDir /\ busy = NoEntry
    /\ e \in left
    /\ left' = left \ {e}
    /\ busy' = e
    /\ calls' = [calls EXCEPT ![cur][e] = @ + 1]
    /\ UNCHANGED <<diskVars, handled, pc, todo, cur, inbox, crashes>>

HandlerReturns ==
    /\ busy # NoEntry
    /\ handled' = [handled EXCEPT ![cur] = @ \cup {busy}]
    /\ busy' = NoEntry
    /\ UNCHANGED <<diskVars, calls, pc, todo, cur, left, inbox, crashes>>

MarkProcessed_WhileBusy ==
    /\ cur # NoDir /\ left = {}
    /\ processed' = processed \cup {cur}
    /\ UNCHANGED <<published, contents, histVars, pc, todo, cur, left, busy,
                   inbox, crashes>>

\* request.joinpath(".processed").touch()
MarkProcessed ==
    /\ cur # NoDir /\ busy = NoEntry /\ left = {}
    /\ processed' = processed \cup {cur}
    /\ cur' = NoDir
    /\ UNCHANGED <<published, contents, histVars, pc, todo, left, busy, inbox,
                   crashes>>

\* Inotify(), add_watch
AddWatch ==
    /\ pc = "catchup" /\ cur = NoDir /\ todo = {}
    /\ pc' = "watching"
    /\ UNCHANGED <<diskVars, histVars, todo, cur, left, busy, inbox, crashes>>

\* The process dies, inside a handler or between two steps of its own.
Crash ==
    /\ pc # "down"
    /\ crashes < MaxCrashes
    /\ crashes' = crashes + 1
    /\ pc' = "down"
    /\ todo' = {} /\ cur' = NoDir /\ left' = {} /\ busy' = NoEntry
    /\ inbox' = <<>>
    /\ UNCHANGED <<diskVars, histVars>>

WatcherStep ==
    \/ Start
    \/ Scan
    \/ \E d \in Dirs : PickPending(d)
    \/ NextEvent
    \/ \E e \in Entries : CallHandler(e)
    \/ HandlerReturns
    \/ MarkProcessed
    \/ AddWatch

Next ==
    \/ \E d \in Dirs, entries \in SUBSET Entries : Publish(d, entries)
    \/ WatcherStep
    \/ Crash

Spec == Init /\ [][Next]_vars

\* The process runs when it can and the supervisor restarts it.
FairSpec == Spec /\ WF_vars(WatcherStep)

-----------------------------------------------------------------------------
(***************************************************************************)
(* .processed is only ever found in a directory each of whose entries a    *)
(* handler has returned from, in whatever incarnation of the watcher       *)
(* (request.py, handle_request before touch, on both paths).               *)
(***************************************************************************)
ProcessedIsHandled ==
    \A d \in processed : d \in published /\ contents[d] \subseteq handled[d]

(***************************************************************************)
(* The handler is called at most once for an entry by each incarnation of  *)
(* the watcher: no directory is met twice, on the scan and again through   *)
(* inotify, although the event loop never looks at .processed.             *)
(***************************************************************************)
CallsBounded ==
    \A d \in Dirs, e \in Entries : calls[d][e] <= crashes + 1

(***************************************************************************)
(* The watcher keeps the promise of RequestQueue.                          *)
(***************************************************************************)
RQ == INSTANCE RequestQueue

ImplementsRequestQueue == RQ!Spec

(***************************************************************************)
(* A directory the watcher knows of or will find when it starts.           *)
(***************************************************************************)
Noticed(d) ==
    /\ d \in published
    /\ \/ pc \in {"down", "scan"}
       \/ d \in todo
       \/ cur = d
       \/ InInbox(d)

(***************************************************************************)
(* A directory the watcher has noticed, or that is there when it starts,   *)
(* is processed in the end, whatever the crashes in between (design.md:    *)
(* the watchers "have catch-up mechanisms in case they fail").             *)
(***************************************************************************)
NoticedIsProcessed ==
    \A d \in Dirs : Noticed(d) ~> d \in processed
=============================================================================
