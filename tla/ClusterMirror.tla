---------------------------- MODULE ClusterMirror ----------------------------
(***************************************************************************)
(* The mirror of the cluster's nodes, the files nodes/<name>: the node     *)
(* watcher and the node refresh both write them, and nothing orders the    *)
(* two.                                                                    *)
(*                                                                         *)
(* The watcher is k8sutils._watch_events with its retries, called again    *)
(* and again with the resource version it returns.  The refresh lists the  *)
(* directory, lists the cluster, and then writes and unlinks file after    *)
(* file.  The events that both post are EventPipeline's subject.           *)
(*                                                                         *)
(* Kubernetes is external: a log of changes, the resource version of a     *)
(* change being its place in it.  A watch from "0" (here 0) starts at any  *)
(* version that is left, be it older than what the same watcher was told   *)
(* before (the documented "Get State and Start at Any"): it begins with an *)
(* ADDED for each node there was then, in any order, and goes on from      *)
(* there.  A watch from a later version begins after it, unless the log    *)
(* has been compacted that far: 410.                                       *)
(***************************************************************************)
EXTENDS Naturals, Sequences

CONSTANTS
    Nodes,          \* node names, which may be used again
    MaxVersion,     \* bound on the changes of the cluster
    Attempts,       \* stop_after_attempt of the retry decorator
    MaxFaults       \* bound on the errors and crashes, of any kind

ASSUME BoundAssumption ==
    MaxVersion \in Nat /\ MaxFaults \in Nat /\ Attempts \in Nat \ {0}

VARIABLES
    \* the cluster
    there,      \* the version of each node, 0 of one that is not there
    log,        \* its changes: [node, kind]
    horizon,    \* watches can begin from this version on
    \* nodes/<n>: the version in the file, 0 if there is none
    file,
    \* the node watcher
    wPc,        \* down, call, stream, handle
    rv,         \* the resource version _watch_events was given
    attempt,    \* how often the decorator has called it again
    initial,    \* versions of the ADDED events still to come
    pos,        \* how far the stream has come in the log
    event,      \* the local variable of the loop, 0 if it is not bound
    seen,       \* history: the change of each node that it handled last
    \* the node refresh of the clean-up process
    rPc,        \* idle, list, write
    expected,   \* the names it found in nodes/
    snap,       \* the versions it found in the cluster, 0 for no node
    todo,       \* the nodes of that list still to write
    faults

clusterVars == <<there, log, horizon>>
watchVars   == <<wPc, rv, attempt, initial, pos, event, seen>>
refreshVars == <<rPc, expected, snap, todo>>
vars        == <<clusterVars, file, watchVars, refreshVars, faults>>

Version == 0..MaxVersion

Change == [node : Nodes, kind : {"added", "modified", "deleted"}]

TypeOK ==
    /\ there \in [Nodes -> Version]
    /\ log \in Seq(Change) /\ Len(log) <= MaxVersion
    /\ horizon \in 0..Len(log)
    /\ file \in [Nodes -> Version]
    /\ wPc \in {"down", "call", "stream", "handle"}
    /\ rv \in Version /\ pos \in Version /\ event \in Version
    /\ attempt \in 0..(Attempts - 1)
    /\ initial \subseteq 1..Len(log)
    /\ wPc = "handle" => event # 0
    /\ wPc \in {"down", "call"} => event = 0 /\ initial = {}
    /\ seen \in [Nodes -> Version]
    /\ rPc \in {"idle", "list", "write"}
    /\ expected \subseteq Nodes
    /\ snap \in [Nodes -> Version]
    /\ todo \subseteq {n \in Nodes : snap[n] # 0}
    /\ faults \in 0..MaxFaults

Init ==
    /\ there = [n \in Nodes |-> 0] /\ log = <<>> /\ horizon = 0
    /\ file = [n \in Nodes |-> 0]
    /\ wPc = "down" /\ rv = 0 /\ attempt = 0 /\ initial = {} /\ pos = 0 /\ event = 0
    /\ seen = [n \in Nodes |-> 0]
    /\ rPc = "idle" /\ expected = {} /\ snap = [n \in Nodes |-> 0] /\ todo = {}
    /\ faults = 0

Fault ==
    /\ faults < MaxFaults
    /\ faults' = faults + 1

-----------------------------------------------------------------------------
(* The cluster, external.                                                  *)

ChangesOf(n) == {v \in 1..Len(log) : log[v].node = n}

NodeChanges(n, kind) ==
    /\ Len(log) < MaxVersion
    /\ kind = "added" <=> there[n] = 0
    /\ there' = [there EXCEPT ![n] = IF kind = "deleted" THEN 0 ELSE Len(log) + 1]
    /\ log' = Append(log, [node |-> n, kind |-> kind])
    /\ UNCHANGED <<horizon, file, watchVars, refreshVars, faults>>

Compact ==
    /\ horizon < Len(log)
    /\ horizon' \in (horizon + 1)..Len(log)
    /\ UNCHANGED <<there, log, file, watchVars, refreshVars, faults>>

-----------------------------------------------------------------------------
(* The node watcher (k8sutils.watch_nodes, _watch_events, and              *)
(* cluster.handle_event).                                                  *)

\* The process has ended, of an exception or otherwise.
Ended ==
    /\ wPc' = "down" /\ rv' = 0 /\ attempt' = 0
    /\ initial' = {} /\ pos' = 0 /\ event' = 0

\* _watch_events is called, or called again: its local variables are new.
Called(version, again) ==
    /\ wPc' = "call" /\ rv' = version /\ attempt' = again
    /\ initial' = {} /\ pos' = 0 /\ event' = 0

WStart ==
    /\ wPc = "down"
    /\ Called(0, 0)
    /\ UNCHANGED <<clusterVars, refreshVars, file, seen, faults>>

\* The changes that say how each node was when the log was v long.
StateAt(v) ==
    {u \in 1..v : /\ log[u].kind # "deleted"
                  /\ \A w \in (u + 1)..v : log[w].node # log[u].node}

WOpen ==
    /\ wPc = "call"
    /\ \/ rv = 0 /\ \E v \in horizon..Len(log) : initial' = StateAt(v) /\ pos' = v
       \/ rv # 0 /\ rv >= horizon /\ initial' = {} /\ pos' = rv
    /\ wPc' = "stream"
    /\ UNCHANGED <<clusterVars, refreshVars, rv, attempt, event, file, seen, faults>>

WTakeEvent ==
    /\ wPc = "stream"
    /\ \/ \E v \in initial :
             event' = v /\ initial' = initial \ {v} /\ UNCHANGED pos
       \/ /\ initial = {} /\ pos < Len(log)
          /\ event' = pos + 1 /\ pos' = pos + 1 /\ UNCHANGED initial
    /\ wPc' = "handle"
    /\ UNCHANGED <<clusterVars, refreshVars, rv, attempt, file, seen, faults>>

\* handle_event: the object is written to the file, or the file unlinked.
WHandle ==
    /\ wPc = "handle"
    /\ LET n == log[event].node IN
         /\ file' = [file EXCEPT ![n] = IF log[event].kind = "deleted" THEN 0 ELSE event]
         /\ seen' = [seen EXCEPT ![n] = event]
    /\ wPc' = "stream"
    /\ UNCHANGED <<clusterVars, refreshVars, rv, attempt, initial, pos, event, faults>>

\* Definitions named <Definition>_<Bug> are not part of the model: each is a
\* way the code could be wrong that a property must notice.

WStreamEnds_ResumesFromLast ==
    /\ wPc = "stream"
    /\ Called(IF event = 0 THEN rv ELSE event, 0)
    /\ UNCHANGED <<clusterVars, refreshVars, file, seen, faults>>

\* The stream ends, by the server's timeout or by a ProtocolError: the version
\* that was given is returned and given again.
WStreamEnds ==
    /\ wPc = "stream"
    /\ Called(rv, 0)
    /\ UNCHANGED <<clusterVars, refreshVars, file, seen, faults>>

\* 410: the version of the event at hand is returned; where there was no event
\* yet, the name is not bound and the process ends of that.
WGone ==
    /\ \/ wPc = "call" /\ rv # 0 /\ rv < horizon
       \/ wPc = "stream" /\ initial = {} /\ pos < horizon
    /\ IF event = 0 THEN Ended ELSE Called(event, 0)
    /\ UNCHANGED <<clusterVars, refreshVars, file, seen, faults>>

\* Another error of the API, or a ReadTimeoutError: the decorator calls again
\* with the same version, Attempts times in all.
WError ==
    /\ wPc \in {"call", "stream"}
    /\ Fault
    /\ IF attempt + 1 < Attempts THEN Called(rv, attempt + 1) ELSE Ended
    /\ UNCHANGED <<clusterVars, refreshVars, file, seen>>

WCrash ==
    /\ wPc # "down"
    /\ Fault
    /\ Ended
    /\ UNCHANGED <<clusterVars, refreshVars, file, seen>>

WStep == WStart \/ WOpen \/ WTakeEvent \/ WHandle \/ WGone

-----------------------------------------------------------------------------
(* The node refresh (hfcron.RefreshNodesTask), run again and again.        *)

RListFiles_Nothing ==
    /\ rPc = "idle"
    /\ expected' = {}
    /\ rPc' = "list"
    /\ UNCHANGED <<clusterVars, watchVars, file, snap, todo, faults>>

RListFiles ==
    /\ rPc = "idle"
    /\ expected' = {n \in Nodes : file[n] # 0}
    /\ rPc' = "list"
    /\ UNCHANGED <<clusterVars, watchVars, file, snap, todo, faults>>

RListNodes ==
    /\ rPc = "list"
    /\ snap' = there
    /\ todo' = {n \in Nodes : there[n] # 0}
    /\ rPc' = "write"
    /\ UNCHANGED <<clusterVars, watchVars, file, expected, faults>>

RIdle == rPc' = "idle" /\ expected' = {} /\ snap' = [n \in Nodes |-> 0] /\ todo' = {}

\* The API does not answer the list: logged, and over for this time.
RListFails ==
    /\ rPc = "list"
    /\ Fault
    /\ RIdle
    /\ UNCHANGED <<clusterVars, watchVars, file>>

RWriteFile(n) ==
    /\ rPc = "write" /\ n \in todo
    /\ file' = [file EXCEPT ![n] = snap[n]]
    /\ todo' = todo \ {n}
    /\ UNCHANGED <<clusterVars, watchVars, rPc, expected, snap, faults>>

Stale(n) == n \in expected /\ snap[n] = 0

RUnlinkStale_ListsAgain(n) ==
    /\ rPc = "write" /\ todo = {}
    /\ file[n] # 0 /\ snap[n] = 0
    /\ file' = [file EXCEPT ![n] = 0]
    /\ expected' = expected \ {n}
    /\ UNCHANGED <<clusterVars, watchVars, rPc, snap, todo, faults>>

RUnlinkStale(n) ==
    /\ rPc = "write" /\ todo = {}
    /\ Stale(n)
    /\ file' = [file EXCEPT ![n] = 0]
    /\ expected' = expected \ {n}
    /\ UNCHANGED <<clusterVars, watchVars, rPc, snap, todo, faults>>

RDone ==
    /\ rPc = "write" /\ todo = {} /\ \A n \in Nodes : ~Stale(n)
    /\ RIdle
    /\ UNCHANGED <<clusterVars, watchVars, file, faults>>

RCrash ==
    /\ rPc # "idle"
    /\ Fault
    /\ RIdle
    /\ UNCHANGED <<clusterVars, watchVars, file>>

RStep ==
    \/ RListFiles \/ RListNodes \/ RDone
    \/ \E n \in Nodes : RWriteFile(n) \/ RUnlinkStale(n)

-----------------------------------------------------------------------------
Next ==
    \/ \E n \in Nodes, kind \in {"added", "modified", "deleted"} : NodeChanges(n, kind)
    \/ Compact
    \/ WStep \/ WStreamEnds \/ WError \/ WCrash
    \/ RStep \/ RListFails \/ RCrash

Spec == Init /\ [][Next]_vars

(***************************************************************************)
(* Both processes run when they can and are started again when they have   *)
(* ended; the refresh is due again and again; old versions are compacted   *)
(* in the end (kube-apiserver does so every few minutes), so that a watch  *)
(* does not start at an old one for ever.  Streams may end as often as     *)
(* they like, and nothing is assumed of the nodes.                         *)
(***************************************************************************)
FairSpec == Spec /\ WF_vars(WStep) /\ WF_vars(RStep) /\ WF_vars(Compact)

-----------------------------------------------------------------------------
(***************************************************************************)
(* A node that is there is never passed over: while a stream is open, the  *)
(* node's last change is still to come in it, or in hand, or is the one    *)
(* that the watcher handled last.  So an older change, which a renewed     *)
(* stream may tell again, is made good by the same stream, and nothing     *)
(* that an ended stream had still to tell is lost, across retries, 410s    *)
(* and restarts (k8sutils._watch_events, which resumes from nowhere).      *)
(***************************************************************************)
NoNodePassedOver ==
    wPc \in {"stream", "handle"} =>
        \A n \in Nodes : there[n] # 0 =>
            \/ there[n] \in initial \/ there[n] > pos
            \/ wPc = "handle" /\ event = there[n]
            \/ seen[n] = there[n]

(***************************************************************************)
(* The refresh takes the file of a node that is there away only where the  *)
(* name was used before: it lists the files before it lists the nodes, so  *)
(* that a node which joins meanwhile is none of its business               *)
(* (hfcron.RefreshNodesTask).                                              *)
(***************************************************************************)
NewNodeKeepsFile ==
    [][\A n \in Nodes :
          /\ rPc = "write" /\ UNCHANGED watchVars
          /\ file[n] # 0 /\ file'[n] = 0
          /\ there[n] # 0
          => \E v \in ChangesOf(n) : log[v].kind = "deleted"]_vars

(***************************************************************************)
(* Once the cluster stays as it is, each node has its file, with the last  *)
(* version, and no other name has one, for good: whatever deletions the    *)
(* watcher was not told of, and whatever the refresh wrote from a list     *)
(* that had grown old (node_watcher.py and hfcron.py together).            *)
(***************************************************************************)
FilesConverge == <>[](\A n \in Nodes : file[n] = there[n])
=============================================================================
