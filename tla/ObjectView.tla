----------------------------- MODULE ObjectView -----------------------------
(***************************************************************************)
(* What Prometheus is shown (impl/watchers/events.py): KubeState, a view   *)
(* of the pods (or of the nodes) that is kept up to date by the events of  *)
(* a watcher and by the lists of a refresh, and the samples that others    *)
(* post as events of category "metric".                                    *)
(*                                                                         *)
(* An event or a list is a file from when it is posted until the watcher   *)
(* of events reads it.  The files that one listing finds are posted        *)
(* together, in the order of the directory, which is any; a scrape comes   *)
(* between two such posts, not into one (the lock).                        *)
(*                                                                         *)
(* Time is kept as ages, as only the time since something was stored, told *)
(* or done is ever compared; an age beyond every limit grows no further.   *)
(***************************************************************************)
EXTENDS Integers, FiniteSets

CONSTANTS
    Uids,        \* the pods (or nodes) there may be
    Keys,        \* name and labels of a metric
    Ttl,         \* KubeState.ttl
    Interval,    \* ttl / 30
    SampleTtl,   \* PrometheusEventBackend.ttl
    MaxHappens   \* bound on the changes of objects, the samples that are posted and
                 \* the deaths of the watcher of events, together

ASSUME ViewAssumption ==
    {Ttl, SampleTtl, MaxHappens} \subseteq Nat /\ Interval \in Nat \ {0}

VARIABLES
    obj,         \* the objects in the cluster
    stream,      \* what the watch of objects has yet to deliver
    lists,       \* the list that a refresh has read and not yet posted, if any
    pending,     \* the files of events
    batch,       \* those that were read and are still to be posted to the backend
    locked,      \* whether a post goes on
    view,        \* KubeState.objs
    sinceExpiry, \* the age of KubeState.last_expiry
    samples,     \* PrometheusEventBackend.metrics
    newest,      \* the age of the newest sample that was ever posted to the backend
    happened     \* how many changes, samples and deaths there were

clusterVars == <<obj, stream, lists>>
metricVars  == <<samples, newest>>
vars == <<clusterVars, pending, batch, locked, view, sinceExpiry, metricVars, happened>>

\* Beyond the limits that an age is compared with.
Old == IF Ttl + Interval > SampleTtl THEN Ttl + Interval ELSE SampleTtl + 1
Ages == 0..Old

Objects == [life : {"none", "there", "gone"}, version : 0..MaxHappens, deleting : BOOLEAN]

\* What an event says of an object, and a list of each.
Sights == [uid : Uids, version : 1..MaxHappens, deleting : BOOLEAN]

Messages ==
    [kind : {"event"}, sight : Sights] \cup [kind : {"list"}, sights : SUBSET Sights]
        \cup [kind : {"sample"}, key : Keys, age : Ages]

Init ==
    /\ obj = [u \in Uids |-> [life |-> "none", version |-> 0, deleting |-> FALSE]]
    /\ stream = {} /\ lists = {}
    /\ pending = {} /\ batch = {} /\ locked = FALSE
    /\ view = {} /\ sinceExpiry = 0 /\ samples = {}
    /\ newest = [k \in Keys |-> Old]
    /\ happened = 0

Happens == happened < MaxHappens /\ happened' = happened + 1

-----------------------------------------------------------------------------
(* The cluster, and those who post.                                        *)

Sight(u) == [uid |-> u, version |-> obj[u].version, deleting |-> obj[u].deleting]

There == {Sight(u) : u \in {u \in Uids : obj[u].life = "there"}}

\* An object joins, changes, is asked to go, or goes: each is a version of it.
Change(u) ==
    /\ Happens
    /\ \E life \in {"there", "gone"}, deleting \in BOOLEAN :
         /\ obj[u].life = "there" \/ (obj[u].life = "none" /\ life = "there")
         /\ obj[u].deleting => deleting
         /\ obj' = [obj EXCEPT ![u] = [life |-> life, version |-> @.version + 1,
                                       deleting |-> deleting]]
    /\ stream' = stream \cup {Sight(u)'}
    /\ UNCHANGED <<lists, pending, batch, locked, view, sinceExpiry, metricVars>>

\* The watch ends and starts again with what there is: changes are skipped.
Renew ==
    /\ stream' = There
    /\ UNCHANGED <<obj, lists, pending, batch, locked, view, sinceExpiry, metricVars,
                   happened>>

\* pod_watcher, node_watcher: the event as it was delivered is posted.
Tell ==
    /\ \E s \in stream :
         /\ \A other \in stream : other.uid = s.uid => s.version <= other.version
         /\ stream' = stream \ {s}
         /\ pending' = pending \cup {[kind |-> "event", sight |-> s]}
    /\ UNCHANGED <<obj, lists, batch, locked, view, sinceExpiry, metricVars, happened>>

\* RefreshPodsTask, RefreshNodesTask: the list is read ...
ListObjects ==
    /\ lists = {}
    /\ lists' = {There}
    /\ UNCHANGED <<obj, stream, pending, batch, locked, view, sinceExpiry, metricVars,
                   happened>>

\* ... and posted.
PostList ==
    /\ \E sights \in lists : pending' = pending \cup {[kind |-> "list", sights |-> sights]}
    /\ lists' = {}
    /\ UNCHANGED <<obj, stream, batch, locked, view, sinceExpiry, metricVars, happened>>

\* Someone else posts a sample, of now or of some time ago.
PostSample(k) ==
    /\ Happens
    /\ \E age \in Ages : pending' = pending \cup {[kind |-> "sample", key |-> k, age |-> age]}
    /\ UNCHANGED <<clusterVars, batch, locked, view, sinceExpiry, metricVars>>

-----------------------------------------------------------------------------
(* The watcher of events with the backend.                                 *)

\* _process_events: each file is read and unlinked; with the lock comes the post.
Read ==
    /\ ~locked /\ pending # {}
    /\ batch' = pending /\ pending' = {} /\ locked' = TRUE
    /\ UNCHANGED <<clusterVars, view, sinceExpiry, metricVars, happened>>

\* KubeState._expire.
DueForExpiry == sinceExpiry >= Interval

Unexpired(entries) ==
    IF DueForExpiry THEN {e \in entries : ~(e.deleting /\ e.age > Ttl)} ELSE entries

Entry(s) == [uid |-> s.uid, version |-> s.version, deleting |-> s.deleting, age |-> 0]

ExpiryDone == sinceExpiry' = IF DueForExpiry THEN 0 ELSE sinceExpiry

\* _update: an event brings what is new or newer ...
Update(s) ==
    /\ view' = LET known == {e \in view : e.uid = s.uid}
                   older == {e \in known : e.version < s.version}
               IN  Unexpired(IF known # {} /\ older = {} THEN view
                             ELSE (view \ older) \cup {Entry(s)})
    /\ ExpiryDone

Refresh_Merges(sights) ==
    /\ view' = {e \in view : ~\E s \in sights : s.uid = e.uid} \cup {Entry(s) : s \in sights}
    /\ UNCHANGED sinceExpiry

\* ... and a list replaces everything, by whatever it has.
Refresh(sights) ==
    /\ view' = {Entry(s) : s \in sights}
    /\ UNCHANGED sinceExpiry

AddSample_LastWins(m) ==
    samples' = {s \in samples : s.key # m.key} \cup {[key |-> m.key, age |-> m.age]}

\* A sample is kept if it is newer than the one there is.
AddSample(m) ==
    samples' = IF \E s \in samples : s.key = m.key /\ s.age <= m.age THEN samples
               ELSE {s \in samples : s.key # m.key} \cup {[key |-> m.key, age |-> m.age]}

Post(m) ==
    \/ m.kind = "event" /\ Update(m.sight) /\ UNCHANGED metricVars
    \/ m.kind = "list" /\ Refresh(m.sights) /\ UNCHANGED metricVars
    \/ /\ m.kind = "sample" /\ AddSample(m)
       /\ newest' = [newest EXCEPT ![m.key] = IF m.age < @ THEN m.age ELSE @]
       /\ UNCHANGED <<view, sinceExpiry>>

\* In any order; but as samples and objects do not touch each other, only with
\* the samples first.
PostNext ==
    /\ locked
    /\ \E m \in batch :
         /\ m.kind = "sample" \/ \A other \in batch : other.kind # "sample"
         /\ batch' = batch \ {m} /\ Post(m)
    /\ UNCHANGED <<clusterVars, pending, locked, happened>>

\* PrometheusEventBackend._expire.
Fresh == {s \in samples : s.age <= SampleTtl}

PostEnds ==
    /\ locked /\ batch = {}
    /\ locked' = FALSE /\ samples' = Fresh
    /\ UNCHANGED <<clusterVars, pending, batch, view, sinceExpiry, newest, happened>>

Scrape_LeavesObjects ==
    /\ ~locked
    /\ samples' = Fresh
    /\ UNCHANGED <<clusterVars, pending, batch, locked, view, sinceExpiry, newest, happened>>

\* collect, by another thread: what has expired goes, the rest is shown.
Scrape ==
    /\ ~locked
    /\ samples' = Fresh
    /\ IF view = {} THEN UNCHANGED <<view, sinceExpiry>>
       ELSE view' = Unexpired(view) /\ ExpiryDone
    /\ UNCHANGED <<clusterVars, pending, batch, locked, newest, happened>>

\* The process dies and is started again: nothing of this is on disk.
Crash ==
    /\ Happens
    /\ batch' = {} /\ locked' = FALSE
    /\ view' = {} /\ sinceExpiry' = 0
    /\ samples' = {} /\ newest' = [k \in Keys |-> Old]
    /\ UNCHANGED <<clusterVars, pending>>

-----------------------------------------------------------------------------
Older(age) == IF age < Old THEN age + 1 ELSE Old

OlderMessages(messages) ==
    {IF m.kind = "sample" THEN [m EXCEPT !.age = Older(@)] ELSE m : m \in messages}

\* A post takes no time.
Tick ==
    /\ ~locked
    /\ pending' = OlderMessages(pending)
    /\ view' = {[e EXCEPT !.age = Older(@)] : e \in view}
    /\ sinceExpiry' = IF sinceExpiry < Interval THEN sinceExpiry + 1 ELSE Interval
    /\ samples' = {[s EXCEPT !.age = Older(@)] : s \in samples}
    /\ newest' = [k \in Keys |-> Older(newest[k])]
    /\ UNCHANGED <<clusterVars, batch, locked, happened>>

Next ==
    \/ \E u \in Uids : Change(u)
    \/ Renew \/ Tell \/ ListObjects \/ PostList
    \/ \E k \in Keys : PostSample(k)
    \/ Read \/ PostNext \/ PostEnds \/ Scrape \/ Crash
    \/ Tick

Spec == Init /\ [][Next]_vars

(***************************************************************************)
(* The refresh is due again and again and the watcher of events runs.      *)
(* Nothing is assumed of the watch, of scrapes or of the clock.            *)
(***************************************************************************)
FairSpec ==
    /\ Spec
    /\ WF_vars(ListObjects) /\ WF_vars(PostList)
    /\ WF_vars(Read) /\ WF_vars(PostNext) /\ WF_vars(PostEnds)

-----------------------------------------------------------------------------
TypeOK ==
    /\ obj \in [Uids -> Objects]
    /\ stream \subseteq Sights
    /\ Cardinality(lists) <= 1 /\ lists \subseteq SUBSET Sights
    /\ pending \subseteq Messages /\ batch \subseteq Messages /\ locked \in BOOLEAN
    /\ view \subseteq [uid : Uids, version : 1..MaxHappens, deleting : BOOLEAN, age : Ages]
    /\ sinceExpiry \in 0..Interval
    /\ samples \subseteq [key : Keys, age : Ages] /\ newest \in [Keys -> Ages]
    /\ happened \in 0..MaxHappens

\* The version of an object that is shown, of which there is one at most.
Shown(u) == {e.version : e \in {e \in view : e.uid = u}}

(***************************************************************************)
(* In the end the view is the cluster: an object is shown as it is, and    *)
(* one that is gone is not shown, whatever the watch has skipped, however  *)
(* old a list or an event was when it was posted and in whatever order the *)
(* files were read.  An object that is about to go may be left out         *)
(* (KubeState._update with force; RefreshPodsTask).                        *)
(***************************************************************************)
ViewConverges ==
    <>[](\A u \in Uids :
            CASE obj[u].life = "there" -> obj[u].deleting \/ Shown(u) = {obj[u].version}
              [] OTHER -> Shown(u) = {})

(***************************************************************************)
(* A scrape shows no object whose deletion has been known, without a newer *)
(* word of it, for longer than the time to live and the interval at which  *)
(* this is looked at, however long nothing was posted (KubeState._expire   *)
(* from collect).                                                          *)
(***************************************************************************)
ScrapedIsFresh ==
    [][Scrape => \A e \in view' : e.deleting => e.age < Ttl + Interval]_vars

(***************************************************************************)
(* Whatever the order of the files, of a metric the newest sample is       *)
(* shown, until it is too old, and no older one after it                   *)
(* (PrometheusEventBackend.post and _expire).                              *)
(***************************************************************************)
NewestSampleIsShown ==
    ~locked => \A k \in Keys :
        LET shown == {s.age : s \in {s \in samples : s.key = k}}
        IN  shown = {newest[k]} \/ (shown = {} /\ newest[k] > SampleTtl)
=============================================================================
