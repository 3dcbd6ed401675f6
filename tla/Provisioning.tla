---------------------------- MODULE Provisioning ----------------------------
(***************************************************************************)
(* The provider as a whole: Symphony's calls, the request-machines and the *)
(* request-return-machines watchers, the pod watcher, the clean-up task    *)
(* and the Kubernetes API, meeting on the work directory.                  *)
(*                                                                         *)
(* No process talks to another: each reads and writes files (requests/,    *)
(* return-requests/, pods-status/, pods/) and the cluster.  An action is   *)
(* one call that another process can observe, so that between the reading  *)
(* of a status and the write that depends on it anything may happen.       *)
(*                                                                         *)
(* The watcher loop is that of DirWatcher; here the scan and the inotify   *)
(* queue are one set of noticed directories, and the order in which the    *)
(* directories of that set are served is left open.  Of time there is only *)
(* whether a status link is older than pod_timeout, by its st_ctime: a     *)
(* link that is replaced, also by an equal one, is young again.            *)
(*                                                                         *)
(* Kubernetes is external: a pod is absent or in a phase, and a deleted    *)
(* pod stays (dying) until it is removed.  One thing is assumed of it that *)
(* its documentation does not promise: that a watch from resource version  *)
(* "0" begins no earlier than what the watcher was told before (it is      *)
(* documented as a start at any version; ClusterMirror, the same watch on  *)
(* nodes, does without the assumption).                                    *)
(***************************************************************************)
EXTENDS Naturals, Sequences, MachineStatus

CONSTANTS
    Requests,       \* ids of allocation requests
    Returns,        \* ids of return requests
    Machines,       \* machine names: <request id>-<number>
    RequestOf,      \* the request a machine name belongs to
    NoId,           \* "no request", "no machine"
    Phases,         \* the phases pods go through
    CronOn,         \* whether hostfactory run-cron is running
    AdminReturns,   \* whether machines are returned that no poll reported
    Backlog,        \* bound on the events of a pod that wait, beyond which
                    \* the pod is not modified
    Faults,         \* the kinds of fault that occur ...
    MaxFaults       \* ... and a bound on how many

ASSUME RequestOfAssumption == RequestOf \in [Machines -> Requests]
ASSUME NoIdAssumption ==
    NoId \notin Requests /\ NoId \notin Returns /\ NoId \notin Machines
ASSUME PhasesAssumption == "pending" \in Phases /\ Phases \subseteq Phase
ASSUME FlagAssumption == CronOn \in BOOLEAN /\ AdminReturns \in BOOLEAN
ASSUME BoundAssumption == MaxFaults \in Nat /\ Backlog \in Nat

VARIABLES
    \* the work directory
    api,        \* requests/<r>: idle, writing (a hidden directory), published,
                \* dead (the caller died and left the hidden directory)
    link,       \* the entry of m in its request: none, symlink, file
    status,     \* pods-status/<m>
    old,        \* the machines whose link there is older than pod_timeout
    podFile,    \* the machines with a file pods/<m>
    reqDone,    \* the requests with a .processed file
    returned,   \* return-requests/<t>: the machines in it ({}: not there)
    retDone,    \* the return requests with a .processed file
    \* Kubernetes
    pod,        \* "absent" or the phase of the pod
    dying,      \* the pods with a deletion timestamp
    stream,     \* watch events on their way to the pod watcher, by machine
    creates,    \* history: successful creations, by machine
    missed,     \* history: the machines whose deletion the pod watcher was not
                \* told, or died with
    \* the request-machines watcher
    rwPc,       \* down, catchup (before the inotify watch), watching
    rwTodo,     \* the requests it has noticed
    rwCur,      \* the request it is serving
    rwLeft,     \* the machines of it still to visit
    rwMade,     \* the machine whose pod was created and whose link is next
    \* the request-return-machines watcher
    twPc, twTodo, twCur, twLeft,
    twDel,      \* the machine whose status was read and whose pod is next
    \* the pod watcher
    pwOn,       \* whether a watch is open
    pwStep,     \* idle, check or write (a phase), mark (a deletion)
    pwM, pwEv,  \* the event in hand: its machine, its phase or "deleted"
    \* the clean-up task
    cronStep,   \* idle, target, delete, mark
    cronM,
    faults      \* how many faults have occurred

diskVars == <<api, link, status, old, podFile, reqDone, returned, retDone>>
kubeVars == <<pod, dying, stream, creates, missed>>
rwVars   == <<rwPc, rwTodo, rwCur, rwLeft, rwMade>>
twVars   == <<twPc, twTodo, twCur, twLeft, twDel>>
pwVars   == <<pwOn, pwStep, pwM, pwEv>>
cronVars == <<cronStep, cronM>>
vars     == <<diskVars, kubeVars, rwVars, twVars, pwVars, cronVars, faults>>

MachinesOf(r) == {m \in Machines : RequestOf[m] = r}

PublishedRequests == {r \in Requests : api[r] = "published"}

PublishedReturns == {t \in Returns : returned[t] # {}}

Event == Phase \cup {"deleted"}

DiskOK ==
    /\ api \in [Requests -> {"idle", "writing", "published", "dead"}]
    /\ link \in [Machines -> {"none", "symlink", "file"}]
    /\ status \in [Machines -> StatusLink]
    /\ old \subseteq Machines
    /\ podFile \subseteq Machines
    /\ reqDone \subseteq Requests
    /\ returned \in [Returns -> SUBSET Machines]
    /\ retDone \subseteq Returns

KubeOK ==
    /\ pod \in [Machines -> Phase \cup {"absent"}]
    /\ dying \subseteq Machines
    /\ stream \in [Machines -> Seq(Event)]
    /\ creates \in [Machines -> Nat]
    /\ missed \subseteq Machines

RwOK ==
    /\ rwPc \in {"down", "catchup", "watching"}
    /\ rwTodo \subseteq Requests
    /\ rwCur \in Requests \cup {NoId}
    /\ rwLeft \subseteq Machines
    /\ rwMade \in Machines \cup {NoId}

TwOK ==
    /\ twPc \in {"down", "catchup", "watching"}
    /\ twTodo \subseteq Returns
    /\ twCur \in Returns \cup {NoId}
    /\ twLeft \subseteq Machines
    /\ twDel \in Machines \cup {NoId}

PwOK ==
    /\ pwOn \in BOOLEAN
    /\ pwStep \in {"idle", "check", "write", "mark"}
    /\ pwM \in Machines \cup {NoId}
    /\ pwEv \in Event
    /\ pwStep # "idle" => pwM \in Machines
    /\ pwStep \in {"check", "write"} => pwEv \in Phase

CronOK ==
    /\ cronStep \in {"idle", "target", "delete", "mark"}
    /\ cronM \in Machines \cup {NoId}
    /\ cronStep # "idle" => cronM \in Machines

TypeOK ==
    /\ DiskOK /\ KubeOK
    /\ RwOK /\ TwOK /\ PwOK /\ CronOK
    /\ faults \in 0..MaxFaults

Init ==
    /\ api = [r \in Requests |-> "idle"]
    /\ link = [m \in Machines |-> "none"]
    /\ status = [m \in Machines |-> NoStatus]
    /\ old = {}
    /\ podFile = {}
    /\ reqDone = {}
    /\ returned = [t \in Returns |-> {}]
    /\ retDone = {}
    /\ pod = [m \in Machines |-> "absent"]
    /\ dying = {}
    /\ stream = [m \in Machines |-> <<>>]
    /\ creates = [m \in Machines |-> 0]
    /\ missed = {}
    /\ rwPc = "down" /\ rwTodo = {} /\ rwCur = NoId /\ rwLeft = {} /\ rwMade = NoId
    /\ twPc = "down" /\ twTodo = {} /\ twCur = NoId /\ twLeft = {} /\ twDel = NoId
    /\ pwOn = FALSE /\ pwStep = "idle" /\ pwM = NoId /\ pwEv = "deleted"
    /\ cronStep = "idle" /\ cronM = NoId
    /\ faults = 0

\* A fault of a kind that is on, within the bound.
Fault(kind) ==
    /\ kind \in Faults
    /\ faults < MaxFaults
    /\ faults' = faults + 1

-----------------------------------------------------------------------------
(* Symphony's calls (api.py).                                              *)

\* request_machines: the hidden directory is made ...
RequestMachines(r) ==
    /\ api[r] = "idle"
    /\ api' = [api EXCEPT ![r] = "writing"]
    /\ UNCHANGED <<link, status, old, podFile, reqDone, returned, retDone, kubeVars,
                   rwVars, twVars, pwVars, cronVars, faults>>

(* Definitions named <Definition>_<Bug> are not part of the model: each is a
   way the code could be wrong that a property must notice. *)

\* The status that the docstring of request_machines names.
WriteStatus_Pending(m) ==
    /\ api[RequestOf[m]] = "writing"
    /\ status[m] = NoStatus
    /\ \A n \in MachinesOf(RequestOf[m]) : status[n] # NoStatus => link[n] # "none"
    /\ status' = [status EXCEPT ![m] = "pending"]
    /\ UNCHANGED <<api, link, old, podFile, reqDone, returned, retDone, kubeVars,
                   rwVars, twVars, pwVars, cronVars, faults>>

\* ... machine after machine gets its status ...
WriteStatus(m) ==
    /\ api[RequestOf[m]] = "writing"
    /\ status[m] = NoStatus
    /\ \A n \in MachinesOf(RequestOf[m]) : status[n] # NoStatus => link[n] # "none"
    /\ status' = [status EXCEPT ![m] = "creating"]
    /\ UNCHANGED <<api, link, old, podFile, reqDone, returned, retDone, kubeVars,
                   rwVars, twVars, pwVars, cronVars, faults>>

LinkMachine_First(m) ==
    /\ api[RequestOf[m]] = "writing"
    /\ link[m] = "none"
    /\ link' = [link EXCEPT ![m] = "symlink"]
    /\ UNCHANGED <<api, status, old, podFile, reqDone, returned, retDone, kubeVars,
                   rwVars, twVars, pwVars, cronVars, faults>>

\* ... and then, where nobody looks yet, its link ...
LinkMachine(m) ==
    /\ api[RequestOf[m]] = "writing"
    /\ status[m] # NoStatus
    /\ link[m] = "none"
    /\ link' = [link EXCEPT ![m] = "symlink"]
    /\ UNCHANGED <<api, status, old, podFile, reqDone, returned, retDone, kubeVars,
                   rwVars, twVars, pwVars, cronVars, faults>>

\* ... and the directory is renamed into place.
PublishRequest(r) ==
    /\ api[r] = "writing"
    /\ \A m \in MachinesOf(r) : link[m] # "none"
    /\ api' = [api EXCEPT ![r] = "published"]
    /\ rwTodo' = IF rwPc = "watching" THEN rwTodo \cup {r} ELSE rwTodo
    /\ UNCHANGED <<link, status, old, podFile, reqDone, returned, retDone, kubeVars,
                   rwPc, rwCur, rwLeft, rwMade, twVars, pwVars, cronVars, faults>>

\* The caller dies before that.
ApiDies(r) ==
    /\ api[r] = "writing"
    /\ Fault("api")
    /\ api' = [api EXCEPT ![r] = "dead"]
    /\ UNCHANGED <<link, status, old, podFile, reqDone, returned, retDone, kubeVars,
                   rwVars, twVars, pwVars, cronVars>>

\* get_request_status names a machine once its result is not "executing".
Reported(m) ==
    /\ api[RequestOf[m]] = "published"
    /\ RequestResult(status[m]) # "executing"

\* request_return_machines: for machines that a poll has reported, or, from
\* hostfactory admin, for any machine of a published request.
ReturnMachines(t, machines) ==
    /\ returned[t] = {}
    /\ \A m \in machines :
         /\ api[RequestOf[m]] = "published"
         /\ AdminReturns \/ Reported(m)
    /\ returned' = [returned EXCEPT ![t] = machines]
    /\ twTodo' = IF twPc = "watching" THEN twTodo \cup {t} ELSE twTodo
    /\ UNCHANGED <<api, link, status, old, podFile, reqDone, retDone, kubeVars, rwVars,
                   twPc, twCur, twLeft, twDel, pwVars, cronVars, faults>>

\* get_return_requests: of the machines Symphony knows, those it is told are
\* gone, were it to list pods/ and read the links of what is listed at one moment.
GetReturnRequests(known) ==
    known \ {m \in podFile : status[m] # "deleted"}

-----------------------------------------------------------------------------
(* The Kubernetes API, external.                                           *)

\* A watch event, if a watch is open.
Emit(m, e) ==
    stream' = IF pwOn THEN [stream EXCEPT ![m] = Append(@, e)] ELSE stream

\* delete_namespaced_pod; for a pod that is not there it answers 404, which no
\* caller takes for an error.
DeletePod(m) ==
    IF pod[m] # "absent" /\ m \notin dying
    THEN dying' = dying \cup {m} /\ Emit(m, pod[m])
    ELSE UNCHANGED <<dying, stream>>

PodChangesPhase(m) ==
    /\ pod[m] # "absent"
    /\ \E p \in Phases :
         /\ <<pod[m], p>> \in PhaseStep
         /\ pod' = [pod EXCEPT ![m] = p]
         /\ Emit(m, p)
    /\ UNCHANGED <<diskVars, dying, creates, missed, rwVars, twVars, pwVars, cronVars,
                   faults>>

\* Something else of the pod changes: its phase is told again.
PodModified(m) ==
    /\ pod[m] # "absent"
    /\ pwOn /\ Len(stream[m]) < Backlog
    /\ Emit(m, pod[m])
    /\ UNCHANGED <<diskVars, pod, dying, creates, missed, rwVars, twVars, pwVars,
                   cronVars, faults>>

PodRemoved(m) ==
    /\ pod[m] # "absent" /\ m \in dying
    /\ pod' = [pod EXCEPT ![m] = "absent"]
    /\ dying' = dying \ {m}
    /\ Emit(m, "deleted")
    /\ missed' = IF pwOn THEN missed ELSE missed \cup {m}
    /\ UNCHANGED <<diskVars, creates, rwVars, twVars, pwVars, cronVars, faults>>

\* A node is drained, or somebody else deletes the pod.
PodEvicted(m) ==
    /\ pod[m] # "absent" /\ m \notin dying
    /\ Fault("k8s")
    /\ DeletePod(m)
    /\ UNCHANGED <<diskVars, pod, creates, missed, rwVars, twVars, pwVars, cronVars>>

-----------------------------------------------------------------------------
(* The request-machines watcher (watchers/request.py, handlers.py).        *)

RwUnchanged == UNCHANGED <<api, status, old, podFile, returned, retDone, twVars,
                           pwVars, cronVars>>

RwStart ==
    /\ rwPc = "down"
    /\ rwPc' = "catchup"
    /\ rwTodo' = PublishedRequests \ reqDone
    /\ RwUnchanged
    /\ UNCHANGED <<link, reqDone, kubeVars, rwCur, rwLeft, rwMade, faults>>

RwAddWatch ==
    /\ rwPc = "catchup" /\ rwTodo = {} /\ rwCur = NoId
    /\ rwPc' = "watching"
    /\ RwUnchanged
    /\ UNCHANGED <<link, reqDone, kubeVars, rwTodo, rwCur, rwLeft, rwMade, faults>>

RwPick(r) ==
    /\ rwPc # "down" /\ rwCur = NoId
    /\ r \in rwTodo
    /\ rwTodo' = rwTodo \ {r}
    /\ rwCur' = r
    /\ rwLeft' = MachinesOf(r)
    /\ RwUnchanged
    /\ UNCHANGED <<link, reqDone, kubeVars, rwPc, rwMade, faults>>

\* Not a symlink: done in an earlier incarnation.
RwSkip(m) ==
    /\ rwMade = NoId
    /\ m \in rwLeft /\ link[m] = "file"
    /\ rwLeft' = rwLeft \ {m}
    /\ RwUnchanged
    /\ UNCHANGED <<link, reqDone, kubeVars, rwPc, rwTodo, rwCur, rwMade, faults>>

\* A symlink: create_namespaced_pod.  The handler asks nothing about status.
RwCreatePod(m) ==
    /\ rwMade = NoId
    /\ m \in rwLeft /\ link[m] = "symlink"
    /\ pod[m] = "absent"
    /\ pod' = [pod EXCEPT ![m] = "pending"]
    /\ creates' = [creates EXCEPT ![m] = @ + 1]
    /\ Emit(m, "pending")
    /\ rwLeft' = rwLeft \ {m}
    /\ rwMade' = m
    /\ RwUnchanged
    /\ UNCHANGED <<link, reqDone, dying, missed, rwPc, rwTodo, rwCur, faults>>

\* The flip of the symlink into an empty file.
RwFlip ==
    /\ rwMade # NoId
    /\ link' = [link EXCEPT ![rwMade] = "file"]
    /\ rwMade' = NoId
    /\ RwUnchanged
    /\ UNCHANGED <<reqDone, kubeVars, rwPc, rwTodo, rwCur, rwLeft, faults>>

RwMarkProcessed_TooEarly ==
    /\ rwCur # NoId /\ rwMade = NoId
    /\ reqDone' = reqDone \cup {rwCur}
    /\ rwCur' = NoId /\ rwLeft' = {}
    /\ RwUnchanged
    /\ UNCHANGED <<link, kubeVars, rwPc, rwTodo, rwMade, faults>>

RwMarkProcessed_BeforeFlip ==
    /\ rwCur # NoId /\ rwLeft = {}
    /\ reqDone' = reqDone \cup {rwCur}
    /\ rwCur' = NoId
    /\ RwUnchanged
    /\ UNCHANGED <<link, kubeVars, rwPc, rwTodo, rwLeft, rwMade, faults>>

RwMarkProcessed_Forgotten ==
    /\ rwCur # NoId /\ rwLeft = {} /\ rwMade = NoId
    /\ rwCur' = NoId
    /\ RwUnchanged
    /\ UNCHANGED <<link, reqDone, kubeVars, rwPc, rwTodo, rwLeft, rwMade, faults>>

RwMarkProcessed ==
    /\ rwCur # NoId /\ rwLeft = {} /\ rwMade = NoId
    /\ reqDone' = reqDone \cup {rwCur}
    /\ rwCur' = NoId
    /\ RwUnchanged
    /\ UNCHANGED <<link, kubeVars, rwPc, rwTodo, rwLeft, rwMade, faults>>

RwDies ==
    /\ rwPc' = "down" /\ rwTodo' = {} /\ rwCur' = NoId
    /\ rwLeft' = {} /\ rwMade' = NoId
    /\ RwUnchanged
    /\ UNCHANGED <<link, reqDone, kubeVars>>

\* The pod exists: the API answers 409, which nothing catches.
RwConflict(m) ==
    /\ rwMade = NoId
    /\ m \in rwLeft /\ link[m] = "symlink"
    /\ pod[m] # "absent"
    /\ RwDies
    /\ UNCHANGED faults

\* The process dies, or any other answer of the API makes it die.
RwCrash == rwPc # "down" /\ Fault("rw") /\ RwDies

RwStep ==
    \/ RwStart
    \/ RwAddWatch
    \/ \E r \in Requests : RwPick(r)
    \/ \E m \in Machines : RwSkip(m) \/ RwCreatePod(m) \/ RwConflict(m)
    \/ RwFlip
    \/ RwMarkProcessed

-----------------------------------------------------------------------------
(* The request-return-machines watcher.                                    *)

TwUnchanged == UNCHANGED <<api, link, status, old, podFile, reqDone, returned, pod,
                           creates, missed, rwVars, pwVars, cronVars>>

TwStart ==
    /\ twPc = "down"
    /\ twPc' = "catchup"
    /\ twTodo' = PublishedReturns \ retDone
    /\ TwUnchanged
    /\ UNCHANGED <<retDone, dying, stream, twCur, twLeft, twDel, faults>>

TwAddWatch ==
    /\ twPc = "catchup" /\ twTodo = {} /\ twCur = NoId
    /\ twPc' = "watching"
    /\ TwUnchanged
    /\ UNCHANGED <<retDone, dying, stream, twTodo, twCur, twLeft, twDel, faults>>

TwPick(t) ==
    /\ twPc # "down" /\ twCur = NoId
    /\ t \in twTodo
    /\ twTodo' = twTodo \ {t}
    /\ twCur' = t
    /\ twLeft' = returned[t]
    /\ TwUnchanged
    /\ UNCHANGED <<retDone, dying, stream, twPc, twDel, faults>>

TwReadStatus_SkipsRunning(m) ==
    /\ twDel = NoId
    /\ m \in twLeft
    /\ twLeft' = twLeft \ {m}
    /\ twDel' = IF status[m] \in {NoStatus, "deleted", "running"} THEN NoId ELSE m
    /\ TwUnchanged
    /\ UNCHANGED <<retDone, dying, stream, twPc, twTodo, twCur, faults>>

\* fetch_pod_status: a machine without a status or "deleted" is skipped.
TwReadStatus(m) ==
    /\ twDel = NoId
    /\ m \in twLeft
    /\ twLeft' = twLeft \ {m}
    /\ twDel' = IF status[m] \in {NoStatus, "deleted"} THEN NoId ELSE m
    /\ TwUnchanged
    /\ UNCHANGED <<retDone, dying, stream, twPc, twTodo, twCur, faults>>

\* The handler marks the machine itself, before the pod is gone.
TwDeletePod_MarksDeleted ==
    /\ twDel # NoId
    /\ DeletePod(twDel)
    /\ status' = [status EXCEPT ![twDel] = "deleted"]
    /\ old' = old \ {twDel}
    /\ twDel' = NoId
    /\ UNCHANGED <<api, link, podFile, reqDone, returned, pod, creates, missed,
                   rwVars, pwVars, cronVars, retDone, twPc, twTodo, twCur, twLeft, faults>>

TwDeletePod ==
    /\ twDel # NoId
    /\ DeletePod(twDel)
    /\ twDel' = NoId
    /\ TwUnchanged
    /\ UNCHANGED <<retDone, twPc, twTodo, twCur, twLeft, faults>>

TwMarkProcessed_TooEarly ==
    /\ twCur # NoId /\ twDel = NoId
    /\ retDone' = retDone \cup {twCur}
    /\ twCur' = NoId /\ twLeft' = {}
    /\ TwUnchanged
    /\ UNCHANGED <<dying, stream, twPc, twTodo, twDel, faults>>

TwMarkProcessed ==
    /\ twCur # NoId /\ twLeft = {} /\ twDel = NoId
    /\ retDone' = retDone \cup {twCur}
    /\ twCur' = NoId
    /\ TwUnchanged
    /\ UNCHANGED <<dying, stream, twPc, twTodo, twLeft, twDel, faults>>

\* The process dies, or an answer of the API other than 404 makes it die.
TwCrash ==
    /\ twPc # "down"
    /\ Fault("tw")
    /\ twPc' = "down" /\ twTodo' = {} /\ twCur' = NoId
    /\ twLeft' = {} /\ twDel' = NoId
    /\ TwUnchanged
    /\ UNCHANGED <<retDone, dying, stream>>

TwStep ==
    \/ TwStart
    \/ TwAddWatch
    \/ \E t \in Returns : TwPick(t)
    \/ \E m \in Machines : TwReadStatus(m)
    \/ TwDeletePod
    \/ TwMarkProcessed

-----------------------------------------------------------------------------
(* The pod watcher (k8sutils.watch_pods, cluster.handle_event,             *)
(* pod_watcher._postprocess_event).                                        *)

PwElsewhere == <<api, link, reqDone, returned, retDone, pod, dying, creates, rwVars,
                 twVars, cronVars>>

PwUnchanged == UNCHANGED <<PwElsewhere, missed>>

\* The process first tells itself what it finds in pods/.
PwConnect_FromFiles ==
    /\ ~pwOn
    /\ pwOn' = TRUE
    /\ stream' = [m \in Machines |->
                     IF m \in podFile THEN <<"pending">>
                     ELSE IF pod[m] = "absent" THEN <<>> ELSE <<pod[m]>>]
    /\ PwUnchanged
    /\ UNCHANGED <<status, old, podFile, pwStep, pwM, pwEv, faults>>

\* A watch from resource version "0" begins with an ADDED for each pod that
\* exists; of a pod that has gone meanwhile it says nothing.  That it begins with
\* the pods as they are now is assumed (see above).
PwConnect ==
    /\ ~pwOn
    /\ pwOn' = TRUE
    /\ stream' = [m \in Machines |->
                     IF pod[m] = "absent" THEN <<>> ELSE <<pod[m]>>]
    /\ PwUnchanged
    /\ UNCHANGED <<status, old, podFile, pwStep, pwM, pwEv, faults>>

PwTakeEvent_NoFile(m) ==
    /\ pwOn /\ pwStep = "idle"
    /\ stream[m] # <<>>
    /\ stream' = [stream EXCEPT ![m] = Tail(@)]
    /\ pwM' = m
    /\ pwEv' = Head(stream[m])
    /\ pwStep' = IF Head(stream[m]) = "deleted" THEN "mark" ELSE "check"
    /\ PwUnchanged
    /\ UNCHANGED <<status, old, podFile, pwOn, faults>>

\* handle_event: the pod file is written, or unlinked, first.
PwTakeEvent(m) ==
    /\ pwOn /\ pwStep = "idle"
    /\ stream[m] # <<>>
    /\ stream' = [stream EXCEPT ![m] = Tail(@)]
    /\ pwM' = m
    /\ pwEv' = Head(stream[m])
    /\ IF Head(stream[m]) = "deleted"
       THEN podFile' = podFile \ {m} /\ pwStep' = "mark"
       ELSE podFile' = podFile \cup {m} /\ pwStep' = "check"
    /\ PwUnchanged
    /\ UNCHANGED <<status, old, pwOn, faults>>

PwMarkDeleted_OnlyRunning ==
    /\ pwStep = "mark"
    /\ status' = IF status[pwM] = "running"
                 THEN [status EXCEPT ![pwM] = "deleted"] ELSE status
    /\ old' = old \ {pwM}
    /\ pwStep' = "idle"
    /\ PwUnchanged
    /\ UNCHANGED <<podFile, stream, pwOn, pwM, pwEv, faults>>

\* _postprocess_event of a deletion ...
PwMarkDeleted ==
    /\ pwStep = "mark"
    /\ status' = [status EXCEPT ![pwM] = "deleted"]
    /\ old' = old \ {pwM}
    /\ pwStep' = "idle"
    /\ PwUnchanged
    /\ UNCHANGED <<podFile, stream, pwOn, pwM, pwEv, faults>>

\* ... and of anything else: the status is read ...
PwCheckStatus ==
    /\ pwStep = "check"
    /\ pwStep' = IF status[pwM] = "deleted" THEN "idle" ELSE "write"
    /\ PwUnchanged
    /\ UNCHANGED <<status, old, podFile, stream, pwOn, pwM, pwEv, faults>>

\* ... and, unless it was "deleted" then, the link is replaced, also by an equal
\* one.
PwWriteStatus ==
    /\ pwStep = "write"
    /\ status' = [status EXCEPT ![pwM] = pwEv]
    /\ old' = old \ {pwM}
    /\ pwStep' = "idle"
    /\ PwUnchanged
    /\ UNCHANGED <<podFile, stream, pwOn, pwM, pwEv, faults>>

\* The events that were on their way, and the one in hand.
PwLoses ==
    missed' = missed
        \cup {m \in Machines : \E i \in 1..Len(stream[m]) : stream[m][i] = "deleted"}
        \cup (IF pwStep = "mark" THEN {pwM} ELSE {})

PwStops ==
    /\ pwOn' = FALSE
    /\ pwStep' = "idle"
    /\ stream' = [m \in Machines |-> <<>>]
    /\ PwLoses
    /\ UNCHANGED <<PwElsewhere, status, old, podFile, pwM, pwEv>>

\* The stream ends (by itself, or by a ProtocolError): _watch_events returns
\* the resource version it was given, "0", and is called again.
PwStreamEnds == pwOn /\ pwStep = "idle" /\ Fault("stream") /\ PwStops

\* The process dies, between two calls of its own or within an event.
PwCrash == pwOn /\ Fault("pw") /\ PwStops

PwStep ==
    \/ PwConnect
    \/ \E m \in Machines : PwTakeEvent(m)
    \/ PwMarkDeleted
    \/ PwCheckStatus
    \/ PwWriteStatus

-----------------------------------------------------------------------------
(* The clean-up task (hfcron.CleanupPodsTask).                             *)

CronUnchanged == UNCHANGED <<api, link, podFile, reqDone, returned, retDone, pod,
                             creates, missed, rwVars, twVars, pwVars>>

\* A link has been there, as it is, for longer than pod_timeout.
LinkAges(m) ==
    /\ CronOn
    /\ status[m] # NoStatus
    /\ m \notin old
    /\ old' = old \cup {m}
    /\ CronUnchanged
    /\ UNCHANGED <<status, dying, stream, cronVars, faults>>

\* The st_ctime of a link is read, of which more will be asked only if it is old ...
CronReadsAge(m) ==
    /\ CronOn
    /\ cronStep = "idle"
    /\ m \in old
    /\ cronM' = m
    /\ cronStep' = "target"
    /\ CronUnchanged
    /\ UNCHANGED <<status, old, dying, stream, faults>>

CronReadsTarget_PendingOnly ==
    /\ cronStep = "target"
    /\ cronStep' = IF status[cronM] = "pending" THEN "delete" ELSE "idle"
    /\ CronUnchanged
    /\ UNCHANGED <<status, old, dying, stream, cronM, faults>>

\* ... and then its target, by which time the link may be another one.
CronReadsTarget ==
    /\ cronStep = "target"
    /\ cronStep' = IF status[cronM] \in {"creating", "pending"} THEN "delete" ELSE "idle"
    /\ CronUnchanged
    /\ UNCHANGED <<status, old, dying, stream, cronM, faults>>

CronDeletesPod ==
    /\ cronStep = "delete"
    /\ DeletePod(cronM)
    /\ cronStep' = "mark"
    /\ CronUnchanged
    /\ UNCHANGED <<status, old, cronM, faults>>

\* An answer other than 404 is swallowed, and "Deleted pod" is logged.
CronDeleteFails ==
    /\ cronStep = "delete"
    /\ Fault("cron")
    /\ cronStep' = "mark"
    /\ CronUnchanged
    /\ UNCHANGED <<status, old, dying, stream, cronM>>

\* The process dies between two of its calls.
CronCrash ==
    /\ cronStep # "idle"
    /\ Fault("cron")
    /\ cronStep' = "idle"
    /\ CronUnchanged
    /\ UNCHANGED <<status, old, dying, stream, cronM>>

CronMarksDeleted ==
    /\ cronStep = "mark"
    /\ status' = [status EXCEPT ![cronM] = "deleted"]
    /\ old' = old \ {cronM}
    /\ cronStep' = "idle"
    /\ CronUnchanged
    /\ UNCHANGED <<dying, stream, cronM, faults>>

CronStep ==
    \/ \E m \in Machines : CronReadsAge(m)
    \/ CronReadsTarget
    \/ CronDeletesPod
    \/ CronMarksDeleted

-----------------------------------------------------------------------------
SymphonyStep ==
    \/ \E r \in Requests : RequestMachines(r)
    \/ \E t \in Returns, machines \in (SUBSET Machines) \ {{}} :
         ReturnMachines(t, machines)

ApiStep ==
    \/ \E m \in Machines : WriteStatus(m) \/ LinkMachine(m)
    \/ \E r \in Requests : PublishRequest(r)

KubeStep ==
    \E m \in Machines :
        \/ PodChangesPhase(m)
        \/ PodModified(m)
        \/ PodRemoved(m)
        \/ PodEvicted(m)

FaultStep ==
    \/ \E r \in Requests : ApiDies(r)
    \/ RwCrash
    \/ TwCrash
    \/ PwStreamEnds
    \/ PwCrash
    \/ CronDeleteFails
    \/ CronCrash

Next ==
    \/ SymphonyStep \/ ApiStep \/ KubeStep \/ FaultStep
    \/ RwStep \/ TwStep \/ PwStep \/ CronStep
    \/ \E m \in Machines : LinkAges(m)

Spec == Init /\ [][Next]_vars

(***************************************************************************)
(* Each process runs when it can and is restarted when it died             *)
(* (documentation/design.md: tracked by a supervisor); a request_machines  *)
(* call that does not die finishes; Kubernetes removes a deleted pod in    *)
(* the end; and a link that the pod watcher does not replace again and     *)
(* again grows old.  Nothing is assumed of Symphony, of phases, of events  *)
(* or of faults.                                                           *)
(***************************************************************************)
\* The pod watcher replaces the link of m.
Renews(m) == PwWriteStatus /\ pwM = m

Fairness ==
    /\ WF_vars(ApiStep)
    /\ WF_vars(RwStep)
    /\ WF_vars(TwStep)
    /\ WF_vars(PwStep)
    /\ WF_vars(CronStep)
    /\ \A m \in Machines : WF_vars(PodRemoved(m))
    /\ \A m \in Machines : []<><<Renews(m)>>_vars \/ WF_vars(LinkAges(m))

FairSpec == Spec /\ Fairness

-----------------------------------------------------------------------------
(* Safety.                                                                 *)

(***************************************************************************)
(* .processed is found in a request only when the pod of each machine of   *)
(* it was created and each link flipped, whatever crashes and reruns came  *)
(* before (request.py and handlers.make_request_machine_handler).          *)
(***************************************************************************)
ProcessedIsCreated ==
    \A m \in Machines :
        RequestOf[m] \in reqDone => link[m] = "file" /\ creates[m] >= 1

(***************************************************************************)
(* Every pod in the cluster belongs to a published request and has a       *)
(* status on disk that the clean-up task and a return request can find: no *)
(* "additional untracked resources" (documentation/design.md), although    *)
(* the request may have been written by a process that died.               *)
(***************************************************************************)
NoUntrackedPod ==
    \A m \in Machines :
        pod[m] # "absent" =>
            /\ api[RequestOf[m]] = "published"
            /\ status[m] # NoStatus

(***************************************************************************)
(* Where no clean-up task runs, a machine marked "deleted" has no pod,     *)
(* unless the pod is a second one, created by the rerun of a request whose *)
(* watcher died between the creation and the flip.  ("deleted" is never    *)
(* left again, so such a pod is invisible to both watchers.)               *)
(***************************************************************************)
NoZombie ==
    ~CronOn => \A m \in Machines :
                  status[m] = "deleted" /\ pod[m] # "absent" => creates[m] > 1

(***************************************************************************)
(* Symphony is never told that a machine a poll has reported is gone       *)
(* while its (first) pod is there: the pod file is written before the      *)
(* status that makes a poll report the machine, and the two are removed    *)
(* only after the pod (get_return_requests against cluster.handle_event).  *)
(***************************************************************************)
GoneListSound ==
    ~CronOn =>
        \A m \in GetReturnRequests({n \in Machines : Reported(n)}) :
            pod[m] # "absent" => creates[m] > 1

(***************************************************************************)
(* When a return request is processed, the pods of its machines are gone   *)
(* or going: also where the watcher died in between, where the status it   *)
(* acted on was stale, and where it found no pod and took it for deleted   *)
(* (handlers.make_return_machine_handler).                                 *)
(***************************************************************************)
ReturnedPodsGo ==
    \A t \in retDone : \A m \in returned[t] :
        creates[m] <= 1 => pod[m] = "absent" \/ m \in dying

(***************************************************************************)
(* As long as its pod was created once, the status link and the pod file   *)
(* of a machine move only the ways RequestStatus lets them move, so that   *)
(* the properties of that module speak of the whole provider: the link     *)
(* along StatusStep; the file appears before the first phase and goes,     *)
(* with nothing left to bring it back, before "deleted", but for what the  *)
(* clean-up task writes (cluster.handle_event,                             *)
(* pod_watcher._postprocess_event, hfcron.py).  It rests on what is        *)
(* assumed of a watch from "0" (see above): one that began with older pods *)
(* than the watcher knows of could bring a file back, or an earlier phase. *)
(***************************************************************************)
StatusMoves ==
    [][\A m \in Machines : creates[m] <= 1 =>
          /\ status'[m] # status[m] =>
               /\ <<status[m], status'[m]>> \in StatusStep(CronOn)
               /\ (m \in podFile') = (m \in podFile)
               /\ status'[m] \in Phase => m \in podFile
               /\ status'[m] = "deleted" => m \notin podFile \/ cronStep = "mark"
          /\ m \in podFile' \ podFile =>
               status[m] = "creating" \/ (CronOn /\ status[m] = "deleted")
          /\ m \in podFile \ podFile' => pod[m] = "absent" /\ stream'[m] = <<>>]_vars

(***************************************************************************)
(* A machine that is marked "deleted", whose pod has gone and of whose     *)
(* deletion nothing is still to be told, stays "deleted", whatever phase   *)
(* the pod watcher had read or had in hand when the clean-up task wrote    *)
(* the mark, and whatever watches are renewed or processes restarted.      *)
(* (pod_watcher._postprocess_event reads the link and then replaces it,    *)
(* hfcron.py replaces it in between.  While the pod or its deletion is     *)
(* still to come a phase may be written over the mark, and if the watch    *)
(* or its process ends before that deletion is told, it stays.)            *)
(***************************************************************************)
GoneStaysDeleted ==
    [][\A m \in Machines :
          /\ status[m] = "deleted" /\ pod[m] = "absent"
          /\ \A i \in 1..Len(stream[m]) : stream[m][i] # "deleted"
          => status'[m] = "deleted"]_vars

(***************************************************************************)
(* The request side of the provider keeps the promise of RequestQueue: an  *)
(* entry is handled when its link has been flipped.                        *)
(***************************************************************************)
Queue == INSTANCE RequestQueue WITH
    Dirs <- Requests,
    Entries <- Machines,
    published <- PublishedRequests,
    contents <- [r \in Requests |->
                    IF api[r] = "published" THEN MachinesOf(r) ELSE {}],
    handled <- [r \in Requests |-> {m \in MachinesOf(r) : link[m] = "file"}],
    processed <- reqDone

ImplementsRequestQueue == Queue!Spec

-----------------------------------------------------------------------------
(* Liveness, under FairSpec.                                               *)

\* A pod that was created and whose link was not flipped, the watcher that did
\* it being dead.
Stranded(m) ==
    link[m] = "symlink" /\ pod[m] # "absent" /\ rwMade # m

(***************************************************************************)
(* A request that the watcher has noticed is processed in the end, across  *)
(* crashes and restarts, unless one of them strands a pod between its      *)
(* creation and the flip of its link (request.py, handlers.py).            *)
(***************************************************************************)
NoticedIsDoneOrStranded ==
    \A r \in Requests :
        r \in rwTodo ~> r \in reqDone \/ \E m \in Machines : Stranded(m)

(***************************************************************************)
(* A pod that the pod watcher has seen and that is gone comes to be marked *)
(* "deleted", across crashes and renewed watches, unless its               *)
(* deletion fell between two watches or within an event that was           *)
(* interrupted, or its name was used again (cluster.py, pod_watcher.py).   *)
(***************************************************************************)
GoneIsReportedOrMissed ==
    \A m \in Machines :
        m \in podFile /\ pod[m] = "absent"
            ~> status[m] = "deleted" \/ m \in missed \/ creates[m] > 1

(***************************************************************************)
(* A return request that its watcher has noticed comes to be answered      *)
(* "complete", each of its machines reading as terminated, unless the      *)
(* deletion of one was missed or one was created a second time.            *)
(***************************************************************************)
NoticedReturnCompletes ==
    \A t \in Returns :
        t \in twTodo ~>
            \/ \A m \in returned[t] : MachineStatusOf(status[m]) = "terminated"
            \/ \E m \in returned[t] : m \in missed \/ creates[m] > 1

(***************************************************************************)
(* With the clean-up task running, a machine stays "creating" or "pending" *)
(* for ever only if the pod watcher goes on replacing its link for ever,   *)
(* at each event of a pod that is pending, or at each renewed watch        *)
(* (pod_watcher.py), so that the link is never old enough (hfcron.py).     *)
(* Nothing else keeps it: neither a caller of request_machines that died   *)
(* halfway, nor a pod that cannot be scheduled, nor an API that refused    *)
(* the deletion, nor a clean-up that died, nor a mark that was overwritten.*)
(***************************************************************************)
NoneStaysPending ==
    \A m \in Machines :
        \/ status[m] \in {"creating", "pending"}
               ~> status[m] \notin {"creating", "pending"}
        \/ []<><<Renews(m)>>_vars

-----------------------------------------------------------------------------
(* What the repository says of its processes, and the runs refute.         *)

(***************************************************************************)
(* handlers.make_request_machine_handler: a machine that is not a symlink  *)
(* has "been already processed.  Which means, we rerun a partially         *)
(* processed request dir"; documentation/design.md: the watchers have      *)
(* "catch-up mechanisms in case they fail".  A noticed request is          *)
(* processed in the end.                                                   *)
(***************************************************************************)
NoticedIsProvisioned ==
    \A r \in Requests : r \in rwTodo ~> r \in reqDone

(***************************************************************************)
(* hfcron.py: a "Cleanup/GC process to remove timed out machine requests   *)
(* and pods".  A machine that timed out and is marked "deleted" has no pod *)
(* other than one that is going.                                           *)
(***************************************************************************)
TimedOutIsRemoved ==
    \A m \in Machines :
        status[m] = "deleted" => pod[m] = "absent" \/ m \in dying
=============================================================================
