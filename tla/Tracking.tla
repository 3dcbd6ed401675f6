------------------------------- MODULE Tracking -------------------------------
(***************************************************************************)
(* What the database of events is told of pods and nodes: the rows that    *)
(* the calls of the API, the pod watcher, the node watcher and the watcher *)
(* of Kubernetes events post while pods and nodes come and go.             *)
(*                                                                         *)
(* A watcher posts what the object in its hand says at the time it has it: *)
(* changes it did not see in between are not told, and an object that a    *)
(* renewed watch delivers again is told again.  Rows are posted through    *)
(* event files (EventPipeline); here they are in the database at once, as  *)
(* each carries the time it was posted at and their order is not used.     *)
(* The rows of one handler have one time, though a second may begin        *)
(* between them.  What is left out: the rows of requests, returns and      *)
(* templates, and of a pod those of its request and of its return.         *)
(***************************************************************************)
EXTENDS Naturals, FiniteSets

CONSTANTS
    Pods,
    Nodes,
    NoNode,     \* spec.node_name of a pod that is not scheduled
    MaxTime,    \* bound on the clock
    MaxEvents   \* bound on the posts

ASSUME TrackingAssumption ==
    NoNode \notin Nodes /\ MaxTime \in Nat \ {0} /\ MaxEvents \in Nat

VARIABLES
    now,        \* int(time()), of the one host that all of them run on
    pod,        \* the pods in the cluster
    node,       \* the nodes in the cluster
    nodeFile,   \* nodes/<node>, which the node watcher keeps
    rows,       \* the events table
    events      \* how many posts there were

objectVars == <<pod, node>>
recordVars == <<now, pod, node, nodeFile, rows, events>>

PodObjects ==
    [life : {"none", "there", "leaving", "gone"},
     phase : {"pending", "running", "failed"},
     node : Nodes \cup {NoNode}, ready : BOOLEAN, deleting : BOOLEAN]

NodeObjects == [life : {"none", "there", "gone"}, ready : BOOLEAN, deleting : BOOLEAN]

RowSet ==
    [category : {"pod", "node"}, id : Pods \cup Nodes, ts : 1..MaxTime,
     type : STRING, value : STRING \cup Nodes]

NewPod ==
    [life |-> "none", phase |-> "pending", node |-> NoNode, ready |-> FALSE,
     deleting |-> FALSE]
NewNode == [life |-> "none", ready |-> FALSE, deleting |-> FALSE]

RecordInit ==
    /\ now = 1
    /\ pod = [p \in Pods |-> NewPod]
    /\ node = [n \in Nodes |-> NewNode]
    /\ nodeFile = {} /\ rows = {} /\ events = 0

-----------------------------------------------------------------------------
(* The cluster.                                                            *)

\* A pod that was removed is "leaving" as long as a watch may still say so.
PodMoves(p) ==
    /\ LET o == pod[p] IN
       \/ o.life = "none" /\ pod' = [pod EXCEPT ![p].life = "there"]
       \/ /\ o.life = "there" /\ o.phase = "pending" /\ o.node = NoNode
          /\ \E n \in Nodes : /\ node[n].life = "there"
                              /\ pod' = [pod EXCEPT ![p].node = n]
       \/ /\ o.life = "there" /\ o.phase = "pending" /\ o.node # NoNode
          /\ pod' = [pod EXCEPT ![p].phase = "running"]
       \/ /\ o.life = "there" /\ o.phase = "running"
          /\ \/ ~o.ready /\ pod' = [pod EXCEPT ![p].ready = TRUE]
             \/ pod' = [pod EXCEPT ![p].phase = "failed", ![p].ready = FALSE]
       \/ /\ o.life = "there"
          /\ pod' = IF o.deleting THEN [pod EXCEPT ![p].life = "leaving"]
                    ELSE [pod EXCEPT ![p].deleting = TRUE]
       \/ o.life = "leaving" /\ pod' = [pod EXCEPT ![p].life = "gone"]
    /\ UNCHANGED <<now, node, nodeFile, rows, events>>

NodeMoves(n) ==
    /\ \/ node[n].life = "none" /\ node' = [node EXCEPT ![n].life = "there"]
       \/ node[n].life = "there" /\ ~node[n].ready /\ node' = [node EXCEPT ![n].ready = TRUE]
       \/ /\ node[n].life = "there"
          /\ IF node[n].deleting THEN node' = [node EXCEPT ![n].life = "gone"]
             ELSE node' = [node EXCEPT ![n].deleting = TRUE]
    /\ UNCHANGED <<now, pod, nodeFile, rows, events>>

-----------------------------------------------------------------------------
(* The posts.                                                              *)

Row(category, id, type, value) ==
    [category |-> category, id |-> id, ts |-> now, type |-> type, value |-> value]

Status(category, id, value) == Row(category, id, "status", value)

\* Time passes between posts.  What the table has already is not inserted again
\* (its unique index).
Post(new) ==
    /\ events < MaxEvents /\ events' = events + 1
    /\ now' \in now..MaxTime
    /\ rows' = rows \cup {[r EXCEPT !.ts = now'] : r \in new}
    /\ rows' # rows

When(condition, set) == IF condition THEN set ELSE {}

\* request_machines, before the request is published and thus before the pod is
\* created.
Request(p) ==
    /\ pod[p].life = "none"
    /\ Post({Status("pod", p, "requested")})
    /\ UNCHANGED <<objectVars, nodeFile>>

\* _find_node_id: "null" in the database where the file is not there (yet).
NodeId(n) == IF n \in nodeFile THEN n ELSE "null"

\* get_pod_container_statuses, of the one container; "Ready" is a running one
\* that is ready too.
ContainerState(o) ==
    CASE o.phase = "pending" -> "Waiting"
      [] o.phase = "running" -> IF o.ready THEN "Ready" ELSE "Running"
      [] OTHER -> "Terminated"

\* _track_pod_event.  The resources are one column of four, the node name is
\* told along with the id, and the event itself is not kept by the database.
PodRows(p, o) ==
    {Status("pod", p, o.phase), Status("pod", p, "created"),
     Row("pod", p, "cpu_requested", "quantity")}
        \cup When(o.deleting, {Status("pod", p, "deleted")})
        \cup When(o.node # NoNode,
                  {Row("pod", p, "node_id", NodeId(o.node)),
                   Status("pod", p, "scheduled"),
                   Row("pod", p, "container_statuses", ContainerState(o))})
        \cup When(o.ready, {Status("pod", p, "ready")})

TrackPod(p) ==
    /\ pod[p].life \in {"there", "leaving"}
    /\ Post(PodRows(p, pod[p]))
    /\ UNCHANGED <<objectVars, nodeFile>>

\* node_watcher._postprocess_event, likewise.
NodeRows(n, o) ==
    {Status("node", n, "created"), Row("node", n, "cpu_capacity", "quantity")}
        \cup When(o.deleting, {Status("node", n, "deleted")})
        \cup When(o.ready, {Status("node", n, "ready")})

\* The file is written before the rows are posted (cluster.handle_event).
TrackNode(n) ==
    /\ node[n].life = "there"
    /\ nodeFile' = nodeFile \cup {n}
    /\ Post(NodeRows(n, node[n]))
    /\ UNCHANGED <<objectVars>>

\* The DELETED event of a node: the file goes, what is posted is nothing new.
TrackNodeGone(n) ==
    /\ node[n].life = "gone" /\ n \in nodeFile
    /\ nodeFile' = nodeFile \ {n}
    /\ Post(NodeRows(n, node[n]))
    /\ UNCHANGED <<objectVars>>

\* kube_watcher: a node is disrupted; one of the two columns is misspelt.
TrackDisruption(n) ==
    /\ node[n].life = "there"
    /\ \E column \in {"eviction_empty", "eviction_uderutilized"} :
          Post({Row("node", n, column, "time")})
    /\ UNCHANGED <<objectVars, nodeFile>>

Record ==
    \/ \E p \in Pods : PodMoves(p) \/ Request(p) \/ TrackPod(p)
    \/ \E n \in Nodes :
          NodeMoves(n) \/ TrackNode(n) \/ TrackNodeGone(n) \/ TrackDisruption(n)
=============================================================================
