----------------------------- MODULE EventsReport -----------------------------
(***************************************************************************)
(* cli/events_db.py: the rows of a database of events, each a timestamp, a *)
(* type and a value, become a report, a table with a row per pod and per   *)
(* node and a column per type, together with a summary of the run.         *)
(*                                                                         *)
(* What the report says of a column is what was posted first: rows are     *)
(* taken by timestamp, rows of one timestamp in an order nobody promises,  *)
(* and a column that has a value is not written again.  A transformation   *)
(* that dies leaves what it has committed under its run id; the next one   *)
(* gets another id, as the one before it keeps the key of its metadata.    *)
(*                                                                         *)
(* Reports are made of a database that is no longer written to.            *)
(***************************************************************************)
EXTENDS Tracking, Integers, FiniteSetsExt

CONSTANTS
    CpuCapacity,    \* of each node ...
    CpuRequested,   \* ... and pod: what "quantity" stands for
    MaxRuns         \* bound on the transformations

ASSUME ReportAssumption ==
    /\ CpuCapacity \in [Nodes -> Nat] /\ CpuRequested \in [Pods -> Nat]
    /\ MaxRuns \in Nat

VARIABLES
    phase,      \* record, idle (between reports), rows
    run,        \* the last run id that was given out
    todo,       \* the rows of the input that are still to be looked at
    category,   \* the category that is being worked on, or "none"
    processed,  \* the columns that have been met
    out,        \* the tables of the output as the session sees them ...
    saved       \* ... and as committed

runVars    == <<run, todo, category, processed>>
reportVars == <<phase, runVars, out, saved>>
vars       == <<recordVars, reportVars>>

Runs == 1..MaxRuns

\* The columns of the tables Pod, Node and Container, as far as Tracking posts
\* rows for them or leaves them empty.
Columns ==
    [pod |-> {"requested", "pending", "created", "scheduled", "running", "ready",
              "returned", "deleted", "failed", "node_id", "cpu_requested"},
     node |-> {"created", "ready", "deleted", "eviction_empty", "cpu_capacity"}]

BoxColumns == {"ready", "started", "scheduled"}

\* names: the rows that exist in Pod and Node.  cells: the columns of them that
\* are not null.  boxes: Container, whose row of a pod belongs to one run.
Tables ==
    [names : SUBSET [run : Runs, category : {"pod", "node"}, id : Pods \cup Nodes],
     cells : SUBSET [run : Runs, category : {"pod", "node"}, id : Pods \cup Nodes,
                     column : STRING, ts : Nat, value : STRING \cup Nodes],
     boxes : SUBSET [run : Runs, id : Pods],
     boxCells : SUBSET [run : Runs, id : Pods, column : BoxColumns, ts : Nat],
     summary : SUBSET [run : Runs, start : SUBSET Nat, end : SUBSET Nat,
                       nodeUse : Int, podUse : Int]]

Init ==
    /\ RecordInit
    /\ phase = "record" /\ run = 0 /\ todo = {} /\ category = "none" /\ processed = {}
    /\ out = [names |-> {}, cells |-> {}, boxes |-> {}, boxCells |-> {}, summary |-> {}]
    /\ saved = out

Recording == phase = "record" /\ Record /\ UNCHANGED reportVars

\* The database is rotated away; of what comes after there is nothing here.
Rotated ==
    /\ phase = "record" /\ phase' = "idle"
    /\ now' = 1 /\ pod' = [p \in Pods |-> NewPod] /\ node' = [n \in Nodes |-> NewNode]
    /\ nodeFile' = {} /\ events' = 0
    /\ UNCHANGED <<rows, runVars, out, saved>>

\* _populate_run_metadata: committed at once.
Begin ==
    /\ phase = "idle" /\ run < MaxRuns
    /\ phase' = "rows" /\ run' = run + 1
    /\ todo' = rows /\ category' = "none" /\ processed' = {}
    /\ UNCHANGED <<recordVars, out, saved>>

-----------------------------------------------------------------------------
(* _transform_data.                                                        *)

PickCategory ==
    /\ phase = "rows" /\ category = "none"
    /\ \E r \in todo : category' = r.category
    /\ UNCHANGED <<recordVars, phase, run, todo, processed, out, saved>>

OfCategory == {r \in todo : r.category = category}

ColumnOf(r) == IF r.type = "status" THEN r.value ELSE r.type

\* `processed`: the columns that rows are about.
Key(r) == <<r.category, r.id, ColumnOf(r)>>

Earliest(set) == {r \in set : \A other \in set : r.ts <= other.ts}

\* Mutant: the query does not order the rows.
NextRows_Unordered ==
    LET first == CHOOSE r \in OfCategory : TRUE
    IN  {r \in OfCategory : Key(r) = Key(first)}

\* The rows that may come next: ordered by timestamp, and in any order where
\* that is equal.  As rows about different columns do not touch the same cell,
\* only those about one column are tried in every order.
NextRows ==
    LET first == CHOOSE r \in Earliest(OfCategory) : TRUE
    IN  {r \in Earliest(OfCategory) : Key(r) = Key(first)}

Commit == saved' = out'

\* Mutant: "null" is a value like any other.
IsNull_Never(r) == FALSE

\* A node id that was not known when it was posted.
IsNull(r) == r.value = "null"

\* A row that leads to nothing: a null, or a column that was met before.
PassOver(r) ==
    /\ r.type # "container_statuses"
    /\ IsNull(r) \/ Key(r) \in processed
    /\ UNCHANGED <<processed, out, saved>>

\* A column of no table is remembered as met all the same.
Unknown(r) ==
    /\ r.type # "container_statuses" /\ ~IsNull(r) /\ Key(r) \notin processed
    /\ ColumnOf(r) \notin Columns[r.category]
    /\ processed' = processed \cup {Key(r)}
    /\ UNCHANGED <<out, saved>>

\* A column of a named row, and whether it is not null.
Cell(name, r) ==
    [run |-> name.run, category |-> name.category, id |-> name.id,
     column |-> ColumnOf(r), ts |-> r.ts, value |-> r.value]

Filled(name, column) ==
    \E c \in out.cells : /\ c.run = name.run /\ c.category = name.category
                         /\ c.id = name.id /\ c.column = column

\* Mutant: the update of the column does not ask for the run.
Write_OfAnyRun(r) ==
    /\ r.type # "container_statuses" /\ ~IsNull(r) /\ Key(r) \notin processed
    /\ ColumnOf(r) \in Columns[r.category]
    /\ processed' = processed \cup {Key(r)}
    /\ LET name == [run |-> run, category |-> r.category, id |-> r.id]
           named == [out EXCEPT !.names = @ \cup {name}]
           null == {n \in named.names : n.category = r.category /\ n.id = r.id
                                       /\ ~Filled(n, ColumnOf(r))}
       IN  /\ saved' = IF name \in out.names THEN saved ELSE named
           /\ out' = [named EXCEPT !.cells = @ \cup {Cell(n, r) : n \in null}]

\* The row of the table is made, and committed, if it is not there; then the
\* column is set where it is null.
Write(r) ==
    /\ r.type # "container_statuses" /\ ~IsNull(r) /\ Key(r) \notin processed
    /\ ColumnOf(r) \in Columns[r.category]
    /\ processed' = processed \cup {Key(r)}
    /\ LET name == [run |-> run, category |-> r.category, id |-> r.id]
           named == [out EXCEPT !.names = @ \cup {name}]
       IN  /\ saved' = IF name \in out.names THEN saved ELSE named
           /\ out' = IF Filled(name, ColumnOf(r)) THEN named
                     ELSE [named EXCEPT !.cells = @ \cup {Cell(name, r)}]

\* The columns of Container that a status sets.
BoxColumnsOf(value) ==
    CASE value = "Waiting" -> {"scheduled"}
      [] value = "Running" -> {"started"}
      [] value = "Ready" -> {"started", "ready"}
      [] OTHER -> {}

\* _process_container_statuses: the insertion is ignored where any run has the
\* container of the pod; only the columns of this run's row are set.
WriteBox(r) ==
    /\ r.type = "container_statuses"
    /\ LET owned == IF \E b \in out.boxes : b.id = r.id THEN out.boxes
                    ELSE out.boxes \cup {[run |-> run, id |-> r.id]}
           unset == {c \in BoxColumnsOf(r.value) :
                        /\ [run |-> run, id |-> r.id] \in owned
                        /\ ~\E b \in out.boxCells : b.run = run /\ b.id = r.id /\ b.column = c}
       IN  out' = [out EXCEPT !.boxes = owned,
                              !.boxCells = @ \cup {[run |-> run, id |-> r.id, column |-> c,
                                                    ts |-> r.ts] : c \in unset}]
    /\ Commit
    /\ UNCHANGED processed

TransformRow ==
    /\ phase = "rows" /\ category # "none" /\ OfCategory # {}
    /\ \E r \in NextRows :
         /\ todo' = todo \ {r}
         /\ PassOver(r) \/ Unknown(r) \/ Write(r) \/ WriteBox(r)
    /\ UNCHANGED <<recordVars, phase, run, category>>

EndCategory ==
    /\ phase = "rows" /\ category # "none" /\ OfCategory = {}
    /\ category' = "none"
    /\ saved' = out
    /\ UNCHANGED <<recordVars, phase, run, todo, processed, out>>

-----------------------------------------------------------------------------
(* _generate_summary.                                                      *)

\* A column of one table of the run, as [id, ts] pairs.
Column(cat, column) ==
    {[id |-> c.id, ts |-> c.ts] : c \in
        {c \in out.cells : c.run = run /\ c.category = cat /\ c.column = column}}

Times(column) == {c.ts : c \in column}

Of(id, column) == {c.ts : c \in {c \in column : c.id = id}}

\* SQL's max: null, which is {} here, of nothing.
Latest(times) == {t \in times : \A u \in times : u <= t}

Coalesce(first, second) == IF first # {} THEN first ELSE second

\* quantity * (coalesce(deleted, max(deleted)) - coalesce(created, 0)), summed
\* over those that have a quantity; a term that is null is not counted.
Use(cat, quantityColumn, Quantity) ==
    LET deleted == Column(cat, "deleted")
        until == [id \in {c.id : c \in Column(cat, quantityColumn)} |->
                     Coalesce(Of(id, deleted), Latest(Times(deleted)))]
        since == [id \in DOMAIN until |-> Coalesce(Of(id, Column(cat, "created")), {0})]
        counted == {id \in DOMAIN until : until[id] # {}}
    IN  MapThenSumSet(LAMBDA id :
            Quantity[id] * ((CHOOSE t \in until[id] : TRUE) - (CHOOSE t \in since[id] : TRUE)),
            counted)

NodeUse == Use("node", "cpu_capacity", CpuCapacity)
PodUse == Use("pod", "cpu_requested", CpuRequested)

\* The start is the latest creation of a node.  What is stored of the use of
\* pods is the share of the use of nodes, or 0.
Summarize ==
    /\ phase = "rows" /\ category = "none" /\ todo = {}
    /\ out' = [out EXCEPT !.summary = @ \cup
                 {[run |-> run, start |-> Latest(Times(Column("node", "created"))),
                   end |-> Latest(Times(Column("node", "deleted"))),
                   nodeUse |-> NodeUse, podUse |-> IF NodeUse > 0 THEN PodUse ELSE 0]}]
    /\ Commit
    /\ phase' = "idle"
    /\ UNCHANGED <<recordVars, runVars>>

\* The transformation dies: what is not committed is rolled back.
Crash ==
    /\ phase = "rows"
    /\ phase' = "idle"
    /\ out' = saved
    /\ todo' = {} /\ category' = "none" /\ processed' = {}
    /\ UNCHANGED <<recordVars, run, saved>>

Transform == PickCategory \/ TransformRow \/ EndCategory \/ Summarize

Next == Recording \/ Rotated \/ Begin \/ Transform \/ Crash

Spec == Init /\ [][Next]_vars

-----------------------------------------------------------------------------
TypeOK ==
    /\ now \in 1..MaxTime
    /\ pod \in [Pods -> PodObjects] /\ node \in [Nodes -> NodeObjects]
    /\ nodeFile \subseteq Nodes
    /\ rows \subseteq RowSet /\ events \in 0..MaxEvents
    /\ phase \in {"record", "idle", "rows"} /\ run \in 0..MaxRuns
    /\ todo \subseteq rows /\ category \in {"none", "pod", "node"}
    /\ out \in Tables /\ saved \in Tables

\* What the input says of a column.
Told(cat, id, column) ==
    {r \in rows : /\ r.category = cat /\ r.id = id /\ ColumnOf(r) = column
                  /\ r.type # "container_statuses" /\ r.value # "null"}

CellsOf(tables, i, cat, id, column) ==
    {c \in tables.cells : /\ c.run = i /\ c.category = cat /\ c.id = id
                          /\ c.column = column}

\* The column has what was told of it first, and is null where nothing was.
IsFirstTold(tables, i, cat, id, column) ==
    LET first == Earliest(Told(cat, id, column))
        cells == CellsOf(tables, i, cat, id, column)
    IN  /\ Cardinality(cells) <= 1
        /\ cells = {} <=> first = {}
        /\ \A c \in cells : \E r \in first : c.ts = r.ts /\ c.value = r.value

\* The same of the containers of a run that has the row of the pod.
BoxIsFirstTold(tables, i, id, column) ==
    LET first == Earliest({r \in rows : /\ r.id = id /\ r.type = "container_statuses"
                                        /\ column \in BoxColumnsOf(r.value)})
    IN  {b.ts : b \in {b \in tables.boxCells : b.run = i /\ b.id = id /\ b.column = column}}
            = {r.ts : r \in first}

(***************************************************************************)
(* A run that has a summary has the whole report, whatever died before it: *)
(* each column is what was posted first for it and not null, and where     *)
(* several were posted at one time, one of them.  Containers are reported  *)
(* by the one run whose transformation met the pod first (_transform_data, *)
(* _process_container_statuses: the key of a container has no run in it).  *)
(***************************************************************************)
SummarizedIsWhole ==
    \A s \in saved.summary :
        /\ \A cat \in DOMAIN Columns : \A column \in Columns[cat] :
              \A id \in Pods \cup Nodes : IsFirstTold(saved, s.run, cat, id, column)
        /\ \A p \in Pods : [run |-> s.run, id |-> p] \in saved.boxes =>
              \A column \in BoxColumns : BoxIsFirstTold(saved, s.run, p, column)

OfRuns(tables, i) ==
    [names |-> {x \in tables.names : x.run <= i}, cells |-> {x \in tables.cells : x.run <= i},
     boxes |-> {x \in tables.boxes : x.run <= i},
     boxCells |-> {x \in tables.boxCells : x.run <= i},
     summary |-> {x \in tables.summary : x.run <= i}]

(***************************************************************************)
(* A transformation changes nothing of the reports of earlier runs, whole  *)
(* or left behind by a crash, although they speak of the same pods and     *)
(* nodes in the same tables (the run_id of each query).                    *)
(***************************************************************************)
EarlierRunsStand == [][OfRuns(saved', run' - 1) = OfRuns(saved, run' - 1)]_vars

\* The pairs of columns of which the second is not told before the first is: one
\* handler posts both in this order, or they are told of different moments.
Precedes ==
    {<<"requested", "created">>, <<"created", "scheduled">>, <<"created", "ready">>,
     <<"created", "deleted">>, <<"pending", "running">>, <<"pending", "failed">>,
     <<"running", "failed">>}

(***************************************************************************)
(* A report puts the life of a pod, and of a node, in the order it went    *)
(* through: a condition that is told again after a later one, by a renewed *)
(* watch, does not overtake it (pod_watcher._track_pod_event,              *)
(* node_watcher and the order of the rows in _transform_data).             *)
(***************************************************************************)
StagesInOrder ==
    \A a, b \in saved.cells :
        /\ <<a.column, b.column>> \in Precedes
        /\ a.run = b.run /\ a.category = b.category /\ a.id = b.id
        => a.ts <= b.ts
=============================================================================
