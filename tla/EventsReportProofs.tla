------------------------- MODULE EventsReportProofs -------------------------
(***************************************************************************)
(* Proofs about the reports, for any pods and nodes, any rows and any      *)
(* number of runs: that a transformation leaves the reports of the runs    *)
(* before it alone, wherever it or one of them dies (IInv); that a summary *)
(* says what all rows of its run say, and that the boxes of a pod come     *)
(* after its node and its name (AllInv).                                   *)
(***************************************************************************)
EXTENDS EventsReport, FiniteSetTheorems, TLAPS

\* A record of the five tables.
Shaped(tables) ==
    tables = [names |-> tables.names, cells |-> tables.cells, boxes |-> tables.boxes,
              boxCells |-> tables.boxCells, summary |-> tables.summary]

\* What the session has and has not committed is of its own run, and between the
\* transformations there is nothing of the kind.
IInv ==
    /\ run \in Nat
    /\ Shaped(out) /\ Shaped(saved)
    /\ OfRuns(out, run - 1) = OfRuns(saved, run - 1)
    /\ phase # "rows" => out = saved

\* The second has what the first has, and more only of the present run.
Grown(first, second) ==
    /\ Shaped(second)
    /\ first.names \subseteq second.names /\ first.cells \subseteq second.cells
    /\ first.boxes \subseteq second.boxes /\ first.boxCells \subseteq second.boxCells
    /\ first.summary \subseteq second.summary
    /\ \A x \in second.names : x \in first.names \/ x.run = run
    /\ \A x \in second.cells : x \in first.cells \/ x.run = run
    /\ \A x \in second.boxes : x \in first.boxes \/ x.run = run
    /\ \A x \in second.boxCells : x \in first.boxCells \/ x.run = run
    /\ \A x \in second.summary : x \in first.summary \/ x.run = run

LEMMA Initially == Init => IInv
BY DEF Init, IInv, Shaped

(* What is written of the present run is not of the earlier ones.          *)
LEMMA GrownKeeps ==
    ASSUME run \in Nat, NEW first, NEW second, Grown(first, second)
    PROVE  OfRuns(second, run - 1) = OfRuns(first, run - 1)
<1>1. ~(run <= run - 1)
  OBVIOUS
<1>. QED  BY <1>1 DEF Grown, OfRuns

LEMMA WriteGrows ==
    ASSUME IInv, NEW r, Write(r)
    PROVE  Grown(out, out') /\ (saved' = saved \/ Grown(out, saved'))
<1>. DEFINE name  == [run |-> run, category |-> r.category, id |-> r.id]
            named == [out EXCEPT !.names = @ \cup {name}]
<1>1. Shaped(out)
  BY DEF IInv
<1>2. named = [names |-> out.names \cup {name}, cells |-> out.cells, boxes |-> out.boxes,
               boxCells |-> out.boxCells, summary |-> out.summary]
  BY <1>1 DEF Shaped
<1>3. Grown(out, named)
  BY <1>2 DEF Grown, Shaped
<1>4. saved' = saved \/ saved' = named
  BY DEF Write
<1>5. out' = named \/ out' = [named EXCEPT !.cells = @ \cup {Cell(name, r)}]
  BY DEF Write
<1>. HIDE DEF name, named
<1>6. [named EXCEPT !.cells = @ \cup {Cell(name, r)}] =
         [names |-> out.names \cup {name}, cells |-> out.cells \cup {Cell(name, r)},
          boxes |-> out.boxes, boxCells |-> out.boxCells, summary |-> out.summary]
  BY <1>2
<1>7. Grown(out, [named EXCEPT !.cells = @ \cup {Cell(name, r)}])
  <2>1. name.run = run /\ Cell(name, r).run = run
    BY DEF name, Cell
  <2>. QED  BY <1>6, <2>1 DEF Grown, Shaped
<1>. QED  BY <1>3, <1>4, <1>5, <1>7

LEMMA WriteBoxGrows ==
    ASSUME IInv, NEW r, WriteBox(r)
    PROVE  Grown(out, out') /\ saved' = out'
<1>. DEFINE owned == IF \E b \in out.boxes : b.id = r.id THEN out.boxes
                     ELSE out.boxes \cup {[run |-> run, id |-> r.id]}
            unset == {c \in BoxColumnsOf(r.value) :
                        /\ [run |-> run, id |-> r.id] \in owned
                        /\ ~\E b \in out.boxCells : b.run = run /\ b.id = r.id /\ b.column = c}
            filled == {[run |-> run, id |-> r.id, column |-> c, ts |-> r.ts] : c \in unset}
<1>1. Shaped(out)
  BY DEF IInv
<1>2. out' = [out EXCEPT !.boxes = owned, !.boxCells = @ \cup filled] /\ saved' = out'
  BY DEF WriteBox, Commit
<1>3. out' = [names |-> out.names, cells |-> out.cells, boxes |-> owned,
              boxCells |-> out.boxCells \cup filled, summary |-> out.summary]
  BY <1>1, <1>2 DEF Shaped
<1>4. out.boxes \subseteq owned /\ \A b \in owned : b \in out.boxes \/ b.run = run
  OBVIOUS
<1>5. \A b \in filled : b.run = run
  OBVIOUS
<1>. HIDE DEF owned, filled
<1>. QED  BY <1>2, <1>3, <1>4, <1>5 DEF Grown, Shaped

LEMMA SummarizeGrows ==
    ASSUME IInv, Summarize
    PROVE  Grown(out, out') /\ saved' = out'
<1>. DEFINE s == [run |-> run, start |-> Latest(Times(Column("node", "created"))),
                   end |-> Latest(Times(Column("node", "deleted"))),
                   nodeUse |-> NodeUse, podUse |-> IF NodeUse > 0 THEN PodUse ELSE 0]
<1>0. /\ s.run = run
      /\ out' = [out EXCEPT !.summary = @ \cup {s}] /\ saved' = out'
  BY DEF Summarize, Commit
<1>. HIDE DEF s
<1>1. Shaped(out)
  BY DEF IInv
<1>2. out' = [names |-> out.names, cells |-> out.cells, boxes |-> out.boxes,
              boxCells |-> out.boxCells, summary |-> out.summary \cup {s}]
  BY <1>0, <1>1 DEF Shaped
<1>. QED  BY <1>0, <1>2 DEF Grown, Shaped

-----------------------------------------------------------------------------
\* Nothing of an earlier run is touched: what is there when a step ends.
Stands == OfRuns(saved', run' - 1) = OfRuns(saved, run' - 1)

(* A step that writes to the session, or saves what is in it.              *)
LEMMA GrowthKeeps ==
    ASSUME IInv, phase' = "rows" \/ saved' = out', UNCHANGED run,
           out' = out \/ Grown(out, out'),
           saved' = saved \/ saved' = out \/ Grown(out, saved')
    PROVE  IInv' /\ Stands
<1>1. OfRuns(out', run - 1) = OfRuns(out, run - 1)
  BY GrownKeeps DEF IInv
<1>2. OfRuns(saved', run - 1) = OfRuns(saved, run - 1)
  BY GrownKeeps DEF IInv
<1>3. Shaped(out') /\ Shaped(saved')
  BY DEF IInv, Grown
<1>. QED  BY <1>1, <1>2, <1>3 DEF IInv, Stands

LEMMA StepKeeps ==
    ASSUME IInv, [Next]_vars
    PROVE  IInv' /\ Stands
<1>1. CASE Recording \/ Rotated \/ PickCategory \/ UNCHANGED vars
  <2>1. UNCHANGED <<run, out, saved>> /\ (phase # "rows" \/ phase' = phase)
    BY <1>1 DEF Recording, Rotated, PickCategory, vars, reportVars, runVars
  <2>2. phase = "rows" \/ out = saved
    BY DEF IInv
  <2>. QED  BY <1>1, <2>1, <2>2 DEF IInv, Stands, Rotated
<1>2. CASE Begin
  BY <1>2 DEF Begin, IInv, Stands
<1>3. CASE TransformRow
  <2>1. phase' = "rows" /\ UNCHANGED run
    BY <1>3 DEF TransformRow
  <2>2. PICK r : PassOver(r) \/ Unknown(r) \/ Write(r) \/ WriteBox(r)
    BY <1>3 DEF TransformRow
  <2>3. CASE PassOver(r) \/ Unknown(r)
    BY <2>1, <2>3, GrowthKeeps DEF PassOver, Unknown
  <2>4. CASE Write(r)
    BY <2>1, <2>4, WriteGrows, GrowthKeeps
  <2>5. CASE WriteBox(r)
    BY <2>1, <2>5, WriteBoxGrows, GrowthKeeps
  <2>. QED  BY <2>2, <2>3, <2>4, <2>5
<1>4. CASE EndCategory
  BY <1>4, GrowthKeeps DEF EndCategory
<1>5. CASE Summarize
  BY <1>5, SummarizeGrows, GrowthKeeps DEF Summarize, runVars
<1>6. CASE Crash
  BY <1>6 DEF Crash, IInv, Stands
<1>. QED  BY <1>1, <1>2, <1>3, <1>4, <1>5, <1>6 DEF Next, Transform

(***************************************************************************)
(* Reports of earlier runs stand, whatever a transformation writes and     *)
(* wherever it dies (_transform_data, _process_container_statuses: the     *)
(* run_id of each query).                                                  *)
(***************************************************************************)
THEOREM EarlierRunsStandAlways == Spec => EarlierRunsStand
<1>1. Init => IInv
  BY Initially
<1>2. IInv /\ [Next]_vars => IInv'
  BY StepKeeps
<1>3. IInv /\ [Next]_vars => Stands
  BY StepKeeps
<1>4. [][Stands]_vars => EarlierRunsStand
  BY DEF Stands, EarlierRunsStand
<1>. QED  BY <1>1, <1>2, <1>3, <1>4, PTL DEF Spec

-----------------------------------------------------------------------------
(***************************************************************************)
(* What a report says.  Two things are needed: of the rows, that a later   *)
(* stage of a life is not told before an earlier one (RowsInv); and of a   *)
(* transformation, that what it has taken of the rows it has written, each *)
(* column from the first row that tells it (TablesInv).                    *)
(***************************************************************************)

\* The types of the rows that are posted.
Types ==
    {"status", "cpu_requested", "node_id", "container_statuses", "cpu_capacity",
     "eviction_empty", "eviction_uderutilized"}

WellFormed(r) ==
    /\ r.ts \in Nat
    /\ \/ r.category = "pod" /\ r.id \in Pods
       \/ r.category = "node" /\ r.id \in Nodes
    /\ r.type \in Types
    /\ r.type = "container_statuses" => r.category = "pod"
    /\ r.category = "node" /\ r.type = "status" => r.value \in {"created", "deleted", "ready"}

\* Two rows are about one thing, and the stage of the first is before that of the
\* second.
SameId(a, b) == a.category = b.category /\ a.id = b.id

\* Stages that are told of different moments ...
Stages ==
    {<<"requested", "created">>, <<"pending", "running">>, <<"pending", "failed">>,
     <<"running", "failed">>}

Behind(a, b) ==
    /\ SameId(a, b) /\ a.type = "status" /\ b.type = "status"
    /\ <<a.value, b.value>> \in Stages

\* ... and those that are told together with the creation.
WithCreation(b) == b.type = "status" /\ b.value \in {"scheduled", "ready", "deleted"}

CreationOf(a, b) == SameId(a, b) /\ a.type = "status" /\ a.value = "created"

\* What was told of a pod is past.
Past(r) ==
    r.category = "pod" /\ r.type = "status" =>
        /\ r.value = "created" => pod[r.id].life # "none"
        /\ r.value = "running" => pod[r.id].phase # "pending"
        /\ r.value = "failed" => pod[r.id].phase = "failed"

RowsInv ==
    /\ now \in Nat /\ pod \in [Pods -> PodObjects] /\ node \in [Nodes -> NodeObjects]
    /\ \A r \in rows : WellFormed(r)
    /\ phase = "record" => \A r \in rows : r.ts <= now /\ Past(r)
    /\ \A b \in rows : WithCreation(b) => \E a \in rows : CreationOf(a, b) /\ a.ts <= b.ts
    /\ \A a, b \in rows : Behind(a, b) => a.ts <= b.ts

\* A row that tells a column.
Tells(r) == r.type # "container_statuses" /\ r.value # "null"

IsFirst(c) ==
    \E r \in Earliest(Told(c.category, c.id, c.column)) : c.ts = r.ts /\ c.value = r.value

SameCell(c, d) ==
    c.run = d.run /\ c.category = d.category /\ c.id = d.id /\ c.column = d.column

\* The rows that tell a column of the container of a pod.
BoxRows(id, column) ==
    {r \in rows : /\ r.id = id /\ r.type = "container_statuses"
                  /\ column \in BoxColumnsOf(r.value)}

IsFirstBox(b) == \E r \in Earliest(BoxRows(b.id, b.column)) : b.ts = r.ts

BoxOf(tables, i, id, column) ==
    \E b \in tables.boxCells : b.run = i /\ b.id = id /\ b.column = column

CellOf(tables, i, key) ==
    \E c \in tables.cells : c.run = i /\ <<c.category, c.id, c.column>> = key

\* Each column that is told is in the tables, under run i.
Full(tables, i) ==
    /\ \A r \in rows : Tells(r) /\ ColumnOf(r) \in Columns[r.category] =>
         CellOf(tables, i, Key(r))
    /\ \A r \in rows :
         r.type = "container_statuses" /\ [run |-> i, id |-> r.id] \in tables.boxes =>
             \A column \in BoxColumnsOf(r.value) : BoxOf(tables, i, r.id, column)

\* Nothing is reported while the rows are made.
Blank ==
    phase = "record" => /\ run = 0 /\ out = saved
                        /\ out.cells = {} /\ out.boxes = {} /\ out.boxCells = {}
                        /\ out.summary = {}

Bounded ==
    /\ \A c \in out.cells : c.run \in Nat /\ c.run <= run
    /\ \A b \in out.boxes : b.run \in Nat /\ b.run <= run
    /\ \A b \in out.boxCells : b.run \in Nat /\ b.run <= run
    /\ \A s \in out.summary : s.run \in Nat /\ s.run <= run

\* What is committed the session sees, and only columns of Pod and Node wait for
\* a commit.
Within ==
    /\ saved.cells \subseteq out.cells /\ saved.boxes = out.boxes
    /\ saved.boxCells = out.boxCells /\ saved.summary = out.summary

Firsts ==
    /\ \A c \in out.cells : IsFirst(c)
    /\ \A c, d \in out.cells : SameCell(c, d) => c = d
    /\ \A b \in out.boxCells : IsFirstBox(b)
    /\ \A a, b \in out.boxes : a.id = b.id => a = b

Summaries ==
    \A s \in out.summary : (phase = "rows" => s.run < run) /\ Full(saved, s.run)

\* The rows that were taken are written.
Taken == rows \ todo

Progress ==
    phase = "rows" =>
        /\ todo \subseteq rows
        /\ \A r \in Taken : Tells(r) =>
             /\ Key(r) \in processed
             /\ ColumnOf(r) \in Columns[r.category] => CellOf(out, run, Key(r))
        /\ \A key \in processed : \E r \in Taken : Tells(r) /\ Key(r) = key
        /\ \A c \in out.cells : c.run = run => <<c.category, c.id, c.column>> \in processed
        /\ \A r \in Taken : r.type = "container_statuses" =>
             /\ \E b \in out.boxes : b.id = r.id
             /\ [run |-> run, id |-> r.id] \in out.boxes =>
                  \A column \in BoxColumnsOf(r.value) : BoxOf(out, run, r.id, column)

TablesInv == Blank /\ Bounded /\ Within /\ Firsts /\ Summaries /\ Progress

-----------------------------------------------------------------------------
(* The rows: each post keeps the order of the stages.                      *)

\* What a handler may post: rows of the kinds there are, a stage that goes with
\* the creation together with it, and none whose next stage was told before.
Posted(new) ==
    /\ \A r \in new : WellFormed(r)
    /\ \A b \in new : WithCreation(b) => \E a \in new : CreationOf(a, b)
    /\ \A a \in new : \A b \in rows : ~Behind(a, b)

Stamped(new) == {[r EXCEPT !.ts = now'] : r \in new}

StampOf(r, q) ==
    /\ r.category = q.category /\ r.id = q.id /\ r.type = q.type /\ r.value = q.value
    /\ r.ts = now'

\* The rows of one post are those that were handed in, each with its time.
LEMMA StampedRows ==
    ASSUME NEW new,
           \A r \in new : r = [category |-> r.category, id |-> r.id, ts |-> r.ts,
                               type |-> r.type, value |-> r.value]
    PROVE  /\ \A r \in Stamped(new) : \E q \in new : StampOf(r, q)
           /\ \A q \in new : \E r \in Stamped(new) : StampOf(r, q)
<1>1. ASSUME NEW q \in new
      PROVE  StampOf([q EXCEPT !.ts = now'], q)
  BY DEF StampOf
<1>. QED  BY <1>1 DEF Stamped

LEMMA PostRows ==
    ASSUME RowsInv, phase = "record", phase' = phase, NEW new, Post(new), Posted(new),
           pod' \in [Pods -> PodObjects], node' \in [Nodes -> NodeObjects],
           \A r \in rows : Past(r)', \A r \in Stamped(new) : Past(r)',
           \A r \in new : r = [category |-> r.category, id |-> r.id, ts |-> r.ts,
                               type |-> r.type, value |-> r.value]
    PROVE  RowsInv'
<1>1. now' \in Nat /\ now <= now' /\ rows' = rows \cup Stamped(new)
  BY TrackingAssumption DEF Post, RowsInv, Stamped
<1>2. \A r \in Stamped(new) : \E q \in new : StampOf(r, q)
  BY StampedRows
<1>3. \A q \in new : \E r \in Stamped(new) : StampOf(r, q)
  BY StampedRows
<1>4. \A r \in rows : WellFormed(r) /\ r.ts <= now /\ r.ts \in Nat
  BY DEF RowsInv, WellFormed
<1>5. \A r \in rows' : WellFormed(r) /\ r.ts <= now'
  <2>1. \A r \in Stamped(new) : WellFormed(r) /\ r.ts <= now'
    BY <1>1, <1>2 DEF Posted, WellFormed, StampOf
  <2>2. now \in Nat
    BY DEF RowsInv
  <2>. QED  BY <1>1, <1>4, <2>1, <2>2
<1>6. \A b \in rows' : WithCreation(b) => \E a \in rows' : CreationOf(a, b) /\ a.ts <= b.ts
  <2>. SUFFICES ASSUME NEW b \in rows', WithCreation(b)
                PROVE  \E a \in rows' : CreationOf(a, b) /\ a.ts <= b.ts
    OBVIOUS
  <2>1. CASE b \in rows
    BY <1>1, <2>1 DEF RowsInv
  <2>2. CASE b \in Stamped(new)
    <3>1. PICK q \in new : StampOf(b, q)
      BY <1>2, <2>2
    <3>2. PICK c \in new : CreationOf(c, q)
      BY <3>1 DEF Posted, WithCreation, StampOf
    <3>3. PICK a \in Stamped(new) : StampOf(a, c)
      BY <1>3
    <3>4. CreationOf(a, b) /\ a.ts <= b.ts
      BY <1>1, <3>1, <3>2, <3>3 DEF CreationOf, SameId, StampOf
    <3>. QED  BY <1>1, <3>4
  <2>. QED  BY <1>1, <2>1, <2>2
<1>7. \A a, b \in rows' : Behind(a, b) => a.ts <= b.ts
  <2>. SUFFICES ASSUME NEW a \in rows', NEW b \in rows', Behind(a, b)
                PROVE  a.ts <= b.ts
    OBVIOUS
  <2>1. CASE b \in Stamped(new)
    BY <1>2, <1>5, <2>1 DEF StampOf
  <2>2. CASE b \in rows /\ a \in rows
    BY <2>2 DEF RowsInv
  <2>3. CASE b \in rows /\ a \in Stamped(new)
    BY <1>2, <2>3 DEF Posted, Behind, SameId, StampOf
  <2>. QED  BY <1>1, <2>1, <2>2, <2>3
<1>8. \A r \in rows' : Past(r)'
  BY <1>1
<1>. QED  BY <1>1, <1>5, <1>6, <1>7, <1>8 DEF RowsInv

LEMMA RecordingKeepsRows ==
    ASSUME RowsInv, Recording
    PROVE  RowsInv'
<1>0. phase = "record" /\ phase' = phase /\ Record
  BY DEF Recording, reportVars
<1>1. ASSUME NEW p \in Pods, PodMoves(p)
      PROVE  RowsInv'
  <2>1. UNCHANGED <<now, node, rows>>
    BY <1>1 DEF PodMoves
  <2>2. pod' \in [Pods -> PodObjects]
    <3>1. pod[p] \in PodObjects
      BY DEF RowsInv
    <3>2. \E o \in PodObjects : pod' = [pod EXCEPT ![p] = o]
      BY <1>1, <3>1 DEF PodMoves, PodObjects
    <3>. QED  BY <3>2 DEF RowsInv
  <2>3. \A q \in Pods : /\ pod[q].life # "none" => pod'[q].life # "none"
                        /\ pod[q].phase # "pending" => pod'[q].phase # "pending"
                        /\ pod[q].phase = "failed" => pod'[q].phase = "failed"
    BY <1>1 DEF PodMoves, RowsInv, PodObjects
  <2>4. \A r \in rows : Past(r)'
    BY <1>0, <2>3 DEF RowsInv, Past, WellFormed
  <2>. QED  BY <1>0, <2>1, <2>2, <2>4 DEF RowsInv
<1>2. ASSUME NEW p \in Pods, Request(p)
      PROVE  RowsInv'
  <2>1. Post({Status("pod", p, "requested")}) /\ pod[p].life = "none"
        /\ UNCHANGED <<pod, node>>
    BY <1>2 DEF Request, objectVars
  <2>2. Posted({Status("pod", p, "requested")})
    BY <1>0, <2>1
    DEF Posted, Status, Row, WellFormed, Types, WithCreation, Behind, SameId, Stages,
        RowsInv, Past
  <2>3. \A r \in Stamped({Status("pod", p, "requested")}) : Past(r)'
    BY DEF Stamped, Status, Row, Past
  <2>4. \A r \in {Status("pod", p, "requested")} :
           r = [category |-> r.category, id |-> r.id, ts |-> r.ts,
                type |-> r.type, value |-> r.value]
    BY DEF Status, Row
  <2>. QED  BY <1>0, <2>1, <2>2, <2>3, <2>4, PostRows DEF RowsInv, Past
<1>3. ASSUME NEW p \in Pods, TrackPod(p)
      PROVE  RowsInv'
  <2>. DEFINE o == pod[p]
  <2>1. Post(PodRows(p, o)) /\ o.life # "none" /\ UNCHANGED <<pod, node>>
    BY <1>3 DEF TrackPod, objectVars
  <2>2. Posted(PodRows(p, o))
    <3>1. o.phase \in {"pending", "running", "failed"} /\ now \in Nat
      BY DEF RowsInv, PodObjects
    <3>2. \A r \in PodRows(p, o) : /\ r.category = "pod" /\ r.id = p /\ r.ts = now
                                   /\ r.type \in Types
      BY <3>1 DEF PodRows, Status, Row, When, Types
    <3>3. \A r \in PodRows(p, o) : r.type = "status" =>
             r.value \in {o.phase, "created", "deleted", "scheduled", "ready"}
      BY DEF PodRows, Status, Row, When
    <3>4. \A r \in PodRows(p, o) : WellFormed(r)
      BY <3>1, <3>2 DEF WellFormed
    <3>5. Status("pod", p, "created") \in PodRows(p, o)
      BY DEF PodRows
    <3>6. \A b \in PodRows(p, o) : CreationOf(Status("pod", p, "created"), b)
      BY <3>2 DEF CreationOf, SameId, Status, Row
    <3>7. ASSUME NEW a \in PodRows(p, o), NEW b \in rows
          PROVE  ~Behind(a, b)
      <4>1. b.id = p /\ b.category = "pod" /\ b.type = "status" =>
               /\ b.value = "running" => o.phase # "pending"
               /\ b.value = "failed" => o.phase = "failed"
        BY <1>0 DEF RowsInv, Past
      <4>. QED  BY <3>1, <3>2, <3>3, <4>1 DEF Behind, SameId, Stages
    <3>. QED  BY <3>4, <3>5, <3>6, <3>7 DEF Posted
  <2>3. \A r \in PodRows(p, o) : r = [category |-> r.category, id |-> r.id, ts |-> r.ts,
                                      type |-> r.type, value |-> r.value]
    BY DEF PodRows, Status, Row, When
  <2>4. \A r \in Stamped(PodRows(p, o)) : Past(r)'
    <3>1. \A r \in PodRows(p, o) : Past(r)
      BY <2>1 DEF PodRows, Status, Row, When, Past, RowsInv, PodObjects
    <3>2. \A r \in Stamped(PodRows(p, o)) : \E q \in PodRows(p, o) : StampOf(r, q)
      BY <2>3, StampedRows
    <3>. QED  BY <2>1, <3>1, <3>2 DEF Past, StampOf
  <2>. QED  BY <1>0, <2>1, <2>2, <2>3, <2>4, PostRows DEF RowsInv, Past
<1>4. ASSUME NEW n \in Nodes, NodeMoves(n)
      PROVE  RowsInv'
  <2>1. UNCHANGED <<now, pod, rows>>
    BY <1>4 DEF NodeMoves
  <2>2. node' \in [Nodes -> NodeObjects]
    <3>1. node[n] \in NodeObjects
      BY DEF RowsInv
    <3>2. \E o \in NodeObjects : node' = [node EXCEPT ![n] = o]
      BY <1>4, <3>1 DEF NodeMoves, NodeObjects
    <3>. QED  BY <3>2 DEF RowsInv
  <2>. QED  BY <1>0, <2>1, <2>2 DEF RowsInv, Past
\* Of a node only what goes with its creation is told.
<1>5. ASSUME NEW n \in Nodes, NEW new, Post(new), UNCHANGED <<pod, node>>,
             \A r \in new : WellFormed(r) /\ r.category = "node" /\ r.id = n,
             \A b \in new : WithCreation(b) => \E a \in new : CreationOf(a, b),
             \A r \in new : r = [category |-> r.category, id |-> r.id, ts |-> r.ts,
                                 type |-> r.type, value |-> r.value]
      PROVE  RowsInv'
  <2>1. Posted(new)
    <3>1. ASSUME NEW a \in new, NEW b \in rows
          PROVE  ~Behind(a, b)
      BY <1>5 DEF RowsInv, WellFormed, Behind, SameId, Stages
    <3>. QED  BY <1>5, <3>1 DEF Posted
  <2>2. \A r \in Stamped(new) : Past(r)'
    <3>1. \A r \in new : [r EXCEPT !.ts = now'].category = "node"
      BY <1>5
    <3>. QED  BY <3>1 DEF Stamped, Past
  <2>. QED  BY <1>0, <1>5, <2>1, <2>2, PostRows DEF RowsInv, Past
<1>6. ASSUME NEW n \in Nodes, TrackNode(n) \/ TrackNodeGone(n)
      PROVE  RowsInv'
  <2>. DEFINE new == NodeRows(n, node[n])
  <2>1. Post(new) /\ UNCHANGED <<pod, node>>
    BY <1>6 DEF TrackNode, TrackNodeGone, objectVars
  <2>2. now \in Nat
    BY DEF RowsInv
  <2>3. \A r \in new : WellFormed(r) /\ r.category = "node" /\ r.id = n
    BY <2>2 DEF NodeRows, Status, Row, When, WellFormed, Types
  <2>4. \A b \in new : CreationOf(Status("node", n, "created"), b)
    BY <2>3 DEF CreationOf, SameId, Status, Row
  <2>5. Status("node", n, "created") \in new
    BY DEF NodeRows
  <2>6. \A r \in new : r = [category |-> r.category, id |-> r.id, ts |-> r.ts,
                            type |-> r.type, value |-> r.value]
    BY DEF NodeRows, Status, Row, When
  <2>. QED  BY <1>5, <2>1, <2>3, <2>4, <2>5, <2>6
<1>7. ASSUME NEW n \in Nodes, TrackDisruption(n)
      PROVE  RowsInv'
  <2>1. PICK column \in {"eviction_empty", "eviction_uderutilized"} :
           Post({Row("node", n, column, "time")}) /\ UNCHANGED <<pod, node>>
    BY <1>7 DEF TrackDisruption, objectVars
  <2>. DEFINE new == {Row("node", n, column, "time")}
  <2>2. \A r \in new : /\ WellFormed(r) /\ r.category = "node" /\ r.id = n
                       /\ ~WithCreation(r)
                       /\ r = [category |-> r.category, id |-> r.id, ts |-> r.ts,
                               type |-> r.type, value |-> r.value]
    BY DEF Row, WellFormed, Types, WithCreation, RowsInv
  <2>. QED  BY <1>5, <2>1, <2>2
<1>. QED  BY <1>0, <1>1, <1>2, <1>3, <1>4, <1>6, <1>7 DEF Record

LEMMA RowsKept ==
    ASSUME RowsInv, [Next]_vars
    PROVE  RowsInv'
<1>1. CASE Recording
  BY <1>1, RecordingKeepsRows
<1>2. CASE Rotated
  <2>1. now' \in Nat /\ rows' = rows /\ phase' # "record"
    BY <1>2 DEF Rotated
  <2>2. pod' \in [Pods -> PodObjects] /\ node' \in [Nodes -> NodeObjects]
    BY <1>2 DEF Rotated, NewPod, NewNode, PodObjects, NodeObjects
  <2>. QED  BY <2>1, <2>2 DEF RowsInv
<1>3. CASE Begin \/ Transform \/ Crash
  <2>1. UNCHANGED recordVars /\ phase' # "record"
    BY <1>3 DEF Begin, Transform, PickCategory, TransformRow, EndCategory, Summarize, Crash
  <2>. QED  BY <2>1 DEF recordVars, RowsInv
<1>4. CASE UNCHANGED vars
  BY <1>4 DEF vars, recordVars, reportVars, RowsInv, Past
<1>. QED  BY <1>1, <1>2, <1>3, <1>4 DEF Next

-----------------------------------------------------------------------------
(* The tables: each step of a transformation.                              *)

LEMMA InitiallyTables == Init => RowsInv /\ TablesInv
<1>. SUFFICES ASSUME Init PROVE RowsInv /\ TablesInv
  OBVIOUS
<1>1. RowsInv
  BY DEF Init, RecordInit, RowsInv, NewPod, NewNode, PodObjects, NodeObjects
<1>2. phase = "record" /\ run = 0 /\ out = saved
      /\ out.cells = {} /\ out.boxes = {} /\ out.boxCells = {} /\ out.summary = {}
  BY DEF Init
<1>. QED  BY <1>1, <1>2 DEF TablesInv, Blank, Bounded, Within, Firsts, Summaries, Progress

(* A whole report stays whole when what is added is of another run.        *)
LEMMA FullGrows ==
    ASSUME NEW first, NEW second, NEW i, Full(first, i),
           first.cells \subseteq second.cells, first.boxCells \subseteq second.boxCells,
           \A b \in second.boxes : b \in first.boxes \/ b.run # i
    PROVE  Full(second, i)
<1>1. \A id : [run |-> i, id |-> id].run = i
  OBVIOUS
<1>. QED  BY <1>1 DEF Full, CellOf, BoxOf

LEMMA SummariesKept ==
    ASSUME TablesInv, phase = "rows", phase' = "rows", UNCHANGED <<rows, run>>,
           out'.summary = out.summary,
           saved.cells \subseteq saved'.cells, saved.boxCells \subseteq saved'.boxCells,
           \A b \in saved'.boxes : b \in saved.boxes \/ b.run = run
    PROVE  Summaries'
<1>. SUFFICES ASSUME NEW s \in out.summary
              PROVE  s.run < run /\ Full(saved', s.run)
  BY DEF Summaries, Full, CellOf, BoxOf, Key, ColumnOf, Tells
<1>1. s.run < run /\ Full(saved, s.run) /\ s.run \in Nat
  BY DEF TablesInv, Summaries, Bounded
<1>. QED  BY <1>1, FullGrows

(* Nothing happens to the tables.                                          *)
LEMMA StillKeepsTables ==
    ASSUME TablesInv, Recording \/ Rotated \/ Begin \/ PickCategory \/ UNCHANGED vars,
           run \in Nat
    PROVE  TablesInv'
<1>1. CASE Recording
  <2>1. phase' = "record" /\ UNCHANGED <<run, out, saved>> /\ phase = "record"
    BY <1>1 DEF Recording, reportVars, runVars
  <2>2. /\ out'.cells = {} /\ out'.boxes = {} /\ out'.boxCells = {} /\ out'.summary = {}
        /\ run' = 0 /\ out' = saved'
    BY <2>1 DEF TablesInv, Blank
  <2>. QED  BY <2>1, <2>2 DEF TablesInv, Blank, Bounded, Within, Firsts, Summaries, Progress
<1>2. CASE Rotated \/ Begin \/ PickCategory \/ UNCHANGED vars
  <2>1. UNCHANGED <<rows, out, saved>>
    BY <1>2 DEF Rotated, Begin, PickCategory, vars, recordVars, reportVars
  <2>2. Within' /\ Firsts'
    BY <2>1 DEF TablesInv, Within, Firsts, IsFirst, IsFirstBox, SameCell, Told, BoxRows,
                ColumnOf
  <2>3. run' \in Nat /\ run <= run'
    BY <1>2 DEF Rotated, Begin, PickCategory, vars, reportVars, runVars
  <2>4. Bounded'
    BY <2>1, <2>3 DEF TablesInv, Bounded
  <2>5. Blank'
    BY <1>2 DEF Rotated, Begin, PickCategory, vars, reportVars, runVars, TablesInv, Blank
  <2>6. \A s \in out.summary : Full(saved, s.run)'
    BY <2>1 DEF TablesInv, Summaries, Full, CellOf, BoxOf, Key, ColumnOf, Tells
  <2>7. Summaries'
    <3>1. CASE Begin
      <4>1. \A s \in out.summary : s.run \in Nat /\ s.run <= run /\ run' = run + 1
        BY <3>1 DEF TablesInv, Bounded, Begin
      <4>. QED  BY <2>1, <2>6, <4>1 DEF Summaries
    <3>2. CASE Rotated
      BY <2>1, <2>6, <3>2 DEF Summaries, Rotated
    <3>3. CASE PickCategory \/ UNCHANGED vars
      BY <2>1, <2>6, <3>3
      DEF TablesInv, Summaries, PickCategory, vars, reportVars, runVars
    <3>. QED  BY <1>2, <3>1, <3>2, <3>3
  <2>8. Progress'
    <3>1. CASE Begin
      <4>1. run' = run + 1 /\ Taken' = {} /\ todo' = rows' /\ processed' = {}
        BY <2>1, <3>1 DEF Begin, Taken
      <4>2. \A c \in out'.cells : c.run # run'
        BY <2>1, <4>1 DEF TablesInv, Bounded
      <4>. QED  BY <4>1, <4>2 DEF Progress
    <3>2. CASE Rotated
      BY <3>2 DEF Progress, Rotated
    <3>3. CASE PickCategory \/ UNCHANGED vars
      <4>1. UNCHANGED <<phase, run, todo, processed>>
        BY <3>3 DEF PickCategory, vars, reportVars, runVars
      <4>. QED  BY <2>1, <4>1
           DEF TablesInv, Progress, Taken, Key, Tells, ColumnOf, CellOf, BoxOf
    <3>. QED  BY <1>2, <3>1, <3>2, <3>3
  <2>. QED  BY <2>2, <2>4, <2>5, <2>7, <2>8 DEF TablesInv
<1>. QED  BY <1>1, <1>2

LEMMA EndCategoryKeepsTables ==
    ASSUME TablesInv, EndCategory
    PROVE  TablesInv'
<1>1. /\ phase = "rows" /\ phase' = "rows" /\ saved' = out
      /\ UNCHANGED <<rows, run, todo, processed, out>>
  BY DEF EndCategory, recordVars
<1>2. Within'
  BY <1>1 DEF Within
<1>3. Summaries'
  BY <1>1, SummariesKept DEF TablesInv, Within
<1>4. Firsts' /\ Bounded' /\ Blank'
  BY <1>1 DEF TablesInv, Blank, Bounded, Firsts, IsFirst, IsFirstBox, SameCell, Told,
              BoxRows, ColumnOf
<1>5. Progress'
  BY <1>1 DEF TablesInv, Progress, Taken, Key, Tells, ColumnOf, CellOf, BoxOf
<1>. QED  BY <1>2, <1>3, <1>4, <1>5 DEF TablesInv

LEMMA CrashKeepsTables ==
    ASSUME TablesInv, Crash
    PROVE  TablesInv'
<1>1. /\ phase = "rows" /\ phase' = "idle" /\ out' = saved
      /\ UNCHANGED <<rows, run, saved>>
  BY DEF Crash, recordVars
<1>2. /\ saved.cells \subseteq out.cells /\ saved.boxes = out.boxes
      /\ saved.boxCells = out.boxCells /\ saved.summary = out.summary
  BY DEF TablesInv, Within
<1>3. Within' /\ Bounded' /\ Blank' /\ Progress'
  BY <1>1, <1>2 DEF TablesInv, Blank, Bounded, Within, Progress
<1>4. Firsts'
  BY <1>1, <1>2 DEF TablesInv, Firsts, IsFirst, IsFirstBox, SameCell, Told, BoxRows, ColumnOf
<1>5. Summaries'
  BY <1>1, <1>2
  DEF TablesInv, Summaries, Full, CellOf, BoxOf, Key, ColumnOf, Tells
<1>. QED  BY <1>3, <1>4, <1>5 DEF TablesInv

LEMMA SummarizeKeepsTables ==
    ASSUME TablesInv, IInv, Summarize
    PROVE  TablesInv'
<1>. DEFINE s == [run |-> run, start |-> Latest(Times(Column("node", "created"))),
                   end |-> Latest(Times(Column("node", "deleted"))),
                   nodeUse |-> NodeUse, podUse |-> IF NodeUse > 0 THEN PodUse ELSE 0]
<1>1. /\ s.run = run
      /\ out' = [out EXCEPT !.summary = @ \cup {s}] /\ saved' = out'
      /\ phase = "rows" /\ phase' = "idle" /\ todo = {} /\ UNCHANGED <<rows, run>>
  BY DEF Summarize, Commit, runVars, recordVars
<1>. HIDE DEF s
<1>2. /\ out'.cells = out.cells /\ out'.boxes = out.boxes /\ out'.boxCells = out.boxCells
      /\ out'.summary = out.summary \cup {s}
  BY <1>1 DEF IInv, Shaped
<1>3. run \in Nat
  BY DEF IInv
<1>4. Within' /\ Bounded' /\ Blank' /\ Progress'
  BY <1>1, <1>2, <1>3 DEF TablesInv, Blank, Bounded, Within, Progress
<1>5. Firsts'
  BY <1>1, <1>2 DEF TablesInv, Firsts, IsFirst, IsFirstBox, SameCell, Told, BoxRows, ColumnOf
<1>6. Full(out, run)
  <2>1. Taken = rows
    BY <1>1 DEF Taken
  <2>. QED  BY <1>1, <2>1 DEF TablesInv, Progress, Full
<1>7. \A x \in out.summary : Full(out, x.run)
  <2>. SUFFICES ASSUME NEW x \in out.summary PROVE Full(out, x.run)
    OBVIOUS
  <2>1. Full(saved, x.run)
    BY DEF TablesInv, Summaries
  <2>. QED  BY <2>1, FullGrows DEF TablesInv, Within
<1>8. \A x \in out'.summary : Full(out, x.run)
  BY <1>1, <1>2, <1>6, <1>7
<1>9. Summaries'
  <2>. SUFFICES ASSUME NEW x \in out'.summary
                PROVE  Full(saved, x.run)'
    BY <1>1 DEF Summaries
  <2>1. Full(out, x.run)
    BY <1>8
  <2>2. Full(saved', x.run)
    BY <1>1, <1>2, <2>1, FullGrows
  <2>. QED  BY <1>1, <2>2 DEF Full, CellOf, BoxOf, Key, ColumnOf, Tells
<1>. QED  BY <1>4, <1>5, <1>9 DEF TablesInv

-----------------------------------------------------------------------------
(* One row.                                                                *)

\* What a row is taken under.
Taking(r) ==
    /\ phase = "rows" /\ phase' = "rows" /\ UNCHANGED <<rows, run>>
    /\ r \in todo /\ r \in Earliest(OfCategory) /\ todo' = todo \ {r}

LEMMA TakenGrows ==
    ASSUME TablesInv, NEW r, Taking(r)
    PROVE  r \in rows /\ Taken' = Taken \cup {r} /\ todo' \subseteq rows'
BY DEF Taking, TablesInv, Progress, Taken

(* A set of rows none of which was taken is still to come, and where they  *)
(* are of the category of the next row none of them is earlier.            *)
LEMMA NextIsEarliest ==
    ASSUME NEW r, Taking(r), NEW set, set \subseteq rows, set \cap Taken = {}, r \in set,
           \A q \in set : q.category = r.category
    PROVE  r \in Earliest(set)
<1>1. \A q \in set : q \in OfCategory
  BY DEF Taking, Taken, OfCategory, Earliest
<1>. QED  BY <1>1 DEF Taking, Earliest

(* The tables are left alone: what the row tells was met before, or has no *)
(* column.                                                                 *)
LEMMA SkipKeepsTables ==
    ASSUME TablesInv, NEW r, Taking(r), PassOver(r) \/ Unknown(r)
    PROVE  TablesInv'
<1>1. UNCHANGED <<rows, run, out, saved>> /\ phase = "rows" /\ phase' = "rows"
      /\ r.type # "container_statuses"
  BY DEF Taking, PassOver, Unknown
<1>2. Within' /\ Firsts' /\ Bounded' /\ Blank'
  BY <1>1 DEF TablesInv, Blank, Bounded, Within, Firsts, IsFirst, IsFirstBox, SameCell,
              Told, BoxRows, ColumnOf
<1>3. Summaries'
  BY <1>1 DEF TablesInv, Summaries, Full, CellOf, BoxOf, Key, ColumnOf, Tells
<1>4. r \in rows /\ Taken' = Taken \cup {r} /\ todo' \subseteq rows'
  BY TakenGrows
<1>5. processed \subseteq processed'
  BY DEF PassOver, Unknown
<1>6. Tells(r) => /\ Key(r) \in processed'
                  /\ ColumnOf(r) \in Columns[r.category] => CellOf(out, run, Key(r))
  <2>1. CASE PassOver(r)
    <3>. SUFFICES ASSUME Tells(r)
                  PROVE  /\ Key(r) \in processed
                         /\ ColumnOf(r) \in Columns[r.category] => CellOf(out, run, Key(r))
      BY <1>5
    <3>1. Key(r) \in processed
      BY <2>1 DEF PassOver, IsNull, Tells
    <3>2. PICK q \in Taken : Tells(q) /\ Key(q) = Key(r)
      BY <1>1, <3>1 DEF TablesInv, Progress
    <3>3. q.category = r.category /\ ColumnOf(q) = ColumnOf(r)
      BY <3>2 DEF Key
    <3>. QED  BY <1>1, <3>1, <3>2, <3>3 DEF TablesInv, Progress
  <2>2. CASE Unknown(r)
    BY <2>2 DEF Unknown
  <2>. QED  BY <2>1, <2>2
<1>7. \A key \in processed' : \E q \in Taken' : Tells(q) /\ Key(q) = key
  <2>1. \A key \in processed : \E q \in Taken' : Tells(q) /\ Key(q) = key
    BY <1>1, <1>4 DEF TablesInv, Progress
  <2>2. processed' = processed \/ (processed' = processed \cup {Key(r)} /\ Tells(r))
    BY DEF PassOver, Unknown, Tells, IsNull
  <2>. QED  BY <1>4, <2>1, <2>2
<1>8. \A q \in Taken' : Tells(q) =>
         /\ Key(q) \in processed'
         /\ ColumnOf(q) \in Columns[q.category] => CellOf(out, run, Key(q))
  BY <1>1, <1>4, <1>5, <1>6 DEF TablesInv, Progress
<1>9. \A q \in Taken' : q.type = "container_statuses" => q \in Taken
  BY <1>1, <1>4
<1>10. Progress'
  <2>1. \A c \in out.cells : c.run = run => <<c.category, c.id, c.column>> \in processed'
    BY <1>1, <1>5 DEF TablesInv, Progress
  <2>. QED  BY <1>1, <1>4, <1>7, <1>8, <1>9, <2>1
       DEF TablesInv, Progress, Key, Tells, ColumnOf, CellOf, BoxOf
<1>. QED  BY <1>2, <1>3, <1>10 DEF TablesInv

(* A column that was not met before is null, and what the row tells of it  *)
(* was told first.                                                         *)
LEMMA FirstIsWritten ==
    ASSUME RowsInv, TablesInv, NEW r, Taking(r), Tells(r), Key(r) \notin processed
    PROVE  /\ r \in Earliest(Told(r.category, r.id, ColumnOf(r)))
           /\ ~CellOf(out, run, Key(r))
<1>. DEFINE told == Told(r.category, r.id, ColumnOf(r))
<1>1. \A q \in told : Tells(q) /\ Key(q) = Key(r) /\ q \in rows /\ q.category = r.category
  BY DEF Told, Tells, Key
<1>2. told \cap Taken = {}
  BY <1>1 DEF TablesInv, Progress, Taking
<1>3. r \in told
  BY TakenGrows DEF Told, Tells
<1>. HIDE DEF told
<1>4. r \in Earliest(told)
  BY <1>1, <1>2, <1>3, NextIsEarliest
<1>5. ~CellOf(out, run, Key(r))
  BY DEF CellOf, TablesInv, Progress, Taking
<1>. QED  BY <1>4, <1>5 DEF told

LEMMA WriteKeepsTables ==
    ASSUME IInv, RowsInv, TablesInv, NEW r, Taking(r), Write(r)
    PROVE  TablesInv'
<1>. DEFINE name  == [run |-> run, category |-> r.category, id |-> r.id]
            named == [out EXCEPT !.names = @ \cup {name}]
            new   == Cell(name, r)
<1>1. /\ UNCHANGED <<rows, run>> /\ phase = "rows" /\ phase' = "rows"
      /\ Tells(r) /\ ~(r.type = "container_statuses")
      /\ Key(r) \notin processed /\ processed' = processed \cup {Key(r)}
  BY DEF Taking, Write, Tells, IsNull
<1>2. /\ r \in Earliest(Told(r.category, r.id, ColumnOf(r)))
      /\ ~CellOf(out, run, Key(r))
  BY <1>1, FirstIsWritten
<1>3. new.run = run /\ new.category = r.category /\ new.id = r.id
      /\ new.column = ColumnOf(r) /\ new.ts = r.ts /\ new.value = r.value
  BY DEF Cell
<1>4. /\ named.cells = out.cells /\ named.boxes = out.boxes
      /\ named.boxCells = out.boxCells /\ named.summary = out.summary
      /\ Shaped(named)
  BY DEF IInv, Shaped
<1>5. saved' = saved \/ saved' = named
  BY DEF Write
<1>6. out' = [named EXCEPT !.cells = @ \cup {new}]
  <2>1. ~Filled(name, ColumnOf(r))
    BY <1>2 DEF Filled, CellOf, Key
  <2>. QED  BY <2>1 DEF Write
<1>. HIDE DEF name, named, new
<1>7. /\ out'.cells = out.cells \cup {new} /\ out'.boxes = out.boxes
      /\ out'.boxCells = out.boxCells /\ out'.summary = out.summary
  BY <1>4, <1>6 DEF Shaped
<1>8. /\ saved'.boxes = out.boxes /\ saved'.boxCells = out.boxCells
      /\ saved'.summary = out.summary
      /\ saved.cells \subseteq saved'.cells /\ saved'.cells \subseteq out.cells
  BY <1>4, <1>5 DEF TablesInv, Within
<1>9. Within' /\ Blank'
  BY <1>1, <1>7, <1>8 DEF Within, Blank
<1>10. Bounded'
  BY <1>1, <1>3, <1>7 DEF TablesInv, Bounded, IInv
<1>11. Summaries'
  BY <1>1, <1>7, <1>8, SummariesKept DEF TablesInv, Within
<1>12. Firsts'
  <2>1. \A c \in out.cells : IsFirst(c)'
    BY <1>1 DEF TablesInv, Firsts, IsFirst, Told, ColumnOf
  <2>2. IsFirst(new)
    BY <1>2, <1>3 DEF IsFirst
  <2>3. \A c \in out'.cells : IsFirst(c)
    BY <1>7, <2>2 DEF TablesInv, Firsts
  <2>4. \A c \in out.cells : ~SameCell(c, new) /\ ~SameCell(new, c)
    BY <1>2, <1>3 DEF SameCell, CellOf, Key
  <2>5. \A c, d \in out'.cells : SameCell(c, d) => c = d
    BY <1>7, <2>4 DEF TablesInv, Firsts
  <2>6. \A b \in out'.boxCells : IsFirstBox(b)
    BY <1>7 DEF TablesInv, Firsts
  <2>7. \A a, b \in out'.boxes : a.id = b.id => a = b
    BY <1>7 DEF TablesInv, Firsts
  <2>. QED  BY <1>1, <2>3, <2>5, <2>6, <2>7
       DEF Firsts, IsFirst, IsFirstBox, SameCell, Told, BoxRows, ColumnOf
<1>13. Progress'
  <2>1. r \in rows /\ Taken' = Taken \cup {r} /\ todo' \subseteq rows'
    BY TakenGrows
  <2>2. \A key : CellOf(out, run, key) => CellOf(out', run, key)
    BY <1>7 DEF CellOf
  <2>3. CellOf(out', run, Key(r))
    BY <1>3, <1>7 DEF CellOf, Key
  <2>4. \A q \in Taken' : Tells(q) =>
          /\ Key(q) \in processed'
          /\ ColumnOf(q) \in Columns[q.category] => CellOf(out', run, Key(q))
    BY <1>1, <2>1, <2>2, <2>3 DEF TablesInv, Progress
  <2>5. \A key \in processed' : \E q \in Taken' : Tells(q) /\ Key(q) = key
    BY <1>1, <2>1 DEF TablesInv, Progress
  <2>6. \A c \in out'.cells : c.run = run => <<c.category, c.id, c.column>> \in processed'
    BY <1>1, <1>3, <1>7 DEF TablesInv, Progress, Key
  <2>7. \A q \in Taken' : q.type = "container_statuses" =>
          /\ \E b \in out'.boxes : b.id = q.id
          /\ [run |-> run, id |-> q.id] \in out'.boxes =>
               \A column \in BoxColumnsOf(q.value) : BoxOf(out', run, q.id, column)
    BY <1>1, <1>7, <2>1 DEF TablesInv, Progress, BoxOf
  <2>. QED  BY <1>1, <2>1, <2>4, <2>5, <2>6, <2>7
       DEF Progress, Key, Tells, ColumnOf, CellOf, BoxOf
<1>. QED  BY <1>9, <1>10, <1>11, <1>12, <1>13 DEF TablesInv

(* The row of a container is there once one of its statuses was taken, and *)
(* a column that is unset, of a row of this run, was not told before.      *)
LEMMA FirstIsSet ==
    ASSUME RowsInv, TablesInv, NEW r, Taking(r), r.type = "container_statuses",
           NEW column \in BoxColumnsOf(r.value),
           \/ [run |-> run, id |-> r.id] \in out.boxes
           \/ ~\E b \in out.boxes : b.id = r.id,
           ~BoxOf(out, run, r.id, column)
    PROVE  r \in Earliest(BoxRows(r.id, column))
<1>. DEFINE told == BoxRows(r.id, column)
<1>1. \A q \in told : /\ q \in rows /\ q.id = r.id /\ q.type = "container_statuses"
                      /\ column \in BoxColumnsOf(q.value)
  BY DEF BoxRows
<1>2. r \in told
  BY TakenGrows DEF BoxRows
<1>. HIDE DEF told
<1>3. told \cap Taken = {}
  <2>. SUFFICES ASSUME NEW q \in told, q \in Taken PROVE FALSE
    OBVIOUS
  <2>1. q.id = r.id /\ q.type = "container_statuses" /\ column \in BoxColumnsOf(q.value)
    BY <1>1
  <2>2. /\ \E b \in out.boxes : b.id = q.id
        /\ [run |-> run, id |-> q.id] \in out.boxes => BoxOf(out, run, q.id, column)
    BY <2>1 DEF TablesInv, Progress, Taking
  <2>. QED  BY <2>1, <2>2
<1>4. \A q \in told : q.category = r.category
  BY <1>1, <1>2 DEF RowsInv, WellFormed
<1>5. told \subseteq rows
  BY <1>1
<1>6. r \in Earliest(told)
  BY <1>2, <1>3, <1>4, <1>5, NextIsEarliest
<1>. QED  BY <1>6 DEF told

LEMMA WriteBoxKeepsTables ==
    ASSUME IInv, RowsInv, TablesInv, NEW r, Taking(r), WriteBox(r)
    PROVE  TablesInv'
<1>. DEFINE mine  == [run |-> run, id |-> r.id]
            owned == IF \E b \in out.boxes : b.id = r.id THEN out.boxes
                     ELSE out.boxes \cup {mine}
            unset == {c \in BoxColumnsOf(r.value) :
                        /\ mine \in owned
                        /\ ~\E b \in out.boxCells : b.run = run /\ b.id = r.id /\ b.column = c}
            Set(c) == [run |-> run, id |-> r.id, column |-> c, ts |-> r.ts]
            filled == {Set(c) : c \in unset}
<1>1. /\ UNCHANGED <<rows, run, processed>> /\ phase = "rows" /\ phase' = "rows"
      /\ r.type = "container_statuses"
      /\ out' = [out EXCEPT !.boxes = owned, !.boxCells = @ \cup filled] /\ saved' = out'
  BY DEF Taking, WriteBox, Commit
<1>2. mine.run = run /\ mine.id = r.id
  OBVIOUS
<1>3. \/ owned = out.boxes /\ \E b \in out.boxes : b.id = r.id
      \/ owned = out.boxes \cup {mine} /\ ~\E b \in out.boxes : b.id = r.id
  OBVIOUS
<1>4. \A c \in unset : /\ c \in BoxColumnsOf(r.value) /\ mine \in owned
                       /\ ~BoxOf(out, run, r.id, c)
  BY DEF BoxOf
<1>5. \A c \in BoxColumnsOf(r.value) : mine \in owned => c \in unset \/ BoxOf(out, run, r.id, c)
  BY DEF BoxOf
<1>6. \A b \in filled : \E c \in unset :
         b.run = run /\ b.id = r.id /\ b.column = c /\ b.ts = r.ts
  OBVIOUS
<1>7. \A c \in unset : \E b \in filled : b.run = run /\ b.id = r.id /\ b.column = c
  <2>. SUFFICES ASSUME NEW c \in unset
                PROVE  \E b \in filled : b.run = run /\ b.id = r.id /\ b.column = c
    OBVIOUS
  <2>1. Set(c) \in filled /\ Set(c).run = run /\ Set(c).id = r.id /\ Set(c).column = c
    OBVIOUS
  <2>. QED  BY <2>1
<1>. HIDE DEF owned, unset, filled, Set
<1>8. /\ out'.cells = out.cells /\ out'.boxes = owned
      /\ out'.boxCells = out.boxCells \cup filled /\ out'.summary = out.summary
  BY <1>1 DEF IInv, Shaped
<1>. HIDE DEF mine
<1>9. Within' /\ Blank'
  BY <1>1 DEF Within, Blank
<1>10. Bounded'
  <2>1. \A b \in owned : b \in out.boxes \/ b.run = run
    BY <1>2, <1>3
  <2>2. run \in Nat
    BY DEF IInv
  <2>. QED  BY <1>1, <1>6, <1>8, <2>1, <2>2 DEF TablesInv, Bounded
<1>11. Summaries'
  <2>1. /\ saved.cells \subseteq saved'.cells /\ saved.boxCells \subseteq saved'.boxCells
        /\ \A b \in saved'.boxes : b \in saved.boxes \/ b.run = run
    BY <1>1, <1>2, <1>3, <1>8 DEF TablesInv, Within
  <2>. QED  BY <1>1, <1>8, <2>1, SummariesKept
<1>12. Firsts'
  <2>1. \A c \in out'.cells : IsFirst(c)
    BY <1>8 DEF TablesInv, Firsts
  <2>2. \A c, d \in out'.cells : SameCell(c, d) => c = d
    BY <1>8 DEF TablesInv, Firsts
  <2>3. ASSUME NEW b \in filled
        PROVE  IsFirstBox(b)
    <3>1. PICK c \in unset : b.run = run /\ b.id = r.id /\ b.column = c /\ b.ts = r.ts
      BY <1>6
    <3>2. /\ c \in BoxColumnsOf(r.value) /\ ~BoxOf(out, run, r.id, c)
          /\ mine \in out.boxes \/ ~\E d \in out.boxes : d.id = r.id
      BY <1>3, <1>4
    <3>3. r \in Earliest(BoxRows(r.id, c))
      BY <1>1, <3>2, FirstIsSet DEF mine
    <3>. QED  BY <3>1, <3>3 DEF IsFirstBox
  <2>4. \A b \in out'.boxCells : IsFirstBox(b)
    BY <1>8, <2>3 DEF TablesInv, Firsts
  <2>5. \A a, b \in out'.boxes : a.id = b.id => a = b
    BY <1>2, <1>3, <1>8 DEF TablesInv, Firsts
  <2>. QED  BY <1>1, <2>1, <2>2, <2>4, <2>5
       DEF Firsts, IsFirst, IsFirstBox, SameCell, Told, BoxRows, ColumnOf
<1>13. Progress'
  <2>1. r \in rows /\ Taken' = Taken \cup {r} /\ todo' \subseteq rows'
    BY TakenGrows
  <2>2. ~Tells(r)
    BY <1>1 DEF Tells
  <2>3. \A q \in Taken' : Tells(q) =>
          /\ Key(q) \in processed'
          /\ ColumnOf(q) \in Columns[q.category] => CellOf(out', run, Key(q))
    BY <1>1, <1>8, <2>1, <2>2 DEF TablesInv, Progress, CellOf
  <2>4. \A key \in processed' : \E q \in Taken' : Tells(q) /\ Key(q) = key
    BY <1>1, <2>1 DEF TablesInv, Progress
  <2>5. \A c \in out'.cells : c.run = run => <<c.category, c.id, c.column>> \in processed'
    BY <1>1, <1>8 DEF TablesInv, Progress
  <2>6. \A i, id, column : BoxOf(out, i, id, column) => BoxOf(out', i, id, column)
    BY <1>8 DEF BoxOf
  <2>7. ASSUME NEW q \in Taken', q.type = "container_statuses"
        PROVE  /\ \E b \in out'.boxes : b.id = q.id
               /\ [run |-> run, id |-> q.id] \in out'.boxes =>
                    \A column \in BoxColumnsOf(q.value) : BoxOf(out', run, q.id, column)
    <3>1. CASE q \in Taken
      <4>1. \E b \in out.boxes : b.id = q.id
        BY <1>1, <2>7, <3>1 DEF TablesInv, Progress
      <4>2. [run |-> run, id |-> q.id] \in out'.boxes => [run |-> run, id |-> q.id] \in out.boxes
        <5>. SUFFICES ASSUME [run |-> run, id |-> q.id] = mine, ~\E b \in out.boxes : b.id = r.id
                      PROVE  FALSE
          BY <1>3, <1>8
        <5>1. q.id = r.id
          BY DEF mine
        <5>. QED  BY <4>1, <5>1
      <4>3. [run |-> run, id |-> q.id] \in out.boxes =>
               \A column \in BoxColumnsOf(q.value) : BoxOf(out, run, q.id, column)
        BY <1>1, <2>7, <3>1 DEF TablesInv, Progress
      <4>. QED  BY <1>3, <1>8, <2>6, <4>1, <4>2, <4>3
    <3>2. CASE q = r
      <4>1. \E b \in out'.boxes : b.id = r.id
        BY <1>2, <1>3, <1>8
      <4>2. ASSUME mine \in owned, NEW column \in BoxColumnsOf(r.value)
            PROVE  BoxOf(out', run, r.id, column)
        BY <1>5, <1>7, <1>8, <2>6, <4>2 DEF BoxOf
      <4>. QED  BY <1>8, <3>2, <4>1, <4>2 DEF mine
    <3>. QED  BY <2>1, <2>7, <3>1, <3>2
  <2>. QED  BY <1>1, <2>1, <2>3, <2>4, <2>5, <2>7
       DEF Progress, Key, Tells, ColumnOf, CellOf, BoxOf
<1>. QED  BY <1>9, <1>10, <1>11, <1>12, <1>13 DEF TablesInv

LEMMA TablesKept ==
    ASSUME IInv, RowsInv, TablesInv, [Next]_vars
    PROVE  TablesInv'
<1>1. CASE Recording \/ Rotated \/ Begin \/ PickCategory \/ UNCHANGED vars
  BY <1>1, StillKeepsTables DEF IInv
<1>2. CASE TransformRow
  <2>1. PICK r \in NextRows : /\ todo' = todo \ {r}
                              /\ PassOver(r) \/ Unknown(r) \/ Write(r) \/ WriteBox(r)
    BY <1>2 DEF TransformRow
  <2>2. Taking(r)
    BY <1>2, <2>1 DEF TransformRow, recordVars, Taking, NextRows, Earliest, OfCategory
  <2>. QED  BY <2>1, <2>2, SkipKeepsTables, WriteKeepsTables, WriteBoxKeepsTables
<1>3. CASE EndCategory
  BY <1>3, EndCategoryKeepsTables
<1>4. CASE Summarize
  BY <1>4, SummarizeKeepsTables
<1>5. CASE Crash
  BY <1>5, CrashKeepsTables
<1>. QED  BY <1>1, <1>2, <1>3, <1>4, <1>5 DEF Next, Transform

-----------------------------------------------------------------------------
(* What follows of the reports.                                            *)

AllInv == IInv /\ RowsInv /\ TablesInv

LEMMA AllInvAlways == Spec => []AllInv
<1>1. Init => AllInv
  BY Initially, InitiallyTables DEF AllInv
<1>2. AllInv /\ [Next]_vars => AllInv'
  BY StepKeeps, RowsKept, TablesKept DEF AllInv
<1>. QED  BY <1>1, <1>2, PTL DEF Spec

(* A whole report has in each column what was told of it first.            *)
LEMMA CellsAreFirst ==
    ASSUME AllInv, NEW i, Full(saved, i), NEW cat, NEW id, NEW column \in Columns[cat]
    PROVE  IsFirstTold(saved, i, cat, id, column)
<1>. DEFINE first == Earliest(Told(cat, id, column))
            cells == CellsOf(saved, i, cat, id, column)
<1>1. saved.cells \subseteq out.cells
  BY DEF AllInv, TablesInv, Within
<1>2. \A c, d \in cells : c = d
  BY <1>1 DEF AllInv, TablesInv, Firsts, SameCell, CellsOf
<1>3. Cardinality(cells) <= 1
  <2>1. CASE cells = {}
    BY <2>1, FS_EmptySet
  <2>2. ASSUME NEW c \in cells
        PROVE  Cardinality(cells) = 1
    <3>1. cells = {c}
      BY <1>2
    <3>. QED  BY <3>1, FS_Singleton
  <2>. QED  BY <2>1, <2>2
<1>4. \A c \in cells : \E r \in first : c.ts = r.ts /\ c.value = r.value
  BY <1>1 DEF AllInv, TablesInv, Firsts, IsFirst, CellsOf
<1>5. ASSUME NEW r \in first
      PROVE  cells # {}
  <2>1. /\ r \in rows /\ r.category = cat /\ r.id = id /\ ColumnOf(r) = column /\ Tells(r)
    BY DEF Earliest, Told, Tells
  <2>2. CellOf(saved, i, Key(r))
    BY <2>1 DEF Full
  <2>. QED  BY <2>1, <2>2 DEF CellOf, CellsOf, Key
<1>. QED  BY <1>3, <1>4, <1>5 DEF IsFirstTold

LEMMA BoxesAreFirst ==
    ASSUME AllInv, NEW i, Full(saved, i), NEW p, [run |-> i, id |-> p] \in saved.boxes,
           NEW column \in BoxColumns
    PROVE  BoxIsFirstTold(saved, i, p, column)
<1>. DEFINE first == Earliest(BoxRows(p, column))
            boxCells == {b \in saved.boxCells : b.run = i /\ b.id = p /\ b.column = column}
<1>1. \A b \in boxCells : \E r \in first : b.ts = r.ts
  BY DEF AllInv, TablesInv, Within, Firsts, IsFirstBox
<1>2. \A r, q \in first : r.ts = q.ts
  BY DEF Earliest, BoxRows, AllInv, RowsInv, WellFormed
<1>3. ASSUME NEW r \in first
      PROVE  \E b \in boxCells : b.ts = r.ts
  <2>1. r \in rows /\ r.id = p /\ r.type = "container_statuses"
        /\ column \in BoxColumnsOf(r.value)
    BY DEF Earliest, BoxRows
  <2>2. BoxOf(saved, i, p, column)
    BY <2>1 DEF Full
  <2>. QED  BY <1>1, <1>2, <2>2 DEF BoxOf
<1>4. BoxIsFirstTold(saved, i, p, column) <=>
         {b.ts : b \in boxCells} = {r.ts : r \in first}
  BY DEF BoxIsFirstTold, BoxRows
<1>. QED  BY <1>1, <1>3, <1>4

(***************************************************************************)
(* A run that has a summary has the whole report, each column with what    *)
(* was told of it first, whatever died before it (_transform_data,         *)
(* _process_container_statuses).                                           *)
(***************************************************************************)
THEOREM SummarizedIsWholeAlways == Spec => []SummarizedIsWhole
<1>1. AllInv => SummarizedIsWhole
  <2>. SUFFICES ASSUME AllInv, NEW s \in saved.summary
                PROVE  /\ \A cat \in DOMAIN Columns : \A column \in Columns[cat] :
                             \A id \in Pods \cup Nodes :
                                IsFirstTold(saved, s.run, cat, id, column)
                       /\ \A p \in Pods : [run |-> s.run, id |-> p] \in saved.boxes =>
                             \A column \in BoxColumns : BoxIsFirstTold(saved, s.run, p, column)
    BY DEF SummarizedIsWhole
  <2>1. Full(saved, s.run)
    BY DEF AllInv, TablesInv, Summaries, Within
  <2>. QED  BY <2>1, CellsAreFirst, BoxesAreFirst
<1>. QED  BY <1>1, AllInvAlways, PTL

(* The row behind a column that has a place in the order of the stages.    *)
LEMMA StageIsStatus ==
    ASSUME NEW c, NEW r \in Told(c.category, c.id, c.column), AllInv,
           c.column \in {"requested", "created", "scheduled", "ready", "deleted",
                         "pending", "running", "failed"}
    PROVE  r \in rows /\ r.type = "status" /\ r.value = c.column
           /\ r.category = c.category /\ r.id = c.id
BY DEF Told, ColumnOf, AllInv, RowsInv, WellFormed, Types

(***************************************************************************)
(* A report puts the life of a pod, and of a node, in the order it went    *)
(* through (pod_watcher._track_pod_event, node_watcher and the order of    *)
(* the rows in _transform_data).                                           *)
(***************************************************************************)
THEOREM StagesInOrderAlways == Spec => []StagesInOrder
<1>1. AllInv => StagesInOrder
  <2>. SUFFICES ASSUME AllInv, NEW a \in saved.cells, NEW b \in saved.cells,
                       <<a.column, b.column>> \in Precedes,
                       a.run = b.run, a.category = b.category, a.id = b.id
                PROVE  a.ts <= b.ts
    BY DEF StagesInOrder
  <2>1. PICK ra \in Earliest(Told(a.category, a.id, a.column)) : a.ts = ra.ts
    BY DEF AllInv, TablesInv, Within, Firsts, IsFirst
  <2>2. PICK rb \in Earliest(Told(b.category, b.id, b.column)) : b.ts = rb.ts
    BY DEF AllInv, TablesInv, Within, Firsts, IsFirst
  <2>3. /\ ra \in rows /\ ra.type = "status" /\ ra.value = a.column
        /\ ra.category = a.category /\ ra.id = a.id
    BY StageIsStatus DEF Earliest, Precedes
  <2>4. /\ rb \in rows /\ rb.type = "status" /\ rb.value = b.column
        /\ rb.category = b.category /\ rb.id = b.id
    BY StageIsStatus DEF Earliest, Precedes
  <2>5. CASE <<a.column, b.column>> \in Stages
    BY <2>1, <2>2, <2>3, <2>4, <2>5 DEF AllInv, RowsInv, Behind, SameId
  <2>6. CASE a.column = "created" /\ b.column \in {"scheduled", "ready", "deleted"}
    <3>1. PICK q \in rows : CreationOf(q, rb) /\ q.ts <= rb.ts
      BY <2>4, <2>6 DEF AllInv, RowsInv, WithCreation
    <3>2. q \in Told(a.category, a.id, a.column)
      BY <2>4, <2>6, <3>1 DEF CreationOf, SameId, Told, ColumnOf
    <3>3. ra.ts <= q.ts
      BY <3>2 DEF Earliest
    <3>4. ra.ts \in Nat /\ q.ts \in Nat /\ rb.ts \in Nat
      BY <2>3, <2>4 DEF AllInv, RowsInv, WellFormed
    <3>. QED  BY <2>1, <2>2, <3>1, <3>3, <3>4
  <2>. QED  BY <2>5, <2>6 DEF Precedes, Stages
<1>. QED  BY <1>1, AllInvAlways, PTL

=============================================================================
