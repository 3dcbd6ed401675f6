------------------------ MODULE ClusterMirrorProofs ------------------------
(***************************************************************************)
(* Proofs about the mirror of the nodes: its types, that the watcher       *)
(* passes no node over (NoNodePassedOver) and that the refresh leaves new  *)
(* nodes alone (NewNodeKeepsFile), for any nodes, any history of the       *)
(* cluster, any version that a watch starts at, and any number of retries  *)
(* and faults.                                                             *)
(***************************************************************************)
EXTENDS ClusterMirror, TLAPS

Streaming == wPc \in {"stream", "handle"}

\* What the cluster and its log say of each other.
Recorded ==
    \A n \in Nodes :
        /\ there[n] # 0 => there[n] \in ChangesOf(n) /\ log[there[n]].kind # "deleted"
        /\ there[n] # 0 => \A v \in ChangesOf(n) : v <= there[n]
        /\ there[n] = 0 =>
              ChangesOf(n) = {} \/ \E v \in ChangesOf(n) : log[v].kind = "deleted"

\* A version that a 410 has returned is answered by another 410: the stream
\* that a watcher is in was begun from "0".
FromScratch == rv # 0 => wPc = "call" /\ rv < horizon

\* Nothing that the stream has passed is a later change of the same node.
Latest(u) == \A v \in ChangesOf(log[u].node) : v <= pos => v <= u

Ahead ==
    Streaming =>
        /\ pos <= Len(log) /\ event <= pos
        /\ \A u \in initial : u <= pos /\ Latest(u)
        /\ wPc = "handle" => event \in 1..Len(log) /\ Latest(event)

\* A name that has a file, or had one when the refresh looked, was used; one
\* that the refresh then did not find in the cluster was deleted.
Used ==
    \A n \in Nodes :
        /\ file[n] # 0 \/ n \in expected \/ snap[n] # 0 => ChangesOf(n) # {}
        /\ rPc = "write" /\ n \in expected /\ snap[n] = 0 =>
              \E v \in ChangesOf(n) : log[v].kind = "deleted"

IInv == TypeOK /\ Recorded /\ FromScratch /\ Ahead /\ NoNodePassedOver /\ Used

-----------------------------------------------------------------------------
(* Each place in the log is a change of a node.                            *)
LEMMA LogTyped ==
    ASSUME TypeOK
    PROVE  /\ Len(log) \in Nat
           /\ \A v \in 1..Len(log) : log[v] \in Change /\ log[v].node \in Nodes
<1>1. log \in Seq(Change)
  BY DEF TypeOK
<1>2. Len(log) \in Nat /\ \A v \in 1..Len(log) : log[v] \in Change
  BY <1>1
<1>3. \A c \in Change : c.node \in Nodes
  BY DEF Change
<1>. QED  BY <1>2, <1>3

(* A change of the cluster adds one entry to the log and moves none.       *)
LEMMA LogGrows ==
    ASSUME TypeOK, NEW n \in Nodes, NEW kind \in {"added", "modified", "deleted"},
           NodeChanges(n, kind)
    PROVE  /\ log' \in Seq(Change)
           /\ Len(log) \in Nat /\ Len(log') = Len(log) + 1
           /\ \A v \in 1..Len(log) : log'[v] = log[v] /\ log[v] \in Change
           /\ log'[Len(log) + 1] = [node |-> n, kind |-> kind]
           /\ ChangesOf(n)' = ChangesOf(n) \cup {Len(log) + 1}
           /\ \A m \in Nodes \ {n} : ChangesOf(m)' = ChangesOf(m)
<1>1. /\ log \in Seq(Change)
      /\ [node |-> n, kind |-> kind] \in Change
      /\ log' = Append(log, [node |-> n, kind |-> kind])
  BY DEF TypeOK, NodeChanges, Change
<1>2. /\ log' \in Seq(Change)
      /\ Len(log) \in Nat /\ Len(log') = Len(log) + 1
      /\ \A v \in 1..Len(log) : log'[v] = log[v] /\ log[v] \in Change
      /\ log'[Len(log) + 1] = [node |-> n, kind |-> kind]
  BY <1>1
<1>3. /\ ChangesOf(n)' = ChangesOf(n) \cup {Len(log) + 1}
      /\ \A m \in Nodes \ {n} : ChangesOf(m)' = ChangesOf(m)
  BY <1>2 DEF ChangesOf
<1>. QED  BY <1>2, <1>3

\* Where the log stays, so does what it says.
LEMMA LogStays ==
    ASSUME UNCHANGED log
    PROVE  \A n : ChangesOf(n)' = ChangesOf(n)
BY DEF ChangesOf

LEMMA Initially == Init => IInv
BY BoundAssumption
   DEF Init, IInv, TypeOK, Recorded, FromScratch, Ahead, Streaming, NoNodePassedOver, Used,
       ChangesOf, Version

-----------------------------------------------------------------------------
(* The cluster.                                                            *)
LEMMA ClusterChanges ==
    ASSUME IInv, NEW n \in Nodes, NEW kind \in {"added", "modified", "deleted"},
           NodeChanges(n, kind)
    PROVE  IInv'
<1>0. /\ TypeOK /\ Recorded /\ FromScratch /\ Ahead /\ NoNodePassedOver /\ Used
      /\ UNCHANGED <<horizon, file, watchVars, refreshVars, faults>>
  BY DEF IInv, NodeChanges
<1>1. /\ Len(log) \in Nat /\ Len(log) < MaxVersion
      /\ Len(log') = Len(log) + 1
      /\ log' \in Seq(Change)
  BY <1>0, LogGrows DEF NodeChanges
<1>2. /\ \A v \in 1..Len(log) : log'[v] = log[v] /\ log[v].node \in Nodes
      /\ log'[Len(log) + 1] = [node |-> n, kind |-> kind]
  BY <1>0, LogGrows, LogTyped
<1>3. /\ ChangesOf(n)' = ChangesOf(n) \cup {Len(log) + 1}
      /\ \A m \in Nodes \ {n} : ChangesOf(m)' = ChangesOf(m)
      /\ \A m \in Nodes : ChangesOf(m) \subseteq 1..Len(log)
  BY <1>0, LogGrows DEF ChangesOf
<1>4. /\ there' \in [Nodes -> Version]
      /\ there'[n] = IF kind = "deleted" THEN 0 ELSE Len(log) + 1
      /\ \A m \in Nodes \ {n} : there'[m] = there[m]
  BY <1>0, <1>1, BoundAssumption DEF NodeChanges, TypeOK, Version
<1>5. TypeOK'
  <2>1. horizon' \in 0..Len(log') /\ initial' \subseteq 1..Len(log')
    BY <1>0, <1>1 DEF TypeOK, watchVars
  <2>2. Len(log') <= MaxVersion
    BY <1>1, BoundAssumption
  <2>. QED  BY <1>0, <1>1, <1>4, <2>1, <2>2 DEF TypeOK, Version, watchVars, refreshVars
<1>6. Recorded'
  <2>. SUFFICES ASSUME NEW m \in Nodes
                PROVE  /\ there'[m] # 0 =>
                            there'[m] \in ChangesOf(m)' /\ log'[there'[m]].kind # "deleted"
                       /\ there'[m] # 0 => \A v \in ChangesOf(m)' : v <= there'[m]
                       /\ there'[m] = 0 =>
                            \/ ChangesOf(m)' = {}
                            \/ \E v \in ChangesOf(m)' : log'[v].kind = "deleted"
    BY DEF Recorded
  <2>1. CASE m = n /\ kind = "deleted"
    BY <1>1, <1>2, <1>3, <1>4, <2>1
  <2>2. CASE m = n /\ kind # "deleted"
    BY <1>1, <1>2, <1>3, <1>4, <2>2
  <2>3. CASE m # n
    <3>1. there'[m] = there[m] /\ ChangesOf(m)' = ChangesOf(m) /\ ChangesOf(m) \subseteq 1..Len(log)
      BY <1>3, <1>4, <2>3
    <3>. QED  BY <1>0, <1>2, <3>1 DEF Recorded
  <2>. QED  BY <2>1, <2>2, <2>3
<1>7. FromScratch'
  BY <1>0 DEF FromScratch, watchVars
<1>8. Ahead'
  <2>1. initial \subseteq 1..Len(log) /\ UNCHANGED <<wPc, pos, event, initial>> /\ pos \in Nat
    BY <1>0 DEF TypeOK, watchVars, Version
  <2>2. ASSUME NEW u \in 1..Len(log), Latest(u), pos <= Len(log)
        PROVE  Latest(u)'
    <3>1. log'[u].node = log[u].node /\ log[u].node \in Nodes
      BY <1>2
    <3>2. \A v \in ChangesOf(log[u].node)' : v \in ChangesOf(log[u].node) \/ v > pos
      BY <1>1, <1>3, <2>1, <2>2, <3>1
    <3>3. \A v \in ChangesOf(log[u].node)' : v <= pos => v <= u
      BY <1>3, <2>1, <2>2, <3>1, <3>2 DEF Latest
    <3>. QED  BY <2>1, <3>1, <3>3 DEF Latest, ChangesOf
  <2>3. \A v \in 1..Len(log) : v \in 1..Len(log')
    BY <1>1
  <2>. QED  BY <1>0, <1>1, <2>1, <2>2, <2>3 DEF Ahead, Streaming
<1>9. NoNodePassedOver'
  <2>1. UNCHANGED <<wPc, pos, event, seen, initial>> /\ pos \in Nat
    BY <1>0 DEF TypeOK, watchVars, Version
  <2>2. Streaming => pos <= Len(log)
    BY <1>0 DEF Ahead
  <2>. QED  BY <1>0, <1>1, <1>4, <2>1, <2>2 DEF NoNodePassedOver, Streaming
<1>10. Used'
  BY <1>0, <1>2, <1>3 DEF Used, refreshVars
<1>. QED  BY <1>5, <1>6, <1>7, <1>8, <1>9, <1>10 DEF IInv

LEMMA CompactKeeps == IInv /\ Compact => IInv'
<1>. SUFFICES ASSUME IInv, Compact PROVE IInv'
  OBVIOUS
<1>0. UNCHANGED <<there, log, file, watchVars, refreshVars, faults>>
      /\ horizon' \in (horizon + 1)..Len(log) /\ horizon \in Nat
  BY DEF Compact, IInv, TypeOK
<1>1. TypeOK'
  BY <1>0 DEF IInv, TypeOK, watchVars, refreshVars, Version
<1>2. Recorded' /\ NoNodePassedOver' /\ Used'
  BY <1>0, LogStays DEF IInv, Recorded, NoNodePassedOver, Used, watchVars, refreshVars
<1>3. FromScratch'
  BY <1>0 DEF IInv, FromScratch, TypeOK, watchVars, Version
<1>4. Ahead'
  BY <1>0, LogStays DEF IInv, Ahead, Latest, Streaming, watchVars
<1>. QED  BY <1>1, <1>2, <1>3, <1>4 DEF IInv

-----------------------------------------------------------------------------
(* The watcher.  A call, or the end, of _watch_events forgets everything   *)
(* but the resource version it was given.                                  *)
LEMMA Anew ==
    ASSUME IInv, UNCHANGED <<clusterVars, refreshVars, file, seen>>,
           faults' \in 0..MaxFaults,
           \/ Ended
           \/ \E v \in Version, k \in 0..(Attempts - 1) :
                Called(v, k) /\ (v # 0 => v < horizon)
    PROVE  IInv'
<1>0. /\ wPc' \in {"down", "call"} /\ initial' = {} /\ pos' = 0 /\ event' = 0
      /\ rv' \in Version /\ attempt' \in 0..(Attempts - 1)
      /\ rv' # 0 => wPc' = "call" /\ rv' < horizon
  BY BoundAssumption DEF Ended, Called, Version
<1>1. TypeOK'
  BY <1>0, BoundAssumption DEF IInv, TypeOK, clusterVars, refreshVars, Version
<1>2. Recorded' /\ Used'
  BY LogStays DEF IInv, Recorded, Used, clusterVars, refreshVars
<1>3. FromScratch' /\ NoNodePassedOver'
  BY <1>0 DEF FromScratch, NoNodePassedOver, clusterVars
<1>4. Ahead'
  BY <1>0 DEF Ahead, Streaming
<1>. QED  BY <1>1, <1>2, <1>3, <1>4 DEF IInv

LEMMA OpenKeeps == IInv /\ WOpen => IInv'
<1>. SUFFICES ASSUME IInv, WOpen PROVE IInv'
  OBVIOUS
<1>0. PICK h \in horizon..Len(log) :
        /\ rv = 0 /\ wPc' = "stream" /\ event = 0
        /\ initial' = StateAt(h) /\ pos' = h
        /\ UNCHANGED <<there, log, horizon, refreshVars, rv, attempt, event, file, seen,
                       faults>>
  BY DEF WOpen, IInv, FromScratch, TypeOK, Version, clusterVars
<1>1. /\ Len(log) \in Nat /\ h \in 0..Len(log) /\ Len(log) <= MaxVersion
      /\ StateAt(h) \subseteq 1..h
  BY LogTyped DEF IInv, TypeOK, StateAt
<1>2. TypeOK'
  BY <1>0, <1>1, BoundAssumption DEF IInv, TypeOK, refreshVars, Version
<1>3. Recorded' /\ Used'
  BY <1>0, LogStays DEF IInv, Recorded, Used, refreshVars
<1>4. FromScratch'
  BY <1>0 DEF FromScratch
<1>5. Ahead'
  <2>1. ASSUME NEW u \in StateAt(h), NEW v \in ChangesOf(log[u].node), v <= h
        PROVE  v <= u
    <3>1. u \in 1..h /\ \A w \in (u + 1)..h : log[w].node # log[u].node
      BY DEF StateAt
    <3>2. v \in 1..Len(log) /\ log[v].node = log[u].node
      BY DEF ChangesOf
    <3>. QED  BY <1>1, <2>1, <3>1, <3>2
  <2>. QED  BY <1>0, <1>1, <2>1, LogStays DEF Ahead, Latest, Streaming
<1>6. NoNodePassedOver'
  <2>1. ASSUME NEW n \in Nodes, there[n] # 0, there[n] <= h PROVE there[n] \in StateAt(h)
    <3>1. /\ there[n] \in 1..Len(log) /\ log[there[n]].node = n
          /\ log[there[n]].kind # "deleted"
          /\ \A v \in ChangesOf(n) : v <= there[n]
      BY <2>1 DEF IInv, Recorded, ChangesOf
    <3>2. ASSUME NEW w \in (there[n] + 1)..h PROVE log[w].node # n
      <4>1. w \in 1..Len(log) /\ ~(w <= there[n])
        BY <1>1, <3>1, <3>2
      <4>. QED  BY <3>1, <4>1 DEF ChangesOf
    <3>. QED  BY <1>1, <2>1, <3>1, <3>2 DEF StateAt
  <2>2. \A n \in Nodes : there[n] \in Nat
    BY DEF IInv, TypeOK, Version
  <2>. QED  BY <1>0, <1>1, <2>1, <2>2 DEF NoNodePassedOver
<1>. QED  BY <1>2, <1>3, <1>4, <1>5, <1>6 DEF IInv

LEMMA TakeEventKeeps == IInv /\ WTakeEvent => IInv'
<1>. SUFFICES ASSUME IInv, WTakeEvent PROVE IInv'
  OBVIOUS
<1>0. /\ UNCHANGED <<there, log, horizon, refreshVars, rv, attempt, file, seen, faults>>
      /\ wPc = "stream" /\ wPc' = "handle" /\ rv = 0
  BY DEF WTakeEvent, clusterVars, IInv, FromScratch
<1>1. /\ Len(log) \in Nat /\ Len(log) <= MaxVersion /\ pos \in Nat /\ pos <= Len(log)
      /\ initial \subseteq 1..Len(log) /\ \A u \in initial : u <= pos /\ Latest(u)
  BY <1>0, LogTyped DEF IInv, TypeOK, Version, Ahead, Streaming
<1>2. Recorded' /\ Used' /\ FromScratch'
  BY <1>0, LogStays DEF IInv, Recorded, Used, FromScratch, refreshVars
<1>3. CASE \E v \in initial : event' = v /\ initial' = initial \ {v} /\ UNCHANGED pos
  <2>1. TypeOK'
    BY <1>0, <1>1, <1>3, BoundAssumption DEF IInv, TypeOK, refreshVars, Version
  <2>2. Ahead'
    BY <1>0, <1>1, <1>3, LogStays DEF Ahead, Latest, Streaming
  <2>3. NoNodePassedOver'
    BY <1>0, <1>3 DEF IInv, NoNodePassedOver
  <2>. QED  BY <1>2, <2>1, <2>2, <2>3 DEF IInv
<1>4. CASE /\ initial = {} /\ pos < Len(log)
           /\ event' = pos + 1 /\ pos' = pos + 1 /\ UNCHANGED initial
  <2>1. TypeOK'
    BY <1>0, <1>1, <1>4, BoundAssumption DEF IInv, TypeOK, refreshVars, Version
  <2>2. Ahead'
    BY <1>0, <1>1, <1>4 DEF Ahead, Latest, Streaming
  <2>3. \A n \in Nodes : there[n] \in Nat
    BY DEF IInv, TypeOK, Version
  <2>4. NoNodePassedOver'
    BY <1>0, <1>1, <1>4, <2>3 DEF IInv, NoNodePassedOver
  <2>. QED  BY <1>2, <2>1, <2>2, <2>4 DEF IInv
<1>. QED  BY <1>3, <1>4 DEF WTakeEvent

LEMMA HandleKeeps == IInv /\ WHandle => IInv'
<1>. SUFFICES ASSUME IInv, WHandle PROVE IInv'
  OBVIOUS
<1>. DEFINE n == log[event].node
<1>0. /\ wPc = "handle" /\ wPc' = "stream"
      /\ event \in 1..Len(log) /\ n \in Nodes /\ event \in ChangesOf(n)
      /\ file' = [file EXCEPT ![n] = IF log[event].kind = "deleted" THEN 0 ELSE event]
      /\ seen' = [seen EXCEPT ![n] = event]
      /\ UNCHANGED <<there, log, horizon, refreshVars, rv, attempt, initial, pos,
                     event, faults>>
  BY LogTyped DEF WHandle, IInv, Ahead, Streaming, ChangesOf, clusterVars
<1>6. \A v \in ChangesOf(n) : v <= pos => v <= event
  BY <1>0 DEF IInv, Ahead, Streaming, Latest
<1>. HIDE DEF n
<1>1. TypeOK'
  <2>1. event \in Version /\ 0 \in Version
    BY BoundAssumption DEF IInv, TypeOK, Version
  <2>2. file' \in [Nodes -> Version] /\ seen' \in [Nodes -> Version]
    BY <1>0, <2>1 DEF IInv, TypeOK
  <2>. QED  BY <1>0, <2>2 DEF IInv, TypeOK, refreshVars
<1>2. Recorded' /\ FromScratch'
  BY <1>0, LogStays DEF IInv, Recorded, FromScratch
<1>3. Ahead'
  BY <1>0, LogStays DEF IInv, Ahead, Latest, Streaming
<1>4. Used'
  <2>1. \A m \in Nodes : file'[m] # 0 => file[m] # 0 \/ m = n
    BY <1>0 DEF IInv, TypeOK
  <2>2. ChangesOf(n) # {}
    BY <1>0
  <2>. QED  BY <1>0, <2>1, <2>2, LogStays DEF IInv, Used, refreshVars
<1>5. NoNodePassedOver'
  <2>1. /\ seen'[n] = event
        /\ \A m \in Nodes \ {n} : seen'[m] = seen[m]
    BY <1>0 DEF IInv, TypeOK
  <2>2. ASSUME there[n] # 0, ~(there[n] > pos) PROVE event = there[n]
    <3>1. there[n] \in ChangesOf(n) /\ event <= there[n]
      BY <1>0, <2>2 DEF IInv, Recorded
    <3>2. there[n] \in Nat /\ event \in Nat /\ pos \in Nat
      BY <1>0 DEF IInv, TypeOK, Version
    <3>. QED  BY <1>6, <2>2, <3>1, <3>2
  <2>3. ASSUME NEW m \in Nodes \ {n}, there[m] # 0 PROVE event # there[m]
    BY <1>0, <2>3 DEF IInv, Recorded, ChangesOf
  <2>. QED  BY <1>0, <2>1, <2>2, <2>3 DEF IInv, NoNodePassedOver
<1>. QED  BY <1>1, <1>2, <1>3, <1>4, <1>5 DEF IInv

LEMMA WatcherKeeps ==
    IInv /\ (WStep \/ WStreamEnds \/ WError \/ WCrash) => IInv'
<1>. SUFFICES ASSUME IInv, WStep \/ WStreamEnds \/ WError \/ WCrash PROVE IInv'
  OBVIOUS
<1>. USE BoundAssumption
<1>0. TypeOK /\ FromScratch /\ Ahead /\ 0 \in 0..(Attempts - 1)
  BY DEF IInv
<1>1. CASE WStart
  BY <1>0, <1>1, Anew DEF WStart, TypeOK, Version
<1>2. CASE WOpen
  BY <1>2, OpenKeeps
<1>3. CASE WTakeEvent
  BY <1>3, TakeEventKeeps
<1>4. CASE WHandle
  BY <1>4, HandleKeeps
<1>5. CASE WGone
  <2>1. event # 0 => event < horizon
    BY <1>0, <1>5 DEF WGone, TypeOK, Ahead, Streaming, Version
  <2>. QED  BY <1>0, <1>5, <2>1, Anew DEF WGone, TypeOK
<1>6. CASE WStreamEnds
  BY <1>0, <1>6, Anew DEF WStreamEnds, TypeOK, FromScratch
<1>7. CASE WError
  <2>1. attempt + 1 < Attempts => attempt + 1 \in 0..(Attempts - 1)
    BY <1>0 DEF TypeOK
  <2>2. faults' \in 0..MaxFaults
    BY <1>0, <1>7 DEF WError, Fault, TypeOK
  <2>. QED  BY <1>0, <1>7, <2>1, <2>2, Anew DEF WError, TypeOK, FromScratch
<1>8. CASE WCrash
  <2>1. faults' \in 0..MaxFaults
    BY <1>0, <1>8 DEF WCrash, Fault, TypeOK
  <2>. QED  BY <1>8, <2>1, Anew DEF WCrash
<1>. QED  BY <1>1, <1>2, <1>3, <1>4, <1>5, <1>6, <1>7, <1>8 DEF WStep

-----------------------------------------------------------------------------
(* The refresh.                                                            *)
LEMMA RefreshKeeps ==
    IInv /\ (RStep \/ RListFails \/ RCrash) => IInv'
<1>. SUFFICES ASSUME IInv, RStep \/ RListFails \/ RCrash PROVE IInv'
  OBVIOUS
<1>0. UNCHANGED <<there, log, horizon, watchVars>> /\ faults' \in 0..MaxFaults
  BY BoundAssumption
     DEF RStep, RListFiles, RListNodes, RDone, RWriteFile, RUnlinkStale, RListFails,
         RCrash, Fault, clusterVars, IInv, TypeOK
<1>1. Recorded' /\ FromScratch' /\ Ahead' /\ NoNodePassedOver'
  BY <1>0, LogStays
     DEF IInv, Recorded, FromScratch, Ahead, Latest, Streaming, NoNodePassedOver, watchVars
<1>2. TypeOK'
  <2>1. /\ file' \in [Nodes -> Version] /\ rPc' \in {"idle", "list", "write"}
        /\ expected' \subseteq Nodes /\ snap' \in [Nodes -> Version]
        /\ todo' \subseteq {n \in Nodes : snap'[n] # 0}
    <3>. USE BoundAssumption DEF IInv, TypeOK, Version
    <3>1. CASE RListFiles
      BY <3>1 DEF RListFiles
    <3>2. CASE RListNodes
      BY <3>2 DEF RListNodes
    <3>3. CASE RDone \/ RListFails \/ RCrash
      BY <3>3 DEF RDone, RListFails, RCrash, RIdle
    <3>4. CASE \E n \in Nodes : RWriteFile(n)
      BY <3>4 DEF RWriteFile
    <3>5. CASE \E n \in Nodes : RUnlinkStale(n)
      BY <3>5 DEF RUnlinkStale
    <3>. QED  BY <3>1, <3>2, <3>3, <3>4, <3>5 DEF RStep
  <2>. QED  BY <1>0, <2>1 DEF IInv, TypeOK, watchVars
<1>3. Used'
  <2>0. \A n : ChangesOf(n)' = ChangesOf(n)
    BY <1>0, LogStays
  <2>. USE <1>0, <2>0 DEF IInv, Used, TypeOK
  <2>1. CASE RListFiles
    BY <2>1 DEF RListFiles
  <2>2. CASE RListNodes
    BY <2>2 DEF RListNodes, Recorded
  <2>3. CASE RDone \/ RListFails \/ RCrash
    BY <2>3 DEF RDone, RListFails, RCrash, RIdle
  <2>4. ASSUME NEW n \in Nodes, RWriteFile(n) PROVE Used'
    BY <2>4 DEF RWriteFile
  <2>5. ASSUME NEW n \in Nodes, RUnlinkStale(n) PROVE Used'
    BY <2>5 DEF RUnlinkStale
  <2>. QED  BY <2>1, <2>2, <2>3, <2>4, <2>5 DEF RStep
<1>. QED  BY <1>1, <1>2, <1>3 DEF IInv

-----------------------------------------------------------------------------
LEMMA Inductive == IInv /\ [Next]_vars => IInv'
<1>. SUFFICES ASSUME IInv, [Next]_vars PROVE IInv'
  OBVIOUS
<1>1. ASSUME NEW n \in Nodes, NEW kind \in {"added", "modified", "deleted"},
             NodeChanges(n, kind)
      PROVE  IInv'
  BY <1>1, ClusterChanges
<1>2. CASE Compact
  BY <1>2, CompactKeeps
<1>3. CASE WStep \/ WStreamEnds \/ WError \/ WCrash
  BY <1>3, WatcherKeeps
<1>4. CASE RStep \/ RListFails \/ RCrash
  BY <1>4, RefreshKeeps
<1>5. CASE UNCHANGED vars
  BY <1>5, LogStays
     DEF vars, clusterVars, watchVars, refreshVars, IInv, TypeOK, Recorded,
         FromScratch, Ahead, Latest, Streaming, NoNodePassedOver, Used
<1>. QED  BY <1>1, <1>2, <1>3, <1>4, <1>5 DEF Next

LEMMA Invariance == Spec => []IInv
<1>1. Init => IInv
  BY Initially
<1>2. IInv /\ [Next]_vars => IInv'
  BY Inductive
<1>. QED  BY <1>1, <1>2, PTL DEF Spec

(***************************************************************************)
(* The state of the watcher, of the refresh and of the files is always     *)
(* well typed (k8sutils._watch_events, hfcron.RefreshNodesTask).           *)
(***************************************************************************)
THEOREM TypeCorrect == Spec => []TypeOK
<1>1. IInv => TypeOK
  BY DEF IInv
<1>. QED  BY <1>1, Invariance, PTL

(***************************************************************************)
(* The watcher passes no node over, whatever ends its streams and wherever *)
(* Kubernetes starts the next: no resource version but "0" ever opens one, *)
(* as one that a 410 has returned is answered by another                   *)
(* (k8sutils._watch_events).                                               *)
(***************************************************************************)
THEOREM NoNodePassedOverAlways == Spec => []NoNodePassedOver
<1>1. IInv => NoNodePassedOver
  BY DEF IInv
<1>. QED  BY <1>1, Invariance, PTL

(***************************************************************************)
(* The refresh takes the file of a node that is there away only where the  *)
(* name was used and given up before (hfcron.RefreshNodesTask).            *)
(***************************************************************************)
THEOREM NewNodeKeepsFileAlways == Spec => NewNodeKeepsFile
<1>. DEFINE Kept ==
       \A n \in Nodes :
          /\ rPc = "write" /\ UNCHANGED watchVars
          /\ file[n] # 0 /\ file'[n] = 0
          /\ there[n] # 0
          => \E v \in ChangesOf(n) : log[v].kind = "deleted"
<1>1. IInv /\ [Next]_vars => Kept
  <2>. SUFFICES ASSUME IInv, [Next]_vars, NEW n \in Nodes,
                       rPc = "write", UNCHANGED watchVars, file[n] # 0, file'[n] = 0
                PROVE  \E v \in ChangesOf(n) : log[v].kind = "deleted"
    OBVIOUS
  <2>1. ~WHandle
    BY DEF WHandle, watchVars
  <2>2. \E m \in Nodes : RWriteFile(m) \/ RUnlinkStale(m)
    BY <2>1
       DEF Next, vars, NodeChanges, Compact, WStep, WStart, WOpen, WTakeEvent, WGone,
           WStreamEnds, WError, WCrash, RStep, RListFiles, RListNodes, RDone,
           RListFails, RCrash
  <2>3. PICK m \in Nodes : RWriteFile(m) \/ RUnlinkStale(m)
    BY <2>2
  <2>4. RUnlinkStale(n)
    BY <2>3 DEF RWriteFile, RUnlinkStale, IInv, TypeOK
  <2>. QED  BY <2>4 DEF RUnlinkStale, Stale, IInv, Used
<1>2. [][Kept]_vars => NewNodeKeepsFile
  BY DEF NewNodeKeepsFile
<1>. QED  BY <1>1, <1>2, Invariance, PTL DEF Spec

=============================================================================
