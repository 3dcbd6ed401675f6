------------------------- MODULE ProvisioningProofs -------------------------
(***************************************************************************)
(* For any requests, return requests, machines, phases and faults.  The    *)
(* first part, with and without the clean-up task: a request marked        *)
(* .processed had each of its pods created, no pod is untracked, and the   *)
(* request side implements RequestQueue.  The later parts, with their own  *)
(* invariants, are about the end of a machine (DInv), about what no longer *)
(* overwrites "deleted" (OInv) and about the moves of a status (SInv).     *)
(*                                                                         *)
(* None of the first three is inductive.  What is missing is why the       *)
(* request watcher may act as it does: a link exists only with a status    *)
(* (Written), a published request has all its links (Whole), a flipped     *)
(* link is one of a created pod (Flipped), and each machine of the request *)
(* being served is left, in hand or flipped (Serving).                     *)
(***************************************************************************)
EXTENDS Provisioning, TLAPS

Written == \A m \in Machines : link[m] # "none" => status[m] # NoStatus

Whole ==
    \A m \in Machines : api[RequestOf[m]] = "published" => link[m] # "none"

Flipped ==
    \A m \in Machines :
        link[m] = "file" => api[RequestOf[m]] = "published" /\ creates[m] >= 1

Serving ==
    /\ rwTodo \subseteq PublishedRequests
    /\ rwCur = NoId => rwLeft = {} /\ rwMade = NoId
    /\ rwCur # NoId =>
         /\ rwCur \in PublishedRequests
         /\ rwLeft \subseteq MachinesOf(rwCur)
         /\ rwMade # NoId => rwMade \in MachinesOf(rwCur) /\ creates[rwMade] >= 1
         /\ \A m \in MachinesOf(rwCur) : m \in rwLeft \/ m = rwMade \/ link[m] = "file"

Done == reqDone \subseteq PublishedRequests /\ ProcessedIsCreated

IInv ==
    /\ TypeOK
    /\ Written
    /\ Whole
    /\ Flipped
    /\ Serving
    /\ Done
    /\ NoUntrackedPod

-----------------------------------------------------------------------------
(* Type correctness: of each action, the parts that it changes.            *)

\* What is left alone keeps its type.
LEMMA Untouched ==
    /\ DiskOK /\ UNCHANGED diskVars => DiskOK'
    /\ KubeOK /\ UNCHANGED kubeVars => KubeOK'
    /\ RwOK /\ UNCHANGED rwVars => RwOK'
    /\ TwOK /\ UNCHANGED twVars => TwOK'
    /\ PwOK /\ UNCHANGED pwVars => PwOK'
    /\ CronOK /\ UNCHANGED cronVars => CronOK'
<1>1. DiskOK /\ UNCHANGED diskVars => DiskOK'
  BY DEF DiskOK, diskVars
<1>2. KubeOK /\ UNCHANGED kubeVars => KubeOK'
  BY DEF KubeOK, kubeVars
<1>3. RwOK /\ UNCHANGED rwVars => RwOK'
  BY DEF RwOK, rwVars
<1>4. TwOK /\ UNCHANGED twVars => TwOK'
  BY DEF TwOK, twVars
<1>5. PwOK /\ UNCHANGED pwVars => PwOK'
  BY DEF PwOK, pwVars
<1>6. CronOK /\ UNCHANGED cronVars => CronOK'
  BY DEF CronOK, cronVars
<1> QED
  BY <1>1, <1>2, <1>3, <1>4, <1>5, <1>6

LEMMA FaultType ==
    ASSUME TypeOK, NEW kind, Fault(kind) PROVE faults' \in 0..MaxFaults
BY BoundAssumption DEF Fault, TypeOK

\* A watch event keeps the streams streams of events.
LEMMA EmitType ==
    ASSUME KubeOK, NEW m \in Machines, NEW e \in Event, Emit(m, e)
    PROVE  stream' \in [Machines -> Seq(Event)]
<1>1. stream \in [Machines -> Seq(Event)] /\ stream[m] \in Seq(Event)
  BY DEF KubeOK
<1>2. Append(stream[m], e) \in Seq(Event)
  BY <1>1
<1> QED
  BY <1>1, <1>2 DEF Emit

\* So does the deletion of a pod.
LEMMA DeletePodType ==
    ASSUME KubeOK, NEW m \in Machines, DeletePod(m), UNCHANGED <<pod, creates, missed>>
    PROVE  KubeOK'
<1>1. CASE pod[m] # "absent" /\ m \notin dying
  <2>1. pod[m] \in Event
    BY <1>1 DEF KubeOK, Event
  <2>2. stream' \in [Machines -> Seq(Event)]
    BY <1>1, <2>1, EmitType DEF DeletePod
  <2> QED
    BY <1>1, <2>2 DEF DeletePod, KubeOK
<1>2. CASE ~(pod[m] # "absent" /\ m \notin dying)
  BY <1>2 DEF DeletePod, KubeOK
<1> QED
  BY <1>1, <1>2

\* Symphony's calls.
LEMMA ApiType ==
    ASSUME TypeOK, SymphonyStep \/ ApiStep \/ (\E r \in Requests : ApiDies(r))
    PROVE  TypeOK'
<1> USE DEF TypeOK
<1>1. ASSUME NEW r \in Requests, RequestMachines(r) PROVE TypeOK'
  <2>1. DiskOK'
    BY <1>1 DEF RequestMachines, DiskOK
  <2> QED
    BY <1>1, <2>1, Untouched DEF RequestMachines
<1>2. ASSUME NEW t \in Returns, NEW machines \in SUBSET Machines,
             ReturnMachines(t, machines)
      PROVE  TypeOK'
  <2>1. DiskOK'
    BY <1>2 DEF ReturnMachines, DiskOK
  <2>2. TwOK'
    BY <1>2 DEF ReturnMachines, TwOK
  <2> QED
    BY <1>2, <2>1, <2>2, Untouched DEF ReturnMachines
<1>3. ASSUME NEW m \in Machines, WriteStatus(m) \/ LinkMachine(m) PROVE TypeOK'
  <2>1. DiskOK'
    BY <1>3 DEF WriteStatus, LinkMachine, DiskOK, StatusLink, PodStatus
  <2> QED
    BY <1>3, <2>1, Untouched DEF WriteStatus, LinkMachine
<1>4. ASSUME NEW r \in Requests, PublishRequest(r) PROVE TypeOK'
  <2>1. DiskOK'
    BY <1>4 DEF PublishRequest, DiskOK
  <2>2. RwOK'
    BY <1>4 DEF PublishRequest, RwOK
  <2> QED
    BY <1>4, <2>1, <2>2, Untouched DEF PublishRequest
<1>5. ASSUME NEW r \in Requests, ApiDies(r) PROVE TypeOK'
  <2>1. DiskOK'
    BY <1>5 DEF ApiDies, DiskOK
  <2> QED
    BY <1>5, <2>1, FaultType, Untouched DEF ApiDies
<1> QED
  BY <1>1, <1>2, <1>3, <1>4, <1>5 DEF SymphonyStep, ApiStep

\* The cluster.
LEMMA KubeType == ASSUME TypeOK, KubeStep PROVE TypeOK'
<1> USE DEF TypeOK
<1>1. ASSUME NEW m \in Machines, PodChangesPhase(m) PROVE TypeOK'
  <2>1. PICK p \in Phases : pod' = [pod EXCEPT ![m] = p] /\ Emit(m, p)
    BY <1>1 DEF PodChangesPhase
  <2>2. p \in Phase /\ p \in Event
    BY PhasesAssumption DEF Event
  <2>3. stream' \in [Machines -> Seq(Event)]
    BY <2>1, <2>2, EmitType
  <2>4. KubeOK'
    BY <1>1, <2>1, <2>2, <2>3 DEF PodChangesPhase, KubeOK
  <2> QED
    BY <1>1, <2>4, Untouched DEF PodChangesPhase
<1>2. ASSUME NEW m \in Machines, PodRemoved(m) PROVE TypeOK'
  <2>1. stream' \in [Machines -> Seq(Event)]
    BY <1>2, EmitType DEF PodRemoved, Event
  <2>2. KubeOK'
    BY <1>2, <2>1 DEF PodRemoved, KubeOK
  <2> QED
    BY <1>2, <2>2, Untouched DEF PodRemoved
<1>3. ASSUME NEW m \in Machines, PodEvicted(m) PROVE TypeOK'
  <2>1. KubeOK'
    BY <1>3, DeletePodType DEF PodEvicted
  <2> QED
    BY <1>3, <2>1, FaultType, Untouched DEF PodEvicted
<1>4. ASSUME NEW m \in Machines, PodModified(m) PROVE TypeOK'
  <2>1. pod[m] \in Event
    BY <1>4 DEF PodModified, KubeOK, Event
  <2>2. stream' \in [Machines -> Seq(Event)]
    BY <1>4, <2>1, EmitType DEF PodModified
  <2>3. KubeOK'
    BY <1>4, <2>2 DEF PodModified, KubeOK
  <2> QED
    BY <1>4, <2>3, Untouched DEF PodModified
<1> QED
  BY <1>1, <1>2, <1>3, <1>4 DEF KubeStep

\* The request-machines watcher.
LEMMA RwType == ASSUME TypeOK, RwStep \/ RwCrash PROVE TypeOK'
<1> USE DEF TypeOK
<1>1. ASSUME DiskOK', KubeOK', RwOK', RwUnchanged, faults' \in 0..MaxFaults
      PROVE  TypeOK'
  BY <1>1, Untouched DEF RwUnchanged
<1>2. ASSUME RwUnchanged, UNCHANGED <<link, reqDone>> PROVE DiskOK'
  BY <1>2 DEF RwUnchanged, DiskOK
<1>3. CASE RwStart
  <2>1. RwOK'
    BY <1>3 DEF RwStart, RwOK, DiskOK, PublishedRequests
  <2> QED
    BY <1>1, <1>2, <1>3, <2>1, Untouched DEF RwStart
<1>4. CASE RwAddWatch
  <2>1. RwOK'
    BY <1>4 DEF RwAddWatch, RwOK
  <2> QED
    BY <1>1, <1>2, <1>4, <2>1, Untouched DEF RwAddWatch
<1>5. ASSUME NEW r \in Requests, RwPick(r) PROVE TypeOK'
  <2>1. RwOK'
    BY <1>5 DEF RwPick, RwOK, MachinesOf
  <2> QED
    BY <1>1, <1>2, <1>5, <2>1, Untouched DEF RwPick
<1>6. ASSUME NEW m \in Machines, RwSkip(m) PROVE TypeOK'
  <2>1. RwOK'
    BY <1>6 DEF RwSkip, RwOK
  <2> QED
    BY <1>1, <1>2, <1>6, <2>1, Untouched DEF RwSkip
<1>7. ASSUME NEW m \in Machines, RwCreatePod(m) PROVE TypeOK'
  <2>1. "pending" \in Phase /\ "pending" \in Event
    BY DEF Phase, Event
  <2>2. stream' \in [Machines -> Seq(Event)]
    BY <1>7, <2>1, EmitType DEF RwCreatePod
  <2>3. KubeOK'
    <3>1. pod' \in [Machines -> Phase \cup {"absent"}]
      BY <1>7, <2>1 DEF RwCreatePod, KubeOK
    <3>2. creates' \in [Machines -> Nat]
      BY <1>7 DEF RwCreatePod, KubeOK
    <3> QED
      BY <1>7, <2>2, <3>1, <3>2 DEF RwCreatePod, KubeOK
  <2>4. RwOK'
    BY <1>7 DEF RwCreatePod, RwOK
  <2> QED
    BY <1>1, <1>2, <1>7, <2>3, <2>4 DEF RwCreatePod
<1>8. CASE RwFlip
  <2>1. DiskOK'
    BY <1>8 DEF RwFlip, RwUnchanged, DiskOK
  <2>2. RwOK'
    BY <1>8 DEF RwFlip, RwOK
  <2> QED
    BY <1>1, <1>8, <2>1, <2>2, Untouched DEF RwFlip
<1>9. CASE RwMarkProcessed
  <2>1. DiskOK'
    BY <1>9 DEF RwMarkProcessed, RwUnchanged, RwOK, DiskOK
  <2>2. RwOK'
    BY <1>9 DEF RwMarkProcessed, RwOK
  <2> QED
    BY <1>1, <1>9, <2>1, <2>2, Untouched DEF RwMarkProcessed
<1>10. ASSUME RwDies, faults' \in 0..MaxFaults PROVE TypeOK'
  <2>1. RwOK'
    BY <1>10 DEF RwDies, RwOK
  <2> QED
    BY <1>1, <1>2, <1>10, <2>1, Untouched DEF RwDies
<1>11. ASSUME NEW m \in Machines, RwConflict(m) PROVE TypeOK'
  BY <1>10, <1>11 DEF RwConflict
<1>12. CASE RwCrash
  BY <1>10, <1>12, FaultType DEF RwCrash
<1> QED
  BY <1>3, <1>4, <1>5, <1>6, <1>7, <1>8, <1>9, <1>11, <1>12 DEF RwStep

\* The request-return-machines watcher.
LEMMA TwType == ASSUME TypeOK, TwStep \/ TwCrash PROVE TypeOK'
<1> USE DEF TypeOK
<1>1. ASSUME TwUnchanged, DiskOK', KubeOK', TwOK', faults' \in 0..MaxFaults
      PROVE  TypeOK'
  BY <1>1, Untouched DEF TwUnchanged
<1>2. ASSUME TwUnchanged, UNCHANGED retDone PROVE DiskOK'
  BY <1>2 DEF TwUnchanged, DiskOK
<1>3. ASSUME TwUnchanged, UNCHANGED <<dying, stream>> PROVE KubeOK'
  BY <1>3 DEF TwUnchanged, KubeOK
<1>4. CASE TwStart
  <2>1. TwOK'
    BY <1>4 DEF TwStart, TwOK, PublishedReturns
  <2> QED
    BY <1>1, <1>2, <1>3, <1>4, <2>1 DEF TwStart
<1>5. CASE TwAddWatch
  <2>1. TwOK'
    BY <1>5 DEF TwAddWatch, TwOK
  <2> QED
    BY <1>1, <1>2, <1>3, <1>5, <2>1 DEF TwAddWatch
<1>6. ASSUME NEW t \in Returns, TwPick(t) PROVE TypeOK'
  <2>1. TwOK'
    BY <1>6 DEF TwPick, TwOK, DiskOK
  <2> QED
    BY <1>1, <1>2, <1>3, <1>6, <2>1 DEF TwPick
<1>7. ASSUME NEW m \in Machines, TwReadStatus(m) PROVE TypeOK'
  <2>1. TwOK'
    BY <1>7 DEF TwReadStatus, TwOK
  <2> QED
    BY <1>1, <1>2, <1>3, <1>7, <2>1 DEF TwReadStatus
<1>8. CASE TwDeletePod
  <2>1. twDel \in Machines
    BY <1>8 DEF TwDeletePod, TwOK
  <2>2. KubeOK'
    BY <1>8, <2>1, DeletePodType DEF TwDeletePod, TwUnchanged
  <2>3. TwOK'
    BY <1>8 DEF TwDeletePod, TwOK
  <2> QED
    BY <1>1, <1>2, <1>8, <2>2, <2>3 DEF TwDeletePod
<1>9. CASE TwMarkProcessed
  <2>1. DiskOK'
    BY <1>9 DEF TwMarkProcessed, TwUnchanged, TwOK, DiskOK
  <2>2. TwOK'
    BY <1>9 DEF TwMarkProcessed, TwOK
  <2> QED
    BY <1>1, <1>3, <1>9, <2>1, <2>2 DEF TwMarkProcessed
<1>10. CASE TwCrash
  <2>1. TwOK'
    BY <1>10 DEF TwCrash, TwOK
  <2> QED
    BY <1>1, <1>2, <1>3, <1>10, <2>1, FaultType DEF TwCrash
<1> QED
  BY <1>4, <1>5, <1>6, <1>7, <1>8, <1>9, <1>10 DEF TwStep

\* The pod watcher.
LEMMA PwType == ASSUME TypeOK, PwStep \/ PwStreamEnds \/ PwCrash PROVE TypeOK'
<1> USE DEF TypeOK
<1>1. ASSUME UNCHANGED PwElsewhere, DiskOK', KubeOK', PwOK', faults' \in 0..MaxFaults
      PROVE  TypeOK'
  BY <1>1, Untouched DEF PwElsewhere
<1>2. ASSUME UNCHANGED <<PwElsewhere, podFile>>, status' \in [Machines -> StatusLink],
             old' \subseteq old
      PROVE  DiskOK'
  BY <1>2 DEF PwElsewhere, DiskOK
<1>3. ASSUME UNCHANGED <<PwElsewhere, missed>>, stream' \in [Machines -> Seq(Event)]
      PROVE  KubeOK'
  BY <1>3 DEF PwElsewhere, KubeOK
<1>4. /\ stream \in [Machines -> Seq(Event)] /\ status \in [Machines -> StatusLink]
      /\ pwStep # "idle" => pwM \in Machines
  BY DEF KubeOK, DiskOK, PwOK
<1>5. CASE PwConnect
  <2>1. \A m \in Machines : pod[m] # "absent" => <<pod[m]>> \in Seq(Event)
    BY DEF KubeOK, Event
  <2>2. <<>> \in Seq(Event)
    OBVIOUS
  <2>3. stream' \in [Machines -> Seq(Event)]
    BY <1>5, <2>1, <2>2 DEF PwConnect
  <2>4. PwOK'
    BY <1>5 DEF PwConnect, PwOK
  <2> QED
    BY <1>1, <1>2, <1>3, <1>4, <1>5, <2>3, <2>4 DEF PwConnect, PwUnchanged
<1>6. ASSUME NEW m \in Machines, PwTakeEvent(m) PROVE TypeOK'
  <2>1. stream[m] \in Seq(Event) /\ stream[m] # <<>>
    BY <1>4, <1>6 DEF PwTakeEvent
  <2>2. Head(stream[m]) \in Event /\ Tail(stream[m]) \in Seq(Event)
    BY <2>1
  <2>3. stream' \in [Machines -> Seq(Event)]
    BY <1>4, <1>6, <2>2 DEF PwTakeEvent
  <2>4. Head(stream[m]) # "deleted" => Head(stream[m]) \in Phase
    BY <2>2 DEF Event
  <2>5. PwOK'
    BY <1>6, <2>2, <2>4 DEF PwTakeEvent, PwOK
  <2>6. DiskOK'
    BY <1>6 DEF PwTakeEvent, PwUnchanged, PwElsewhere, DiskOK
  <2> QED
    BY <1>1, <1>3, <1>6, <2>3, <2>5, <2>6 DEF PwTakeEvent, PwUnchanged
<1>7. CASE PwMarkDeleted
  <2>1. status' \in [Machines -> StatusLink]
    BY <1>4, <1>7 DEF PwMarkDeleted, StatusLink, PodStatus
  <2>2. PwOK'
    BY <1>7 DEF PwMarkDeleted, PwOK
  <2> QED
    BY <1>1, <1>2, <1>3, <1>4, <1>7, <2>1, <2>2 DEF PwMarkDeleted, PwUnchanged
<1>8. CASE PwCheckStatus
  <2>1. PwOK'
    BY <1>8 DEF PwCheckStatus, PwOK
  <2> QED
    BY <1>1, <1>2, <1>3, <1>4, <1>8, <2>1 DEF PwCheckStatus, PwUnchanged
<1>9. CASE PwWriteStatus
  <2>1. pwEv \in StatusLink
    BY <1>9 DEF PwWriteStatus, PwOK, StatusLink, PodStatus
  <2>2. status' \in [Machines -> StatusLink]
    BY <1>4, <1>9, <2>1 DEF PwWriteStatus
  <2>3. PwOK'
    BY <1>9 DEF PwWriteStatus, PwOK
  <2> QED
    BY <1>1, <1>2, <1>3, <1>4, <1>9, <2>2, <2>3 DEF PwWriteStatus, PwUnchanged
<1>10. ASSUME PwStops, faults' \in 0..MaxFaults PROVE TypeOK'
  <2>1. <<>> \in Seq(Event)
    OBVIOUS
  <2>2. stream' \in [Machines -> Seq(Event)]
    BY <1>10, <2>1 DEF PwStops
  <2>3. missed' \subseteq Machines
    BY <1>10 DEF PwStops, PwLoses, KubeOK, PwOK
  <2>4. KubeOK'
    BY <1>10, <2>2, <2>3 DEF PwStops, PwElsewhere, KubeOK
  <2>5. PwOK'
    BY <1>10 DEF PwStops, PwOK
  <2> QED
    BY <1>1, <1>2, <1>4, <1>10, <2>4, <2>5 DEF PwStops
<1>11. CASE PwStreamEnds
  BY <1>10, <1>11, FaultType DEF PwStreamEnds
<1>12. CASE PwCrash
  BY <1>10, <1>12, FaultType DEF PwCrash
<1> QED
  BY <1>5, <1>6, <1>7, <1>8, <1>9, <1>11, <1>12 DEF PwStep

\* The clean-up task.
LEMMA CronType ==
    ASSUME TypeOK,
           CronStep \/ CronDeleteFails \/ CronCrash \/ \E m \in Machines : LinkAges(m)
    PROVE  TypeOK'
<1> USE DEF TypeOK
<1>1. ASSUME CronUnchanged, status' \in [Machines -> StatusLink], old' \subseteq Machines,
             KubeOK', CronOK', faults' \in 0..MaxFaults
      PROVE  TypeOK'
  <2>1. DiskOK'
    BY <1>1 DEF CronUnchanged, DiskOK
  <2> QED
    BY <1>1, <2>1, Untouched DEF CronUnchanged
<1>2. ASSUME CronUnchanged, UNCHANGED <<dying, stream>> PROVE KubeOK'
  BY <1>2 DEF CronUnchanged, KubeOK
<1>3. /\ status \in [Machines -> StatusLink] /\ old \subseteq Machines
      /\ cronStep # "idle" => cronM \in Machines
  BY DEF DiskOK, CronOK
<1>4. ASSUME NEW m \in Machines, CronReadsAge(m) PROVE TypeOK'
  <2>1. CronOK'
    BY <1>4 DEF CronReadsAge, CronOK
  <2> QED
    BY <1>1, <1>2, <1>3, <1>4, <2>1 DEF CronReadsAge
<1>10. CASE CronReadsTarget
  <2>1. CronOK'
    BY <1>10 DEF CronReadsTarget, CronOK
  <2> QED
    BY <1>1, <1>2, <1>3, <1>10, <2>1 DEF CronReadsTarget
<1>5. CASE CronDeletesPod
  <2>1. KubeOK'
    BY <1>3, <1>5, DeletePodType DEF CronDeletesPod, CronUnchanged
  <2>2. CronOK'
    BY <1>5 DEF CronDeletesPod, CronOK
  <2> QED
    BY <1>1, <1>3, <1>5, <2>1, <2>2 DEF CronDeletesPod
<1>6. CASE CronMarksDeleted
  <2>1. status' \in [Machines -> StatusLink]
    BY <1>3, <1>6 DEF CronMarksDeleted, StatusLink, PodStatus
  <2>2. CronOK'
    BY <1>6 DEF CronMarksDeleted, CronOK
  <2> QED
    BY <1>1, <1>2, <1>3, <1>6, <2>1, <2>2 DEF CronMarksDeleted
<1>7. CASE CronDeleteFails
  <2>1. CronOK'
    BY <1>7 DEF CronDeleteFails, CronOK
  <2> QED
    BY <1>1, <1>2, <1>3, <1>7, <2>1, FaultType DEF CronDeleteFails
<1>8. CASE CronCrash
  <2>1. CronOK'
    BY <1>8 DEF CronCrash, CronOK
  <2> QED
    BY <1>1, <1>2, <1>3, <1>8, <2>1, FaultType DEF CronCrash
<1>9. ASSUME NEW m \in Machines, LinkAges(m) PROVE TypeOK'
  <2>1. CronOK'
    BY <1>9 DEF LinkAges, CronOK, cronVars
  <2> QED
    BY <1>1, <1>2, <1>3, <1>9, <2>1 DEF LinkAges
<1> QED
  BY <1>4, <1>5, <1>6, <1>7, <1>8, <1>9, <1>10 DEF CronStep

\* Every step keeps the type invariant.
LEMMA TypeStep == TypeOK /\ [Next]_vars => TypeOK'
<1> SUFFICES ASSUME TypeOK, [Next]_vars PROVE TypeOK'
  OBVIOUS
<1>1. CASE UNCHANGED vars
  BY <1>1, Untouched DEF vars, TypeOK
<1> QED
  BY <1>1, ApiType, KubeType, RwType, TwType, PwType, CronType DEF Next, FaultStep
-----------------------------------------------------------------------------
(* The inductive invariant.                                                *)

LEMMA InitInv == Init => IInv
<1> SUFFICES ASSUME Init PROVE IInv
  OBVIOUS
<1> USE RequestOfAssumption, NoIdAssumption, BoundAssumption DEF Init
<1>1. DiskOK
  BY DEF DiskOK, StatusLink
<1>2. KubeOK
  BY DEF KubeOK
<1>3. RwOK /\ TwOK /\ PwOK /\ CronOK
  BY DEF RwOK, TwOK, PwOK, CronOK, Event
<1>4. Written /\ Whole /\ Flipped /\ Serving /\ Done /\ NoUntrackedPod
  BY DEF Written, Whole, Flipped, Serving, Done, NoUntrackedPod, ProcessedIsCreated,
         PublishedRequests
<1> QED
  BY <1>1, <1>2, <1>3, <1>4 DEF IInv, TypeOK

\* A step that leaves requests, links and the request watcher alone, takes away
\* no status and creates no pod keeps the invariant.
Quiet ==
    /\ UNCHANGED <<api, link, reqDone, creates, rwVars>>
    /\ \A m \in Machines : status'[m] = NoStatus => status[m] = NoStatus
    /\ \A m \in Machines : pod'[m] # "absent" => pod[m] # "absent"

LEMMA QuietStep == IInv /\ TypeOK' /\ Quiet => IInv'
<1> SUFFICES ASSUME IInv, TypeOK', Quiet PROVE IInv'
  OBVIOUS
<1>1. Written' /\ Whole' /\ Flipped' /\ NoUntrackedPod'
  BY DEF IInv, Quiet, Written, Whole, Flipped, NoUntrackedPod
<1>2. Serving'
  BY DEF IInv, Quiet, Serving, rwVars, PublishedRequests, MachinesOf
<1>3. Done'
  BY DEF IInv, Quiet, Done, ProcessedIsCreated, PublishedRequests
<1> QED
  BY <1>1, <1>2, <1>3 DEF IInv

\* Symphony asks for machines.
LEMMA RequestMachinesStep ==
    ASSUME IInv, TypeOK', NEW r \in Requests, RequestMachines(r)
    PROVE  IInv'
<1>1. /\ api[r] = "idle" /\ api' = [api EXCEPT ![r] = "writing"]
      /\ UNCHANGED <<link, status, reqDone, pod, creates, rwVars>>
  BY DEF RequestMachines, kubeVars
<1>2. \A q \in Requests : api'[q] = "published" <=> api[q] = "published"
  BY <1>1 DEF IInv, TypeOK, DiskOK
<1>3. \A m \in Machines : RequestOf[m] \in Requests
  BY RequestOfAssumption
<1>4. Written' /\ Whole' /\ Flipped' /\ NoUntrackedPod'
  BY <1>1, <1>2, <1>3 DEF IInv, Written, Whole, Flipped, NoUntrackedPod
<1>5. Serving'
  BY <1>1, <1>2 DEF IInv, Serving, rwVars, PublishedRequests, MachinesOf
<1>6. Done'
  BY <1>1, <1>2 DEF IInv, Done, ProcessedIsCreated, PublishedRequests
<1> QED
  BY <1>4, <1>5, <1>6 DEF IInv

\* A machine gets its status, of which nothing depends yet ...
LEMMA WriteStatusStep ==
    ASSUME IInv, TypeOK', NEW m \in Machines, WriteStatus(m)
    PROVE  IInv'
<1>1. /\ status' = [status EXCEPT ![m] = "creating"]
      /\ UNCHANGED <<api, link, reqDone, pod, creates, rwVars>>
  BY DEF WriteStatus, kubeVars
<1>2. status \in [Machines -> StatusLink]
  BY DEF IInv, TypeOK, DiskOK
<1>3. Quiet
  BY <1>1, <1>2 DEF Quiet, NoStatus
<1> QED
  BY <1>3, QuietStep

\* ... and its link, in a hidden directory.
LEMMA LinkMachineStep ==
    ASSUME IInv, TypeOK', NEW m \in Machines, LinkMachine(m)
    PROVE  IInv'
<1>1. /\ api[RequestOf[m]] = "writing" /\ link[m] = "none" /\ status[m] # NoStatus
      /\ link' = [link EXCEPT ![m] = "symlink"]
      /\ UNCHANGED <<api, status, reqDone, pod, creates, rwVars>>
  BY DEF LinkMachine, kubeVars
<1>2. link \in [Machines -> {"none", "symlink", "file"}]
  BY DEF IInv, TypeOK, DiskOK
<1>3. Written' /\ NoUntrackedPod'
  BY <1>1, <1>2 DEF IInv, Written, NoUntrackedPod
<1>4. Whole' /\ Flipped'
  BY <1>1, <1>2 DEF IInv, Whole, Flipped
<1>5. \A n \in Machines : link[n] = "file" => link'[n] = "file"
  BY <1>1, <1>2
<1>6. Serving'
  BY <1>1, <1>5 DEF IInv, Serving, rwVars, PublishedRequests, MachinesOf
<1>7. Done'
  BY <1>1, <1>5 DEF IInv, Done, ProcessedIsCreated, PublishedRequests
<1> QED
  BY <1>3, <1>4, <1>6, <1>7 DEF IInv

\* A request is published: its machines have their links.
LEMMA PublishRequestStep ==
    ASSUME IInv, TypeOK', NEW r \in Requests, PublishRequest(r)
    PROVE  IInv'
<1>1. /\ \A m \in MachinesOf(r) : link[m] # "none"
      /\ api' = [api EXCEPT ![r] = "published"]
      /\ rwTodo' \subseteq rwTodo \cup {r}
      /\ UNCHANGED <<link, status, reqDone, pod, creates, rwCur, rwLeft, rwMade>>
  BY DEF PublishRequest, kubeVars
<1>2. /\ api'[r] = "published"
      /\ \A q \in Requests : q # r => api'[q] = api[q]
  BY <1>1 DEF IInv, TypeOK, DiskOK
<1>3. PublishedRequests' = PublishedRequests \cup {r}
  BY <1>2 DEF PublishedRequests
<1>4. \A m \in Machines : RequestOf[m] \in Requests
  BY RequestOfAssumption
<1>5. Written' /\ Flipped' /\ NoUntrackedPod'
  BY <1>1, <1>2, <1>4 DEF IInv, Written, Flipped, NoUntrackedPod
<1>6. Whole'
  BY <1>1, <1>2, <1>4 DEF IInv, Whole, MachinesOf
<1>7. Serving'
  BY <1>1, <1>3 DEF IInv, Serving, MachinesOf
<1>8. Done'
  BY <1>1, <1>3 DEF IInv, Done, ProcessedIsCreated
<1> QED
  BY <1>5, <1>6, <1>7, <1>8 DEF IInv

\* The caller dies before it published.
LEMMA ApiDiesStep ==
    ASSUME IInv, TypeOK', NEW r \in Requests, ApiDies(r)
    PROVE  IInv'
<1>1. /\ api[r] = "writing" /\ api' = [api EXCEPT ![r] = "dead"]
      /\ UNCHANGED <<link, status, reqDone, pod, creates, rwVars>>
  BY DEF ApiDies, kubeVars
<1>2. \A q \in Requests : api'[q] = "published" <=> api[q] = "published"
  BY <1>1 DEF IInv, TypeOK, DiskOK
<1>3. \A m \in Machines : RequestOf[m] \in Requests
  BY RequestOfAssumption
<1>4. Written' /\ Whole' /\ Flipped' /\ NoUntrackedPod'
  BY <1>1, <1>2, <1>3 DEF IInv, Written, Whole, Flipped, NoUntrackedPod
<1>5. Serving'
  BY <1>1, <1>2 DEF IInv, Serving, rwVars, PublishedRequests, MachinesOf
<1>6. Done'
  BY <1>1, <1>2 DEF IInv, Done, ProcessedIsCreated, PublishedRequests
<1> QED
  BY <1>4, <1>5, <1>6 DEF IInv

\* A return request is published.
LEMMA ReturnMachinesStep ==
    ASSUME IInv, TypeOK', NEW t \in Returns, NEW machines \in SUBSET Machines,
           ReturnMachines(t, machines)
    PROVE  IInv'
<1>1. UNCHANGED <<api, link, status, reqDone, pod, creates, rwVars>>
  BY DEF ReturnMachines, kubeVars
<1>2. Quiet
  BY <1>1 DEF Quiet
<1> QED
  BY <1>2, QuietStep

\* The cluster changes or removes pods, never creates one.
LEMMA KubeInv == ASSUME IInv, TypeOK', KubeStep PROVE IInv'
<1>1. ASSUME NEW m \in Machines, PodChangesPhase(m) PROVE Quiet
  <2>1. /\ UNCHANGED <<api, link, status, reqDone, creates, rwVars>>
        /\ pod[m] # "absent"
        /\ \E p \in Phases : pod' = [pod EXCEPT ![m] = p]
    BY <1>1 DEF PodChangesPhase, diskVars
  <2>2. pod \in [Machines -> Phase \cup {"absent"}]
    BY DEF IInv, TypeOK, KubeOK
  <2> QED
    BY <2>1, <2>2 DEF Quiet
<1>2. ASSUME NEW m \in Machines, PodRemoved(m) PROVE Quiet
  <2>1. /\ UNCHANGED <<api, link, status, reqDone, creates, rwVars>>
        /\ pod' = [pod EXCEPT ![m] = "absent"]
    BY <1>2 DEF PodRemoved, diskVars
  <2>2. pod \in [Machines -> Phase \cup {"absent"}]
    BY DEF IInv, TypeOK, KubeOK
  <2> QED
    BY <2>1, <2>2 DEF Quiet
<1>3. ASSUME NEW m \in Machines, PodModified(m) \/ PodEvicted(m) PROVE Quiet
  BY <1>3 DEF PodModified, PodEvicted, diskVars, Quiet
<1> QED
  BY <1>1, <1>2, <1>3, QuietStep DEF KubeStep

-----------------------------------------------------------------------------
(* The request-machines watcher.                                           *)

\* A step of it that neither creates a pod nor flips or marks anything owes
\* Serving alone.
RwLocal == RwUnchanged /\ UNCHANGED <<link, reqDone, pod, creates>>

LEMMA RwLocalStep == IInv /\ TypeOK' /\ RwLocal /\ Serving' => IInv'
<1> SUFFICES ASSUME IInv, TypeOK', RwLocal, Serving' PROVE IInv'
  OBVIOUS
<1>1. UNCHANGED <<api, link, status, reqDone, pod, creates>>
  BY DEF RwLocal, RwUnchanged
<1>2. Written' /\ Whole' /\ Flipped' /\ NoUntrackedPod'
  BY <1>1 DEF IInv, Written, Whole, Flipped, NoUntrackedPod
<1>3. Done'
  BY <1>1 DEF IInv, Done, ProcessedIsCreated, PublishedRequests
<1> QED
  BY <1>2, <1>3 DEF IInv

\* It starts, adds its watch, takes up a request, passes over a flipped link.
LEMMA RwLocalSteps ==
    ASSUME IInv, TypeOK',
           \/ RwStart \/ RwAddWatch
           \/ \E r \in Requests : RwPick(r)
           \/ \E m \in Machines : RwSkip(m)
    PROVE  IInv'
<1>1. CASE RwStart
  <2>1. /\ rwTodo' \subseteq PublishedRequests
        /\ UNCHANGED <<api, link, creates, rwCur, rwLeft, rwMade>>
    BY <1>1 DEF RwStart, RwUnchanged, kubeVars
  <2>2. Serving'
    BY <2>1 DEF IInv, Serving, PublishedRequests, MachinesOf
  <2>3. RwLocal
    BY <1>1 DEF RwStart, RwLocal, kubeVars
  <2> QED
    BY <2>2, <2>3, RwLocalStep
<1>2. CASE RwAddWatch
  <2>1. UNCHANGED <<api, link, creates, rwTodo, rwCur, rwLeft, rwMade>>
    BY <1>2 DEF RwAddWatch, RwUnchanged, kubeVars
  <2>2. Serving'
    BY <2>1 DEF IInv, Serving, PublishedRequests, MachinesOf
  <2>3. RwLocal
    BY <1>2 DEF RwAddWatch, RwLocal, kubeVars
  <2> QED
    BY <2>2, <2>3, RwLocalStep
<1>3. ASSUME NEW r \in Requests, RwPick(r) PROVE IInv'
  <2>1. /\ rwCur = NoId /\ r \in rwTodo
        /\ rwTodo' = rwTodo \ {r} /\ rwCur' = r /\ rwLeft' = MachinesOf(r)
        /\ UNCHANGED <<api, link, creates, rwMade>>
    BY <1>3 DEF RwPick, RwUnchanged, kubeVars
  <2>2. rwMade = NoId /\ rwTodo \subseteq PublishedRequests
    BY <2>1 DEF IInv, Serving
  <2>3. Serving'
    BY <2>1, <2>2, NoIdAssumption DEF Serving, PublishedRequests, MachinesOf
  <2>4. RwLocal
    BY <1>3 DEF RwPick, RwLocal, kubeVars
  <2> QED
    BY <2>3, <2>4, RwLocalStep
<1>4. ASSUME NEW m \in Machines, RwSkip(m) PROVE IInv'
  <2>1. /\ link[m] = "file" /\ rwLeft' = rwLeft \ {m}
        /\ UNCHANGED <<api, link, creates, rwTodo, rwCur, rwMade>>
    BY <1>4 DEF RwSkip, RwUnchanged, kubeVars
  <2>2. Serving'
    BY <2>1 DEF IInv, Serving, PublishedRequests, MachinesOf
  <2>3. RwLocal
    BY <1>4 DEF RwSkip, RwLocal, kubeVars
  <2> QED
    BY <2>2, <2>3, RwLocalStep
<1> QED
  BY <1>1, <1>2, <1>3, <1>4

\* It dies, of a conflict or otherwise: what it noticed and held is gone.
LEMMA RwDiesStep == IInv /\ TypeOK' /\ RwDies => IInv'
<1> SUFFICES ASSUME IInv, TypeOK', RwDies PROVE IInv'
  OBVIOUS
<1>1. Serving'
  BY DEF RwDies, Serving
<1>2. RwLocal
  BY DEF RwDies, RwLocal, kubeVars
<1> QED
  BY <1>1, <1>2, RwLocalStep

\* A pod is created, of a published request whose links are there.
LEMMA RwCreatePodStep ==
    ASSUME IInv, TypeOK', NEW m \in Machines, RwCreatePod(m)
    PROVE  IInv'
<1>1. /\ rwMade = NoId /\ m \in rwLeft /\ link[m] = "symlink"
      /\ pod' = [pod EXCEPT ![m] = "pending"]
      /\ creates' = [creates EXCEPT ![m] = @ + 1]
      /\ rwLeft' = rwLeft \ {m} /\ rwMade' = m
      /\ UNCHANGED <<api, link, status, reqDone, rwTodo, rwCur>>
  BY DEF RwCreatePod, RwUnchanged
<1>2. /\ pod \in [Machines -> Phase \cup {"absent"}]
      /\ creates \in [Machines -> Nat]
  BY DEF IInv, TypeOK, KubeOK
<1>3. rwCur # NoId /\ m \in MachinesOf(rwCur) /\ rwCur \in PublishedRequests
  BY <1>1 DEF IInv, Serving
<1>4. api[RequestOf[m]] = "published" /\ status[m] # NoStatus
  BY <1>1, <1>3 DEF IInv, Written, MachinesOf, PublishedRequests
<1>5. /\ \A n \in Machines : creates[n] >= 1 => creates'[n] >= 1
      /\ creates'[m] >= 1
  BY <1>1, <1>2
<1>6. Written' /\ Whole' /\ Flipped'
  BY <1>1, <1>5 DEF IInv, Written, Whole, Flipped
<1>7. NoUntrackedPod'
  BY <1>1, <1>2, <1>4 DEF IInv, NoUntrackedPod
<1>8. Serving'
  BY <1>1, <1>3, <1>5, NoIdAssumption DEF IInv, Serving, PublishedRequests, MachinesOf
<1>9. Done'
  BY <1>1, <1>5 DEF IInv, Done, ProcessedIsCreated, PublishedRequests
<1> QED
  BY <1>6, <1>7, <1>8, <1>9 DEF IInv

\* What the flip of a link relies on.
LEMMA FlipFacts ==
    ASSUME IInv, RwFlip
    PROVE  /\ rwCur \in PublishedRequests /\ rwMade \in MachinesOf(rwCur)
           /\ rwCur # NoId /\ creates[rwMade] >= 1
BY DEF IInv, RwFlip, Serving

LEMMA RwFlipStep == ASSUME IInv, TypeOK', RwFlip PROVE IInv'
<1>1. /\ link' = [link EXCEPT ![rwMade] = "file"] /\ rwMade' = NoId
      /\ UNCHANGED <<api, status, reqDone, pod, creates, rwTodo, rwCur, rwLeft>>
  BY DEF RwFlip, RwUnchanged, kubeVars
<1>2. link \in [Machines -> {"none", "symlink", "file"}]
  BY DEF IInv, TypeOK, DiskOK
<1>3. /\ rwMade \in Machines /\ creates[rwMade] >= 1 /\ rwCur # NoId
      /\ api[RequestOf[rwMade]] = "published"
  BY FlipFacts DEF MachinesOf, PublishedRequests
<1>4. /\ link'[rwMade] = "file"
      /\ \A n \in Machines : n # rwMade => link'[n] = link[n]
  BY <1>1, <1>2, <1>3
<1>5. link[rwMade] # "none"
  BY <1>3 DEF IInv, Whole
<1>6. Written' /\ Whole' /\ Flipped' /\ NoUntrackedPod'
  BY <1>1, <1>3, <1>4, <1>5 DEF IInv, Written, Whole, Flipped, NoUntrackedPod
<1>7. Serving'
  BY <1>1, <1>3, <1>4 DEF IInv, Serving, PublishedRequests, MachinesOf
<1>8. Done'
  BY <1>1, <1>3, <1>4 DEF IInv, Done, ProcessedIsCreated, PublishedRequests
<1> QED
  BY <1>6, <1>7, <1>8 DEF IInv

\* When a request is marked, each of its links is flipped.
LEMMA MarkFacts ==
    ASSUME IInv, RwMarkProcessed
    PROVE  /\ rwCur \in PublishedRequests
           /\ \A m \in MachinesOf(rwCur) : link[m] = "file" /\ creates[m] >= 1
<1>1. rwCur # NoId /\ rwLeft = {} /\ rwMade = NoId
  BY DEF RwMarkProcessed
<1>2. /\ rwCur \in PublishedRequests
      /\ \A m \in MachinesOf(rwCur) : m \in Machines /\ (m = rwMade \/ link[m] = "file")
  BY <1>1 DEF IInv, Serving, MachinesOf
<1>3. NoId \notin Machines
  BY NoIdAssumption
<1> QED
  BY <1>1, <1>2, <1>3 DEF IInv, Flipped

LEMMA RwMarkProcessedStep == ASSUME IInv, TypeOK', RwMarkProcessed PROVE IInv'
<1>1. /\ reqDone' = reqDone \cup {rwCur} /\ rwCur' = NoId
      /\ rwLeft = {} /\ rwMade = NoId
      /\ UNCHANGED <<api, link, status, pod, creates, rwTodo, rwLeft, rwMade>>
  BY DEF RwMarkProcessed, RwUnchanged, kubeVars
<1>2. Written' /\ Whole' /\ Flipped' /\ NoUntrackedPod'
  BY <1>1 DEF IInv, Written, Whole, Flipped, NoUntrackedPod
<1>3. Serving'
  BY <1>1 DEF IInv, Serving, PublishedRequests
<1>4. Done'
  BY <1>1, MarkFacts DEF IInv, Done, ProcessedIsCreated, PublishedRequests, MachinesOf
<1> QED
  BY <1>2, <1>3, <1>4 DEF IInv

LEMMA RwInv == ASSUME IInv, TypeOK', RwStep \/ RwCrash PROVE IInv'
<1>1. ASSUME NEW m \in Machines, RwConflict(m) PROVE IInv'
  BY <1>1, RwDiesStep DEF RwConflict
<1>2. CASE RwCrash
  BY <1>2, RwDiesStep DEF RwCrash
<1> QED
  BY <1>1, <1>2, RwLocalSteps, RwCreatePodStep, RwFlipStep, RwMarkProcessedStep
     DEF RwStep

-----------------------------------------------------------------------------
(* The other processes: they read requests and links and write none.       *)

LEMMA TwInv == ASSUME IInv, TypeOK', TwStep \/ TwCrash PROVE IInv'
<1>1. TwUnchanged => Quiet
  BY DEF TwUnchanged, Quiet
<1>2. TwUnchanged
  BY DEF TwStep, TwStart, TwAddWatch, TwPick, TwReadStatus, TwDeletePod,
         TwMarkProcessed, TwCrash
<1> QED
  BY <1>1, <1>2, QuietStep

\* The pod watcher writes phases and "deleted", never nothing.
LEMMA PwInv == ASSUME IInv, TypeOK', PwStep \/ PwStreamEnds \/ PwCrash PROVE IInv'
<1>1. status \in [Machines -> StatusLink]
  BY DEF IInv, TypeOK, DiskOK
<1>2. pwStep \in {"check", "write"} => pwEv \in Phase
  BY DEF IInv, TypeOK, PwOK
<1>3. UNCHANGED PwElsewhere
  BY DEF PwStep, PwConnect, PwTakeEvent, PwMarkDeleted, PwCheckStatus, PwWriteStatus,
         PwStreamEnds, PwCrash, PwStops, PwUnchanged
<1>4. \/ UNCHANGED status
      \/ status' = [status EXCEPT ![pwM] = "deleted"]
      \/ pwEv \in Phase /\ status' = [status EXCEPT ![pwM] = pwEv]
  BY <1>2 DEF PwStep, PwConnect, PwTakeEvent, PwMarkDeleted, PwCheckStatus,
              PwWriteStatus, PwStreamEnds, PwCrash, PwStops
<1>5. \A m \in Machines : status'[m] = NoStatus => status[m] = NoStatus
  BY <1>1, <1>4 DEF Phase, NoStatus
<1>6. Quiet
  BY <1>3, <1>5 DEF Quiet, PwElsewhere
<1> QED
  BY <1>6, QuietStep

\* The clean-up task writes "deleted".
LEMMA CronInv ==
    ASSUME IInv, TypeOK',
           CronStep \/ CronDeleteFails \/ CronCrash \/ \E m \in Machines : LinkAges(m)
    PROVE  IInv'
<1>1. status \in [Machines -> StatusLink]
  BY DEF IInv, TypeOK, DiskOK
<1>2. CronUnchanged
  BY DEF CronStep, CronReadsAge, CronReadsTarget, CronDeletesPod, CronMarksDeleted,
         CronDeleteFails, CronCrash, LinkAges
<1>3. UNCHANGED status \/ status' = [status EXCEPT ![cronM] = "deleted"]
  BY DEF CronStep, CronReadsAge, CronReadsTarget, CronDeletesPod, CronMarksDeleted,
         CronDeleteFails, CronCrash, LinkAges
<1>4. \A m \in Machines : status'[m] = NoStatus => status[m] = NoStatus
  BY <1>1, <1>3 DEF NoStatus
<1>5. Quiet
  BY <1>2, <1>4 DEF Quiet, CronUnchanged
<1> QED
  BY <1>5, QuietStep

LEMMA NextInv == IInv /\ [Next]_vars => IInv'
<1> SUFFICES ASSUME IInv, [Next]_vars PROVE IInv'
  OBVIOUS
<1>1. TypeOK'
  BY TypeStep DEF IInv
<1>2. CASE SymphonyStep \/ ApiStep \/ \E r \in Requests : ApiDies(r)
  BY <1>1, <1>2, RequestMachinesStep, ReturnMachinesStep, WriteStatusStep, LinkMachineStep,
     PublishRequestStep, ApiDiesStep DEF SymphonyStep, ApiStep
<1>3. CASE UNCHANGED vars
  <2>1. Quiet
    BY <1>3 DEF vars, diskVars, kubeVars, Quiet
  <2> QED
    BY <1>1, <2>1, QuietStep
<1> QED
  BY <1>1, <1>2, <1>3, KubeInv, RwInv, TwInv, PwInv, CronInv DEF Next, FaultStep

-----------------------------------------------------------------------------
(***************************************************************************)
(* The inductive invariant holds in every reachable state of the provider. *)
(***************************************************************************)
THEOREM Invariance == Spec => []IInv
BY InitInv, NextInv, PTL DEF Spec

(***************************************************************************)
(* The type invariant of the provider.                                     *)
(***************************************************************************)
THEOREM TypeCorrect == Spec => []TypeOK
<1>1. IInv => TypeOK
  BY DEF IInv
<1> QED
  BY Invariance, <1>1, PTL

(***************************************************************************)
(* .processed is found only where each pod was created and each link       *)
(* flipped, whatever crashed, and whatever the other processes did to pods *)
(* and statuses meanwhile (request.py and handlers.py).                    *)
(***************************************************************************)
THEOREM ProcessedIsCreatedAlways == Spec => []ProcessedIsCreated
<1>1. IInv => ProcessedIsCreated
  BY DEF IInv, Done
<1> QED
  BY Invariance, <1>1, PTL

(***************************************************************************)
(* Every pod has a published request and a status, also where the process  *)
(* that wrote the request died (api.request_machines writes the status     *)
(* before the link, and both before the rename).                           *)
(***************************************************************************)
THEOREM NoUntrackedPodAlways == Spec => []NoUntrackedPod
<1>1. IInv => NoUntrackedPod
  BY DEF IInv
<1> QED
  BY Invariance, <1>1, PTL

-----------------------------------------------------------------------------
(* The request side implements RequestQueue.                               *)


\* The queue sees which requests are published, which links are flipped and
\* what is marked, and nothing else.
LEMMA QueueStutter ==
    ASSUME \A r \in Requests : api'[r] = "published" <=> api[r] = "published",
           \A m \in Machines : link'[m] = "file" <=> link[m] = "file",
           UNCHANGED reqDone
    PROVE  UNCHANGED Queue!vars
BY DEF Queue!vars, PublishedRequests, MachinesOf

LEMMA QueuePublish ==
    ASSUME IInv, NEW r \in Requests, PublishRequest(r)
    PROVE  Queue!Next
<1>1. /\ api[r] = "writing" /\ api' = [api EXCEPT ![r] = "published"]
      /\ UNCHANGED <<link, reqDone>>
  BY DEF PublishRequest
<1>2. /\ api'[r] = "published"
      /\ \A q \in Requests : q # r => api'[q] = api[q]
  BY <1>1 DEF IInv, TypeOK, DiskOK
<1>3. r \notin PublishedRequests /\ PublishedRequests' = PublishedRequests \cup {r}
  BY <1>1, <1>2 DEF PublishedRequests
<1>4. Queue!Publish(r, MachinesOf(r))
  BY <1>1, <1>2, <1>3 DEF Queue!Publish, MachinesOf
<1> QED
  BY <1>4 DEF Queue!Next, MachinesOf

LEMMA QueueHandle == ASSUME IInv, RwFlip PROVE Queue!Next
<1> DEFINE Flips(r) == {m \in MachinesOf(r) : link[m] = "file"}
<1>1. PICK r \in Requests, e \in Machines : r = rwCur /\ e = rwMade
  BY FlipFacts DEF PublishedRequests, MachinesOf
<1>2. api[r] = "published" /\ RequestOf[e] = r
  BY <1>1, FlipFacts DEF PublishedRequests, MachinesOf
<1>3. link' = [link EXCEPT ![e] = "file"] /\ UNCHANGED <<api, reqDone>>
  BY <1>1 DEF RwFlip, RwUnchanged
<1>4. link \in [Machines -> {"none", "symlink", "file"}]
  BY DEF IInv, TypeOK, DiskOK
<1>5. \A m \in Machines : link'[m] = "file" <=> link[m] = "file" \/ m = e
  BY <1>3, <1>4
<1>6. Flips(r)' = Flips(r) \cup {e}
  BY <1>2, <1>5 DEF MachinesOf
<1>7. \A q \in Requests : q # r => Flips(q)' = Flips(q)
  BY <1>2, <1>5 DEF MachinesOf
<1>8. [q \in Requests |-> Flips(q)]' =
          [[q \in Requests |-> Flips(q)] EXCEPT ![r] = @ \cup {e}]
  <2> HIDE DEF Flips
  <2> QED
    BY <1>6, <1>7
<1>9. UNCHANGED <<PublishedRequests,
                  [q \in Requests |-> IF api[q] = "published" THEN MachinesOf(q) ELSE {}],
                  reqDone>>
  BY <1>3 DEF PublishedRequests, MachinesOf
<1>10. Queue!Handle(r, e)
  <2>1. r \in PublishedRequests /\ e \in MachinesOf(r)
    BY <1>2 DEF PublishedRequests, MachinesOf
  <2> QED
    BY <1>2, <1>8, <1>9, <2>1 DEF Queue!Handle
<1> QED
  BY <1>10 DEF Queue!Next

LEMMA QueueComplete == ASSUME IInv, RwMarkProcessed PROVE Queue!Next
<1>1. reqDone' = reqDone \cup {rwCur} /\ UNCHANGED <<api, link>>
  BY DEF RwMarkProcessed, RwUnchanged
<1>2. /\ rwCur \in Requests /\ rwCur \in PublishedRequests
      /\ \A m \in MachinesOf(rwCur) : link[m] = "file"
  BY MarkFacts DEF PublishedRequests
<1>3. Queue!Complete(rwCur)
  BY <1>1, <1>2 DEF Queue!Complete, PublishedRequests
<1> QED
  BY <1>2, <1>3 DEF Queue!Next

\* Every other step leaves what the queue sees as it is.
LEMMA QueueOther ==
    ASSUME IInv,
           \/ \E r \in Requests : RequestMachines(r) \/ ApiDies(r)
           \/ \E t \in Returns, machines \in SUBSET Machines : ReturnMachines(t, machines)
           \/ \E m \in Machines :
                 \/ WriteStatus(m) \/ LinkMachine(m) \/ LinkAges(m)
                 \/ RwSkip(m) \/ RwCreatePod(m) \/ RwConflict(m)
           \/ RwStart \/ RwAddWatch \/ RwCrash
           \/ \E r \in Requests : RwPick(r)
           \/ KubeStep
           \/ TwStep \/ TwCrash
           \/ PwStep \/ PwStreamEnds \/ PwCrash
           \/ CronStep \/ CronDeleteFails \/ CronCrash
           \/ UNCHANGED vars
    PROVE  UNCHANGED Queue!vars
<1>1. ASSUME UNCHANGED <<api, link, reqDone>> PROVE UNCHANGED Queue!vars
  BY <1>1, QueueStutter
<1>2. ASSUME NEW r \in Requests, RequestMachines(r) \/ ApiDies(r)
      PROVE  UNCHANGED Queue!vars
  <2>1. /\ UNCHANGED <<link, reqDone>> /\ api[r] # "published"
        /\ \/ api' = [api EXCEPT ![r] = "writing"]
           \/ api' = [api EXCEPT ![r] = "dead"]
    BY <1>2 DEF RequestMachines, ApiDies
  <2>2. \A q \in Requests : api'[q] = "published" <=> api[q] = "published"
    BY <2>1 DEF IInv, TypeOK, DiskOK
  <2> QED
    BY <2>1, <2>2, QueueStutter
<1>3. ASSUME NEW m \in Machines, LinkMachine(m) PROVE UNCHANGED Queue!vars
  <2>1. /\ UNCHANGED <<api, reqDone>> /\ link[m] = "none"
        /\ link' = [link EXCEPT ![m] = "symlink"]
    BY <1>3 DEF LinkMachine
  <2>2. \A n \in Machines : link'[n] = "file" <=> link[n] = "file"
    BY <2>1 DEF IInv, TypeOK, DiskOK
  <2> QED
    BY <2>1, <2>2, QueueStutter
<1>4. ASSUME NEW t \in Returns, NEW machines \in SUBSET Machines,
             ReturnMachines(t, machines)
      PROVE  UNCHANGED Queue!vars
  BY <1>1, <1>4 DEF ReturnMachines
<1>5. ASSUME NEW m \in Machines,
             \/ WriteStatus(m) \/ LinkAges(m)
             \/ RwSkip(m) \/ RwCreatePod(m) \/ RwConflict(m)
      PROVE  UNCHANGED Queue!vars
  BY <1>1, <1>5 DEF WriteStatus, LinkAges, CronUnchanged, RwSkip, RwCreatePod, RwConflict,
                    RwDies, RwUnchanged
<1>6. CASE RwStart \/ RwAddWatch \/ RwCrash \/ \E r \in Requests : RwPick(r)
  BY <1>1, <1>6 DEF RwStart, RwAddWatch, RwCrash, RwPick, RwDies, RwUnchanged
<1>7. CASE KubeStep
  BY <1>1, <1>7 DEF KubeStep, PodChangesPhase, PodModified, PodRemoved, PodEvicted, diskVars
<1>8. CASE TwStep \/ TwCrash
  BY <1>1, <1>8 DEF TwStep, TwStart, TwAddWatch, TwPick, TwReadStatus, TwDeletePod,
                    TwMarkProcessed, TwCrash, TwUnchanged
<1>9. CASE PwStep \/ PwStreamEnds \/ PwCrash
  BY <1>1, <1>9 DEF PwStep, PwConnect, PwTakeEvent, PwMarkDeleted, PwCheckStatus,
                    PwWriteStatus, PwStreamEnds, PwCrash, PwStops, PwUnchanged,
                    PwElsewhere
<1>10. CASE CronStep \/ CronDeleteFails \/ CronCrash
  BY <1>1, <1>10 DEF CronStep, CronReadsAge, CronReadsTarget, CronDeletesPod, CronMarksDeleted,
                     CronDeleteFails, CronCrash, CronUnchanged
<1>11. CASE UNCHANGED vars
  BY <1>1, <1>11 DEF vars, diskVars
<1> QED
  BY <1>2, <1>3, <1>4, <1>5, <1>6, <1>7, <1>8, <1>9, <1>10, <1>11

(***************************************************************************)
(* The provider, seen through its requests directory, implements           *)
(* RequestQueue: api.request_machines publishes a request whole, a flip of *)
(* a link handles an entry, and request.py marks a request only when each  *)
(* of its entries was handled.                                             *)
(***************************************************************************)
THEOREM Refinement == Spec => ImplementsRequestQueue
<1>1. Init => Queue!Init
  <2> SUFFICES ASSUME Init PROVE Queue!Init
    OBVIOUS
  <2>1. PublishedRequests = {} /\ reqDone = {}
    BY DEF Init, PublishedRequests
  <2>2. \A r \in Requests :
           api[r] # "published" /\ {m \in MachinesOf(r) : link[m] = "file"} = {}
    BY DEF Init, MachinesOf
  <2> QED
    BY <2>1, <2>2 DEF Queue!Init
<1>2. IInv /\ [Next]_vars => [Queue!Next]_(Queue!vars)
  <2> SUFFICES ASSUME IInv, [Next]_vars PROVE [Queue!Next]_(Queue!vars)
    OBVIOUS
  <2>1. CASE SymphonyStep \/ ApiStep \/ FaultStep
    BY <2>1, QueuePublish, QueueOther DEF SymphonyStep, ApiStep, FaultStep
  <2>2. CASE RwStep
    BY <2>2, QueueHandle, QueueComplete, QueueOther DEF RwStep
  <2>3. CASE \/ KubeStep \/ TwStep \/ PwStep \/ CronStep \/ UNCHANGED vars
             \/ \E m \in Machines : LinkAges(m)
    BY <2>3, QueueOther
  <2> QED
    BY <2>1, <2>2, <2>3 DEF Next
<1> QED
  BY Invariance, <1>1, <1>2, PTL DEF Spec, ImplementsRequestQueue, Queue!Spec

-----------------------------------------------------------------------------
(***************************************************************************)
(* Proofs about the end of a machine: that a machine marked "deleted" has  *)
(* no pod, that Symphony is not told that a machine is gone which is       *)
(* there, and that the pods of a processed return request go; where no     *)
(* clean-up task runs, for any requests, returns, machines and faults.     *)
(*                                                                         *)
(* All three rest on what is known of a machine once its deletion was told *)
(* (Gone): its first pod was there and is not any more.                    *)
(***************************************************************************)

\* The pod was created, and if it was so once it is not there ...
Gone(m) == creates[m] >= 1 /\ (creates[m] = 1 => pod[m] = "absent")

\* ... or is on its way out.
Going(m) == creates[m] >= 1 /\ (creates[m] = 1 => pod[m] = "absent" \/ m \in dying)

\* Whatever speaks of a pod came after its creation.
Created ==
    /\ \A m \in Machines :
         pod[m] # "absent" \/ stream[m] # <<>> \/ status[m] \in Phase => creates[m] >= 1
    /\ pwStep # "idle" => creates[pwM] >= 1

\* A deletion that is told is one.
Told ==
    /\ \A m \in Machines :
         (\E i \in 1..Len(stream[m]) : stream[m][i] = "deleted") => Gone(m)
    /\ pwStep = "mark" => Gone(pwM)

\* A machine with a phase has a pod file, unless the pod has gone.
Filed ==
    /\ pwStep \in {"check", "write"} => pwM \in podFile
    /\ \A m \in Machines : status[m] \in Phase /\ m \notin podFile => Gone(m)

Marked ==
    ~CronOn => /\ cronStep = "idle"
               /\ \A m \in Machines : status[m] = "deleted" => Gone(m)

\* Each machine of a return request is left, in hand or going.
Returned ==
    /\ twTodo \subseteq PublishedReturns
    /\ \A t \in Returns : \A m \in returned[t] : api[RequestOf[m]] = "published"
    /\ \A t \in retDone : returned[t] # {}
    /\ twCur # NoId => returned[twCur] # {}
    /\ ~CronOn /\ ~AdminReturns =>
         /\ \A t \in Returns : \A m \in returned[t] : creates[m] >= 1
         /\ \A t \in retDone : \A m \in returned[t] : Going(m)
         /\ twCur # NoId =>
              \A m \in returned[twCur] : m \in twLeft \/ m = twDel \/ Going(m)

DInv == IInv /\ Created /\ Told /\ Filed /\ Marked /\ Returned

-----------------------------------------------------------------------------
LEMMA InitDInv == Init => DInv
<1> SUFFICES ASSUME Init PROVE DInv
  OBVIOUS
<1>1. IInv
  BY InitInv
<1>2. \A m \in Machines : stream[m] = <<>> /\ status[m] = NoStatus /\ pod[m] = "absent"
  BY DEF Init
<1>3. Created /\ Told /\ Filed /\ Marked
  BY <1>2 DEF Init, Created, Told, Filed, Marked, NoStatus, Phase
<1>4. Returned
  BY DEF Init, Returned
<1> QED
  BY <1>1, <1>3, <1>4 DEF DInv

\* What happens to a pod and its deletion, in any step: the past stands.
Onward ==
    /\ \A m \in Machines :
         /\ creates[m] \in Nat /\ creates'[m] \in Nat /\ creates'[m] >= creates[m]
         /\ Gone(m) => Gone(m)'
         /\ Going(m) => Going(m)'
         /\ pod'[m] # "absent" => creates'[m] >= 1
         /\ stream'[m] # <<>> => creates'[m] >= 1
         /\ \A i \in 1..Len(stream'[m]) : stream'[m][i] = "deleted" => Gone(m)'
    /\ \A r \in Requests : api[r] = "published" => api'[r] = "published"

\* A step that leaves the pods as they are and emits nothing.
LEMMA StillOnward ==
    ASSUME DInv, UNCHANGED <<pod, dying, creates>>,
           \A r \in Requests : api[r] = "published" => api'[r] = "published",
           \A m \in Machines : stream'[m] = stream[m] \/ stream'[m] = <<>>
    PROVE  Onward
<1>1. \A m \in Machines : creates[m] \in Nat
  BY DEF DInv, IInv, TypeOK, KubeOK
<1> QED
  BY <1>1 DEF Onward, DInv, Created, Told, Gone, Going

\* A watch event that is no deletion, or one of a pod that has gone.
LEMMA EmitOnward ==
    ASSUME DInv, NEW m \in Machines, NEW e \in Event, Emit(m, e),
           creates'[m] >= 1, e = "deleted" => Gone(m)',
           \A n \in Machines : Gone(n) => Gone(n)',
           \A n \in Machines : creates[n] \in Nat /\ creates'[n] \in Nat /\ creates'[n] >= creates[n]
    PROVE  \A n \in Machines :
              /\ stream'[n] # <<>> => creates'[n] >= 1
              /\ \A i \in 1..Len(stream'[n]) : stream'[n][i] = "deleted" => Gone(n)'
<1>1. stream \in [Machines -> Seq(Event)]
  BY DEF DInv, IInv, TypeOK, KubeOK
<1>2. \A n \in Machines : /\ stream[n] # <<>> => creates[n] >= 1
                          /\ \A i \in 1..Len(stream[n]) : stream[n][i] = "deleted" => Gone(n)
  BY DEF DInv, Created, Told
<1>3. CASE pwOn
  <2>1. stream'[m] = Append(stream[m], e) /\ \A n \in Machines \ {m} : stream'[n] = stream[n]
    BY <1>1, <1>3 DEF Emit
  <2>2. \A i \in 1..Len(stream'[m]) :
           \/ i \in 1..Len(stream[m]) /\ stream'[m][i] = stream[m][i]
           \/ stream'[m][i] = e
    BY <1>1, <2>1
  <2> QED
    BY <1>2, <2>1, <2>2
<1>4. CASE ~pwOn
  BY <1>2, <1>4 DEF Emit
<1> QED
  BY <1>3, <1>4

LEMMA DeletePodOnward ==
    ASSUME DInv, NEW m \in Machines, DeletePod(m), UNCHANGED <<pod, creates, api>>
    PROVE  Onward /\ (creates[m] >= 1 => Going(m)')
<1>1. /\ \A n \in Machines : creates[n] \in Nat
      /\ pod \in [Machines -> Phase \cup {"absent"}] /\ dying \subseteq Machines
  BY DEF DInv, IInv, TypeOK, KubeOK
<1>2. CASE pod[m] # "absent" /\ m \notin dying
  <2>1. dying' = dying \cup {m} /\ Emit(m, pod[m]) /\ creates[m] >= 1
    BY <1>2 DEF DeletePod, DInv, Created
  <2>2. pod[m] \in Event /\ pod[m] # "deleted"
    BY <1>1, <1>2 DEF Event, Phase
  <2>3. \A n \in Machines : (Gone(n) => Gone(n)') /\ (Going(n) => Going(n)')
    BY <2>1 DEF Gone, Going
  <2>4. \A n \in Machines :
              /\ stream'[n] # <<>> => creates'[n] >= 1
              /\ \A i \in 1..Len(stream'[n]) : stream'[n][i] = "deleted" => Gone(n)'
    BY <1>1, <2>1, <2>2, <2>3, EmitOnward
  <2> QED
    BY <1>1, <2>1, <2>3, <2>4 DEF Onward, Going, DInv, Created
<1>3. CASE ~(pod[m] # "absent" /\ m \notin dying)
  <2>1. UNCHANGED <<dying, stream>>
    BY <1>3 DEF DeletePod
  <2> QED
    BY <1>3, <2>1, StillOnward DEF Going
<1> QED
  BY <1>2, <1>3

-----------------------------------------------------------------------------
(* What a step leaves alone goes on to hold.                               *)

\* The parts about pods and files, where the pod watcher rests.
LEMMA PodsKept ==
    ASSUME DInv, Onward, UNCHANGED <<podFile, pwStep, pwM>>, pwM \in Machines \/ pwStep = "idle",
           \A m \in Machines : status'[m] = status[m] \/ status'[m] \notin Phase
    PROVE  Created' /\ Told' /\ Filed'
BY DEF DInv, Onward, Created, Told, Filed

LEMMA MarksKept ==
    ASSUME DInv, Onward, UNCHANGED cronStep,
           \A m \in Machines : status'[m] = "deleted" => status[m] = "deleted" \/ Gone(m)'
    PROVE  Marked'
BY DEF DInv, Onward, Marked

LEMMA ReturnsKept ==
    ASSUME DInv, Onward, UNCHANGED <<returned, retDone, twVars>>
    PROVE  Returned'
<1>1. /\ returned \in [Returns -> SUBSET Machines] /\ retDone \subseteq Returns
      /\ twCur \in Returns \cup {NoId}
      /\ \A m \in Machines : RequestOf[m] \in Requests
  BY RequestOfAssumption DEF DInv, IInv, TypeOK, DiskOK, TwOK
<1>2. UNCHANGED <<twTodo, twCur, twLeft, twDel, PublishedReturns>>
  BY DEF twVars, PublishedReturns
<1>3. \A t \in Returns : \A m \in returned[t] :
         /\ api'[RequestOf[m]] = "published"
         /\ creates[m] >= 1 => creates'[m] >= 1
         /\ Going(m) => Going(m)'
  BY <1>1 DEF Onward, DInv, Returned
<1> QED
  BY <1>1, <1>2, <1>3 DEF DInv, Returned

\* What the pod watcher has in hand is a machine.
LEMMA InHand ==
    ASSUME DInv
    PROVE  pwM \in Machines \/ pwStep = "idle"
BY DEF DInv, IInv, TypeOK, PwOK

\* A step that does nothing but to the cluster.
LEMMA AllKept ==
    ASSUME DInv, IInv', Onward,
           UNCHANGED <<status, podFile, returned, retDone, twVars, pwStep, pwM, cronStep>>
    PROVE  DInv'
BY InHand, PodsKept, MarksKept, ReturnsKept DEF DInv

-----------------------------------------------------------------------------
(* Each process.                                                           *)

LEMMA SymphonyDeletes ==
    ASSUME DInv, IInv', SymphonyStep \/ ApiStep \/ (\E r \in Requests : ApiDies(r))
    PROVE  DInv'
<1>1. UNCHANGED <<kubeVars, podFile, retDone, pwVars, cronVars>>
  BY DEF SymphonyStep, ApiStep, ApiDies, RequestMachines, ReturnMachines, WriteStatus,
         LinkMachine, PublishRequest
<1>2. \A r \in Requests : api[r] = "published" => api'[r] = "published"
  BY DEF SymphonyStep, ApiStep, ApiDies, RequestMachines, ReturnMachines, WriteStatus,
         LinkMachine, PublishRequest, DInv, IInv, TypeOK, DiskOK
<1>3. Onward
  BY <1>1, <1>2, StillOnward DEF kubeVars
<1>4. \A m \in Machines : status'[m] = status[m] \/ status'[m] = "creating"
  BY DEF SymphonyStep, ApiStep, ApiDies, RequestMachines, ReturnMachines, WriteStatus,
         LinkMachine, PublishRequest, DInv, IInv, TypeOK, DiskOK
<1>5. Created' /\ Told' /\ Filed' /\ Marked'
  BY <1>1, <1>3, <1>4, InHand, PodsKept, MarksKept DEF pwVars, cronVars, Phase
<1>6. Returned'
  <2>1. CASE UNCHANGED <<returned, twVars>>
    BY <1>1, <1>3, <2>1, ReturnsKept
  <2>2. ASSUME NEW t \in Returns, NEW machines \in (SUBSET Machines) \ {{}},
               ReturnMachines(t, machines)
        PROVE  Returned'
    <3>1. /\ returned' = [returned EXCEPT ![t] = machines] /\ returned[t] = {}
          /\ returned \in [Returns -> SUBSET Machines] /\ machines # {}
          /\ twTodo' \subseteq twTodo \cup {t}
          /\ UNCHANGED <<api, status, pod, dying, creates, retDone, twCur, twLeft, twDel>>
      BY <2>2 DEF ReturnMachines, kubeVars, DInv, IInv, TypeOK, DiskOK
    <3>2. returned'[t] = machines /\ \A u \in Returns \ {t} : returned'[u] = returned[u]
      BY <3>1
    <3>3. /\ t \notin retDone /\ t # twCur /\ retDone \subseteq Returns
          /\ twCur \in Returns \cup {NoId}
      BY <3>1, NoIdAssumption DEF DInv, IInv, TypeOK, DiskOK, TwOK, Returned
    <3>4. \A m \in machines : api[RequestOf[m]] = "published"
      BY <2>2 DEF ReturnMachines
    <3>5. ASSUME ~CronOn, ~AdminReturns, NEW m \in machines PROVE creates[m] >= 1
      <4>1. Reported(m) /\ m \in Machines
        BY <2>2, <3>5 DEF ReturnMachines
      <4>2. status[m] \in StatusLink /\ status[m] # NoStatus
        BY <3>4, <4>1 DEF DInv, IInv, TypeOK, DiskOK, Whole, Written
      <4>3. status[m] \in Phase \/ status[m] = "deleted"
        BY <4>1, <4>2 DEF Reported, RequestResult, StatusLink, PodStatus
      <4> QED
        BY <3>5, <4>1, <4>3 DEF DInv, Created, Marked, Gone
    <3>6. twTodo' \subseteq PublishedReturns'
      BY <3>1, <3>2 DEF PublishedReturns, DInv, Returned
    <3>7. \A m \in Machines : Going(m)' <=> Going(m)
      BY <3>1 DEF Going
    <3> QED
      BY <3>1, <3>2, <3>3, <3>4, <3>5, <3>6, <3>7 DEF DInv, Returned
  <2>3. \/ UNCHANGED <<returned, twVars>>
        \/ \E t \in Returns, machines \in (SUBSET Machines) \ {{}} : ReturnMachines(t, machines)
    BY DEF SymphonyStep, ApiStep, ApiDies, RequestMachines, WriteStatus, LinkMachine,
         PublishRequest
  <2> QED
    BY <2>1, <2>2, <2>3
<1> QED
  BY <1>5, <1>6 DEF DInv

LEMMA KubeDeletes ==
    ASSUME DInv, IInv', KubeStep
    PROVE  DInv'
<1>1. /\ \A n \in Machines : creates[n] \in Nat
      /\ pod \in [Machines -> Phase \cup {"absent"}]
      /\ \A n \in Machines : pod[n] # "absent" => creates[n] >= 1
  BY DEF DInv, IInv, TypeOK, KubeOK, Created
<1>2. ASSUME NEW m \in Machines, PodChangesPhase(m) PROVE Onward
  <2>1. PICK p \in Phases : pod' = [pod EXCEPT ![m] = p] /\ Emit(m, p)
    BY <1>2 DEF PodChangesPhase
  <2>2. pod[m] # "absent" /\ UNCHANGED <<api, dying, creates>>
    BY <1>2 DEF PodChangesPhase, diskVars
  <2>3. p \in Event /\ p # "deleted"
    BY PhasesAssumption DEF Event, Phase
  <2>4. \A n \in Machines : (Gone(n) => Gone(n)') /\ (Going(n) => Going(n)')
    BY <1>1, <2>1, <2>2 DEF Gone, Going
  <2>5. \A n \in Machines :
              /\ stream'[n] # <<>> => creates'[n] >= 1
              /\ \A i \in 1..Len(stream'[n]) : stream'[n][i] = "deleted" => Gone(n)'
    BY <1>1, <2>1, <2>2, <2>3, <2>4, EmitOnward
  <2> QED
    BY <1>1, <2>1, <2>2, <2>4, <2>5 DEF Onward
<1>3. ASSUME NEW m \in Machines, PodRemoved(m) PROVE Onward
  <2>1. /\ pod' = [pod EXCEPT ![m] = "absent"] /\ dying' = dying \ {m}
        /\ pod[m] # "absent" /\ Emit(m, "deleted") /\ UNCHANGED <<api, creates>>
    BY <1>3 DEF PodRemoved, diskVars
  <2>2. \A n \in Machines : (Gone(n) => Gone(n)') /\ (Going(n) => Going(n)')
    BY <1>1, <2>1 DEF Gone, Going
  <2>3. Gone(m)' /\ "deleted" \in Event
    BY <1>1, <2>1 DEF Gone, Event
  <2>4. \A n \in Machines :
              /\ stream'[n] # <<>> => creates'[n] >= 1
              /\ \A i \in 1..Len(stream'[n]) : stream'[n][i] = "deleted" => Gone(n)'
    BY <1>1, <2>1, <2>2, <2>3, EmitOnward
  <2> QED
    BY <1>1, <2>1, <2>2, <2>4 DEF Onward
<1>4. ASSUME NEW m \in Machines, PodEvicted(m) PROVE Onward
  BY <1>4, DeletePodOnward DEF PodEvicted, diskVars
<1>5. UNCHANGED <<diskVars, twVars, pwVars, cronVars>>
  BY DEF KubeStep, PodChangesPhase, PodModified, PodRemoved, PodEvicted
<1>6. ASSUME NEW m \in Machines, PodModified(m) PROVE Onward
  <2>1. /\ pod[m] # "absent" /\ Emit(m, pod[m])
        /\ UNCHANGED <<api, pod, dying, creates>>
    BY <1>6 DEF PodModified, diskVars
  <2>2. pod[m] \in Event /\ pod[m] # "deleted"
    BY <1>1, <2>1 DEF Event, Phase
  <2>3. \A n \in Machines : (Gone(n) => Gone(n)') /\ (Going(n) => Going(n)')
    BY <2>1 DEF Gone, Going
  <2>4. \A n \in Machines :
              /\ stream'[n] # <<>> => creates'[n] >= 1
              /\ \A i \in 1..Len(stream'[n]) : stream'[n][i] = "deleted" => Gone(n)'
    BY <1>1, <2>1, <2>2, <2>3, EmitOnward
  <2> QED
    BY <1>1, <2>1, <2>3, <2>4 DEF Onward
<1> QED
  BY <1>2, <1>3, <1>4, <1>5, <1>6, AllKept DEF KubeStep, diskVars, pwVars, cronVars

LEMMA RwDeletes ==
    ASSUME DInv, IInv', RwStep \/ RwCrash
    PROVE  DInv'
<1>1. RwUnchanged
  BY DEF RwStep, RwStart, RwAddWatch, RwPick, RwSkip, RwCreatePod, RwConflict, RwFlip,
         RwMarkProcessed, RwDies, RwCrash
<1>2. CASE UNCHANGED kubeVars
  <2>1. Onward
    BY <1>1, <1>2, StillOnward DEF RwUnchanged, kubeVars
  <2> QED
    BY <1>1, <2>1, AllKept DEF RwUnchanged, pwVars, cronVars
<1>3. ASSUME NEW m \in Machines, RwCreatePod(m) PROVE DInv'
  <2>1. /\ pod' = [pod EXCEPT ![m] = "pending"] /\ creates' = [creates EXCEPT ![m] = @ + 1]
        /\ Emit(m, "pending") /\ UNCHANGED <<api, dying>>
    BY <1>3 DEF RwCreatePod, RwUnchanged
  <2>2. /\ \A n \in Machines : creates[n] \in Nat
        /\ creates'[m] = creates[m] + 1
        /\ \A n \in Machines \ {m} : creates'[n] = creates[n] /\ pod'[n] = pod[n]
        /\ \A n \in Machines : pod[n] # "absent" => creates[n] >= 1
    BY <2>1 DEF DInv, IInv, TypeOK, KubeOK, Created
  <2>3. \A n \in Machines : (Gone(n) => Gone(n)') /\ (Going(n) => Going(n)')
    BY <2>1, <2>2 DEF Gone, Going
  <2>4. "pending" \in Event /\ creates'[m] >= 1
    BY <2>2 DEF Event, Phase
  <2>5. \A n \in Machines : creates'[n] \in Nat /\ creates'[n] >= creates[n]
    BY <2>2
  <2>6. \A n \in Machines :
              /\ stream'[n] # <<>> => creates'[n] >= 1
              /\ \A i \in 1..Len(stream'[n]) : stream'[n][i] = "deleted" => Gone(n)'
    BY <2>1, <2>2, <2>3, <2>4, <2>5, EmitOnward
  <2>7. Onward
    BY <2>1, <2>2, <2>3, <2>4, <2>5, <2>6 DEF Onward
  <2> QED
    BY <1>1, <2>7, AllKept DEF RwUnchanged, pwVars, cronVars
<1>4. UNCHANGED kubeVars \/ \E m \in Machines : RwCreatePod(m)
  BY DEF RwStep, RwStart, RwAddWatch, RwPick, RwSkip, RwConflict, RwFlip, RwMarkProcessed,
         RwDies, RwCrash
<1> QED
  BY <1>2, <1>3, <1>4

LEMMA TwDeletes ==
    ASSUME DInv, IInv', TwStep \/ TwCrash
    PROVE  DInv'
<1>1. /\ TwUnchanged
      /\ UNCHANGED <<pod, creates, api, returned, status, PublishedReturns>>
  BY DEF TwStep, TwStart, TwAddWatch, TwPick, TwReadStatus, TwDeletePod, TwMarkProcessed,
         TwCrash, TwUnchanged, PublishedReturns
<1>2. Onward
  <2>1. CASE TwDeletePod
    <3>1. twDel \in Machines /\ DeletePod(twDel)
      BY <2>1 DEF TwDeletePod, DInv, IInv, TypeOK, TwOK
    <3> QED
      BY <1>1, <3>1, DeletePodOnward
  <2>2. CASE UNCHANGED <<dying, stream>>
    BY <1>1, <2>2, StillOnward
  <2> QED
    BY <2>1, <2>2
    DEF TwStep, TwStart, TwAddWatch, TwPick, TwReadStatus, TwMarkProcessed, TwCrash
<1>3. Created' /\ Told' /\ Filed' /\ Marked'
  BY <1>1, <1>2, InHand, PodsKept, MarksKept DEF TwUnchanged, pwVars, cronVars
\* What a step makes of the return requests, those that it leaves alone going on.
<1>4. ASSUME twTodo' \subseteq PublishedReturns,
             \A t \in retDone' \cup {twCur'} : t # NoId => returned[t] # {},
             ~CronOn /\ ~AdminReturns =>
               /\ \A t \in retDone' : \A m \in returned[t] : Going(m)'
               /\ twCur' # NoId =>
                    \A m \in returned[twCur'] : m \in twLeft' \/ m = twDel' \/ Going(m)'
      PROVE  Returned'
  <2>1. \A t \in Returns : \A m \in returned[t] :
           /\ api'[RequestOf[m]] = "published"
           /\ ~CronOn /\ ~AdminReturns => creates'[m] >= 1
    BY <1>1 DEF DInv, Returned
  <2>2. retDone' \subseteq Returns
    BY DEF IInv, TypeOK, DiskOK
  <2> QED
    BY <1>1, <1>4, <2>1, <2>2, NoIdAssumption DEF Returned
<1>5. /\ twTodo \subseteq PublishedReturns
      /\ retDone \subseteq Returns /\ twCur \in Returns \cup {NoId}
      /\ returned \in [Returns -> SUBSET Machines]
      /\ \A t \in retDone \cup {twCur} : t # NoId => returned[t] # {}
      /\ ~CronOn /\ ~AdminReturns =>
               /\ \A t \in retDone : \A m \in returned[t] : Going(m) /\ Going(m)'
               /\ twCur # NoId =>
                    \A m \in returned[twCur] :
                        m \in twLeft \/ m = twDel \/ (Going(m) /\ Going(m)')
  <2>1. \A t \in Returns : \A m \in returned[t] : Going(m) => Going(m)'
    BY <1>2 DEF Onward, DInv, IInv, TypeOK, DiskOK
  <2> QED
    BY <2>1 DEF DInv, Returned, IInv, TypeOK, DiskOK, TwOK
<1>6. CASE TwStart \/ TwAddWatch \/ TwCrash
  <2>1. twTodo' \subseteq PublishedReturns
    BY <1>6 DEF TwStart, TwAddWatch, TwCrash
  <2>2. UNCHANGED retDone /\ (UNCHANGED <<twCur, twLeft, twDel>> \/ twCur' = NoId)
    BY <1>6 DEF TwStart, TwAddWatch, TwCrash
  <2>3. Returned'
    BY <1>4, <1>5, <2>1, <2>2
  <2> QED
    BY <1>3, <2>3 DEF DInv
<1>7. ASSUME NEW t \in Returns, TwPick(t) PROVE DInv'
  <2>1. /\ t \in PublishedReturns /\ twTodo' \subseteq twTodo
        /\ twCur' = t /\ twLeft' = returned[t] /\ UNCHANGED retDone
    BY <1>5, <1>7 DEF TwPick
  <2>2. Returned'
    BY <1>4, <1>5, <2>1 DEF PublishedReturns
  <2> QED
    BY <1>3, <2>2 DEF DInv
<1>8. ASSUME NEW m \in Machines, TwReadStatus(m) PROVE DInv'
  <2>1. /\ UNCHANGED <<retDone, twTodo, twCur>>
        /\ twLeft' = twLeft \ {m} /\ twDel = NoId
        /\ twDel' = m \/ status[m] \in {NoStatus, "deleted"}
    BY <1>8 DEF TwReadStatus
  <2>2. ASSUME ~CronOn, ~AdminReturns, twCur # NoId, m \in returned[twCur]
        PROVE  twDel' = m \/ Going(m)'
    <3>1. status[m] # NoStatus
      BY <1>5, <2>2 DEF DInv, IInv, Whole, Written, Returned
    <3>2. status[m] = "deleted" => Gone(m)
      BY <2>2 DEF DInv, Marked
    <3>3. Gone(m) => Going(m)'
      BY <1>2 DEF Onward, Gone, Going
    <3> QED
      BY <2>1, <3>1, <3>2, <3>3
  <2>3. twCur # NoId => \A n \in returned[twCur] : n # NoId
    BY <1>5, NoIdAssumption
  <2>4. ~CronOn /\ ~AdminReturns /\ twCur # NoId =>
            \A n \in returned[twCur] : n \in twLeft' \/ n = twDel' \/ Going(n)'
    BY <1>5, <2>1, <2>2, <2>3
  <2>5. Returned'
    BY <1>4, <1>5, <2>1, <2>4
  <2> QED
    BY <1>3, <2>5 DEF DInv
<1>9. CASE TwDeletePod
  \* (Named, so that it is the machine of before the step that is going after it.)
  <2>1. PICK d \in Machines :
          /\ UNCHANGED <<retDone, twTodo, twCur, twLeft>> /\ twDel' = NoId
          /\ d = twDel /\ DeletePod(d)
    BY <1>9 DEF TwDeletePod, DInv, IInv, TypeOK, TwOK
  <2>2. creates[d] >= 1 => Going(d)'
    BY <1>1, <2>1, DeletePodOnward
  <2>3. ~CronOn /\ ~AdminReturns /\ twCur # NoId =>
            \A m \in returned[twCur] : creates[m] >= 1
    BY <1>5 DEF DInv, Returned
  <2>4. ~CronOn /\ ~AdminReturns /\ twCur # NoId =>
            \A n \in returned[twCur] : n \in twLeft' \/ Going(n)'
    BY <1>5, <2>1, <2>2, <2>3
  <2>5. Returned'
    BY <1>4, <1>5, <2>1, <2>4
  <2> QED
    BY <1>3, <2>5 DEF DInv
<1>10. CASE TwMarkProcessed
  <2>1. /\ twCur # NoId /\ twLeft = {} /\ twDel = NoId
        /\ retDone' = retDone \cup {twCur} /\ twCur' = NoId /\ UNCHANGED twTodo
    BY <1>10 DEF TwMarkProcessed
  <2>2. \A n \in returned[twCur] : n # NoId
    BY <1>5, <2>1, NoIdAssumption
  <2>3. Returned'
    BY <1>4, <1>5, <2>1, <2>2
  <2> QED
    BY <1>3, <2>3 DEF DInv
<1> QED
  BY <1>6, <1>7, <1>8, <1>9, <1>10 DEF TwStep

LEMMA CronDeletes ==
    ASSUME DInv, IInv',
           CronStep \/ CronDeleteFails \/ CronCrash \/ \E m \in Machines : LinkAges(m)
    PROVE  DInv'
<1>1. CronUnchanged
  BY DEF CronStep, CronReadsAge, CronReadsTarget, CronDeletesPod, CronMarksDeleted,
         CronDeleteFails, CronCrash, LinkAges, cronVars
<1>2. Onward
  <2>1. CASE CronDeletesPod
    <3>1. cronM \in Machines /\ DeletePod(cronM)
      BY <2>1 DEF CronDeletesPod, DInv, IInv, TypeOK, CronOK
    <3> QED
      BY <1>1, <3>1, DeletePodOnward DEF CronUnchanged
  <2>2. CASE UNCHANGED <<dying, stream>>
    BY <1>1, <2>2, StillOnward DEF CronUnchanged
  <2> QED
    BY <2>1, <2>2 DEF CronStep, CronReadsAge, CronReadsTarget, CronMarksDeleted,
         CronDeleteFails, CronCrash, LinkAges
<1>3. CronOn
  BY DEF CronStep, CronReadsAge, CronReadsTarget, CronDeletesPod, CronMarksDeleted,
         CronDeleteFails, CronCrash, LinkAges, cronVars, DInv, Marked
<1>4. \A m \in Machines : status'[m] = status[m] \/ status'[m] \notin Phase
  BY DEF CronStep, CronReadsAge, CronReadsTarget, CronDeletesPod, CronMarksDeleted,
         CronDeleteFails, CronCrash, LinkAges, cronVars, DInv, IInv, TypeOK, DiskOK, Phase
<1>5. Created' /\ Told' /\ Filed' /\ Marked'
  BY <1>1, <1>2, <1>3, <1>4, InHand, PodsKept DEF CronUnchanged, pwVars, Marked
<1>6. Returned'
  BY <1>1, <1>2, ReturnsKept DEF CronUnchanged
<1> QED
  BY <1>5, <1>6 DEF DInv

\* What the pod watcher does to the streams and the statuses.
LEMMA PwDeletes ==
    ASSUME DInv, IInv', PwStep \/ PwStreamEnds \/ PwCrash
    PROVE  DInv'
<1>1. UNCHANGED PwElsewhere
  BY DEF PwStep, PwConnect, PwTakeEvent, PwMarkDeleted, PwCheckStatus, PwWriteStatus,
         PwStreamEnds, PwCrash, PwStops, PwUnchanged
<1>2. /\ \A m \in Machines : creates[m] \in Nat /\ stream[m] \in Seq(Event)
      /\ pod \in [Machines -> Phase \cup {"absent"}]
      /\ status \in [Machines -> StatusLink]
      /\ stream \in [Machines -> Seq(Event)]
  BY DEF DInv, IInv, TypeOK, KubeOK, DiskOK
<1>3. \A m \in Machines : (Gone(m)' <=> Gone(m)) /\ (Going(m)' <=> Going(m))
  BY <1>1 DEF PwElsewhere, Gone, Going
<1>4. ASSUME \A m \in Machines :
               /\ stream'[m] # <<>> => creates[m] >= 1
               /\ \A i \in 1..Len(stream'[m]) : stream'[m][i] = "deleted" => Gone(m)
      PROVE  Onward
  BY <1>1, <1>2, <1>3, <1>4 DEF PwElsewhere, Onward, DInv, Created
<1>5. ASSUME Onward, \A m \in Machines : status'[m] = "deleted" => status[m] = "deleted" \/ Gone(m)
      PROVE  Marked' /\ Returned'
  BY <1>1, <1>3, <1>5, MarksKept, ReturnsKept DEF PwElsewhere, cronVars
<1>6. UNCHANGED stream => Onward
  BY <1>4 DEF DInv, Created, Told
<1>7. CASE PwConnect
  <2>1. /\ \A m \in Machines : stream'[m] = IF pod[m] = "absent" THEN <<>> ELSE <<pod[m]>>
        /\ UNCHANGED <<status, podFile, pwStep, pwM>>
    BY <1>7 DEF PwConnect
  <2>2. \A m \in Machines :
               /\ stream'[m] # <<>> => creates[m] >= 1
               /\ \A i \in 1..Len(stream'[m]) : stream'[m][i] # "deleted"
    <3> SUFFICES ASSUME NEW m \in Machines
                 PROVE  /\ stream'[m] # <<>> => creates[m] >= 1
                        /\ \A i \in 1..Len(stream'[m]) : stream'[m][i] # "deleted"
      OBVIOUS
    <3>1. CASE pod[m] = "absent"
      <4>1. stream'[m] = <<>>
        BY <2>1, <3>1
      <4> QED
        BY <4>1
    <3>2. CASE pod[m] # "absent"
      <4>1. stream'[m] = <<pod[m]>> /\ pod[m] \in Phase /\ creates[m] >= 1
        BY <1>2, <2>1, <3>2 DEF DInv, Created
      <4>2. Len(stream'[m]) = 1 /\ stream'[m][1] # "deleted"
        BY <4>1 DEF Phase
      <4> QED
        BY <4>1, <4>2
    <3> QED
      BY <3>1, <3>2
  <2>3. Onward
    BY <1>4, <2>2
  <2> QED
    BY <1>5, <2>1, <2>3, InHand, PodsKept DEF DInv
<1>8. ASSUME NEW m \in Machines, PwTakeEvent(m) PROVE DInv'
  <2>1. /\ stream[m] # <<>> /\ stream' = [stream EXCEPT ![m] = Tail(stream[m])]
        /\ pwM' = m /\ UNCHANGED status
        /\ \/ /\ Head(stream[m]) = "deleted"
              /\ podFile' = podFile \ {m} /\ pwStep' = "mark"
           \/ podFile' = podFile \cup {m} /\ pwStep' = "check"
    BY <1>8 DEF PwTakeEvent
  <2>2. \A i \in 1..Len(Tail(stream[m])) :
            i + 1 \in 1..Len(stream[m]) /\ Tail(stream[m])[i] = stream[m][i + 1]
    BY <1>2, <2>1
  <2>3. /\ creates[m] >= 1
        /\ \A i \in 1..Len(stream[m]) : stream[m][i] = "deleted" => Gone(m)
    BY <2>1 DEF DInv, Created, Told
  <2>4. \A n \in Machines :
               /\ stream'[n] # <<>> => creates[n] >= 1
               /\ \A i \in 1..Len(stream'[n]) : stream'[n][i] = "deleted" => Gone(n)
    <3>1. stream'[m] = Tail(stream[m]) /\ \A n \in Machines \ {m} : stream'[n] = stream[n]
      BY <1>2, <2>1
    <3>2. \A i \in 1..Len(stream'[m]) : stream'[m][i] = "deleted" => Gone(m)
      BY <2>2, <2>3, <3>1
    <3>3. \A n \in Machines \ {m} :
               /\ stream[n] # <<>> => creates[n] >= 1
               /\ \A i \in 1..Len(stream[n]) : stream[n][i] = "deleted" => Gone(n)
      BY DEF DInv, Created, Told
    <3> QED
      BY <2>3, <3>1, <3>2, <3>3
  <2>5. Onward
    BY <1>4, <2>4
  <2>6. Head(stream[m]) = "deleted" => Gone(m)
    <3>1. 1 \in 1..Len(stream[m]) /\ Head(stream[m]) = stream[m][1]
      BY <1>2, <2>1
    <3> QED
      BY <2>3, <3>1
  <2>7. Created' /\ Told' /\ Filed'
    BY <1>3, <2>1, <2>3, <2>5, <2>6 DEF Onward, DInv, Created, Told, Filed
  <2> QED
    BY <1>5, <2>1, <2>5, <2>7 DEF DInv
<1>9. CASE PwMarkDeleted
  <2>1. /\ status' = [status EXCEPT ![pwM] = "deleted"] /\ pwStep' = "idle"
        /\ Gone(pwM) /\ UNCHANGED <<podFile, stream>>
    BY <1>9 DEF PwMarkDeleted, DInv, Told
  <2>2. \A m \in Machines : status'[m] = status[m] \/ (m = pwM /\ status'[m] = "deleted")
    BY <1>2, <2>1
  <2>3. Created' /\ Told' /\ Filed'
    BY <1>1, <1>3, <2>1, <2>2 DEF PwElsewhere, DInv, Created, Told, Filed, Phase
  <2> QED
    BY <1>5, <1>6, <2>1, <2>2, <2>3 DEF DInv
<1>10. CASE PwCheckStatus
  <2>1. /\ UNCHANGED <<status, podFile, stream, pwM>>
        /\ pwStep = "check" /\ pwStep' \in {"idle", "write"}
    BY <1>10 DEF PwCheckStatus
  <2>2. Created' /\ Told' /\ Filed'
    BY <1>1, <1>3, <2>1 DEF PwElsewhere, DInv, Created, Told, Filed
  <2> QED
    BY <1>5, <1>6, <2>1, <2>2 DEF DInv
<1>11. CASE PwWriteStatus
  <2>1. /\ status' = [status EXCEPT ![pwM] = pwEv] /\ pwEv \in Phase
        /\ pwM \in podFile /\ creates[pwM] >= 1
        /\ pwStep' = "idle" /\ UNCHANGED <<podFile, stream>>
    BY <1>11 DEF PwWriteStatus, DInv, Filed, Created, IInv, TypeOK, PwOK
  <2>2. \A m \in Machines : status'[m] = status[m] \/ (m = pwM /\ status'[m] \in Phase)
    BY <1>2, <2>1
  <2>3. Created' /\ Told' /\ Filed'
    BY <1>1, <1>3, <2>1, <2>2 DEF PwElsewhere, DInv, Created, Told, Filed
  <2> QED
    BY <1>5, <1>6, <2>1, <2>2, <2>3 DEF DInv, Phase
<1>12. CASE PwStops
  <2>1. /\ \A m \in Machines : stream'[m] = <<>>
        /\ pwStep' = "idle" /\ UNCHANGED <<status, podFile>>
    BY <1>12 DEF PwStops
  <2>2. Onward
    BY <1>4, <2>1
  <2>3. Created' /\ Told' /\ Filed'
    BY <1>1, <1>3, <2>1 DEF PwElsewhere, DInv, Created, Told, Filed
  <2> QED
    BY <1>5, <2>1, <2>2, <2>3 DEF DInv
<1> QED
  BY <1>7, <1>8, <1>9, <1>10, <1>11, <1>12 DEF PwStep, PwStreamEnds, PwCrash

-----------------------------------------------------------------------------
LEMMA DInductive == DInv /\ [Next]_vars => DInv'
<1> SUFFICES ASSUME DInv, [Next]_vars PROVE DInv'
  OBVIOUS
<1>1. IInv'
  BY NextInv DEF DInv
<1>2. CASE Next
  BY <1>1, <1>2, SymphonyDeletes, KubeDeletes, RwDeletes, TwDeletes, PwDeletes, CronDeletes
  DEF Next, FaultStep
<1>3. CASE UNCHANGED vars
  <2>1. Onward
    BY <1>3, StillOnward DEF vars, diskVars, kubeVars
  <2> QED
    BY <1>1, <1>3, <2>1, AllKept DEF vars, diskVars, pwVars, cronVars
<1> QED
  BY <1>2, <1>3

LEMMA DInvariance == Spec => []DInv
BY InitDInv, DInductive, PTL DEF Spec

(***************************************************************************)
(* A machine that the pod watcher marked "deleted" has no pod of its first *)
(* creation left: pod_watcher._postprocess_event marks it on a DELETED     *)
(* event alone, and that event is sent after the pod is gone.              *)
(***************************************************************************)
THEOREM NoZombieAlways == Spec => []NoZombie
<1>1. DInv => NoZombie
  BY DEF DInv, Marked, Gone, NoZombie, IInv, TypeOK, KubeOK
<1> QED
  BY <1>1, DInvariance, PTL

(***************************************************************************)
(* get_return_requests does not name a reported machine whose pod is       *)
(* there: cluster.handle_event writes the pod file before                  *)
(* pod_watcher._postprocess_event writes the status for which a poll       *)
(* reports the machine, and both are undone only by a DELETED event.       *)
(***************************************************************************)
THEOREM GoneListSoundAlways == Spec => []GoneListSound
<1>1. ASSUME DInv, ~CronOn,
             NEW m \in GetReturnRequests({n \in Machines : Reported(n)}),
             pod[m] # "absent"
      PROVE  creates[m] > 1
  <2>1. m \in Machines /\ Reported(m) /\ (m \notin podFile \/ status[m] = "deleted")
    BY <1>1 DEF GetReturnRequests
  <2>2. status[m] \in StatusLink /\ status[m] # NoStatus /\ creates[m] \in Nat
    BY <1>1, <2>1 DEF DInv, IInv, TypeOK, DiskOK, KubeOK, Whole, Written, Reported
  <2>3. status[m] \in Phase \cup {"deleted"}
    BY <2>1, <2>2 DEF Reported, RequestResult, StatusLink, PodStatus
  <2>4. Gone(m)
    BY <1>1, <2>1, <2>3 DEF DInv, Filed, Marked
  <2> QED
    BY <1>1, <2>2, <2>4 DEF Gone
<1>2. DInv => GoneListSound
  BY <1>1 DEF GoneListSound
<1> QED
  BY <1>2, DInvariance, PTL

(***************************************************************************)
(* The pods of a processed return request are gone or going, whatever the  *)
(* watcher's crashes and however stale the status that                     *)
(* handlers.make_return_machine_handler acted on: where no clean-up task   *)
(* marks machines on its own and only reported machines are returned.      *)
(***************************************************************************)
THEOREM ReturnedPodsGoAlways ==
    ASSUME ~CronOn, ~AdminReturns
    PROVE  Spec => []ReturnedPodsGo
<1>1. DInv => ReturnedPodsGo
  <2> SUFFICES ASSUME DInv, NEW t \in retDone, NEW m \in returned[t], creates[m] <= 1
               PROVE  pod[m] = "absent" \/ m \in dying
    BY DEF ReturnedPodsGo
  <2>1. Going(m) /\ creates[m] \in Nat
    BY DEF DInv, Returned, IInv, TypeOK, DiskOK, KubeOK
  <2> QED
    BY <2>1 DEF Going
<1> QED
  BY <1>1, DInvariance, PTL

-----------------------------------------------------------------------------
(* "deleted", overwritten: for any settings, the clean-up task included.   *)

\* A deletion of m is on its way to the pod watcher.
Heard(m) == \E i \in 1..Len(stream[m]) : stream[m][i] = "deleted"

\* What the pod watcher has still to be told, or has in hand, is not the last
\* word on a pod that has gone.
Unheard ==
    /\ ~pwOn => pwStep = "idle" /\ \A m \in Machines : stream[m] = <<>>
    /\ \A m \in Machines :
         stream[m] # <<>> /\ stream[m][Len(stream[m])] # "deleted" => pod[m] # "absent"
    /\ pwStep \in {"check", "write"} => pod[pwM] # "absent" \/ Heard(pwM)

\* Only machines with a status are spoken of, or looked at by the clean-up task.
Known ==
    /\ \A m \in Machines : stream[m] # <<>> \/ m \in old => status[m] # NoStatus
    /\ pwStep # "idle" => status[pwM] # NoStatus
    /\ cronStep # "idle" => status[cronM] # NoStatus

OInv == IInv /\ Unheard /\ Known

LEMMA InitOInv == Init => OInv
<1>1. Init => Unheard /\ Known
  BY DEF Init, Unheard, Known
<1> QED
  BY <1>1, InitInv DEF OInv

\* A step that leaves the streams, the pods and the watcher alone.
LEMMA QuietHeard ==
    ASSUME OInv, UNCHANGED <<pod, stream, pwVars>>
    PROVE  Unheard'
BY DEF OInv, Unheard, Heard, pwVars

\* An event that goes out is the deletion of a pod, or the pod is there.
LEMMA EmitHeard ==
    ASSUME OInv, UNCHANGED pwVars, NEW m \in Machines, NEW e \in Event, Emit(m, e),
           e = "deleted" \/ pod'[m] # "absent",
           \A n \in Machines \ {m} : pod'[n] = pod[n]
    PROVE  /\ Unheard'
           /\ \A n \in Machines \ {m} : stream'[n] # <<>> => stream[n] # <<>>
<1>1. /\ stream \in [Machines -> Seq(Event)]
      /\ pwStep \in {"check", "write"} => pwM \in Machines
  BY DEF OInv, IInv, TypeOK, KubeOK, PwOK
<1>2. CASE pwOn
  <2>1. stream'[m] = Append(stream[m], e) /\ \A n \in Machines \ {m} : stream'[n] = stream[n]
    BY <1>1, <1>2 DEF Emit
  <2>2. /\ Len(stream'[m]) \in 1..Len(stream'[m])
        /\ stream'[m][Len(stream'[m])] = e
    BY <1>1, <2>1
  <2>3. \A n \in Machines \ {m} : Heard(n) => Heard(n)'
    BY <2>1 DEF Heard
  <2>4. e = "deleted" => Heard(m)'
    BY <2>2 DEF Heard
  <2>5. \A n \in Machines :
           stream'[n] # <<>> /\ stream'[n][Len(stream'[n])] # "deleted" => pod'[n] # "absent"
    BY <2>1, <2>2 DEF OInv, Unheard
  <2>6. ASSUME pwStep \in {"check", "write"} PROVE pod'[pwM] # "absent" \/ Heard(pwM)'
    <3>1. PICK d \in Machines : d = pwM
      BY <1>1, <2>6
    <3>2. pod[d] # "absent" \/ Heard(d)
      BY <2>6, <3>1 DEF OInv, Unheard
    <3>3. pod'[d] # "absent" \/ Heard(d)'
      BY <2>3, <2>4, <3>2
    <3>4. d = pwM'
      BY <3>1 DEF pwVars
    <3> QED
      BY <3>1, <3>3, <3>4 DEF Heard
  <2> QED
    BY <1>2, <2>1, <2>5, <2>6 DEF Unheard, pwVars
<1>3. CASE ~pwOn
  BY <1>3 DEF Emit, OInv, Unheard, pwVars
<1> QED
  BY <1>2, <1>3

LEMMA DeletePodHeard ==
    ASSUME OInv, UNCHANGED <<pod, pwVars>>, NEW m \in Machines, DeletePod(m)
    PROVE  /\ Unheard'
           /\ \A n \in Machines : stream'[n] # <<>> => stream[n] # <<>> \/ pod[n] # "absent"
<1>1. CASE pod[m] # "absent" /\ m \notin dying
  <2>1. pod[m] \in Event
    BY <1>1 DEF OInv, IInv, TypeOK, KubeOK, Event
  <2> QED
    BY <1>1, <2>1, EmitHeard DEF DeletePod
<1>2. CASE ~(pod[m] # "absent" /\ m \notin dying)
  BY <1>2, QuietHeard DEF DeletePod
<1> QED
  BY <1>1, <1>2

\* Who writes a status, and from what.
StatusWrites ==
    \/ UNCHANGED status
    \/ \E m \in Machines : status[m] = NoStatus /\ status' = [status EXCEPT ![m] = "creating"]
    \/ /\ pwStep = "mark" /\ pwStep' = "idle"
       /\ status' = [status EXCEPT ![pwM] = "deleted"]
    \/ /\ pwStep = "write" /\ pwStep' = "idle"
       /\ status' = [status EXCEPT ![pwM] = pwEv]
    \/ cronStep = "mark" /\ status' = [status EXCEPT ![cronM] = "deleted"]

LEMMA StatusWriters ==
    ASSUME [Next]_vars
    PROVE  StatusWrites
<1>1. CASE \E m \in Machines : WriteStatus(m)
  BY <1>1 DEF WriteStatus, StatusWrites
<1>2. CASE PwMarkDeleted
  BY <1>2 DEF PwMarkDeleted, StatusWrites
<1>3. CASE PwWriteStatus
  BY <1>3 DEF PwWriteStatus, StatusWrites
<1>4. CASE CronMarksDeleted
  BY <1>4 DEF CronMarksDeleted, StatusWrites
<1>5. CASE UNCHANGED status
  BY <1>5 DEF StatusWrites
<1> QED
  BY <1>1, <1>2, <1>3, <1>4, <1>5
  DEF Next, SymphonyStep, ApiStep, KubeStep, FaultStep, RwStep, TwStep, PwStep, CronStep,
     RequestMachines, ReturnMachines, PublishRequest, ApiDies, LinkMachine, PodChangesPhase,
     PodModified, PodRemoved, PodEvicted, RwStart, RwAddWatch, RwPick, RwSkip, RwCreatePod,
     RwConflict, RwMarkProcessed, RwCrash, RwDies, RwFlip, RwUnchanged, TwStart, TwAddWatch,
     TwPick, TwReadStatus, TwDeletePod, TwMarkProcessed, TwCrash, TwUnchanged, PwConnect,
     PwTakeEvent, PwCheckStatus, PwStreamEnds, PwCrash, PwStops, CronReadsAge,
     CronReadsTarget, CronDeletesPod, CronDeleteFails, CronCrash, LinkAges, diskVars, vars

\* A status stays, and a machine with a pod has one.
LEMMA StatusStays ==
    ASSUME OInv, [Next]_vars
    PROVE  \A m \in Machines : /\ status[m] # NoStatus => status'[m] # NoStatus
                               /\ pod[m] # "absent" => status[m] # NoStatus
<1>1. status \in [Machines -> StatusLink] /\ (pwStep = "write" => pwEv \in Phase)
  BY DEF OInv, IInv, TypeOK, DiskOK, PwOK
<1>2. NoStatus \notin Phase \cup {"creating", "deleted"}
  BY DEF NoStatus, Phase
<1>3. \A m \in Machines : status[m] # NoStatus => status'[m] # NoStatus
  BY <1>1, <1>2, StatusWriters DEF StatusWrites
<1>4. \A m \in Machines : pod[m] # "absent" => status[m] # NoStatus
  BY DEF OInv, IInv, NoUntrackedPod
<1> QED
  BY <1>3, <1>4

\* New events and links grown old come with a status.
LEMMA KnownKept ==
    ASSUME OInv, [Next]_vars,
           \A m \in Machines :
             /\ stream'[m] # <<>> => stream[m] # <<>> \/ status[m] # NoStatus
             /\ m \in old' => m \in old \/ status[m] # NoStatus,
           pwStep' # "idle" => pwM' \in Machines /\ status[pwM'] # NoStatus,
           cronStep' # "idle" => cronM' \in Machines /\ status[cronM'] # NoStatus
    PROVE  Known'
BY StatusStays DEF OInv, Known

\* A step that is none of the pod watcher's, nor of the clean-up task's.
LEMMA OthersOverwrite ==
    ASSUME OInv, IInv', [Next]_vars, UNCHANGED pwVars, UNCHANGED cronVars, Unheard',
           UNCHANGED old,
           \A m \in Machines : stream'[m] # <<>> => stream[m] # <<>> \/ status[m] # NoStatus
    PROVE  OInv'
<1>1. /\ pwStep # "idle" => pwM \in Machines /\ status[pwM] # NoStatus
      /\ cronStep # "idle" => cronM \in Machines /\ status[cronM] # NoStatus
  BY DEF OInv, Known, IInv, TypeOK, PwOK, CronOK
<1>2. Known'
  BY <1>1, KnownKept DEF pwVars, cronVars
<1> QED
  BY <1>2 DEF OInv

LEMMA OInductive == OInv /\ [Next]_vars => OInv'
<1> SUFFICES ASSUME OInv, [Next]_vars PROVE OInv'
  OBVIOUS
<1>1. IInv'
  BY NextInv DEF OInv
<1>2. \A m \in Machines : /\ status[m] # NoStatus => status'[m] # NoStatus
                          /\ pod[m] # "absent" => status[m] # NoStatus
  BY StatusStays
<1>3. /\ status \in [Machines -> StatusLink] /\ pod \in [Machines -> Phase \cup {"absent"}]
      /\ old \subseteq Machines
      /\ stream \in [Machines -> Seq(Event)]
      /\ pwStep # "idle" => pwM \in Machines
      /\ cronStep # "idle" => cronM \in Machines
  BY DEF OInv, IInv, TypeOK, DiskOK, KubeOK, PwOK, CronOK
<1>4. ASSUME SymphonyStep \/ ApiStep \/ (\E r \in Requests : ApiDies(r)) PROVE OInv'
  <2>1. UNCHANGED <<old, pod, stream, pwVars, cronVars>>
    BY <1>4 DEF SymphonyStep, ApiStep, ApiDies, RequestMachines, ReturnMachines,
                WriteStatus, LinkMachine, PublishRequest, kubeVars
  <2> QED
    BY <1>1, <2>1, QuietHeard, OthersOverwrite
<1>5. ASSUME NEW m \in Machines,
             \/ PodChangesPhase(m) \/ PodModified(m) \/ PodRemoved(m) \/ PodEvicted(m)
             \/ RwCreatePod(m)
      PROVE  OInv'
  <2>1. UNCHANGED <<old, pwVars, cronVars>>
    BY <1>5 DEF PodChangesPhase, PodModified, PodRemoved, PodEvicted, RwCreatePod,
         RwUnchanged, diskVars
  <2>2. status[m] # NoStatus
    BY <1>2, <1>5 DEF OInv, IInv, Whole, Written, Serving, MachinesOf, PublishedRequests,
     PodChangesPhase, PodModified, PodRemoved, PodEvicted, RwCreatePod, RwUnchanged
  <2>3. CASE PodChangesPhase(m) \/ PodModified(m) \/ PodRemoved(m) \/ RwCreatePod(m)
    <3>1. \E e \in Event : /\ Emit(m, e)
                           /\ e = "deleted" \/ pod'[m] # "absent"
                           /\ \A n \in Machines \ {m} : pod'[n] = pod[n]
      BY <1>3, <2>3, PhasesAssumption
      DEF PodChangesPhase, PodModified, PodRemoved, RwCreatePod, Event, Phase
    <3>2. Unheard' /\ \A n \in Machines \ {m} : stream'[n] # <<>> => stream[n] # <<>>
      BY <2>1, <3>1, EmitHeard
    <3> QED
      BY <1>1, <2>1, <2>2, <3>2, OthersOverwrite
  <2>4. CASE PodEvicted(m)
    <3>1. UNCHANGED pod /\ DeletePod(m)
      BY <2>4 DEF PodEvicted
    <3>2. /\ Unheard'
          /\ \A n \in Machines : stream'[n] # <<>> => stream[n] # <<>> \/ pod[n] # "absent"
      BY <2>1, <3>1, DeletePodHeard
    <3> QED
      BY <1>1, <1>2, <2>1, <3>2, OthersOverwrite
  <2> QED
    BY <1>5, <2>3, <2>4
<1>6. ASSUME RwStep \/ RwCrash, \A m \in Machines : ~RwCreatePod(m) PROVE OInv'
  <2>1. UNCHANGED <<old, pod, stream, pwVars, cronVars>>
    BY <1>6 DEF RwStep, RwStart, RwAddWatch, RwPick, RwSkip, RwConflict, RwFlip,
                RwMarkProcessed, RwDies, RwCrash, RwUnchanged, kubeVars
  <2> QED
    BY <1>1, <2>1, QuietHeard, OthersOverwrite
<1>7. ASSUME TwStep \/ TwCrash PROVE OInv'
  <2>1. UNCHANGED <<old, pod, pwVars, cronVars>>
    BY <1>7 DEF TwStep, TwStart, TwAddWatch, TwPick, TwReadStatus, TwDeletePod, TwMarkProcessed,
                TwCrash, TwUnchanged
  <2>2. UNCHANGED stream \/ \E m \in Machines : DeletePod(m)
    BY <1>7 DEF TwStep, TwStart, TwAddWatch, TwPick, TwReadStatus, TwDeletePod, TwMarkProcessed,
                TwCrash, OInv, IInv, TypeOK, TwOK
  <2>3. /\ Unheard'
        /\ \A n \in Machines : stream'[n] # <<>> => stream[n] # <<>> \/ pod[n] # "absent"
    BY <2>1, <2>2, QuietHeard, DeletePodHeard
  <2> QED
    BY <1>1, <1>2, <2>1, <2>3, OthersOverwrite
<1>8. ASSUME CronStep \/ CronDeleteFails \/ CronCrash \/ \E m \in Machines : LinkAges(m)
      PROVE  OInv'
  <2>1. UNCHANGED <<pod, pwVars>>
    BY <1>8 DEF CronStep, CronReadsAge, CronReadsTarget, CronDeletesPod, CronMarksDeleted,
                CronDeleteFails, CronCrash, LinkAges, CronUnchanged
  <2>2. UNCHANGED stream \/ \E m \in Machines : DeletePod(m)
    BY <1>3, <1>8 DEF CronStep, CronReadsAge, CronReadsTarget, CronDeletesPod,
                CronMarksDeleted, CronDeleteFails, CronCrash, LinkAges
  <2>3. /\ Unheard'
        /\ \A n \in Machines : stream'[n] # <<>> => stream[n] # <<>> \/ pod[n] # "absent"
    BY <2>1, <2>2, QuietHeard, DeletePodHeard
  <2>4. cronStep' # "idle" => cronM' \in Machines /\ status[cronM'] # NoStatus
    BY <1>3, <1>8 DEF CronStep, CronReadsAge, CronReadsTarget, CronDeletesPod,
                CronMarksDeleted, CronDeleteFails, CronCrash, LinkAges, cronVars, OInv, Known
  <2>5. \A m \in Machines : m \in old' => m \in old \/ status[m] # NoStatus
    BY <1>8 DEF CronStep, CronReadsAge, CronReadsTarget, CronDeletesPod, CronMarksDeleted,
                CronDeleteFails, CronCrash, LinkAges
  <2>6. pwStep' # "idle" => pwM' \in Machines /\ status[pwM'] # NoStatus
    BY <1>3, <2>1 DEF pwVars, OInv, Known
  <2>7. Known'
    BY <1>2, <2>3, <2>4, <2>5, <2>6, KnownKept
  <2> QED
    BY <1>1, <2>3, <2>7 DEF OInv
<1>9. ASSUME PwStep \/ PwStreamEnds \/ PwCrash PROVE OInv'
  <2>1. UNCHANGED <<pod, cronVars>> /\ old' \subseteq old
    BY <1>9 DEF PwStep, PwConnect, PwTakeEvent, PwMarkDeleted, PwCheckStatus, PwWriteStatus,
                PwStreamEnds, PwCrash, PwStops, PwUnchanged, PwElsewhere
  <2>2. cronStep' # "idle" => cronM' \in Machines /\ status[cronM'] # NoStatus
    BY <1>3, <2>1 DEF cronVars, OInv, Known
  <2>3. CASE PwConnect
    <3>1. /\ \A m \in Machines : stream'[m] = IF pod[m] = "absent" THEN <<>> ELSE <<pod[m]>>
          /\ pwOn' = TRUE /\ pwStep = "idle" /\ UNCHANGED <<status, pwStep, pwM>>
      BY <2>3 DEF PwConnect, OInv, Unheard
    <3>2. \A m \in Machines : stream'[m] # <<>> => pod[m] # "absent"
      BY <3>1
    <3>3. Unheard'
      BY <2>1, <3>1, <3>2 DEF Unheard
    <3>4. Known'
      BY <1>2, <2>1, <2>2, <3>1, <3>2, KnownKept
    <3> QED
      BY <1>1, <3>3, <3>4 DEF OInv
  <2>4. ASSUME NEW m \in Machines, PwTakeEvent(m) PROVE OInv'
    <3>1. /\ stream[m] # <<>> /\ stream' = [stream EXCEPT ![m] = Tail(stream[m])]
          /\ pwM' = m /\ pwOn /\ UNCHANGED <<status, pwOn>>
          /\ \/ Head(stream[m]) = "deleted" /\ pwStep' = "mark"
             \/ Head(stream[m]) # "deleted" /\ pwStep' = "check"
      BY <2>4 DEF PwTakeEvent
    <3>2. /\ stream'[m] = Tail(stream[m])
          /\ \A n \in Machines \ {m} : stream'[n] = stream[n]
      BY <1>3, <3>1
    <3>3. /\ Len(stream[m]) = 1 => Head(stream[m]) = stream[m][Len(stream[m])]
          /\ Tail(stream[m]) # <<>> =>
               /\ Tail(stream[m])[Len(Tail(stream[m]))] = stream[m][Len(stream[m])]
               /\ Len(Tail(stream[m])) \in 1..Len(Tail(stream[m]))
          /\ Tail(stream[m]) = <<>> => Len(stream[m]) = 1
      <4>1. PICK q \in Seq(Event) : q = stream[m] /\ q # <<>>
        BY <1>3, <3>1
      <4>2. /\ Len(q) \in Nat \ {0} /\ Head(q) = q[1] /\ Len(Tail(q)) = Len(q) - 1
            /\ \A i \in 1..Len(q) - 1 : Tail(q)[i] = q[i + 1]
            /\ Tail(q) \in Seq(Event)
        BY <4>1
      <4>3. CASE Len(q) = 1
        <5>1. \A s \in Seq(Event) : Len(s) = 0 => s = <<>>
          OBVIOUS
        <5>2. Tail(q) = <<>>
          <6>1. PICK t \in Seq(Event) : t = Tail(q)
            BY <4>2
          <6>2. Len(t) = 0
            BY <4>2, <4>3, <6>1
          <6>3. t = <<>>
            BY <5>1, <6>2
          <6> QED
            BY <6>1, <6>3
        <5> QED
          BY <4>1, <4>2, <4>3, <5>2
      <4>4. CASE Len(q) # 1
        <5>1. Len(q) - 1 \in 1..Len(q) - 1 /\ Len(q) - 1 # 0
          BY <4>2, <4>4
        <5>2. Tail(q)[Len(q) - 1] = q[Len(q)] /\ Tail(q) # <<>>
          BY <4>2, <5>1
        <5> QED
          BY <4>1, <4>2, <4>4, <5>1, <5>2
      <4> QED
        BY <4>3, <4>4
    <3>4. \A n \in Machines :
             stream[n] # <<>> /\ stream[n][Len(stream[n])] # "deleted" => pod[n] # "absent"
      BY DEF OInv, Unheard
    <3>5. \A n \in Machines :
             stream'[n] # <<>> /\ stream'[n][Len(stream'[n])] # "deleted" => pod'[n] # "absent"
      <4>1. stream'[m] # <<>> /\ stream'[m][Len(stream'[m])] # "deleted" => pod[m] # "absent"
        BY <3>1, <3>2, <3>3, <3>4
      <4> QED
        BY <2>1, <3>2, <3>4, <4>1
    <3>6. Head(stream[m]) # "deleted" => pod'[m] # "absent" \/ Heard(m)'
      <4>1. CASE Tail(stream[m]) = <<>>
        BY <2>1, <3>1, <3>3, <3>4, <4>1
      <4>2. CASE Tail(stream[m]) # <<>>
        BY <2>1, <3>2, <3>3, <3>5, <4>2 DEF Heard
      <4> QED
        BY <4>1, <4>2
    <3>7. Unheard'
      BY <3>1, <3>5, <3>6 DEF Unheard, Heard
    <3>8. status[m] # NoStatus
      BY <3>1 DEF OInv, Known
    <3>9. Known'
      BY <2>1, <2>2, <3>1, <3>2, <3>8, KnownKept
    <3> QED
      BY <1>1, <3>7, <3>9 DEF OInv
  <2>5. CASE PwMarkDeleted \/ PwCheckStatus \/ PwWriteStatus
    <3>1. /\ UNCHANGED <<stream, pwOn, pwM>>
          /\ pwStep' = "idle" \/ (pwStep = "check" /\ pwStep' = "write")
          /\ pwStep # "idle"
      BY <2>5 DEF PwMarkDeleted, PwCheckStatus, PwWriteStatus
    <3>2. Unheard'
      BY <2>1, <3>1 DEF OInv, Unheard, Heard
    <3>3. pwStep' # "idle" => pwM' \in Machines /\ status[pwM'] # NoStatus
      BY <1>3, <3>1 DEF OInv, Known
    <3>4. Known'
      BY <2>1, <2>2, <3>1, <3>3, KnownKept
    <3> QED
      BY <1>1, <3>2, <3>4 DEF OInv
  <2>6. CASE PwStops
    <3>1. /\ \A m \in Machines : stream'[m] = <<>>
          /\ pwStep' = "idle" /\ UNCHANGED status
      BY <2>6 DEF PwStops
    <3>2. Unheard'
      BY <3>1 DEF Unheard
    <3>3. Known'
      BY <2>1, <2>2, <3>1, KnownKept
    <3> QED
      BY <1>1, <3>2, <3>3 DEF OInv
  <2> QED
    BY <1>9, <2>3, <2>4, <2>5, <2>6 DEF PwStep, PwStreamEnds, PwCrash
<1>10. CASE UNCHANGED vars
  <2>1. UNCHANGED <<old, pod, stream, pwVars, cronVars>>
    BY <1>10 DEF vars, diskVars, kubeVars
  <2> QED
    BY <1>1, <2>1, QuietHeard, OthersOverwrite
<1> QED
  BY <1>4, <1>5, <1>6, <1>7, <1>8, <1>9, <1>10
  DEF Next, KubeStep, FaultStep, RwStep

(***************************************************************************)
(* A machine marked "deleted" whose pod has gone, and of whose deletion    *)
(* nothing is still to be told, stays "deleted", whichever of the two      *)
(* processes was between its read and its write when it went               *)
(* (pod_watcher._postprocess_event, hfcron.CleanupPodsTask): what the pod  *)
(* watcher has in hand is a phase only while the pod is there or its       *)
(* deletion is still to come.                                              *)
(***************************************************************************)
THEOREM GoneStaysDeletedAlways == Spec => GoneStaysDeleted
<1>1. ASSUME OInv, [Next]_vars, NEW m \in Machines,
             status[m] = "deleted", pod[m] = "absent", ~Heard(m)
      PROVE  status'[m] = "deleted"
  <2>1. status \in [Machines -> StatusLink] /\ "deleted" # NoStatus
    BY <1>1 DEF OInv, IInv, TypeOK, DiskOK, NoStatus
  <2>2. pwStep = "write" => pwM # m
    BY <1>1 DEF OInv, Unheard
  <2> QED
    BY <1>1, <2>1, <2>2, StatusWriters DEF StatusWrites
<1>2. OInv /\ [Next]_vars =>
        [\A m \in Machines :
            /\ status[m] = "deleted" /\ pod[m] = "absent"
            /\ \A i \in 1..Len(stream[m]) : stream[m][i] # "deleted"
            => status'[m] = "deleted"]_vars
  BY <1>1 DEF Heard
<1> QED
  BY <1>2, InitOInv, OInductive, PTL DEF Spec, GoneStaysDeleted

-----------------------------------------------------------------------------
(***************************************************************************)
(* The moves of a status link and its pod file.  What the pod watcher      *)
(* knows of a pod that was created once is never ahead of what it is still *)
(* to be told: the status, the event in hand, the events on their way and  *)
(* the pod itself are in the order of the phases, so that each write is a  *)
(* move that pods make; and once its deletion is in hand nothing follows   *)
(* that would bring the file back.  For any phases, settings and faults.   *)
(***************************************************************************)
Upto(p, q) == p = q \/ <<p, q>> \in PhaseStep

\* Phase p is not ahead of anything that is to be told of m.
Behind(m, p) ==
    /\ \A i \in 1..Len(stream[m]) : stream[m][i] # "deleted" => Upto(p, stream[m][i])
    /\ pod[m] # "absent" => Upto(p, pod[m])

Holds(m) == pwM = m /\ pwStep \in {"check", "write"}

InOrder(m) ==
    /\ \A i, j \in 1..Len(stream[m]) : i < j => stream[m][i] # "deleted"
    /\ \A i, j \in 1..Len(stream[m]) :
         i <= j /\ stream[m][j] # "deleted" =>
             stream[m][i] # "deleted" /\ Upto(stream[m][i], stream[m][j])
    /\ pod[m] # "absent" =>
         \A i \in 1..Len(stream[m]) :
             stream[m][i] # "deleted" /\ Upto(stream[m][i], pod[m])
    /\ status[m] \in Phase => Behind(m, status[m])
    /\ Holds(m) => Behind(m, pwEv) /\ (status[m] \in Phase => Upto(status[m], pwEv))

Ordered == \A m \in Machines : creates[m] <= 1 => InOrder(m)

\* Only the clean-up task writes between the two steps of the pod watcher.
Unmarked == ~CronOn /\ pwStep = "write" => status[pwM] # "deleted"

\* The last that is told of m has been taken in hand: its deletion is being
\* marked, or its pod file has gone before its phase, or it is marked.
Past(m) ==
    \/ pwStep = "mark" /\ pwM = m
    \/ status[m] \in Phase /\ m \notin podFile
    \/ ~CronOn /\ status[m] = "deleted"

\* Nothing follows, so that no event brings the pod file back.
Silent(m) ==
    /\ pwStep = "mark" /\ pwM = m => m \notin podFile
    /\ Past(m) => stream[m] = <<>>

Hushed == \A m \in Machines : creates[m] <= 1 => Silent(m)

SInv == DInv /\ OInv /\ Ordered /\ Unmarked /\ Hushed

LEMMA UptoTransitive ==
    ASSUME NEW p, NEW q, NEW r, Upto(p, q), Upto(q, r)
    PROVE  Upto(p, r)
<1>1. ASSUME NEW u, NEW v, <<u, v>> \in PhaseStep
      PROVE  \/ u = "pending" /\ v \in {"running", "succeeded", "failed", "unknown"}
             \/ u = "running" /\ v \in {"succeeded", "failed", "unknown"}
             \/ u = "unknown" /\ v \in {"running", "succeeded", "failed"}
  BY <1>1 DEF PhaseStep
<1> QED
  BY <1>1 DEF Upto, PhaseStep

LEMMA InitSInv == Init => SInv
<1>1. ASSUME Init PROVE Ordered /\ Unmarked /\ Hushed
  <2>1. \A m \in Machines : stream[m] = <<>> /\ pod[m] = "absent" /\ status[m] = NoStatus
    BY <1>1 DEF Init
  <2>2. pwStep = "idle"
    BY <1>1 DEF Init
  <2> QED
    BY <2>1, <2>2 DEF Ordered, Unmarked, Hushed, Silent, InOrder, Holds, NoStatus, Phase
<1> QED
  BY <1>1, InitDInv, InitOInv DEF SInv

\* Nothing new is told of m, nor taken in hand.
LEMMA OrderKept ==
    ASSUME NEW m \in Machines, InOrder(m), pod'[m] = pod[m],
           stream'[m] = stream[m] \/ stream'[m] = <<>>,
           status'[m] = status[m] \/ status'[m] \notin Phase,
           Holds(m)' => Holds(m) /\ pwEv' = pwEv
    PROVE  InOrder(m)'
BY DEF InOrder, Behind, Holds

\* An event goes out: the pod moved on, is named again or has gone.
LEMMA EmitKeepsOrder ==
    ASSUME OInv, NEW n \in Machines, NEW e \in Event, Emit(n, e), UNCHANGED <<status, pwVars>>,
           pod[n] # "absent", \A m \in Machines \ {n} : pod'[m] = pod[m],
           \/ e = "deleted" /\ pod'[n] = "absent"
           \/ e # "deleted" /\ pod'[n] = e /\ Upto(pod[n], e),
           NEW m \in Machines, InOrder(m)
    PROVE  InOrder(m)'
<1>1. stream \in [Machines -> Seq(Event)]
  BY DEF OInv, IInv, TypeOK, KubeOK
<1>2. /\ UNCHANGED <<pwOn, pwStep, pwM, pwEv>>
      /\ Holds(m)' <=> Holds(m)
  BY DEF pwVars, Holds
<1>3. CASE m # n
  <2>1. stream'[m] = stream[m] /\ pod'[m] = pod[m]
    BY <1>1, <1>3 DEF Emit
  <2> QED
    BY <1>2, <2>1, OrderKept
<1>4. CASE m = n /\ ~pwOn
  <2>1. stream'[m] = stream[m]
    BY <1>4 DEF Emit
  <2>2. stream'[m] = <<>>
    BY <1>4, <2>1 DEF OInv, Unheard
  <2>3. ~Holds(m)
    BY <1>4 DEF OInv, Unheard, Holds
  <2>4. status[m] \in Phase => Behind(m, status[m])'
    <3>1. status[m] \in Phase => Upto(status[m], pod[m])
      BY <1>4 DEF InOrder, Behind
    <3>2. status[m] \in Phase /\ pod'[m] # "absent" => Upto(status[m], pod'[m])
      BY <1>4, <3>1, UptoTransitive
    <3> QED
      BY <2>2, <3>2 DEF Behind
  <2> QED
    BY <1>2, <2>2, <2>3, <2>4 DEF InOrder
<1>5. CASE m = n /\ pwOn
  <2>1. PICK s \in Seq(Event) : s = stream[m]
    BY <1>1
  <2>2. PICK t \in Seq(Event) : t = Append(s, e)
    <3>1. Append(s, e) \in Seq(Event)
      OBVIOUS
    <3> QED
      BY <3>1
  <2>3. stream'[m] = t
    BY <1>1, <1>5, <2>1, <2>2 DEF Emit
  <2>4. /\ Len(s) \in Nat /\ Len(t) = Len(s) + 1 /\ t[Len(t)] = e
        /\ \A i \in 1..Len(t) : i = Len(t) \/ (i \in 1..Len(s) /\ t[i] = s[i])
    BY <2>2
  <2>5. pod[m] # "absent"
    BY <1>5
  <2>6. \A i \in 1..Len(s) : s[i] # "deleted" /\ Upto(s[i], pod[m])
    BY <2>1, <2>5 DEF InOrder
  <2>7. e # "deleted" => \A p : Upto(p, pod[m]) => Upto(p, e)
    BY <1>5, UptoTransitive
  <2>8. \A i \in 1..Len(t) : i # Len(t) => t[i] # "deleted" /\ (e # "deleted" => Upto(t[i], e))
    BY <2>4, <2>6, <2>7
  <2>9. \A i, j \in 1..Len(s) : i <= j /\ s[j] # "deleted" => s[i] # "deleted" /\ Upto(s[i], s[j])
    BY <2>1 DEF InOrder
  <2>10. \A i, j \in 1..Len(t) : i <= j /\ t[j] # "deleted" => t[i] # "deleted" /\ Upto(t[i], t[j])
    <3> SUFFICES ASSUME NEW i \in 1..Len(t), NEW j \in 1..Len(t), i <= j, t[j] # "deleted"
                 PROVE  t[i] # "deleted" /\ Upto(t[i], t[j])
      OBVIOUS
    <3>1. CASE j = Len(t) /\ i = Len(t)
      BY <3>1 DEF Upto
    <3>2. CASE j = Len(t) /\ i # Len(t)
      BY <2>4, <2>8, <3>2
    <3>3. CASE j # Len(t)
      BY <2>4, <2>9, <3>3
    <3> QED
      BY <3>1, <3>2, <3>3
  <2>11. \A i, j \in 1..Len(t) : i < j => t[i] # "deleted"
    BY <2>4, <2>8
  <2>12. ASSUME pod'[m] # "absent" PROVE \A i \in 1..Len(t) : t[i] # "deleted" /\ Upto(t[i], pod'[m])
    <3>1. e # "deleted" /\ pod'[m] = e
      BY <1>5, <2>12
    <3> QED
      BY <2>4, <2>8, <3>1 DEF Upto
  <2>13. ASSUME NEW p, Behind(m, p) PROVE Behind(m, p)'
    <3>1. Upto(p, pod[m]) /\ \A i \in 1..Len(s) : s[i] # "deleted" => Upto(p, s[i])
      BY <2>1, <2>5, <2>13 DEF Behind
    <3>2. \A i \in 1..Len(t) : t[i] # "deleted" => Upto(p, t[i])
      BY <2>4, <2>7, <3>1
    <3>3. pod'[m] # "absent" => Upto(p, pod'[m])
      BY <1>5, <2>7, <3>1
    <3> QED
      BY <2>3, <3>2, <3>3 DEF Behind
  <2>14. PICK u, v : u = status[m] /\ v = pwEv
    OBVIOUS
  <2>15. /\ u \in Phase => Behind(m, u)'
         /\ Holds(m) => Behind(m, v)' /\ (u \in Phase => Upto(u, v))
    BY <2>13, <2>14 DEF InOrder
  <2>16. status'[m] = u /\ pwEv' = v
    BY <1>2, <2>14
  <2> QED
    BY <1>2, <2>3, <2>10, <2>12, <2>15, <2>16, <2>11 DEF InOrder, Behind
<1> QED
  BY <1>3, <1>4, <1>5

LEMMA DeletePodKeepsOrder ==
    ASSUME OInv, NEW n \in Machines, DeletePod(n), UNCHANGED <<pod, status, pwVars>>,
           NEW m \in Machines, InOrder(m)
    PROVE  InOrder(m)'
<1>1. pod \in [Machines -> Phase \cup {"absent"}]
  BY DEF OInv, IInv, TypeOK, KubeOK
<1>2. CASE pod[n] # "absent" /\ n \notin dying
  <2>1. pod[n] \in Event /\ pod[n] # "deleted" /\ Upto(pod[n], pod[n])
    BY <1>1, <1>2 DEF Event, Phase, Upto
  <2>2. Emit(n, pod[n])
    BY <1>2 DEF DeletePod
  <2> QED
    BY <1>2, <2>1, <2>2, EmitKeepsOrder
<1>3. CASE ~(pod[n] # "absent" /\ n \notin dying)
  <2>1. UNCHANGED stream
    BY <1>3 DEF DeletePod
  <2> QED
    BY <2>1, OrderKept DEF pwVars, Holds
<1> QED
  BY <1>2, <1>3

\* The pod watcher takes the next event.
LEMMA TakeEventKeepsOrder ==
    ASSUME OInv, NEW n \in Machines, PwTakeEvent(n), NEW m \in Machines, InOrder(m),
           m # n => ~Holds(m)'
    PROVE  InOrder(m)'
<1>1. /\ stream \in [Machines -> Seq(Event)] /\ pwStep = "idle"
      /\ stream[n] # <<>> /\ stream' = [stream EXCEPT ![n] = Tail(stream[n])]
      /\ pwM' = n /\ pwEv' = Head(stream[n]) /\ UNCHANGED <<status, pod>>
      /\ pwStep' = "check" => Head(stream[n]) # "deleted"
      /\ pwStep' \in {"check", "mark"}
  BY DEF PwTakeEvent, PwUnchanged, PwElsewhere, OInv, IInv, TypeOK, KubeOK
<1>2. CASE m # n
  <2>1. stream'[m] = stream[m]
    BY <1>1, <1>2
  <2> QED
    BY <1>1, <1>2, <2>1, OrderKept
<1>3. CASE m = n
  <2>1. PICK q \in Seq(Event) : q = stream[m] /\ q # <<>>
    BY <1>1, <1>3
  <2>2. /\ Len(q) \in Nat \ {0} /\ Head(q) = q[1] /\ Len(Tail(q)) = Len(q) - 1
        /\ \A i \in 1..Len(q) - 1 : Tail(q)[i] = q[i + 1]
    BY <2>1
  <2>3. PICK t : t = Tail(q)
    OBVIOUS
  <2>4. stream'[m] = t /\ pwEv' = q[1] /\ status'[m] = status[m] /\ pod'[m] = pod[m]
    BY <1>1, <1>3, <2>1, <2>2, <2>3
  <2>5. \A i \in 1..Len(t) : i + 1 \in 1..Len(q) /\ t[i] = q[i + 1]
    BY <2>2, <2>3
  <2>6. /\ \A i, j \in 1..Len(q) : i <= j /\ q[j] # "deleted" =>
             q[i] # "deleted" /\ Upto(q[i], q[j])
        /\ pod[m] # "absent" =>
             \A i \in 1..Len(q) : q[i] # "deleted" /\ Upto(q[i], pod[m])
        /\ status[m] \in Phase => Behind(m, status[m])
    BY <2>1 DEF InOrder
  <2>7. \A i, j \in 1..Len(t) : i <= j /\ t[j] # "deleted" =>
             t[i] # "deleted" /\ Upto(t[i], t[j])
    <3> SUFFICES ASSUME NEW i \in 1..Len(t), NEW j \in 1..Len(t), i <= j, t[j] # "deleted"
                 PROVE  t[i] # "deleted" /\ Upto(t[i], t[j])
      OBVIOUS
    <3>1. i + 1 <= j + 1 /\ i + 1 \in 1..Len(q) /\ j + 1 \in 1..Len(q)
          /\ t[i] = q[i + 1] /\ t[j] = q[j + 1]
      BY <2>2, <2>3, <2>5
    <3> QED
      BY <2>6, <3>1
  <2>8. \A i, j \in 1..Len(t) : i < j => t[i] # "deleted"
    <3>1. \A i, j \in 1..Len(q) : i < j => q[i] # "deleted"
      BY <2>1 DEF InOrder
    <3> SUFFICES ASSUME NEW i \in 1..Len(t), NEW j \in 1..Len(t), i < j
                 PROVE  t[i] # "deleted"
      OBVIOUS
    <3>2. i + 1 < j + 1 /\ i + 1 \in 1..Len(q) /\ j + 1 \in 1..Len(q) /\ t[i] = q[i + 1]
      BY <2>2, <2>3, <2>5
    <3> QED
      BY <3>1, <3>2
  <2>9. pod[m] # "absent" => \A i \in 1..Len(t) : t[i] # "deleted" /\ Upto(t[i], pod[m])
    BY <2>5, <2>6
  <2>10. ASSUME NEW p, Behind(m, p) PROVE Behind(m, p)'
    <3>1. \A i \in 1..Len(t) : t[i] # "deleted" => Upto(p, t[i])
      BY <2>1, <2>5, <2>10 DEF Behind
    <3> QED
      BY <2>4, <2>10, <3>1 DEF Behind
  <2>11. PICK u, v : u = status[m] /\ v = q[1]
    OBVIOUS
  <2>12. u \in Phase => Behind(m, u)'
    BY <2>6, <2>10, <2>11
  <2>13. ASSUME Holds(m)' PROVE Behind(m, v)' /\ (u \in Phase => Upto(u, v))
    <3>1. v # "deleted"
      BY <1>1, <1>3, <2>1, <2>2, <2>11, <2>13 DEF Holds
    <3>2. 1 \in 1..Len(q) /\ \A i \in 1..Len(t) : 1 <= i + 1
      BY <2>2, <2>3
    <3>3. \A i \in 1..Len(t) : t[i] # "deleted" => Upto(v, t[i])
      BY <2>5, <2>6, <2>11, <3>2
    <3>4. pod[m] # "absent" => Upto(v, pod[m])
      BY <2>6, <2>11, <3>2
    <3>5. u \in Phase => Upto(u, v)
      BY <2>1, <2>6, <2>11, <3>1, <3>2 DEF Behind
    <3> QED
      BY <2>4, <3>3, <3>4, <3>5 DEF Behind
  <2> QED
    BY <2>4, <2>7, <2>9, <2>11, <2>12, <2>13, <2>8 DEF InOrder, Behind
<1> QED
  BY <1>2, <1>3

\* What does nothing to pods, streams and the watcher, and writes no phase.
LEMMA QuietOrder ==
    ASSUME UNCHANGED <<pod, stream, pwVars>>,
           \A m \in Machines : status'[m] = status[m] \/ status'[m] \notin Phase,
           NEW m \in Machines, InOrder(m)
    PROVE  InOrder(m)'
BY OrderKept DEF pwVars, Holds

LEMMA PwKeepsOrder ==
    ASSUME OInv, PwStep \/ PwStreamEnds \/ PwCrash, NEW m \in Machines, InOrder(m)
    PROVE  InOrder(m)'
<1>1. status \in [Machines -> StatusLink]
  BY DEF OInv, IInv, TypeOK, DiskOK
<1>2. CASE PwConnect
  <2>1. /\ stream'[m] = IF pod[m] = "absent" THEN <<>> ELSE <<pod[m]>>
        /\ UNCHANGED <<status, pod, pwStep, pwM, pwEv>> /\ pwStep = "idle"
    BY <1>2 DEF PwConnect, PwUnchanged, PwElsewhere, OInv, Unheard
  <2>2. CASE pod[m] = "absent"
    BY <2>1, <2>2, OrderKept DEF Holds
  <2>3. CASE pod[m] # "absent"
    <3>1. pod[m] # "deleted"
      BY <2>3 DEF OInv, IInv, TypeOK, KubeOK, Phase
    <3>2. /\ Len(stream'[m]) = 1 /\ stream'[m][1] = pod[m]
          /\ \A i \in 1..Len(stream'[m]) : stream'[m][i] = pod[m]
      BY <2>1, <2>3
    <3>3. status[m] \in Phase => Upto(status[m], pod[m])
      BY <2>3 DEF InOrder, Behind
    <3> QED
      BY <2>1, <3>1, <3>2, <3>3 DEF InOrder, Behind, Holds, Upto
  <2> QED
    BY <2>2, <2>3
<1>3. ASSUME NEW n \in Machines, PwTakeEvent(n) PROVE InOrder(m)'
  <2>1. m # n => ~Holds(m)'
    BY <1>3 DEF PwTakeEvent, Holds
  <2> QED
    BY <1>3, <2>1, TakeEventKeepsOrder
<1>4. CASE PwMarkDeleted \/ PwCheckStatus
  <2>1. /\ UNCHANGED <<pod, stream, pwM, pwEv>> /\ (Holds(m)' => Holds(m))
    BY <1>4 DEF PwMarkDeleted, PwCheckStatus, PwUnchanged, PwElsewhere, Holds
  <2>2. UNCHANGED status \/ status' = [status EXCEPT ![pwM] = "deleted"]
    BY <1>4 DEF PwMarkDeleted, PwCheckStatus
  <2>3. status'[m] = status[m] \/ status'[m] = "deleted"
    BY <1>1, <2>2
  <2> QED
    BY <2>1, <2>3, OrderKept DEF Phase
<1>5. CASE PwWriteStatus
  <2>1. /\ UNCHANGED <<pod, stream>> /\ ~Holds(m)' /\ pwStep = "write"
        /\ status' = [status EXCEPT ![pwM] = pwEv]
    BY <1>5 DEF PwWriteStatus, PwUnchanged, PwElsewhere, Holds
  <2>2. CASE m # pwM
    BY <1>1, <2>1, <2>2, OrderKept
  <2>3. CASE m = pwM
    <3>1. Behind(m, pwEv)
      BY <2>1, <2>3 DEF InOrder, Holds
    <3>2. status'[m] = pwEv
      BY <1>1, <2>1, <2>3
    <3> QED
      BY <2>1, <3>1, <3>2 DEF InOrder, Behind
  <2> QED
    BY <2>2, <2>3
<1>6. CASE PwStops
  <2>1. UNCHANGED <<pod, status>> /\ stream'[m] = <<>> /\ ~Holds(m)'
    BY <1>6 DEF PwStops, PwElsewhere, Holds
  <2> QED
    BY <2>1, OrderKept
<1> QED
  BY <1>2, <1>3, <1>4, <1>5, <1>6 DEF PwStep, PwStreamEnds, PwCrash

LEMMA OrderedInductive ==
    ASSUME SInv, [Next]_vars
    PROVE  Ordered'
<1>1. /\ status \in [Machines -> StatusLink] /\ pod \in [Machines -> Phase \cup {"absent"}]
      /\ creates \in [Machines -> Nat] /\ stream \in [Machines -> Seq(Event)]
      /\ pwStep # "idle" => pwM \in Machines
      /\ OInv
  BY DEF SInv, OInv, IInv, TypeOK, DiskOK, KubeOK, PwOK
<1>2. ASSUME UNCHANGED creates, \A m \in Machines : InOrder(m) => InOrder(m)'
      PROVE  Ordered'
  BY <1>2 DEF SInv, Ordered
<1>3. CASE SymphonyStep \/ ApiStep \/ (\E r \in Requests : ApiDies(r)) \/ UNCHANGED vars
  <2>1. /\ UNCHANGED <<pod, stream, creates, pwVars>>
        /\ \/ UNCHANGED status
           \/ \E m \in Machines : status' = [status EXCEPT ![m] = "creating"]
    BY <1>3 DEF SymphonyStep, ApiStep, ApiDies, RequestMachines, ReturnMachines,
                WriteStatus, LinkMachine, PublishRequest, kubeVars, diskVars, vars
  <2>2. \A m \in Machines : status'[m] = status[m] \/ status'[m] \notin Phase
    BY <1>1, <2>1 DEF Phase
  <2> QED
    BY <1>2, <2>1, <2>2, QuietOrder
<1>4. ASSUME NEW n \in Machines, PodChangesPhase(n) \/ PodModified(n) \/ PodRemoved(n)
      PROVE  Ordered'
  <2>1. UNCHANGED <<status, creates, pwVars>> /\ pod[n] # "absent"
    BY <1>4 DEF PodChangesPhase, PodModified, PodRemoved, diskVars
  <2>2. \E e \in Event : /\ Emit(n, e)
                         /\ \/ e = "deleted" /\ pod'[n] = "absent"
                            \/ e # "deleted" /\ pod'[n] = e /\ Upto(pod[n], e)
                         /\ \A m \in Machines \ {n} : pod'[m] = pod[m]
    BY <1>1, <1>4, PhasesAssumption DEF PodChangesPhase, PodModified, PodRemoved, Event,
         Phase, Upto
  <2> QED
    BY <1>1, <1>2, <2>1, <2>2, EmitKeepsOrder
<1>5. ASSUME NEW n \in Machines, PodEvicted(n) PROVE Ordered'
  <2>1. UNCHANGED <<pod, status, creates, pwVars>> /\ DeletePod(n)
    BY <1>5 DEF PodEvicted, diskVars
  <2> QED
    BY <1>1, <1>2, <2>1, DeletePodKeepsOrder
<1>6. ASSUME NEW n \in Machines, RwCreatePod(n) PROVE Ordered'
  <2>1. /\ pod' = [pod EXCEPT ![n] = "pending"] /\ creates' = [creates EXCEPT ![n] = @ + 1]
        /\ Emit(n, "pending") /\ UNCHANGED <<status, pwVars>>
    BY <1>6 DEF RwCreatePod, RwUnchanged
  <2>2. ASSUME NEW m \in Machines, m # n, creates'[m] <= 1 PROVE InOrder(m)'
    <3>1. creates[m] <= 1 /\ pod'[m] = pod[m] /\ stream'[m] = stream[m]
      BY <1>1, <2>1, <2>2 DEF Emit
    <3>2. InOrder(m)
      BY <3>1 DEF SInv, Ordered
    <3> QED
      BY <2>1, <3>1, <3>2, OrderKept DEF pwVars, Holds
  <2>3. ASSUME creates'[n] <= 1 PROVE InOrder(n)'
    <3>1. creates[n] = 0 /\ pod'[n] = "pending"
      BY <1>1, <2>1, <2>3
    <3>2. stream[n] = <<>> /\ status[n] \notin Phase /\ ~Holds(n)
      BY <3>1 DEF SInv, DInv, Created, Holds
    <3>3. stream'[n] = <<>> \/ stream'[n] = <<"pending">>
      BY <1>1, <2>1, <3>2 DEF Emit
    <3>4. \A i \in 1..Len(stream'[n]) : stream'[n][i] = "pending"
      BY <3>3
    <3>5. status'[n] \notin Phase /\ ~Holds(n)'
      BY <2>1, <3>2 DEF Holds, pwVars
    <3> QED
      BY <3>1, <3>4, <3>5 DEF InOrder, Upto
  <2> QED
    BY <2>2, <2>3 DEF Ordered
<1>7. ASSUME RwStep \/ RwCrash, \A n \in Machines : ~RwCreatePod(n) PROVE Ordered'
  <2>1. UNCHANGED <<status, pod, stream, creates, pwVars>>
    BY <1>7 DEF RwStep, RwStart, RwAddWatch, RwPick, RwSkip, RwConflict, RwFlip,
                RwMarkProcessed, RwDies, RwCrash, RwUnchanged, kubeVars
  <2> QED
    BY <1>2, <2>1, QuietOrder
<1>8. CASE TwStep \/ TwCrash
  <2>1. UNCHANGED <<status, pod, creates, pwVars>>
    BY <1>8 DEF TwStep, TwStart, TwAddWatch, TwPick, TwReadStatus, TwDeletePod, TwMarkProcessed,
                TwCrash, TwUnchanged
  <2>2. UNCHANGED stream \/ \E n \in Machines : DeletePod(n)
    BY <1>8 DEF TwStep, TwStart, TwAddWatch, TwPick, TwReadStatus, TwDeletePod, TwMarkProcessed,
                TwCrash, SInv, OInv, IInv, TypeOK, TwOK
  <2> QED
    BY <1>1, <1>2, <2>1, <2>2, QuietOrder, DeletePodKeepsOrder
<1>9. CASE CronStep \/ CronDeleteFails \/ CronCrash \/ \E n \in Machines : LinkAges(n)
  <2>1. UNCHANGED <<pod, creates, pwVars>>
    BY <1>9 DEF CronStep, CronReadsAge, CronReadsTarget, CronDeletesPod, CronMarksDeleted,
                CronDeleteFails, CronCrash, LinkAges, CronUnchanged
  <2>2. cronStep # "idle" => cronM \in Machines
    BY DEF SInv, OInv, IInv, TypeOK, CronOK
  <2>3. \/ UNCHANGED status /\ \E n \in Machines : DeletePod(n)
        \/ UNCHANGED <<status, stream>>
        \/ UNCHANGED stream /\ status' = [status EXCEPT ![cronM] = "deleted"]
    BY <1>9, <2>2 DEF CronStep, CronReadsAge, CronReadsTarget, CronDeletesPod, CronMarksDeleted,
                CronDeleteFails, CronCrash, LinkAges
  <2>4. CASE UNCHANGED status /\ \E n \in Machines : DeletePod(n)
    BY <1>1, <1>2, <2>1, <2>4, DeletePodKeepsOrder
  <2>5. CASE /\ UNCHANGED stream
             /\ UNCHANGED status \/ status' = [status EXCEPT ![cronM] = "deleted"]
    <3>1. \A m \in Machines : status'[m] = status[m] \/ status'[m] \notin Phase
      BY <1>1, <2>5 DEF Phase
    <3> QED
      BY <1>2, <2>1, <2>5, <3>1, QuietOrder
  <2> QED
    BY <2>3, <2>4, <2>5
<1>10. CASE PwStep \/ PwStreamEnds \/ PwCrash
  <2>1. UNCHANGED creates
    BY <1>10 DEF PwStep, PwConnect, PwTakeEvent, PwMarkDeleted, PwCheckStatus, PwWriteStatus,
                 PwStreamEnds, PwCrash, PwStops, PwUnchanged, PwElsewhere
  <2> QED
    BY <1>1, <1>2, <1>10, <2>1, PwKeepsOrder
<1> QED
  BY <1>3, <1>4, <1>5, <1>6, <1>7, <1>8, <1>9, <1>10 DEF Next, KubeStep, FaultStep, RwStep

LEMMA UnmarkedInductive ==
    ASSUME SInv, [Next]_vars
    PROVE  Unmarked'
<1> SUFFICES ASSUME ~CronOn, pwStep' = "write" PROVE status'[pwM'] # "deleted"
  BY DEF Unmarked
<1>1. /\ status \in [Machines -> StatusLink] /\ status' \in [Machines -> StatusLink]
      /\ pwM' \in Machines /\ cronStep = "idle"
  <2>1. TypeOK /\ TypeOK'
    BY NextInv DEF SInv, OInv, IInv
  <2> QED
    BY <2>1 DEF TypeOK, DiskOK, PwOK, SInv, DInv, Marked
<1>2. \/ pwStep = "write" /\ UNCHANGED pwM
      \/ pwStep = "check" /\ status[pwM] # "deleted" /\ UNCHANGED <<pwM, status>>
  BY DEF Next, LinkAges, SymphonyStep, ApiStep, KubeStep, FaultStep, RwStep, TwStep, PwStep,
     CronStep, RequestMachines, ReturnMachines, PublishRequest, ApiDies, WriteStatus,
     LinkMachine, PodChangesPhase, PodModified, PodRemoved, PodEvicted, RwStart, RwAddWatch,
     RwPick, RwSkip, RwCreatePod, RwConflict, RwMarkProcessed, RwCrash, RwDies, RwFlip,
     RwUnchanged, TwStart, TwAddWatch, TwPick, TwReadStatus, TwDeletePod, TwMarkProcessed,
     TwCrash, TwUnchanged, PwConnect, PwTakeEvent, PwMarkDeleted, PwWriteStatus,
     PwCheckStatus, PwStreamEnds, PwCrash, PwStops, CronReadsAge, CronReadsTarget,
     CronDeletesPod, CronMarksDeleted, CronDeleteFails, CronCrash, CronUnchanged, pwVars,
     vars
<1>3. CASE pwStep = "write" /\ UNCHANGED pwM
  <2>1. status[pwM] # "deleted"
    BY <1>3 DEF SInv, Unmarked
  <2>2. UNCHANGED status
        \/ \E m \in Machines : status' = [status EXCEPT ![m] = "creating"]
    BY <1>1, <1>3, StatusWriters DEF StatusWrites
  <2> QED
    BY <1>1, <1>3, <2>1, <2>2
<1> QED
  BY <1>2, <1>3

LEMMA PastIsGone ==
    ASSUME SInv, NEW m \in Machines, creates[m] <= 1, Past(m)
    PROVE  creates[m] = 1 /\ pod[m] = "absent" /\ stream[m] = <<>>
<1>1. Gone(m)
  BY DEF Past, SInv, DInv, Told, Filed, Marked
<1>2. creates[m] \in Nat
  BY DEF SInv, OInv, IInv, TypeOK, KubeOK
<1> QED
  BY <1>1, <1>2 DEF Gone, SInv, Hushed, Silent

\* Only the pod watcher writes pod files.
LEMMA OthersLeaveFiles ==
    ASSUME [Next]_vars
    PROVE  \/ UNCHANGED <<podFile, pwVars>>
           \/ PwStep \/ PwStreamEnds \/ PwCrash
BY DEF Next, LinkAges, SymphonyStep, ApiStep, KubeStep, FaultStep, RwStep, TwStep, CronStep,
     RequestMachines, ReturnMachines, PublishRequest, ApiDies, WriteStatus, LinkMachine,
     PodChangesPhase, PodModified, PodRemoved, PodEvicted, RwStart, RwAddWatch, RwPick,
     RwSkip, RwCreatePod, RwConflict, RwMarkProcessed, RwCrash, RwDies, RwFlip, RwUnchanged,
     TwStart, TwAddWatch, TwPick, TwReadStatus, TwDeletePod, TwMarkProcessed, TwCrash,
     TwUnchanged, CronReadsAge, CronReadsTarget, CronDeletesPod, CronMarksDeleted,
     CronDeleteFails, CronCrash, CronUnchanged, diskVars, vars

\* Kubernetes has nothing to say of a pod that has gone.
LEMMA OthersAreSilent ==
    ASSUME SInv, [Next]_vars, NEW m \in Machines, creates[m] <= 1, creates'[m] <= 1, Past(m),
           ~PwStep, ~PwStreamEnds, ~PwCrash
    PROVE  stream'[m] = <<>>
<1>1. /\ stream \in [Machines -> Seq(Event)] /\ creates \in [Machines -> Nat]
      /\ cronStep # "idle" => cronM \in Machines
      /\ twDel # NoId => twDel \in Machines
  BY DEF SInv, OInv, IInv, TypeOK, KubeOK, CronOK, TwOK
<1>2. creates[m] = 1 /\ pod[m] = "absent" /\ stream[m] = <<>>
  BY PastIsGone
<1>3. ASSUME NEW n \in Machines, NEW e, Emit(n, e), n # m PROVE stream'[m] = <<>>
  BY <1>1, <1>2, <1>3 DEF Emit
<1>4. ASSUME NEW n \in Machines, DeletePod(n) PROVE stream'[m] = <<>>
  <2>1. UNCHANGED stream \/ (pod[n] # "absent" /\ Emit(n, pod[n]))
    BY <1>4 DEF DeletePod
  <2> QED
    BY <1>2, <1>3, <2>1
<1>5. CASE \E n \in Machines :
              PodChangesPhase(n) \/ PodModified(n) \/ PodRemoved(n) \/ PodEvicted(n)
  BY <1>2, <1>3, <1>4, <1>5 DEF PodChangesPhase, PodModified, PodRemoved, PodEvicted
<1>6. ASSUME NEW n \in Machines, RwCreatePod(n) PROVE stream'[m] = <<>>
  <2>1. creates' = [creates EXCEPT ![n] = @ + 1] /\ Emit(n, "pending")
    BY <1>6 DEF RwCreatePod
  <2>2. n # m
    BY <1>1, <1>2, <2>1
  <2> QED
    BY <1>3, <2>1, <2>2
<1>7. CASE TwDeletePod \/ CronDeletesPod
  BY <1>1, <1>4, <1>7 DEF TwDeletePod, CronDeletesPod
<1>8. CASE UNCHANGED stream
  BY <1>2, <1>8
<1> QED
  BY <1>5, <1>6, <1>7, <1>8
  DEF Next, LinkAges, SymphonyStep, ApiStep, KubeStep, FaultStep, RwStep, TwStep, CronStep,
     RequestMachines, ReturnMachines, PublishRequest, ApiDies, WriteStatus, LinkMachine,
     RwStart, RwAddWatch, RwPick, RwSkip, RwConflict, RwMarkProcessed, RwCrash, RwDies,
     RwFlip, TwStart, TwAddWatch, TwPick, TwReadStatus, TwMarkProcessed, TwCrash,
     CronReadsAge, CronReadsTarget, CronMarksDeleted, CronDeleteFails, CronCrash, kubeVars,
     vars

LEMMA PwKeepsSilence ==
    ASSUME SInv, PwStep \/ PwStreamEnds \/ PwCrash, NEW m \in Machines, creates[m] <= 1
    PROVE  Silent(m)'
<1>1. /\ status \in [Machines -> StatusLink] /\ stream \in [Machines -> Seq(Event)]
      /\ pwStep = "write" => pwEv \in Phase
      /\ Silent(m) /\ InOrder(m)
      /\ Past(m) => pod[m] = "absent" /\ stream[m] = <<>>
  BY PastIsGone DEF SInv, Hushed, Ordered, OInv, IInv, TypeOK, DiskOK, KubeOK, PwOK
<1>2. CASE PwConnect
  <2>1. /\ stream'[m] = IF pod[m] = "absent" THEN <<>> ELSE <<pod[m]>>
        /\ UNCHANGED <<status, podFile, pwStep, pwM>>
    BY <1>2 DEF PwConnect, PwUnchanged, PwElsewhere
  <2> QED
    BY <1>1, <2>1 DEF Silent, Past
<1>3. ASSUME NEW n \in Machines, PwTakeEvent(n), n # m PROVE Silent(m)'
  <2>1. /\ pwM' = n /\ UNCHANGED status /\ stream'[m] = stream[m]
        /\ (m \in podFile') = (m \in podFile)
    BY <1>1, <1>3 DEF PwTakeEvent
  <2> QED
    BY <1>1, <1>3, <2>1 DEF Silent, Past
<1>4. CASE PwTakeEvent(m)
  <2>1. PICK q \in Seq(Event) : q = stream[m] /\ q # <<>>
    BY <1>1, <1>4 DEF PwTakeEvent
  <2>2. stream'[m] = Tail(q) /\ UNCHANGED status /\ ~Past(m)
    BY <1>1, <1>4, <2>1 DEF PwTakeEvent
  <2>3. CASE Head(q) = "deleted"
    <3>1. Len(q) = 1
      <4>1. Len(q) \in Nat \ {0} /\ Head(q) = q[1]
        BY <2>1
      <4>2. \A i, j \in 1..Len(q) : i < j => q[i] # "deleted"
        <5>1. \A i, j \in 1..Len(stream[m]) : i < j => stream[m][i] # "deleted"
          BY <1>1 DEF InOrder
        <5> QED
          BY <2>1, <5>1
      <4>3. Len(q) # 1 => 1 \in 1..Len(q) /\ 2 \in 1..Len(q)
        <5>1. \A k \in Nat \ {0} : k # 1 => 1 \in 1..k /\ 2 \in 1..k
          OBVIOUS
        <5> QED
          BY <4>1, <5>1
      <4>4. Len(q) # 1 => q[1] # "deleted"
        BY <4>2, <4>3
      <4> QED
        BY <2>3, <4>1, <4>4
    <3>2. Tail(q) = <<>>
      <4>1. Tail(q) \in Seq(Event)
        BY <2>1
      <4>2. Len(Tail(q)) = 0
        BY <2>1, <3>1
      <4>3. \A t \in Seq(Event) : Len(t) = 0 => t = <<>>
        OBVIOUS
      <4> QED
        BY <4>1, <4>2, <4>3
    <3>3. m \notin podFile'
      BY <1>4, <2>1, <2>3 DEF PwTakeEvent
    <3> QED
      BY <2>2, <3>2, <3>3 DEF Silent
  <2>4. CASE Head(q) # "deleted"
    <3>1. m \in podFile' /\ pwStep' = "check"
      BY <1>4, <2>1, <2>4 DEF PwTakeEvent
    <3> QED
      BY <2>2, <3>1 DEF Silent, Past
  <2> QED
    BY <2>3, <2>4
<1>5. CASE PwMarkDeleted
  <2>1. /\ UNCHANGED <<podFile, stream, pwM>> /\ pwStep = "mark" /\ pwStep' = "idle"
        /\ status' = [status EXCEPT ![pwM] = "deleted"]
    BY <1>5 DEF PwMarkDeleted
  <2>2. m # pwM => status'[m] = status[m]
    BY <1>1, <2>1
  <2> QED
    BY <1>1, <2>1, <2>2 DEF Silent, Past
<1>6. CASE PwCheckStatus
  BY <1>1, <1>6 DEF PwCheckStatus, Silent, Past
<1>7. CASE PwWriteStatus
  <2>1. /\ UNCHANGED <<podFile, stream, pwM>> /\ pwStep = "write" /\ pwStep' = "idle"
        /\ status' = [status EXCEPT ![pwM] = pwEv] /\ pwM \in podFile
    BY <1>7 DEF PwWriteStatus, SInv, DInv, Filed
  <2>2. CASE m # pwM
    <3>1. status'[m] = status[m]
      BY <1>1, <2>1, <2>2
    <3> QED
      BY <1>1, <2>1, <3>1 DEF Silent, Past
  <2>3. CASE m = pwM
    <3>1. status'[m] \in Phase /\ status'[m] # "deleted" /\ m \in podFile'
      BY <1>1, <2>1, <2>3 DEF Phase
    <3> QED
      BY <2>1, <3>1 DEF Silent, Past
  <2> QED
    BY <2>2, <2>3
<1>8. CASE PwStops
  BY <1>8 DEF PwStops, Silent
<1> QED
  BY <1>2, <1>3, <1>4, <1>5, <1>6, <1>7, <1>8 DEF PwStep, PwStreamEnds, PwCrash

LEMMA HushedInductive ==
    ASSUME SInv, [Next]_vars
    PROVE  Hushed'
<1> SUFFICES ASSUME NEW m \in Machines, creates'[m] <= 1 PROVE Silent(m)'
  BY DEF Hushed
<1>1. /\ status \in [Machines -> StatusLink] /\ creates \in [Machines -> Nat]
      /\ CronOn \/ cronStep = "idle"
  BY DEF SInv, DInv, IInv, TypeOK, DiskOK, KubeOK, Marked
<1>2. creates[m] <= 1
  <2>1. UNCHANGED creates \/ \E n \in Machines : creates' = [creates EXCEPT ![n] = @ + 1]
    BY DEF Next, LinkAges, SymphonyStep, ApiStep, KubeStep, FaultStep, RwStep, TwStep,
       PwStep, CronStep, RequestMachines, ReturnMachines, PublishRequest, ApiDies,
       WriteStatus, LinkMachine, PodChangesPhase, PodModified, PodRemoved, PodEvicted,
       RwStart, RwAddWatch, RwPick, RwSkip, RwCreatePod, RwConflict, RwMarkProcessed,
       RwCrash, RwDies, RwFlip, TwStart, TwAddWatch, TwPick, TwReadStatus, TwDeletePod,
       TwMarkProcessed, TwCrash, TwUnchanged, PwConnect, PwTakeEvent, PwMarkDeleted,
       PwWriteStatus, PwCheckStatus, PwStreamEnds, PwCrash, PwStops, PwUnchanged,
       PwElsewhere, CronReadsAge, CronReadsTarget, CronDeletesPod, CronMarksDeleted,
       CronDeleteFails, CronCrash, CronUnchanged, kubeVars, vars
  <2> QED
    BY <1>1, <2>1
<1>3. CASE PwStep \/ PwStreamEnds \/ PwCrash
  BY <1>2, <1>3, PwKeepsSilence
<1>4. CASE ~PwStep /\ ~PwStreamEnds /\ ~PwCrash
  <2>1. UNCHANGED <<podFile, pwStep, pwM, pwEv>>
    BY <1>4, OthersLeaveFiles DEF pwVars
  <2>2. \/ UNCHANGED status
        \/ \E n \in Machines : status' = [status EXCEPT ![n] = "creating"]
        \/ CronOn /\ status' = [status EXCEPT ![cronM] = "deleted"]
    BY <1>1, <2>1, StatusWriters DEF StatusWrites
  <2>3. \/ status'[m] = status[m] \/ status'[m] = "creating"
        \/ CronOn /\ status'[m] = "deleted"
    BY <1>1, <2>2
  <2>4. Past(m)' => Past(m)
    BY <2>1, <2>3 DEF Past, Phase
  <2>5. Past(m) => stream'[m] = <<>>
    BY <1>2, <1>4, OthersAreSilent
  <2> QED
    BY <1>2, <2>1, <2>4, <2>5 DEF SInv, Hushed, Silent
<1> QED
  BY <1>3, <1>4

LEMMA SInductive == SInv /\ [Next]_vars => SInv'
BY DInductive, OInductive, OrderedInductive, UnmarkedInductive, HushedInductive DEF SInv

(***************************************************************************)
(* As long as its pod was created once, a status link and its pod file     *)
(* move only the ways RequestStatus lets them move, whatever watches are   *)
(* renewed, events lost or processes killed between a read and a write     *)
(* (cluster.handle_event, pod_watcher._postprocess_event,                  *)
(* hfcron.CleanupPodsTask, api.request_machines): the assumption under     *)
(* which the theorems of RequestStatus speak of the whole provider.        *)
(***************************************************************************)
THEOREM StatusMovesAlways == Spec => StatusMoves
<1>1. ASSUME SInv, [Next]_vars, NEW m \in Machines, status'[m] # status[m], creates[m] <= 1
      PROVE  <<status[m], status'[m]>> \in StatusStep(CronOn)
  <2>1. /\ status \in [Machines -> StatusLink] /\ CronOn \in BOOLEAN
        /\ pwStep = "write" => pwEv \in Phase
    BY <1>1, FlagAssumption DEF SInv, OInv, IInv, TypeOK, DiskOK, PwOK
  <2>2. status[m] \in Phase \cup {"creating", "deleted", NoStatus}
    BY <2>1 DEF StatusLink, PodStatus
  <2>3. /\ pwStep # "idle" => status[pwM] # NoStatus
        /\ cronStep # "idle" => status[cronM] # NoStatus
    BY <1>1 DEF SInv, OInv, Known
  <2>4. ASSUME NEW n \in Machines, status[n] = NoStatus,
               status' = [status EXCEPT ![n] = "creating"]
        PROVE  <<status[m], status'[m]>> \in StatusStep(CronOn)
    <3>1. n = m /\ status'[m] = "creating"
      BY <1>1, <2>1, <2>4
    <3> QED
      BY <2>4, <3>1 DEF StatusStep
  <2>5. ASSUME status[m] # NoStatus, status'[m] = "deleted"
        PROVE  <<status[m], status'[m]>> \in StatusStep(CronOn)
    BY <1>1, <2>2, <2>5 DEF StatusStep
  <2>6. CASE pwStep = "mark" /\ status' = [status EXCEPT ![pwM] = "deleted"]
    <3>1. m = pwM /\ status'[m] = "deleted"
      BY <1>1, <2>1, <2>6
    <3> QED
      BY <2>3, <2>5, <2>6, <3>1
  <2>7. CASE cronStep = "mark" /\ status' = [status EXCEPT ![cronM] = "deleted"]
    <3>1. m = cronM /\ status'[m] = "deleted"
      BY <1>1, <2>1, <2>7
    <3> QED
      BY <2>3, <2>5, <2>7, <3>1
  <2>8. CASE pwStep = "write" /\ status' = [status EXCEPT ![pwM] = pwEv]
    <3>1. m = pwM /\ status'[m] = pwEv /\ pwEv \in Phase
      BY <1>1, <2>1, <2>8
    <3>2. status[m] # NoStatus
      BY <2>3, <2>8, <3>1
    <3>3. status[m] = "deleted" => CronOn
      BY <1>1, <2>8, <3>1 DEF SInv, Unmarked
    <3>4. status[m] \in Phase => <<status[m], pwEv>> \in PhaseStep
      BY <1>1, <2>8, <3>1 DEF SInv, Ordered, InOrder, Holds, Upto
    <3> QED
      BY <2>2, <3>1, <3>2, <3>3, <3>4 DEF StatusStep
  <2> QED
    BY <1>1, <2>4, <2>6, <2>7, <2>8, StatusWriters DEF StatusWrites
<1>2. ASSUME SInv, [Next]_vars, NEW m \in Machines, status'[m] # status[m], creates[m] <= 1
      PROVE  /\ podFile' = podFile
             /\ status'[m] \in Phase => m \in podFile
             /\ status'[m] = "deleted" => m \notin podFile \/ cronStep = "mark"
  <2>1. /\ status \in [Machines -> StatusLink] /\ Silent(m)
        /\ pwStep = "write" => pwEv \in Phase /\ pwM \in podFile
    BY <1>2 DEF SInv, Hushed, DInv, Filed, IInv, TypeOK, DiskOK, PwOK
  <2>2. podFile' = podFile
    BY <1>2, OthersLeaveFiles DEF PwStep, PwConnect, PwTakeEvent, PwMarkDeleted, PwCheckStatus,
       PwWriteStatus, PwStreamEnds, PwCrash, PwStops, PwUnchanged, PwElsewhere
  <2>3. CASE \E n \in Machines : status' = [status EXCEPT ![n] = "creating"]
    <3>1. status'[m] = "creating"
      BY <1>2, <2>1, <2>3
    <3> QED
      BY <2>2, <3>1 DEF Phase
  <2>4. CASE pwStep = "mark" /\ status' = [status EXCEPT ![pwM] = "deleted"]
    <3>1. m = pwM /\ status'[m] = "deleted"
      BY <1>2, <2>1, <2>4
    <3>2. m \notin podFile
      BY <2>1, <2>4, <3>1 DEF Silent
    <3> QED
      BY <2>2, <3>1, <3>2 DEF Phase
  <2>5. CASE pwStep = "write" /\ status' = [status EXCEPT ![pwM] = pwEv]
    <3>1. m = pwM /\ status'[m] \in Phase /\ m \in podFile
      BY <1>2, <2>1, <2>5
    <3> QED
      BY <2>2, <3>1 DEF Phase
  <2>6. CASE cronStep = "mark" /\ status' = [status EXCEPT ![cronM] = "deleted"]
    <3>1. status'[m] = "deleted"
      BY <1>2, <2>1, <2>6
    <3> QED
      BY <2>2, <2>6, <3>1 DEF Phase
  <2> QED
    BY <1>2, <2>3, <2>4, <2>5, <2>6, StatusWriters DEF StatusWrites
<1>3. ASSUME SInv, [Next]_vars, NEW m \in Machines, creates[m] <= 1, m \in podFile' \ podFile
      PROVE  status[m] = "creating" \/ (CronOn /\ status[m] = "deleted")
  <2>1. PwTakeEvent(m)
    BY <1>3, OthersLeaveFiles DEF PwStep, PwConnect, PwTakeEvent, PwMarkDeleted, PwCheckStatus,
       PwWriteStatus, PwStreamEnds, PwCrash, PwStops, PwUnchanged, PwElsewhere
  <2>2. stream[m] # <<>> /\ ~Past(m)
    BY <1>3, <2>1 DEF PwTakeEvent, SInv, Hushed, Silent
  <2>3. status[m] # NoStatus
    BY <1>3, <2>2 DEF SInv, OInv, Known
  <2>4. status[m] \in Phase \cup {"creating", "deleted", NoStatus}
    BY <1>3 DEF SInv, OInv, IInv, TypeOK, DiskOK, StatusLink, PodStatus
  <2> QED
    BY <1>3, <2>2, <2>3, <2>4 DEF Past
<1>4. ASSUME SInv, [Next]_vars, NEW m \in Machines, creates[m] <= 1, m \in podFile \ podFile'
      PROVE  pod[m] = "absent" /\ stream'[m] = <<>>
  <2>1. PwTakeEvent(m)
    BY <1>4, OthersLeaveFiles DEF PwStep, PwConnect, PwTakeEvent, PwMarkDeleted, PwCheckStatus,
       PwWriteStatus, PwStreamEnds, PwCrash, PwStops, PwUnchanged, PwElsewhere
  <2>2. pwStep' = "mark" /\ pwM' = m /\ UNCHANGED <<creates, pod>>
    BY <1>4, <2>1 DEF PwTakeEvent, PwUnchanged, PwElsewhere
  <2>3. SInv'
    BY <1>4, SInductive
  <2>4. stream'[m] = <<>>
    BY <1>4, <2>2, <2>3 DEF SInv, Hushed, Silent, Past
  <2>5. creates[m] = creates'[m] /\ creates[m] \in Nat /\ Gone(m)'
    BY <1>4, <2>2, <2>3 DEF SInv, DInv, Told, IInv, TypeOK, KubeOK
  <2>6. pod[m] = "absent"
    BY <1>4, <2>2, <2>5 DEF Gone
  <2> QED
    BY <2>4, <2>6
<1>5. SInv /\ [Next]_vars =>
        [\A m \in Machines : creates[m] <= 1 =>
            /\ status'[m] # status[m] =>
                 /\ <<status[m], status'[m]>> \in StatusStep(CronOn)
                 /\ (m \in podFile') = (m \in podFile)
                 /\ status'[m] \in Phase => m \in podFile
                 /\ status'[m] = "deleted" => m \notin podFile \/ cronStep = "mark"
            /\ m \in podFile' \ podFile =>
                 status[m] = "creating" \/ (CronOn /\ status[m] = "deleted")
            /\ m \in podFile \ podFile' => pod[m] = "absent" /\ stream'[m] = <<>>]_vars
  BY <1>1, <1>2, <1>3, <1>4
<1> QED
  BY <1>5, InitSInv, SInductive, PTL DEF Spec, StatusMoves

=============================================================================
