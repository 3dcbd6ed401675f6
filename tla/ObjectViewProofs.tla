-------------------------- MODULE ObjectViewProofs --------------------------
(***************************************************************************)
(* Proofs about what Prometheus is shown: types, that the newest sample of *)
(* a metric is shown in whatever order the files are read, and that what   *)
(* is about to go is not shown for ever; for any objects and metrics and   *)
(* any limits of their ages.                                               *)
(***************************************************************************)
EXTENDS ObjectView, TLAPS, FiniteSetTheorems

\* Each version of an object is a change that has happened.
Versioned ==
    \A u \in Uids : /\ obj[u].version <= happened
                    /\ obj[u].life # "none" => obj[u].version >= 1

SampleAges(k) == {s.age : s \in {s \in samples : s.key = k}}

\* What is kept of a metric is its newest sample, or as old as that is and to be
\* dropped when the post has ended.
NewestIsKept ==
    /\ \A k \in Keys :
         \/ SampleAges(k) = {newest[k]}
         \/ newest[k] > SampleTtl /\ \A age \in SampleAges(k) : age > SampleTtl
    /\ NewestSampleIsShown

\* Between two expiries an object that is about to go outlives its time by no more
\* than the time since the last one.
Expiring ==
    \A e \in view : e.deleting => e.age <= Ttl + sinceExpiry \/ sinceExpiry = Interval

IInv == TypeOK /\ Versioned /\ NewestIsKept /\ Expiring

-----------------------------------------------------------------------------
LEMMA OldTyped ==
    /\ Old \in Nat /\ Old > SampleTtl /\ Old >= Ttl + Interval
    /\ Ttl \in Nat /\ SampleTtl \in Nat /\ MaxHappens \in Nat
    /\ Interval \in Nat /\ Interval >= 1
    /\ \A age \in Ages : /\ age \in Nat /\ age <= Old /\ Older(age) \in Ages
                         /\ age <= Older(age) /\ Older(age) <= age + 1
    /\ 0 \in Ages
BY ViewAssumption DEF Old, Ages, Older

LEMMA Happened ==
    ASSUME TypeOK, Happens
    PROVE  happened' \in 0..MaxHappens /\ happened' = happened + 1 /\ happened \in Nat
BY ViewAssumption DEF TypeOK, Happens

\* What a sight says of an object.
LEMMA SightTyped ==
    ASSUME TypeOK, Versioned, NEW u \in Uids, obj[u].life # "none"
    PROVE  Sight(u) \in Sights
BY OldTyped DEF TypeOK, Versioned, Sight, Sights, Objects

LEMMA ThereTyped ==
    ASSUME TypeOK, Versioned
    PROVE  There \subseteq Sights
BY SightTyped DEF There

\* The messages, kind by kind.
LEMMA MessageTyped ==
    /\ \A m \in Messages :
         /\ m.kind \in {"event", "list", "sample"}
         /\ m.kind = "event" => m.sight \in Sights
         /\ m.kind = "list" => m.sights \subseteq Sights
         /\ m.kind = "sample" => m.key \in Keys /\ m.age \in Ages
    /\ \A s \in Sights : [kind |-> "event", sight |-> s] \in Messages
    /\ \A sights \in SUBSET Sights : [kind |-> "list", sights |-> sights] \in Messages
    /\ \A k \in Keys, age \in Ages : [kind |-> "sample", key |-> k, age |-> age] \in Messages
BY DEF Messages

LEMMA Initially == Init => IInv
<1>. SUFFICES ASSUME Init PROVE IInv
  OBVIOUS
<1>1. TypeOK
  <2>1. obj \in [Uids -> Objects] /\ newest \in [Keys -> Ages]
    BY OldTyped DEF Init, Objects, Ages
  <2>2. Cardinality(lists) <= 1
    BY FS_EmptySet DEF Init
  <2>3. /\ stream = {} /\ lists = {} /\ pending = {} /\ batch = {} /\ locked = FALSE
        /\ view = {} /\ sinceExpiry = 0 /\ samples = {} /\ happened = 0
    BY DEF Init
  <2>4. sinceExpiry \in 0..Interval /\ happened \in 0..MaxHappens
    BY <2>3, OldTyped
  <2>. QED  BY <2>1, <2>2, <2>3, <2>4 DEF TypeOK
<1>2. Versioned /\ Expiring
  BY DEF Init, Versioned, Expiring
<1>3. NewestIsKept
  BY OldTyped DEF Init, NewestIsKept, NewestSampleIsShown, SampleAges
<1>. QED  BY <1>1, <1>2, <1>3 DEF IInv

-----------------------------------------------------------------------------
(* The cluster and those who post change nothing of what is shown.         *)
LEMMA NothingShownChanges ==
    ASSUME IInv, UNCHANGED <<locked, view, sinceExpiry, metricVars>>
    PROVE  NewestIsKept' /\ Expiring'
BY DEF IInv, NewestIsKept, NewestSampleIsShown, SampleAges, Expiring, metricVars

LEMMA ChangeKeeps ==
    ASSUME IInv, NEW u \in Uids, Change(u)
    PROVE  IInv'
<1>. USE DEF IInv, Change
<1>1. PICK life \in {"there", "gone"}, deleting \in BOOLEAN :
         obj' = [obj EXCEPT ![u] = [life |-> life, version |-> @.version + 1,
                                    deleting |-> deleting]]
  OBVIOUS
<1>2. happened' \in 0..MaxHappens /\ happened' = happened + 1 /\ happened \in Nat
  BY Happened
<1>3. obj' \in [Uids -> Objects] /\ Versioned'
  BY <1>1, <1>2, OldTyped DEF TypeOK, Versioned, Objects
<1>4. Sight(u)' \in Sights
  BY <1>1, <1>2, <1>3, OldTyped DEF Sight, Sights, TypeOK, Objects, Versioned
<1>5. TypeOK'
  BY <1>2, <1>3, <1>4 DEF TypeOK, metricVars
<1>. QED  BY <1>3, <1>5, NothingShownChanges

LEMMA WatchKeeps ==
    ASSUME IInv, Renew \/ Tell
    PROVE  IInv'
<1>. USE DEF IInv, Renew, Tell
<1>1. TypeOK'
  <2>1. stream' \subseteq Sights
    BY ThereTyped DEF TypeOK
  <2>2. pending' \subseteq Messages
    BY MessageTyped DEF TypeOK
  <2>. QED  BY <2>1, <2>2 DEF TypeOK, metricVars
<1>2. Versioned'
  BY DEF Versioned
<1>. QED  BY <1>1, <1>2, NothingShownChanges

LEMMA RefreshKeeps ==
    ASSUME IInv, ListObjects \/ PostList
    PROVE  IInv'
<1>. USE DEF IInv, ListObjects, PostList
<1>1. TypeOK'
  <2>1. lists' \subseteq SUBSET Sights /\ Cardinality(lists') <= 1
    <3>1. CASE ListObjects
      <4>1. Cardinality({There}) = 1
        BY FS_Singleton
      <4>. QED  BY <3>1, <4>1, ThereTyped DEF TypeOK
    <3>2. CASE PostList
      BY <3>2, FS_EmptySet
    <3>. QED  BY <3>1, <3>2
  <2>2. pending' \subseteq Messages
    BY MessageTyped DEF TypeOK
  <2>. QED  BY <2>1, <2>2 DEF TypeOK, metricVars
<1>2. Versioned'
  BY DEF Versioned
<1>. QED  BY <1>1, <1>2, NothingShownChanges

LEMMA PostSampleKeeps ==
    ASSUME IInv, NEW k \in Keys, PostSample(k)
    PROVE  IInv'
<1>. USE DEF IInv, PostSample, clusterVars
<1>1. happened' \in 0..MaxHappens /\ happened' = happened + 1 /\ happened \in Nat
  BY Happened
<1>2. TypeOK'
  <2>1. pending' \subseteq Messages
    BY MessageTyped DEF TypeOK
  <2>. QED  BY <1>1, <2>1 DEF TypeOK, metricVars
<1>3. Versioned'
  BY <1>1 DEF Versioned, TypeOK, Objects
<1>. QED  BY <1>2, <1>3, NothingShownChanges

-----------------------------------------------------------------------------
(* The watcher of events with the backend.                                 *)
LEMMA ReadKeeps ==
    ASSUME IInv, Read
    PROVE  IInv'
BY DEF Read, IInv, TypeOK, Versioned, NewestIsKept, NewestSampleIsShown, SampleAges, Expiring,
       clusterVars, metricVars

\* What an expiry leaves of entries that are not older than they may be.
LEMMA ExpiryKeeps ==
    ASSUME TypeOK, ExpiryDone, NEW entries,
           entries \subseteq [uid : Uids, version : 1..MaxHappens, deleting : BOOLEAN, age : Ages],
           \A e \in entries : e.deleting => e.age <= Ttl + sinceExpiry \/ sinceExpiry = Interval,
           view' = Unexpired(entries)
    PROVE  /\ view' \subseteq entries /\ sinceExpiry' \in 0..Interval
           /\ Expiring'
<1>1. view' \subseteq entries /\ sinceExpiry' \in 0..Interval
  BY OldTyped DEF Unexpired, ExpiryDone, TypeOK
<1>2. CASE DueForExpiry
  <2>1. \A e \in view' : e \in entries /\ ~(e.deleting /\ e.age > Ttl)
    BY <1>2 DEF Unexpired
  <2>2. \A e \in view' : e.age \in Nat
    BY <2>1, OldTyped
  <2>. QED  BY <1>1, <1>2, <2>1, <2>2, OldTyped DEF ExpiryDone, Expiring
<1>3. CASE ~DueForExpiry
  BY <1>1, <1>3 DEF Unexpired, ExpiryDone, Expiring
<1>. QED  BY <1>1, <1>2, <1>3

LEMMA UpdateKeeps ==
    ASSUME IInv, NEW s \in Sights, Update(s)
    PROVE  /\ view' \subseteq
                [uid : Uids, version : 1..MaxHappens, deleting : BOOLEAN, age : Ages]
           /\ sinceExpiry' \in 0..Interval /\ Expiring'
<1>. DEFINE known == {e \in view : e.uid = s.uid}
            older == {e \in known : e.version < s.version}
            entries == IF known # {} /\ older = {} THEN view
                       ELSE (view \ older) \cup {Entry(s)}
<1>1. TypeOK /\ Expiring /\ ExpiryDone /\ view' = Unexpired(entries)
  BY DEF IInv, Update
<1>2. Entry(s) \in [uid : Uids, version : 1..MaxHappens, deleting : BOOLEAN, age : Ages]
      /\ Entry(s).age = 0
  BY OldTyped DEF Sights, Entry
<1>3. \A e \in entries : e \in view \/ e = Entry(s)
  OBVIOUS
<1>4. entries \subseteq
         [uid : Uids, version : 1..MaxHappens, deleting : BOOLEAN, age : Ages]
  BY <1>1, <1>2, <1>3 DEF TypeOK
<1>5. \A e \in entries : e.deleting => e.age <= Ttl + sinceExpiry \/ sinceExpiry = Interval
  BY <1>1, <1>2, <1>3, OldTyped DEF TypeOK, Expiring
<1>. HIDE DEF entries
<1>. QED  BY <1>1, <1>4, <1>5, ExpiryKeeps

LEMMA ListKeeps ==
    ASSUME IInv, NEW sights \in SUBSET Sights, Refresh(sights)
    PROVE  /\ view' \subseteq
                [uid : Uids, version : 1..MaxHappens, deleting : BOOLEAN, age : Ages]
           /\ sinceExpiry' \in 0..Interval /\ Expiring'
<1>1. \A s \in Sights :
         /\ Entry(s) \in [uid : Uids, version : 1..MaxHappens, deleting : BOOLEAN, age : Ages]
         /\ Entry(s).age = 0
  BY OldTyped DEF Sights, Entry
<1>2. \A e \in view' : \E s \in Sights : e = Entry(s)
  BY DEF Refresh
<1>3. sinceExpiry' = sinceExpiry /\ sinceExpiry \in 0..Interval
  BY DEF Refresh, IInv, TypeOK
<1>. QED  BY <1>1, <1>2, <1>3, OldTyped DEF Expiring

\* After a sample what is kept is still the newest, or to be dropped.
LEMMA SampleKeeps ==
    ASSUME IInv, NEW m, m.key \in Keys, m.age \in Ages, AddSample(m),
           newest' = [newest EXCEPT ![m.key] = IF m.age < @ THEN m.age ELSE @]
    PROVE  /\ samples' \subseteq [key : Keys, age : Ages] /\ newest' \in [Keys -> Ages]
           /\ \A k \in Keys :
                \/ SampleAges(k)' = {newest'[k]}
                \/ newest'[k] > SampleTtl /\ \A age \in SampleAges(k)' : age > SampleTtl
<1>. DEFINE others == {s \in samples : s.key # m.key}
            sample == [key |-> m.key, age |-> m.age]
<1>1. TypeOK /\ newest \in [Keys -> Ages] /\ samples \subseteq [key : Keys, age : Ages]
  BY DEF IInv, TypeOK
<1>2. \/ samples' = samples /\ \E s \in samples : s.key = m.key /\ s.age <= m.age
      \/ samples' = others \cup {sample} /\ \A s \in samples : s.key = m.key => ~(s.age <= m.age)
  BY DEF AddSample
<1>3. sample \in [key : Keys, age : Ages] /\ sample.key = m.key /\ sample.age = m.age
  OBVIOUS
<1>4. samples' \subseteq [key : Keys, age : Ages] /\ newest' \in [Keys -> Ages]
  BY <1>1, <1>2, <1>3
<1>5. ASSUME NEW k \in Keys
      PROVE  \/ SampleAges(k)' = {newest'[k]}
             \/ newest'[k] > SampleTtl /\ \A age \in SampleAges(k)' : age > SampleTtl
  <2>1. \/ SampleAges(k) = {newest[k]}
        \/ newest[k] > SampleTtl /\ \A age \in SampleAges(k) : age > SampleTtl
    BY DEF IInv, NewestIsKept
  <2>2. CASE k # m.key
    <3>1. SampleAges(k)' = SampleAges(k)
      BY <1>2, <1>3, <2>2 DEF SampleAges
    <3>2. newest'[k] = newest[k]
      BY <1>1, <2>2
    <3>. QED  BY <2>1, <3>1, <3>2
  <2>3. CASE k = m.key /\ samples' = samples /\ \E s \in samples : s.key = m.key /\ s.age <= m.age
    <3>1. \E age \in SampleAges(k) : age <= m.age
      BY <2>3 DEF SampleAges
    <3>2. SampleAges(k)' = SampleAges(k)
      BY <2>3 DEF SampleAges
    <3>3. \A age \in SampleAges(k) : age \in Nat
      BY <1>1, OldTyped DEF SampleAges
    <3>4. newest[k] \in Nat /\ m.age \in Nat
      BY <1>1, OldTyped
    <3>5. newest'[k] = IF m.age < newest[k] THEN m.age ELSE newest[k]
      BY <1>1, <2>3
    <3>. QED  BY <2>1, <3>1, <3>2, <3>3, <3>4, <3>5, OldTyped
  <2>4. CASE /\ k = m.key /\ samples' = others \cup {sample}
             /\ \A s \in samples : s.key = m.key => ~(s.age <= m.age)
    <3>1. SampleAges(k)' = {m.age}
      BY <1>3, <2>4 DEF SampleAges
    <3>2. \A age \in SampleAges(k) : ~(age <= m.age)
      BY <2>4 DEF SampleAges
    <3>3. newest[k] \in Nat /\ m.age \in Nat
      BY <1>1, OldTyped
    <3>4. newest'[k] = IF m.age < newest[k] THEN m.age ELSE newest[k]
      BY <1>1, <2>4
    <3>5. CASE SampleAges(k) = {newest[k]}
      BY <3>1, <3>2, <3>3, <3>4, <3>5
    <3>6. CASE newest[k] > SampleTtl
      BY <3>1, <3>3, <3>4, <3>6, OldTyped
    <3>. QED  BY <2>1, <3>5, <3>6
  <2>. QED  BY <1>2, <2>2, <2>3, <2>4
<1>. QED  BY <1>4, <1>5

LEMMA PostKeeps ==
    ASSUME IInv, PostNext
    PROVE  IInv'
<1>. PICK m \in batch : batch' = batch \ {m} /\ Post(m)
  BY DEF PostNext
<1>0. /\ locked /\ UNCHANGED <<clusterVars, pending, locked, happened>>
      /\ m \in Messages /\ TypeOK
  BY DEF PostNext, IInv, TypeOK
<1>1. Versioned' /\ NewestSampleIsShown'
  BY <1>0 DEF IInv, Versioned, NewestSampleIsShown, clusterVars
<1>2. CASE m.kind = "sample" /\ AddSample(m) /\ UNCHANGED <<view, sinceExpiry>>
           /\ newest' = [newest EXCEPT ![m.key] = IF m.age < @ THEN m.age ELSE @]
  <2>1. /\ samples' \subseteq [key : Keys, age : Ages] /\ newest' \in [Keys -> Ages]
        /\ \A k \in Keys :
             \/ SampleAges(k)' = {newest'[k]}
             \/ newest'[k] > SampleTtl /\ \A age \in SampleAges(k)' : age > SampleTtl
    BY <1>0, <1>2, MessageTyped, SampleKeeps
  <2>2. TypeOK'
    BY <1>0, <1>2, <2>1 DEF TypeOK, clusterVars
  <2>3. Expiring'
    BY <1>2 DEF IInv, Expiring
  <2>. QED  BY <1>1, <2>1, <2>2, <2>3 DEF IInv, NewestIsKept
<1>3. CASE m.kind = "event" /\ Update(m.sight) /\ UNCHANGED metricVars
  <2>1. /\ view' \subseteq
             [uid : Uids, version : 1..MaxHappens, deleting : BOOLEAN, age : Ages]
        /\ sinceExpiry' \in 0..Interval /\ Expiring'
    BY <1>0, <1>3, MessageTyped, UpdateKeeps
  <2>2. TypeOK'
    BY <1>0, <1>3, <2>1 DEF TypeOK, clusterVars, metricVars
  <2>3. NewestIsKept'
    BY <1>1, <1>3 DEF IInv, NewestIsKept, SampleAges, metricVars
  <2>. QED  BY <1>1, <2>1, <2>2, <2>3 DEF IInv
<1>4. CASE m.kind = "list" /\ Refresh(m.sights) /\ UNCHANGED metricVars
  <2>1. /\ view' \subseteq
             [uid : Uids, version : 1..MaxHappens, deleting : BOOLEAN, age : Ages]
        /\ sinceExpiry' \in 0..Interval /\ Expiring'
    BY <1>0, <1>4, MessageTyped, ListKeeps
  <2>2. TypeOK'
    BY <1>0, <1>4, <2>1 DEF TypeOK, clusterVars, metricVars
  <2>3. NewestIsKept'
    BY <1>1, <1>4 DEF IInv, NewestIsKept, SampleAges, metricVars
  <2>. QED  BY <1>1, <2>1, <2>2, <2>3 DEF IInv
<1>. QED  BY <1>2, <1>3, <1>4 DEF Post

\* When the samples that are too old have gone, the newest is shown.
LEMMA FreshIsNewest ==
    ASSUME IInv, samples' = Fresh, UNCHANGED newest
    PROVE  samples' \subseteq [key : Keys, age : Ages] /\ NewestIsKept'
<1>1. samples' \subseteq [key : Keys, age : Ages]
  BY DEF IInv, TypeOK, Fresh
<1>2. ASSUME NEW k \in Keys
      PROVE  SampleAges(k)' = {newest'[k]} \/ (SampleAges(k)' = {} /\ newest'[k] > SampleTtl)
  <2>1. SampleAges(k)' = {age \in SampleAges(k) : age <= SampleTtl}
    BY DEF SampleAges, Fresh
  <2>2. newest[k] \in Nat /\ \A age \in SampleAges(k) : age \in Nat
    BY OldTyped DEF IInv, TypeOK, SampleAges
  <2>3. CASE SampleAges(k) = {newest[k]}
    BY <2>1, <2>2, <2>3, OldTyped
  <2>4. CASE newest[k] > SampleTtl /\ \A age \in SampleAges(k) : age > SampleTtl
    BY <2>1, <2>2, <2>4, OldTyped
  <2>. QED  BY <2>3, <2>4 DEF IInv, NewestIsKept
<1>3. NewestIsKept'
  BY <1>2 DEF NewestIsKept, NewestSampleIsShown, SampleAges
<1>. QED  BY <1>1, <1>3

LEMMA PostEndsKeeps ==
    ASSUME IInv, PostEnds
    PROVE  IInv'
<1>1. samples' \subseteq [key : Keys, age : Ages] /\ NewestIsKept'
  BY FreshIsNewest DEF PostEnds
<1>2. TypeOK' /\ Versioned' /\ Expiring'
  BY <1>1 DEF PostEnds, IInv, TypeOK, Versioned, Expiring, clusterVars
<1>. QED  BY <1>1, <1>2 DEF IInv

LEMMA ScrapeKeeps ==
    ASSUME IInv, Scrape
    PROVE  IInv'
<1>1. samples' \subseteq [key : Keys, age : Ages] /\ NewestIsKept'
  BY FreshIsNewest DEF Scrape
<1>2. view' \subseteq view /\ sinceExpiry' \in 0..Interval /\ Expiring'
  <2>1. CASE view = {}
    BY <2>1 DEF Scrape, IInv, TypeOK, Expiring
  <2>2. CASE view # {}
    BY <2>2, ExpiryKeeps DEF Scrape, IInv, TypeOK, Expiring
  <2>. QED  BY <2>1, <2>2
<1>3. TypeOK' /\ Versioned'
  BY <1>1, <1>2 DEF Scrape, IInv, TypeOK, Versioned, clusterVars
<1>. QED  BY <1>1, <1>2, <1>3 DEF IInv

LEMMA CrashKeeps ==
    ASSUME IInv, Crash
    PROVE  IInv'
<1>1. happened' \in 0..MaxHappens /\ happened' = happened + 1 /\ happened \in Nat
  BY Happened DEF Crash, IInv
<1>2. Old \in Ages /\ newest' \in [Keys -> Ages]
  BY OldTyped DEF Crash, Ages
<1>3. TypeOK'
  <2>1. /\ UNCHANGED <<clusterVars, pending>> /\ batch' = {} /\ locked' = FALSE
        /\ view' = {} /\ sinceExpiry' = 0 /\ samples' = {}
    BY DEF Crash
  <2>2. sinceExpiry' \in 0..Interval
    BY <2>1, OldTyped
  <2>. QED  BY <1>1, <1>2, <2>1, <2>2 DEF IInv, TypeOK, clusterVars
<1>4. Versioned' /\ Expiring'
  <2>1. UNCHANGED obj /\ \A u \in Uids : obj[u].version \in Nat
    BY OldTyped DEF Crash, clusterVars, IInv, TypeOK, Objects
  <2>2. view' = {}
    BY DEF Crash
  <2>. QED  BY <1>1, <2>1, <2>2 DEF IInv, Versioned, Expiring
<1>5. NewestIsKept'
  BY OldTyped DEF Crash, NewestIsKept, NewestSampleIsShown, SampleAges
<1>. QED  BY <1>3, <1>4, <1>5 DEF IInv

-----------------------------------------------------------------------------
(* Time.                                                                   *)
LEMMA OlderMessagesTyped ==
    ASSUME NEW messages \in SUBSET Messages
    PROVE  OlderMessages(messages) \subseteq Messages
<1>1. ASSUME NEW m \in messages, m.kind = "sample"
      PROVE  [m EXCEPT !.age = Older(@)] \in Messages
  <2>1. m \in [kind : {"sample"}, key : Keys, age : Ages]
    BY <1>1 DEF Messages
  <2>2. Older(m.age) \in Ages
    BY <2>1, OldTyped
  <2>. QED  BY <2>1, <2>2 DEF Messages
<1>. QED  BY <1>1 DEF OlderMessages

LEMMA TickKeeps ==
    ASSUME IInv, Tick
    PROVE  IInv'
<1>0. /\ ~locked /\ UNCHANGED <<clusterVars, batch, locked, happened>>
      /\ TypeOK /\ Versioned /\ NewestIsKept /\ Expiring
  BY DEF Tick, IInv
<1>1. /\ \A e \in view : [e EXCEPT !.age = Older(@)] \in
           [uid : Uids, version : 1..MaxHappens, deleting : BOOLEAN, age : Ages]
      /\ \A e \in view : /\ [e EXCEPT !.age = Older(@)].deleting = e.deleting
                         /\ [e EXCEPT !.age = Older(@)].age = Older(e.age)
  BY <1>0, OldTyped DEF TypeOK
<1>2. \A s \in samples : /\ [s EXCEPT !.age = Older(@)] \in [key : Keys, age : Ages]
                         /\ [s EXCEPT !.age = Older(@)].key = s.key
                         /\ [s EXCEPT !.age = Older(@)].age = Older(s.age)
  BY <1>0, OldTyped DEF TypeOK
<1>3. sinceExpiry' \in 0..Interval
  BY <1>0, OldTyped DEF Tick, TypeOK
<1>4. newest' \in [Keys -> Ages] /\ \A k \in Keys : newest'[k] = Older(newest[k])
  BY <1>0, OldTyped DEF Tick, TypeOK
<1>5. TypeOK'
  <2>1. pending' \subseteq Messages
    BY <1>0, OlderMessagesTyped DEF Tick, TypeOK
  <2>2. /\ view' \subseteq
             [uid : Uids, version : 1..MaxHappens, deleting : BOOLEAN, age : Ages]
        /\ samples' \subseteq [key : Keys, age : Ages]
    BY <1>1, <1>2 DEF Tick
  <2>. QED  BY <1>0, <1>3, <1>4, <2>1, <2>2 DEF TypeOK, clusterVars
<1>6. Versioned'
  BY <1>0 DEF Versioned, clusterVars
<1>7. Expiring'
  <2>. SUFFICES ASSUME NEW e \in view, e.deleting
                PROVE  Older(e.age) <= Ttl + sinceExpiry' \/ sinceExpiry' = Interval
    BY <1>1 DEF Tick, Expiring
  <2>1. e.age \in Ages /\ sinceExpiry \in 0..Interval
    BY <1>0 DEF TypeOK
  <2>2. e.age <= Ttl + sinceExpiry \/ sinceExpiry = Interval
    BY <1>0 DEF Expiring
  <2>3. sinceExpiry' = IF sinceExpiry < Interval THEN sinceExpiry + 1 ELSE Interval
    BY DEF Tick
  <2>4. Older(e.age) \in Nat /\ Older(e.age) <= e.age + 1 /\ e.age \in Nat
    BY <2>1, OldTyped
  <2>5. CASE sinceExpiry < Interval
    BY <2>1, <2>2, <2>3, <2>4, <2>5, OldTyped
  <2>6. CASE ~(sinceExpiry < Interval)
    BY <2>3, <2>6
  <2>. QED  BY <2>5, <2>6
<1>8. NewestIsKept'
  <2>1. ASSUME NEW k \in Keys
        PROVE  \/ SampleAges(k)' = {newest'[k]}
               \/ SampleAges(k)' = {} /\ newest'[k] > SampleTtl
    <3>1. SampleAges(k)' = {Older(age) : age \in SampleAges(k)}
      <4>1. \A s \in samples' : \E t \in samples : s.key = t.key /\ s.age = Older(t.age)
        BY <1>2 DEF Tick
      <4>2. \A t \in samples : \E s \in samples' : s.key = t.key /\ s.age = Older(t.age)
        BY <1>2 DEF Tick
      <4>. QED  BY <4>1, <4>2 DEF SampleAges
    <3>2. SampleAges(k) = {newest[k]} \/ (SampleAges(k) = {} /\ newest[k] > SampleTtl)
      BY <1>0 DEF NewestIsKept, NewestSampleIsShown, SampleAges
    <3>3. newest[k] \in Ages
      BY <1>0 DEF TypeOK
    <3>4. newest[k] > SampleTtl => newest'[k] > SampleTtl
      BY <1>4, <3>3, OldTyped
    <3>. QED  BY <1>4, <3>1, <3>2, <3>4
  <2>. QED  BY <2>1 DEF NewestIsKept, NewestSampleIsShown, SampleAges
<1>. QED  BY <1>5, <1>6, <1>7, <1>8 DEF IInv

-----------------------------------------------------------------------------
LEMMA Inductive == IInv /\ [Next]_vars => IInv'
<1>. SUFFICES ASSUME IInv, [Next]_vars PROVE IInv'
  OBVIOUS
<1>1. CASE \E u \in Uids : Change(u)
  BY <1>1, ChangeKeeps
<1>2. CASE Renew \/ Tell \/ ListObjects \/ PostList
  BY <1>2, WatchKeeps, RefreshKeeps
<1>3. CASE \E k \in Keys : PostSample(k)
  BY <1>3, PostSampleKeeps
<1>4. CASE Read \/ PostNext \/ PostEnds \/ Scrape \/ Crash \/ Tick
  BY <1>4, ReadKeeps, PostKeeps, PostEndsKeeps, ScrapeKeeps, CrashKeeps, TickKeeps
<1>5. CASE UNCHANGED vars
  BY <1>5 DEF vars, clusterVars, metricVars, IInv, TypeOK, Versioned, NewestIsKept,
     NewestSampleIsShown, SampleAges, Expiring
<1>. QED  BY <1>1, <1>2, <1>3, <1>4, <1>5 DEF Next

LEMMA Invariance == Spec => []IInv
<1>1. Init => IInv
  BY Initially
<1>2. IInv /\ [Next]_vars => IInv'
  BY Inductive
<1>. QED  BY <1>1, <1>2, PTL DEF Spec

(***************************************************************************)
(* The files, the view and the samples are always well typed               *)
(* (impl/watchers/events.py, KubeState and PrometheusEventBackend).        *)
(***************************************************************************)
THEOREM TypeCorrect == Spec => []TypeOK
<1>1. IInv => TypeOK
  BY DEF IInv
<1>. QED  BY <1>1, Invariance, PTL

(***************************************************************************)
(* The newest sample of a metric is shown until it is too old, in whatever *)
(* order samples were posted and read (PrometheusEventBackend.post).       *)
(***************************************************************************)
THEOREM NewestSampleIsShownAlways == Spec => []NewestSampleIsShown
<1>1. IInv => NewestSampleIsShown
  BY DEF IInv, NewestIsKept
<1>. QED  BY <1>1, Invariance, PTL

(***************************************************************************)
(* A scrape shows no object that is about to go for longer than the time   *)
(* to live and one interval (KubeState._expire).                           *)
(***************************************************************************)
THEOREM ScrapedIsFreshAlways == Spec => ScrapedIsFresh
<1>1. IInv /\ [Next]_vars =>
         (Scrape => \A e \in view' : e.deleting => e.age < Ttl + Interval)
  <2>. SUFFICES ASSUME IInv, Scrape, NEW e \in view', e.deleting
                PROVE  e.age < Ttl + Interval
    OBVIOUS
  <2>1. view # {} /\ view' = Unexpired(view) /\ e \in view /\ e.age \in Nat
    BY OldTyped DEF Scrape, Unexpired, IInv, TypeOK
  <2>2. CASE DueForExpiry
    BY <2>1, <2>2, OldTyped DEF Unexpired
  <2>3. CASE ~DueForExpiry
    <3>1. sinceExpiry \in 0..Interval /\ sinceExpiry < Interval
      BY <2>3, OldTyped DEF DueForExpiry, IInv, TypeOK
    <3>2. e.age <= Ttl + sinceExpiry
      BY <2>1, <3>1 DEF IInv, Expiring
    <3>. QED  BY <2>1, <3>1, <3>2, OldTyped
  <2>. QED  BY <2>2, <2>3
<1>. QED  BY <1>1, Invariance, PTL DEF Spec, ScrapedIsFresh

=============================================================================
