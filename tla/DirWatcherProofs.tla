-------------------------- MODULE DirWatcherProofs --------------------------
(***************************************************************************)
(* The watcher loop keeps the promise of RequestQueue and calls a handler  *)
(* at most once per incarnation, for any number of directories, entries    *)
(* and crashes.                                                            *)
(*                                                                         *)
(* The inductive invariant has a part on what the local variables of the   *)
(* process hold in each phase (Shape), one on the directory being served   *)
(* (Serving: an entry of it is handled, being handled or left), and one    *)
(* that counts calls (Fresh: what is still to be served in this            *)
(* incarnation was called at most once per earlier incarnation).           *)
(***************************************************************************)
EXTENDS DirWatcher, TLAPS

Shape ==
    /\ pc \in {"down", "scan"} => todo = {} /\ cur = NoDir
    /\ pc # "watching" => inbox = <<>>
    /\ pc = "watching" => todo = {}
    /\ cur = NoDir => left = {} /\ busy = NoEntry
    /\ todo \subseteq published
    /\ \A i \in 1..Len(inbox) : inbox[i] \in published

Serving ==
    cur # NoDir =>
        /\ cur \in published
        /\ left \subseteq contents[cur]
        /\ busy # NoEntry => busy \in contents[cur]
        /\ contents[cur] \subseteq handled[cur] \cup left \cup {busy}

\* A directory that this incarnation has not begun to serve but may serve.
Ahead(d) ==
    \/ d \notin published
    \/ pc \in {"down", "scan"}
    \/ d \in todo
    \/ InInbox(d)

Once ==
    /\ cur \notin todo
    /\ ~InInbox(cur)
    /\ \A i, j \in 1..Len(inbox) : inbox[i] = inbox[j] => i = j

Fresh ==
    /\ \A d \in Dirs, e \in Entries : Ahead(d) => calls[d][e] <= crashes
    /\ cur # NoDir => \A e \in left : calls[cur][e] <= crashes

IInv ==
    /\ TypeOK
    /\ Shape
    /\ Serving
    /\ ProcessedIsHandled
    /\ Once
    /\ Fresh
    /\ CallsBounded

-----------------------------------------------------------------------------
(* The queue facts the steps below rely on. *)

Holds(q, x) == \E i \in 1..Len(q) : q[i] = x

Distinct(q) == \A i, j \in 1..Len(q) : q[i] = q[j] => i = j

\* Appending adds one element; the queue stays free of duplicates if it is new.
LEMMA AppendFacts ==
    ASSUME NEW S, NEW q \in Seq(S), NEW x \in S
    PROVE  /\ Append(q, x) \in Seq(S)
           /\ \A y : Holds(Append(q, x), y) <=> Holds(q, y) \/ y = x
           /\ Distinct(q) /\ ~Holds(q, x) => Distinct(Append(q, x))
<1>1. /\ Append(q, x) \in Seq(S)
      /\ Len(q) \in Nat
      /\ Len(Append(q, x)) = Len(q) + 1
      /\ \A i \in 1..Len(q) : Append(q, x)[i] = q[i]
      /\ Append(q, x)[Len(q) + 1] = x
  OBVIOUS
<1>2. \A i \in 1..(Len(q) + 1) : i \in 1..Len(q) \/ i = Len(q) + 1
  BY <1>1
<1>3. \A i \in 1..Len(q) : i \in 1..(Len(q) + 1)
  BY <1>1
<1>4. \A y : Holds(Append(q, x), y) <=> Holds(q, y) \/ y = x
  <2>1. Len(q) + 1 \in 1..(Len(q) + 1)
    BY <1>1
  <2> QED
    BY <1>1, <1>2, <1>3, <2>1 DEF Holds
<1>5. Distinct(q) /\ ~Holds(q, x) => Distinct(Append(q, x))
  BY <1>1, <1>2 DEF Distinct, Holds
<1> QED
  BY <1>1, <1>4, <1>5

\* Taking the head off removes one element; without duplicates it is gone.
LEMMA TailFacts ==
    ASSUME NEW S, NEW q \in Seq(S), q # <<>>
    PROVE  /\ Head(q) \in S /\ Holds(q, Head(q))
           /\ Tail(q) \in Seq(S)
           /\ \A y : Holds(Tail(q), y) => Holds(q, y)
           /\ Distinct(q) => Distinct(Tail(q)) /\ ~Holds(Tail(q), Head(q))
<1>1. /\ Len(q) \in Nat /\ Len(q) >= 1
      /\ Head(q) = q[1] /\ Head(q) \in S
      /\ Tail(q) \in Seq(S)
      /\ Len(Tail(q)) = Len(q) - 1
      /\ \A i \in 1..Len(Tail(q)) : Tail(q)[i] = q[i + 1]
  OBVIOUS
<1>2. \A i \in 1..(Len(q) - 1) :
         i \in Nat /\ i + 1 \in 1..Len(q) /\ i + 1 # 1
  BY <1>1
<1>3. 1 \in 1..Len(q)
  BY <1>1
<1>4. \A y : Holds(Tail(q), y) => Holds(q, y)
  BY <1>1, <1>2 DEF Holds
<1>5. ASSUME Distinct(q)
      PROVE  Distinct(Tail(q)) /\ ~Holds(Tail(q), Head(q))
  <2>1. \A i, j \in 1..(Len(q) - 1) : i + 1 = j + 1 => i = j
    BY <1>2
  <2> QED
    BY <1>1, <1>2, <1>3, <1>5, <2>1 DEF Distinct, Holds
<1> QED
  BY <1>1, <1>3, <1>4, <1>5 DEF Holds

-----------------------------------------------------------------------------
\* The initial states satisfy the inductive invariant.
LEMMA InitInv == Init => IInv
<1> SUFFICES ASSUME Init PROVE IInv
  OBVIOUS
<1> USE NoDirAssumption, NoEntryAssumption, MaxCrashesAssumption DEF Init
<1>1. TypeOK
  BY DEF TypeOK
<1>2. Shape
  BY DEF Shape
<1>3. Serving /\ ProcessedIsHandled
  BY DEF Serving, ProcessedIsHandled
<1>4. Once
  BY DEF Once, InInbox
<1>5. Fresh /\ CallsBounded
  BY DEF Fresh, CallsBounded
<1> QED
  BY <1>1, <1>2, <1>3, <1>4, <1>5 DEF IInv

\* Every step keeps the type invariant.
LEMMA TypeStep == TypeOK /\ [Next]_vars => TypeOK'
<1> SUFFICES ASSUME TypeOK, [Next]_vars PROVE TypeOK'
  OBVIOUS
<1> USE MaxCrashesAssumption DEF TypeOK
<1>1. ASSUME NEW d \in Dirs, NEW entries \in SUBSET Entries, Publish(d, entries)
      PROVE  TypeOK'
  <2>1. inbox' \in Seq(Dirs)
    BY <1>1, AppendFacts DEF Publish
  <2> QED
    BY <1>1, <2>1 DEF Publish, histVars
<1>2. CASE Start
  BY <1>2 DEF Start, diskVars, histVars
<1>3. CASE Scan
  BY <1>3 DEF Scan, diskVars, histVars
<1>4. ASSUME NEW d \in Dirs, PickPending(d) PROVE TypeOK'
  BY <1>4 DEF PickPending, diskVars, histVars
<1>5. CASE NextEvent
  <2>1. inbox' \in Seq(Dirs) /\ Head(inbox) \in Dirs
    BY <1>5, TailFacts DEF NextEvent
  <2> QED
    BY <1>5, <2>1 DEF NextEvent, diskVars, histVars
<1>6. ASSUME NEW e \in Entries, CallHandler(e) PROVE TypeOK'
  BY <1>6 DEF CallHandler, diskVars
<1>7. CASE HandlerReturns
  BY <1>7 DEF HandlerReturns, diskVars
<1>8. CASE MarkProcessed
  BY <1>8 DEF MarkProcessed, histVars
<1>9. CASE AddWatch
  BY <1>9 DEF AddWatch, diskVars, histVars
<1>10. CASE Crash
  BY <1>10 DEF Crash, diskVars, histVars
<1>11. CASE UNCHANGED vars
  BY <1>11 DEF vars, diskVars, histVars, procVars
<1> QED
  BY <1>1, <1>2, <1>3, <1>4, <1>5, <1>6, <1>7, <1>8, <1>9, <1>10, <1>11
     DEF Next, WatcherStep

\* A directory is published; a watching process is told.
LEMMA PublishStep ==
    ASSUME IInv, TypeOK', NEW d \in Dirs, NEW entries \in SUBSET Entries,
           Publish(d, entries)
    PROVE  IInv'
<1>1. /\ inbox \in Seq(Dirs) /\ d \notin published /\ ~Holds(inbox, d)
      /\ cur # NoDir => cur # d
      /\ UNCHANGED <<processed, handled, calls, pc, todo, cur, left, busy, crashes>>
      /\ published' = published \cup {d}
      /\ \A c \in Dirs : c # d => contents'[c] = contents[c]
      /\ inbox' = IF pc = "watching" THEN Append(inbox, d) ELSE inbox
  BY DEF IInv, TypeOK, Publish, histVars, Shape, Serving, Holds
<1>2. /\ \A c : Holds(inbox', c) => Holds(inbox, c) \/ c = d
      /\ Distinct(inbox) => Distinct(inbox')
  BY <1>1, AppendFacts
<1>3. Shape'
  <2>1. \A c : Holds(inbox, c) => c \in published
    BY DEF IInv, Shape, Holds
  <2>2. \A c : Holds(inbox', c) => c \in published'
    BY <1>1, <1>2, <2>1
  <2> QED
    BY <1>1, <2>2 DEF IInv, Shape, Holds
<1>4. Serving'
  BY <1>1 DEF IInv, TypeOK, Serving
<1>5. ProcessedIsHandled'
  BY <1>1 DEF IInv, TypeOK, ProcessedIsHandled
<1>6. Once'
  BY <1>1, <1>2, NoDirAssumption DEF IInv, Once, InInbox, Holds, Distinct
<1>7. Fresh'
  BY <1>1, <1>2 DEF IInv, Shape, Fresh, Ahead, InInbox, Holds
<1>8. CallsBounded'
  BY <1>1 DEF IInv, CallsBounded
<1> QED
  BY <1>3, <1>4, <1>5, <1>6, <1>7, <1>8 DEF IInv

\* The process starts, or lists what is unprocessed.
LEMMA StartScanStep == IInv /\ TypeOK' /\ (Start \/ Scan) => IInv'
<1>1. ASSUME IInv, TypeOK', Start PROVE IInv'
  BY <1>1 DEF IInv, TypeOK, Start, diskVars, histVars, Shape, Serving,
              ProcessedIsHandled, Once, Fresh, Ahead, CallsBounded, InInbox
<1>2. ASSUME IInv, TypeOK', Scan PROVE IInv'
  <2>1. /\ UNCHANGED <<diskVars, histVars, cur, left, busy, inbox, crashes>>
        /\ pc = "scan" /\ cur = NoDir /\ inbox = <<>>
        /\ todo' = published \ processed /\ pc' = "catchup"
    BY <1>2 DEF IInv, Scan, Shape
  <2>2. Shape' /\ Serving' /\ ProcessedIsHandled' /\ CallsBounded'
    BY <1>2, <2>1 DEF IInv, TypeOK, diskVars, histVars, Shape, Serving,
                ProcessedIsHandled, CallsBounded
  <2>3. Once'
    BY <1>2, <2>1, NoDirAssumption DEF IInv, TypeOK, diskVars, Once, InInbox
  <2>4. Fresh'
    BY <1>2, <2>1 DEF IInv, TypeOK, diskVars, histVars, Fresh, Ahead
  <2> QED
    BY <1>2, <2>2, <2>3, <2>4 DEF IInv
<1> QED
  BY <1>1, <1>2

\* A directory of the scan is taken up.
LEMMA PickPendingStep ==
    ASSUME IInv, TypeOK', NEW d \in Dirs, PickPending(d)
    PROVE  IInv'
<1>1. /\ UNCHANGED <<diskVars, histVars, pc, busy, inbox, crashes>>
      /\ pc = "catchup" /\ cur = NoDir /\ inbox = <<>> /\ busy = NoEntry
      /\ d \in todo /\ d \in published /\ d # NoDir
      /\ todo' = todo \ {d} /\ cur' = d /\ left' = contents[d]
  BY NoDirAssumption DEF IInv, PickPending, Shape
<1>2. Shape' /\ Serving' /\ ProcessedIsHandled' /\ CallsBounded'
  BY <1>1 DEF IInv, TypeOK, diskVars, histVars, Shape, Serving,
              ProcessedIsHandled, CallsBounded
<1>3. Once'
  BY <1>1 DEF IInv, Once, InInbox
<1>4. Fresh'
  BY <1>1 DEF IInv, TypeOK, diskVars, histVars, Fresh, Ahead, InInbox
<1> QED
  BY <1>2, <1>3, <1>4 DEF IInv

\* A directory that inotify reported is taken up.
LEMMA NextEventStep == ASSUME IInv, TypeOK', NextEvent PROVE IInv'
<1> DEFINE d == Head(inbox)
<1>1. /\ UNCHANGED <<diskVars, histVars, pc, todo, busy, crashes>>
      /\ pc = "watching" /\ cur = NoDir /\ todo = {} /\ busy = NoEntry
      /\ inbox # <<>> /\ inbox \in Seq(Dirs)
      /\ inbox' = Tail(inbox) /\ cur' = d /\ left' = contents[d]
  BY DEF IInv, TypeOK, NextEvent, Shape
<1>2. /\ d \in Dirs /\ Holds(inbox, d)
      /\ \A c : Holds(inbox', c) => Holds(inbox, c)
      /\ Distinct(inbox) => Distinct(inbox') /\ ~Holds(inbox', d)
  BY <1>1, TailFacts
<1>3. \A c : Holds(inbox, c) => c \in published
  BY DEF IInv, Shape, Holds
<1> HIDE DEF d
<1>4. Shape'
  <2>1. \A i \in 1..Len(inbox') : inbox'[i] \in published'
    BY <1>1, <1>2, <1>3 DEF diskVars, Holds
  <2> QED
    BY <1>1, <1>2, <2>1, NoDirAssumption DEF IInv, Shape, diskVars
<1>5. Serving' /\ ProcessedIsHandled' /\ CallsBounded'
  BY <1>1, <1>2, <1>3 DEF IInv, TypeOK, diskVars, histVars, Serving,
                          ProcessedIsHandled, CallsBounded
<1>6. Once'
  BY <1>1, <1>2 DEF IInv, Once, InInbox, Holds, Distinct
<1>7. Fresh'
  BY <1>1, <1>2 DEF IInv, TypeOK, diskVars, histVars, Fresh, Ahead, InInbox,
                    Holds
<1> QED
  BY <1>4, <1>5, <1>6, <1>7 DEF IInv

\* The handler is called for an entry that is left.
LEMMA CallHandlerStep ==
    ASSUME IInv, TypeOK', NEW e \in Entries, CallHandler(e)
    PROVE  IInv'
<1>1. /\ UNCHANGED <<diskVars, handled, pc, todo, cur, inbox, crashes>>
      /\ cur # NoDir /\ cur \in Dirs /\ busy = NoEntry /\ e \in left
      /\ left' = left \ {e} /\ busy' = e /\ e # NoEntry
      /\ calls' = [calls EXCEPT ![cur][e] = @ + 1]
  BY NoEntryAssumption DEF IInv, TypeOK, CallHandler
<1>2. /\ calls[cur][e] <= crashes /\ calls[cur][e] \in Nat
      /\ calls'[cur][e] = calls[cur][e] + 1
      /\ \A d \in Dirs, x \in Entries :
            d # cur \/ x # e => calls'[d][x] = calls[d][x]
  BY <1>1 DEF IInv, TypeOK, Fresh
<1>3. Shape' /\ Serving' /\ ProcessedIsHandled'
  BY <1>1, NoEntryAssumption DEF IInv, TypeOK, diskVars, Shape, Serving,
                                 ProcessedIsHandled
<1>4. Once'
  BY <1>1 DEF IInv, Once, InInbox
<1>5. ~Ahead(cur)
  BY <1>1 DEF IInv, Ahead, Once, Shape, Serving
<1>6. \A d \in Dirs : Ahead(d)' => Ahead(d)
  BY <1>1 DEF Ahead, InInbox, diskVars
<1>7. Fresh'
  BY <1>1, <1>2, <1>5, <1>6 DEF IInv, TypeOK, Fresh
<1>8. CallsBounded'
  BY <1>1, <1>2 DEF IInv, TypeOK, CallsBounded
<1> QED
  BY <1>3, <1>4, <1>7, <1>8 DEF IInv

\* The handler returns, or the directory is marked.
LEMMA FinishStep == IInv /\ TypeOK' /\ (HandlerReturns \/ MarkProcessed) => IInv'
<1>1. ASSUME IInv, TypeOK', HandlerReturns PROVE IInv'
  <2>1. cur # NoDir /\ cur \in Dirs /\ busy \in Entries
    BY <1>1 DEF IInv, TypeOK, HandlerReturns, Shape
  <2>2. Shape' /\ Serving' /\ ProcessedIsHandled'
    BY <1>1, <2>1, NoEntryAssumption
       DEF IInv, TypeOK, HandlerReturns, diskVars, Shape, Serving,
           ProcessedIsHandled
  <2>3. Once' /\ Fresh' /\ CallsBounded'
    BY <1>1 DEF IInv, HandlerReturns, diskVars, Once, Fresh, Ahead, InInbox,
                CallsBounded
  <2> QED
    BY <1>1, <2>2, <2>3 DEF IInv
<1>2. ASSUME IInv, TypeOK', MarkProcessed PROVE IInv'
  <2>1. cur # NoDir /\ cur \in Dirs /\ cur \in published
    BY <1>2 DEF IInv, TypeOK, MarkProcessed, Serving
  <2>2. contents[cur] \subseteq handled[cur]
    BY <1>2, <2>1, NoEntryAssumption DEF IInv, TypeOK, MarkProcessed, Serving
  <2>3. Shape' /\ Serving' /\ ProcessedIsHandled'
    BY <1>2, <2>1, <2>2 DEF IInv, MarkProcessed, histVars, Shape, Serving,
                            ProcessedIsHandled
  <2>4. ~InInbox(NoDir) /\ NoDir \notin todo
    BY NoDirAssumption, <1>2 DEF IInv, TypeOK, Shape, InInbox
  <2>5. Once' /\ Fresh' /\ CallsBounded'
    BY <1>2, <2>4 DEF IInv, MarkProcessed, histVars, Once, Fresh, Ahead,
                      InInbox, CallsBounded
  <2> QED
    BY <1>2, <2>3, <2>5 DEF IInv
<1> QED
  BY <1>1, <1>2

\* The watch is added, the process dies, or nothing happens.
LEMMA RestStep ==
    IInv /\ TypeOK' /\ (AddWatch \/ Crash \/ UNCHANGED vars) => IInv'
<1>1. ASSUME IInv, TypeOK', AddWatch PROVE IInv'
  BY <1>1 DEF IInv, AddWatch, diskVars, histVars, Shape, Serving,
              ProcessedIsHandled, Once, Fresh, Ahead, InInbox, CallsBounded
<1>2. ASSUME IInv, TypeOK', Crash PROVE IInv'
  <2>1. Shape' /\ Serving' /\ ProcessedIsHandled' /\ Once'
    BY <1>2 DEF IInv, Crash, diskVars, histVars, Shape, Serving,
                ProcessedIsHandled, Once, InInbox
  <2>2. crashes' = crashes + 1 /\ crashes \in Nat
    BY <1>2, MaxCrashesAssumption DEF IInv, TypeOK, Crash
  <2>3. Fresh' /\ CallsBounded'
    BY <1>2, <2>2 DEF IInv, TypeOK, Crash, diskVars, histVars, Fresh,
                      CallsBounded
  <2> QED
    BY <1>2, <2>1, <2>3 DEF IInv
<1>3. ASSUME IInv, TypeOK', UNCHANGED vars PROVE IInv'
  BY <1>3 DEF IInv, vars, diskVars, histVars, procVars, Shape, Serving,
              ProcessedIsHandled, Once, Fresh, Ahead, InInbox, CallsBounded
<1> QED
  BY <1>1, <1>2, <1>3

-----------------------------------------------------------------------------
(***************************************************************************)
(* The inductive invariant holds in every reachable state of the watcher.  *)
(***************************************************************************)
THEOREM Invariance == Spec => []IInv
<1>1. IInv /\ [Next]_vars => IInv'
  <2> SUFFICES ASSUME IInv, [Next]_vars PROVE IInv'
    OBVIOUS
  <2>1. TypeOK'
    BY TypeStep DEF IInv
  <2> QED
    BY <2>1, PublishStep, StartScanStep, PickPendingStep, NextEventStep,
       CallHandlerStep, FinishStep, RestStep DEF Next, WatcherStep
<1> QED
  BY InitInv, <1>1, PTL DEF Spec

(***************************************************************************)
(* The type invariant of the watcher.                                      *)
(***************************************************************************)
THEOREM TypeCorrect == Spec => []TypeOK
<1>1. IInv => TypeOK
  BY DEF IInv
<1> QED
  BY Invariance, <1>1, PTL

(***************************************************************************)
(* A .processed file is only found where every entry was handled           *)
(* (request.py: handle_request returns before the touch).                  *)
(***************************************************************************)
THEOREM ProcessedIsHandledAlways == Spec => []ProcessedIsHandled
<1>1. IInv => ProcessedIsHandled
  BY DEF IInv
<1> QED
  BY Invariance, <1>1, PTL

(***************************************************************************)
(* The handler is called at most once per entry and incarnation, though    *)
(* the event loop of request.py does not look at .processed.               *)
(***************************************************************************)
THEOREM CallsBoundedAlways == Spec => []CallsBounded
<1>1. IInv => CallsBounded
  BY DEF IInv
<1> QED
  BY Invariance, <1>1, PTL

(***************************************************************************)
(* The loop of request.py implements the promise of the directory: publish *)
(* whole, handle each entry, mark only when all are handled.               *)
(***************************************************************************)
THEOREM Refinement == Spec => ImplementsRequestQueue
<1>1. Init => RQ!Init
  BY DEF Init, RQ!Init
<1>2. IInv /\ [Next]_vars => [RQ!Next]_(RQ!vars)
  <2> SUFFICES ASSUME IInv, [Next]_vars PROVE [RQ!Next]_(RQ!vars)
    OBVIOUS
  <2>1. ASSUME NEW d \in Dirs, NEW entries \in SUBSET Entries,
               Publish(d, entries)
        PROVE  RQ!Next
    BY <2>1 DEF Publish, histVars, RQ!Next, RQ!Publish
  <2>2. CASE HandlerReturns
    <3>1. /\ cur \in Dirs /\ busy \in Entries
          /\ cur \in published /\ busy \in contents[cur]
      BY <2>2 DEF IInv, TypeOK, Shape, Serving, HandlerReturns
    <3>2. RQ!Handle(cur, busy)
      BY <2>2, <3>1 DEF HandlerReturns, diskVars, RQ!Handle
    <3> QED
      BY <3>1, <3>2 DEF RQ!Next
  <2>3. CASE MarkProcessed
    <3>1. /\ cur \in Dirs /\ cur \in published
          /\ contents[cur] \subseteq handled[cur]
      BY <2>3, NoEntryAssumption DEF IInv, TypeOK, Serving, MarkProcessed
    <3>2. RQ!Complete(cur)
      BY <2>3, <3>1 DEF MarkProcessed, histVars, RQ!Complete
    <3> QED
      BY <3>1, <3>2 DEF RQ!Next
  <2>4. CASE \/ Start \/ Scan \/ NextEvent \/ AddWatch \/ Crash
             \/ UNCHANGED vars
             \/ \E d \in Dirs : PickPending(d)
             \/ \E e \in Entries : CallHandler(e)
    BY <2>4 DEF Start, Scan, NextEvent, AddWatch, Crash, PickPending,
                CallHandler, vars, diskVars, histVars, procVars, RQ!vars
  <2> QED
    BY <2>1, <2>2, <2>3, <2>4 DEF Next, WatcherStep
<1> QED
  BY Invariance, <1>1, <1>2, PTL DEF Spec, ImplementsRequestQueue, RQ!Spec
=============================================================================
