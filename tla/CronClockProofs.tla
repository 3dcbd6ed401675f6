-------------------------- MODULE CronClockProofs --------------------------
(***************************************************************************)
(* For any intervals, durations, time limit, machines and deaths of the    *)
(* process: no task of the clean-up process is late by more than one run   *)
(* of each of the others, no machine is given up before its time, and none *)
(* much after it.                                                          *)
(*                                                                         *)
(* None of the three is inductive.  A task that is late was overtaken only *)
(* by tasks whose deadline lies after its own by now (Punctual); what the  *)
(* clean-up task read of a link is no more than the machine has waited, or *)
(* the machine was given up before and the pod watcher has replaced the    *)
(* link (Patient), and no less than the link is old, or that was replaced  *)
(* during the run (ReadIsOld); and a link that a run must still look at is *)
(* no older than the deadline of that run allows (Due), one that it has    *)
(* looked at not older than the time limit and the run (Seen).             *)
(***************************************************************************)
EXTENDS CronClock, TLAPS

Running(t) == mode = "run" /\ task = t

Ticks == IF mode = "run" THEN elapsed ELSE 0

\* The tasks that have run since t became the next one, but for one that runs.
Overtook(t) == {u \in Tasks \ {t} : ~Running(u) /\ remaining[u] > remaining[t]}

Punctual ==
    \A t \in Tasks :
        ~Running(t) => remaining[t] >= 0 - Cost(Overtook(t)) - Ticks

\* A task begins to run when it is not late.
BeganInTime == mode = "run" => remaining[task] >= 0 - Others(task) - elapsed

\* The task that runs or is waited for is still the one with the first
\* deadline, which a sleep does not let pass.
First ==
    /\ mode \in {"sleep", "run"} => \A u \in Tasks : remaining[task] <= remaining[u]
    /\ mode = "sleep" => remaining[task] >= 0
    /\ remaining["cleanup"] <= Ahead

\* The links that the run of the clean-up task must still look at or replace.
Listed(m) ==
    \/ m \in todo
    \/ lstat # NoLink /\ lstat.machine = m
    \/ giveUp = m

Known == \A m \in Machines : Listed(m) => status[m] # "none"

\* What the clocks were put forward by while the machine waited.
Lost(m) == IF moved[m] /\ shift > 0 THEN Jump ELSE 0

\* What the clocks were put back by since the link was made.
Gained(m) == IF skew[m] < 0 THEN Jump ELSE 0

\* It has waited for as long as it must before it is given up.
Late(m) == waited[m] + Lost(m) > PodTimeout

\* What was read of a link is no more than the machine has waited, unless it is
\* late anyhow: the link was "deleted" then, and the pod watcher has put another
\* in its place.  Whatever is given up is late, and stays so.
Patient ==
    /\ lstat # NoLink /\ Waiting(lstat.machine) =>
         \/ /\ lstat.age <= waited[lstat.machine]
            /\ lstat.skew <= Lost(lstat.machine)
         \/ Late(lstat.machine)
    /\ giveUp # NoLink => Late(giveUp)
    /\ \A m \in Machines : status[m] = "deleted" => Late(m)

\* The link that the pod watcher is about to replace is the one it has read, or
\* the clean-up has made it "deleted".
Handed ==
    hand # NoLink =>
        \/ Waiting(hand.machine)
        \/ status[hand.machine] = "running" /\ hand.phase = "running"
        \/ status[hand.machine] = "deleted"

\* The link whose age was read is there, or it was replaced during the run.
ReadIsOld ==
    lstat # NoLink /\ Waiting(lstat.machine) =>
        LET m == lstat.machine
        IN  \/ age[m] <= lstat.age /\ skew[m] = lstat.skew
            \/ age[m] <= elapsed

\* The oldest that a link may be at the deadline of the run that looks at it.
AtDeadline(n) == PodTimeout + Duration["cleanup"] + Ahead + n * (Jitter + Round)

Due ==
    \A m \in Machines :
        Waiting(m) /\ (~Running("cleanup") \/ Listed(m)) =>
            age[m] + remaining["cleanup"] <= AtDeadline(deaths) + Gained(m)

Seen ==
    \A m \in Machines :
        Waiting(m) /\ Running("cleanup") /\ ~Listed(m) =>
            age[m] <= PodTimeout + Gained(m) + elapsed

IInv ==
    /\ TypeOK
    /\ Punctual /\ BeganInTime /\ First
    /\ Known /\ Handed /\ Patient
    /\ ReadIsOld /\ Due /\ Seen

-----------------------------------------------------------------------------
(* What the sums over tasks are worth.                                     *)

\* Constants: the durations, the intervals and the bounds are numbers.
LEMMA Numbers ==
    /\ \A t \in Tasks : Duration[t] \in Nat /\ Interval[t] \in Nat /\ Interval[t] >= 1
    /\ Jitter \in Nat /\ PodTimeout \in Nat /\ Jump \in Nat /\ MaxFaults \in Nat
    /\ Early \in Nat /\ Early >= 1
    /\ NoLink \notin Machines
    /\ NoLink \notin [machine : Machines, age : Nat, skew : Int]
    /\ NoLink \notin [machine : Machines, phase : {"pending", "running"}]
    /\ Ahead \in Nat /\ Ahead >= Jitter /\ Ahead >= Interval["cleanup"]
<1>1. "cleanup" \in Tasks
  BY DEF Tasks
<1>2. /\ \A t \in Tasks : Duration[t] \in Nat /\ Interval[t] \in Nat /\ Interval[t] >= 1
      /\ Jitter \in Nat /\ PodTimeout \in Nat /\ Jump \in Nat /\ MaxFaults \in Nat
      /\ Early \in Nat /\ Early >= 1
      /\ NoLink \notin Machines
      /\ NoLink \notin [machine : Machines, age : Nat, skew : Int]
      /\ NoLink \notin [machine : Machines, phase : {"pending", "running"}]
  BY TimesAssumption
<1> QED
  BY <1>1, <1>2 DEF Ahead

\* A sum of durations is a number.
LEMMA CostType ==
    ASSUME NEW S
    PROVE  Cost(S) \in Nat
BY Numbers DEF Cost, Tasks

\* More tasks cost no less.
LEMMA CostMonotone ==
    ASSUME NEW S, NEW T, \A t \in Tasks : t \in S => t \in T
    PROVE  Cost(S) <= Cost(T)
BY Numbers DEF Cost, Tasks

\* One task more costs its duration more.
LEMMA CostAdd ==
    ASSUME NEW S, NEW T, NEW t \in Tasks, t \notin S, t \in T,
           \A u \in Tasks : u \in S => u \in T
    PROVE  Cost(S) + Duration[t] <= Cost(T)
<1> USE Numbers DEF Cost, Tasks
<1>1. CASE t = "cleanup"
  BY <1>1
<1>2. CASE t = "pods"
  BY <1>2
<1>3. CASE t = "nodes"
  BY <1>3
<1> QED
  BY <1>1, <1>2, <1>3

\* A round is a run of the task and one of each of the others.
LEMMA RoundSplit ==
    ASSUME NEW t \in Tasks
    PROVE  Others(t) \in Nat /\ Round = Others(t) + Duration[t]
<1> USE Numbers DEF Cost, Tasks, Others, Round
<1>1. CASE t = "cleanup"
  BY <1>1
<1>2. CASE t = "pods"
  BY <1>2
<1>3. CASE t = "nodes"
  BY <1>3
<1> QED
  BY <1>1, <1>2, <1>3

\* What the deaths of the process cost.
Restarts(n) == n * (Jitter + Round)

LEMMA RestartsAdd ==
    ASSUME NEW n \in Nat
    PROVE  /\ Round \in Nat /\ Restarts(n) \in Nat
           /\ Restarts(n + 1) = Restarts(n) + Jitter + Round
           /\ Latest(n) = PodTimeout + Duration["cleanup"] + Ahead + Round + Restarts(n)
           /\ AtDeadline(n) = PodTimeout + Duration["cleanup"] + Ahead + Restarts(n)
<1>1. Round \in Nat
  BY CostType DEF Round
<1>2. \A k \in Nat : n * k \in Nat /\ (n + 1) * k = n * k + k
  OBVIOUS
<1>3. Jitter + Round \in Nat
  BY <1>1, Numbers
<1>4. Restarts(n) \in Nat /\ Restarts(n + 1) = Restarts(n) + (Jitter + Round)
  BY <1>2, <1>3 DEF Restarts
<1>5. Restarts(n + 1) = Restarts(n) + Jitter + Round
  BY <1>1, <1>4, Numbers
<1> QED
  BY <1>1, <1>4, <1>5 DEF Latest, AtDeadline, Restarts

LEMMA CapIsNat == AgeCap \in Nat
BY Numbers, RestartsAdd DEF AgeCap, Tasks


-----------------------------------------------------------------------------
(* Types.                                                                  *)

Statuses == {"none", "creating", "pending", "running", "deleted"}

\* The age of a link is capped, and a link that waits as long as another stays
\* no older than it.
LEMMA OneMoreType ==
    ASSUME NEW a \in 0..AgeCap
    PROVE  /\ OneMore(a) \in 0..AgeCap
           /\ OneMore(a) <= a + 1 /\ a <= OneMore(a)
           /\ \A b \in 0..AgeCap : b <= a => OneMore(b) <= OneMore(a)
BY CapIsNat DEF OneMore

\* Steps that change neither the links nor anything of the clean-up process.
Aside == UNCHANGED <<cronVars, linkVars, shift>>

LEMMA AsideSteps ==
    ASSUME \/ \E m \in Machines : \E phase \in {"pending", "running"} : CheckStatus(m, phase)
           \/ WatcherDies
           \/ UNCHANGED vars
    PROVE  Aside
BY DEF Aside, CheckStatus, WatcherDies, vars

\* What the pod watcher does to a link, of whichever machine that is.
LEMMA LinkIsReplaced ==
    ASSUME TypeOK, ReplaceLink
    PROVE  \E n \in Machines :
              /\ n = hand.machine /\ hand.phase \in {"pending", "running"}
              /\ status' = [status EXCEPT ![n] = hand.phase]
              /\ age' = [age EXCEPT ![n] = 0] /\ skew' = [skew EXCEPT ![n] = 0]
              /\ UNCHANGED <<waited, moved, shift, cronVars>>
BY DEF TypeOK, ReplaceLink

LEMMA InitTyped == Init => TypeOK
<1> SUFFICES ASSUME Init PROVE TypeOK
  OBVIOUS
<1>1. remaining \in [Tasks -> Int]
  BY Numbers DEF Init
<1>2. elapsed \in 0..Duration[task] /\ task \in Tasks
  BY Numbers DEF Init, Tasks
<1>3. 0 \in 0..AgeCap /\ 0 \in Shifts /\ 0 \in 0..MaxFaults
  BY CapIsNat, Numbers DEF Shifts
<1> QED
  BY <1>1, <1>2, <1>3 DEF Init, TypeOK

\* The state of the loop and of the clean-up task keeps its type ...
LEMMA CronTyped ==
    ASSUME TypeOK, [Next]_vars
    PROVE  /\ remaining' \in [Tasks -> Int]
           /\ mode' \in {"choose", "sleep", "run"} /\ task' \in Tasks
           /\ elapsed' \in 0..Duration[task']
           /\ (todo \subseteq Machines)'
           /\ (giveUp \in Machines \cup {NoLink})'
           /\ (lstat # NoLink => giveUp = NoLink)'
           /\ (todo # {} \/ lstat # NoLink \/ giveUp # NoLink
                 => mode = "run" /\ task = "cleanup")'
           /\ deaths' \in 0..MaxFaults
<1> USE Numbers DEF TypeOK
<1>0. "cleanup" \in Tasks
  BY DEF Tasks
<1>1. CASE Tick
  BY <1>1 DEF Tick
<1>2. CASE ClocksChange
  BY <1>2 DEF ClocksChange
<1>3. CASE Choose
  <2>1. PICK t \in Tasks : IF remaining[t] < Early THEN Runs(t) ELSE Sleeps(t)
    BY <1>3 DEF Choose
  <2> QED
    BY <1>3, <2>1 DEF Choose, Runs, Sleeps
<1>4. CASE Wake
  BY <1>4 DEF Wake
<1>5. CASE Finish
  BY <1>5 DEF Finish
<1>6. CASE Die
  BY <1>6, <1>0 DEF Die, Started
<1>7. CASE ReadAge
  BY <1>7 DEF ReadAge
<1>8. CASE ReadStatus
  <2>1. lstat.machine \in Machines
    BY <1>8 DEF ReadStatus
  <2> QED
    BY <1>8, <2>1 DEF ReadStatus
<1>9. CASE GiveUp
  BY <1>9 DEF GiveUp
<1>10. CASE \E m \in Machines : RequestMachine(m)
  BY <1>10 DEF RequestMachine, cronVars
<1>11. CASE ReplaceLink
  BY <1>11 DEF ReplaceLink, cronVars
<1>12. CASE \E m \in Machines : Forget(m)
  BY <1>12 DEF Forget, cronVars
<1>13. CASE Aside
  BY <1>13 DEF Aside, cronVars
<1> QED
  BY <1>1, <1>2, <1>3, <1>4, <1>5, <1>6, <1>7, <1>8, <1>9, <1>10, <1>11, <1>12, <1>13,
     AsideSteps DEF Next, Cleanup

\* ... so does what it has read of a link ...
LEMMA ReadTyped ==
    ASSUME TypeOK, [Next]_vars
    PROVE  (lstat = NoLink \/ lstat \in [machine : Machines, age : 0..AgeCap, skew : Shifts])'
<1> DEFINE Reads == [machine : Machines, age : 0..AgeCap, skew : Shifts]
<1> USE Numbers DEF TypeOK
<1>1. CASE Tick
  <2>1. lstat' = IF lstat = NoLink THEN NoLink ELSE [lstat EXCEPT !.age = OneMore(@)]
    BY <1>1 DEF Tick
  <2>2. CASE lstat = NoLink
    BY <2>1, <2>2
  <2>3. CASE lstat \in Reads /\ lstat # NoLink
    <3>1. OneMore(lstat.age) \in 0..AgeCap
      BY <2>3, OneMoreType
    <3> QED
      BY <2>1, <2>3, <3>1
  <2> QED
    BY <2>2, <2>3
<1>2. CASE ClocksChange
  <2>1. lstat' = IF lstat = NoLink THEN NoLink ELSE [lstat EXCEPT !.skew = shift']
    BY <1>2 DEF ClocksChange
  <2>2. shift' \in Shifts
    BY <1>2 DEF ClocksChange
  <2> QED
    BY <2>1, <2>2
<1>3. CASE ReadAge
  <2>1. PICK m \in todo : lstat' = [machine |-> m, age |-> age[m], skew |-> skew[m]]
    BY <1>3 DEF ReadAge
  <2>2. m \in Machines /\ age[m] \in 0..AgeCap /\ skew[m] \in Shifts
    BY DEF Shifts
  <2> QED
    BY <2>1, <2>2
<1>4. CASE Die \/ ReadStatus
  BY <1>4 DEF Die, Started, ReadStatus
<1>5. CASE UNCHANGED lstat
  BY <1>5
<1> QED
  BY <1>1, <1>2, <1>3, <1>4, <1>5
  DEF Next, Cleanup, Choose, Wake, Finish, GiveUp, RequestMachine, CheckStatus,
      ReplaceLink, WatcherDies, Forget, vars, cronVars

\* ... and so do the links.
LinksOK ==
    /\ status \in [Machines -> Statuses]
    /\ age \in [Machines -> 0..AgeCap] /\ waited \in [Machines -> 0..AgeCap]
    /\ \A m \in Machines : status[m] = "none" => age[m] = 0 /\ waited[m] = 0
    /\ \A m \in Machines : age[m] <= waited[m]
    /\ shift \in Shifts
    /\ skew \in [Machines -> {0, shift}] /\ moved \in [Machines -> BOOLEAN]
    /\ \A m \in Machines : skew[m] # 0 => moved[m]

LEMMA LinksTyped ==
    ASSUME TypeOK, [Next]_vars
    PROVE  LinksOK'
<1> USE Numbers DEF TypeOK, Statuses, LinksOK
<1>0. 0 \in 0..AgeCap
  BY CapIsNat
<1>1. CASE Tick
  <2>1. \A m \in Machines :
           /\ age'[m] = (IF Waiting(m) THEN OneMore(age[m]) ELSE age[m])
           /\ waited'[m] = (IF Waiting(m) THEN OneMore(waited[m]) ELSE waited[m])
    BY <1>1 DEF Tick, OneOlder
  <2>2. \A m \in Machines : age[m] \in 0..AgeCap /\ waited[m] \in 0..AgeCap
    OBVIOUS
  <2>3. age' = OneOlder(age) /\ waited' = OneOlder(waited)
        /\ status' = status /\ skew' = skew /\ moved' = moved /\ shift' = shift
    BY <1>1 DEF Tick
  <2>4. age' \in [Machines -> 0..AgeCap] /\ waited' \in [Machines -> 0..AgeCap]
    BY <2>2, <2>3, OneMoreType DEF OneOlder
  <2>5. \A m \in Machines : age'[m] <= waited'[m]
    <3> SUFFICES ASSUME NEW m \in Machines PROVE age'[m] <= waited'[m]
      OBVIOUS
    <3>1. OneMore(age[m]) <= OneMore(waited[m])
      BY <2>2, OneMoreType
    <3> QED
      BY <2>1, <3>1
  <2>6. \A m \in Machines : status[m] = "none" => ~Waiting(m)
    BY DEF Waiting
  <2> QED
    BY <2>1, <2>3, <2>4, <2>5, <2>6
<1>2. CASE ClocksChange
  <2>1. /\ skew' = [m \in Machines |-> IF Waiting(m) THEN shift' ELSE 0]
        /\ moved' = [m \in Machines |-> Waiting(m)]
        /\ shift' \in Shifts
        /\ UNCHANGED <<status, age, waited>>
    BY <1>2 DEF ClocksChange
  <2>2. skew' \in [Machines -> {0, shift'}]
    BY <2>1
  <2>3. moved' \in [Machines -> BOOLEAN]
    BY <2>1 DEF Waiting
  <2>4. \A m \in Machines : skew'[m] # 0 => moved'[m]
    BY <2>1
  <2> QED
    BY <2>1, <2>2, <2>3, <2>4
<1>3. CASE GiveUp
  BY <1>0, <1>3 DEF GiveUp
<1>4. ASSUME NEW m \in Machines, RequestMachine(m)
      PROVE  LinksOK'
  BY <1>4 DEF RequestMachine
<1>5. CASE ReplaceLink
  <2>1. PICK n \in Machines :
           /\ n = hand.machine /\ hand.phase \in {"pending", "running"}
           /\ status' = [status EXCEPT ![n] = hand.phase]
           /\ age' = [age EXCEPT ![n] = 0] /\ skew' = [skew EXCEPT ![n] = 0]
           /\ UNCHANGED <<waited, moved, shift, cronVars>>
    BY <1>5, LinkIsReplaced
  <2> QED
    BY <1>0, <2>1
<1>6. ASSUME NEW m \in Machines, Forget(m)
      PROVE  LinksOK'
  BY <1>0, <1>6 DEF Forget
<1>7. CASE UNCHANGED <<linkVars, shift>>
  BY <1>7 DEF linkVars
<1> QED
  BY <1>1, <1>2, <1>3, <1>4, <1>5, <1>6, <1>7, AsideSteps
  DEF Next, Cleanup, Choose, Wake, Finish, Die, ReadAge, ReadStatus, Aside

Hands == [machine : Machines, phase : {"pending", "running"}]

LEMMA HandTyped ==
    ASSUME TypeOK, [Next]_vars
    PROVE  hand' = NoLink \/ hand' \in Hands
<1> USE DEF TypeOK, Hands
<1>1. CASE \E m \in Machines : \E phase \in {"pending", "running"} : CheckStatus(m, phase)
  BY <1>1 DEF CheckStatus
<1>2. CASE hand' = NoLink \/ hand' = hand
  BY <1>2
<1> QED
  BY <1>1, <1>2
  DEF Next, Cleanup, Tick, ClocksChange, Choose, Wake, Finish, Die, ReadAge, ReadStatus,
      GiveUp, RequestMachine, ReplaceLink, WatcherDies, Forget, vars

LEMMA Typed ==
    ASSUME TypeOK, [Next]_vars
    PROVE  TypeOK'
BY CronTyped, ReadTyped, LinksTyped, HandTyped DEF TypeOK, LinksOK, Statuses, Hands

-----------------------------------------------------------------------------
(* Punctuality.                                                            *)

\* Where the deadlines move on by no more than the time that passes and no task
\* leaves those that have overtaken another, the others stay punctual.
LEMMA StillPunctual ==
    ASSUME TypeOK, TypeOK', Punctual, NEW t \in Tasks, ~Running(t),
           \A u \in Tasks : u \in Overtook(t) => u \in Overtook(t)',
           remaining'[t] + Ticks' >= remaining[t] + Ticks
    PROVE  remaining'[t] >= 0 - Cost(Overtook(t)') - Ticks'
<1>1. remaining[t] >= 0 - Cost(Overtook(t)) - Ticks
  BY DEF Punctual
<1>2. Cost(Overtook(t)) <= Cost(Overtook(t)')
  BY CostMonotone
<1>3. Cost(Overtook(t)) \in Nat /\ Cost(Overtook(t)') \in Nat
  BY CostType
<1>4. remaining[t] \in Int /\ remaining'[t] \in Int /\ Ticks \in Int /\ Ticks' \in Int
  BY Numbers DEF TypeOK, Ticks
<1> QED
  BY <1>1, <1>2, <1>3, <1>4

LEMMA FirstHolds ==
    ASSUME TypeOK, TypeOK', First, [Next]_vars
    PROVE  First'
<1> USE Numbers DEF TypeOK, First
<1>0. "cleanup" \in Tasks
  BY DEF Tasks
<1>1. CASE Tick
  BY <1>0, <1>1 DEF Tick
<1>2. CASE Choose
  <2>1. PICK t \in Tasks : /\ \A u \in Tasks : remaining[t] <= remaining[u]
                           /\ IF remaining[t] < Early THEN Runs(t) ELSE Sleeps(t)
    BY <1>2 DEF Choose
  <2> QED
    BY <1>2, <2>1 DEF Choose, Runs, Sleeps
<1>3. CASE Wake
  BY <1>3 DEF Wake
<1>4. CASE Finish
  BY <1>0, <1>4 DEF Finish
<1>5. CASE Die
  <2>1. remaining' \in [Tasks -> 0..Jitter] /\ mode' = "choose"
    BY <1>5 DEF Die, Started
  <2>2. remaining'["cleanup"] \in 0..Jitter
    BY <1>0, <2>1
  <2> QED
    BY <2>1, <2>2
<1>6. CASE UNCHANGED <<remaining, mode, task>>
  BY <1>6
<1> QED
  BY <1>1, <1>2, <1>3, <1>4, <1>5, <1>6
  DEF Next, Cleanup, ClocksChange, ReadAge, ReadStatus, GiveUp, RequestMachine, CheckStatus,
      ReplaceLink, WatcherDies, Forget, vars, cronVars

LEMMA PunctualHolds ==
    ASSUME TypeOK, TypeOK', First, Punctual, [Next]_vars
    PROVE  Punctual'
<1> USE Numbers DEF TypeOK
<1> SUFFICES ASSUME NEW t \in Tasks, ~Running(t)'
             PROVE  remaining'[t] >= 0 - Cost(Overtook(t)') - Ticks'
  BY DEF Punctual
<1>0. Cost(Overtook(t)') \in Nat
  BY CostType
<1>1. CASE Tick
  <2>1. CASE mode = "run"
    <3>1. \A u \in Tasks : u \in Overtook(t) => u \in Overtook(t)'
      BY <1>1, <2>1 DEF Tick, Overtook, Running
    <3> QED
      BY <1>1, <2>1, <3>1, StillPunctual DEF Tick, Running, Ticks
  <2>2. CASE mode = "sleep"
    <3>1. remaining[task] > 0 /\ remaining[task] <= remaining[t]
      BY <1>1, <2>2 DEF Tick, First
    <3>2. remaining'[t] >= 0
      BY <1>1, <3>1 DEF Tick
    <3> QED
      BY <1>0, <1>1, <2>2, <3>2 DEF Tick, Ticks
  <2> QED
    BY <1>1, <2>1, <2>2 DEF Tick
<1>2. CASE Choose
  <2>1. PICK v \in Tasks : /\ \A u \in Tasks : remaining[v] <= remaining[u]
                           /\ IF remaining[v] < Early THEN Runs(v) ELSE Sleeps(v)
    BY <1>2 DEF Choose
  <2>2. remaining' = remaining /\ mode = "choose" /\ Ticks' = 0 /\ Ticks = 0
    BY <1>2, <2>1 DEF Choose, Runs, Sleeps, Ticks
  <2>3. mode' = "sleep" \/ task' = v
    BY <2>1 DEF Runs, Sleeps
  <2>4. \A u \in Tasks : u \in Overtook(t) => u \in Overtook(t)'
    BY <2>1, <2>2, <2>3 DEF Overtook, Running
  <2> QED
    BY <2>2, <2>4, StillPunctual DEF Running
<1>3. CASE Wake
  <2>1. \A u \in Tasks : u \in Overtook(t) => u \in Overtook(t)'
    BY <1>3 DEF Wake, Overtook, Running
  <2> QED
    BY <1>3, <2>1, StillPunctual DEF Wake, Running, Ticks
<1>4. CASE Finish
  <2>1. /\ mode = "run" /\ mode' = "choose" /\ Ticks = elapsed /\ Ticks' = 0
        /\ remaining' = [remaining EXCEPT ![task] = Interval[task]]
    BY <1>4 DEF Finish, Ticks
  <2>2. CASE t = task \/ remaining[t] >= Interval[task]
    BY <1>0, <2>1, <2>2
  <2>3. CASE t # task /\ remaining[t] < Interval[task]
    <3>1. remaining[t] >= 0 - Cost(Overtook(t)) - elapsed
      BY <2>1, <2>3 DEF Punctual, Running
    <3>2. task \notin Overtook(t) /\ task \in Overtook(t)'
      BY <2>1, <2>3 DEF Overtook, Running
    <3>3. \A u \in Tasks : u \in Overtook(t) => u \in Overtook(t)'
      BY <2>1, <2>3 DEF Overtook, Running
    <3>4. Cost(Overtook(t)) + Duration[task] <= Cost(Overtook(t)')
      BY <3>2, <3>3, CostAdd
    <3>5. Cost(Overtook(t)) \in Nat /\ elapsed <= Duration[task] /\ remaining'[t] = remaining[t]
      BY <2>1, <2>3, CostType
    <3> QED
      BY <1>0, <2>1, <3>1, <3>4, <3>5
  <2> QED
    BY <2>2, <2>3
<1>5. CASE Die
  BY <1>0, <1>5 DEF Die, Started, Ticks
<1>6. CASE UNCHANGED <<remaining, mode, task, elapsed>>
  <2>1. \A u \in Tasks : u \in Overtook(t) => u \in Overtook(t)'
    BY <1>6 DEF Overtook, Running
  <2> QED
    BY <1>6, <2>1, StillPunctual DEF Running, Ticks
<1> QED
  BY <1>1, <1>2, <1>3, <1>4, <1>5, <1>6
  DEF Next, Cleanup, ClocksChange, ReadAge, ReadStatus, GiveUp, RequestMachine, CheckStatus,
      ReplaceLink, WatcherDies, Forget, vars, cronVars

-----------------------------------------------------------------------------
(* Patience.                                                               *)

\* A link that the run still has to deal with keeps a status, since a slot is
\* used again only between the runs.
LEMMA KnownHolds ==
    ASSUME TypeOK, TypeOK', Known, [Next]_vars
    PROVE  Known'
<1> USE Numbers DEF TypeOK, Known
<1> SUFFICES ASSUME NEW m \in Machines, Listed(m)'
             PROVE  status'[m] # "none"
  BY DEF Known
<1>1. CASE Tick
  BY <1>1 DEF Tick, Listed
<1>2. CASE ClocksChange
  BY <1>2 DEF ClocksChange, Listed
<1>3. CASE Choose
  <2>1. PICK t \in Tasks : IF remaining[t] < Early THEN Runs(t) ELSE Sleeps(t)
    BY <1>3 DEF Choose
  <2> QED
    BY <1>3, <2>1 DEF Choose, Runs, Sleeps, Listed, linkVars
<1>4. CASE Die
  BY <1>4 DEF Die, Started, Listed
<1>5. CASE ReadAge
  BY <1>5 DEF ReadAge, Listed, linkVars
<1>6. CASE ReadStatus
  BY <1>6 DEF ReadStatus, Listed, linkVars
<1>7. CASE GiveUp
  BY <1>7 DEF GiveUp, Listed
<1>8. CASE \E n \in Machines : RequestMachine(n)
  BY <1>8 DEF RequestMachine, Listed, cronVars
<1>9. CASE ReplaceLink
  <2>1. PICK n \in Machines :
           /\ hand.phase \in {"pending", "running"}
           /\ status' = [status EXCEPT ![n] = hand.phase]
           /\ UNCHANGED cronVars
    BY <1>9, LinkIsReplaced
  <2> QED
    BY <2>1 DEF Listed, cronVars
<1>10. CASE \E n \in Machines : Forget(n)
  BY <1>10 DEF Forget, Listed, cronVars
<1>11. CASE UNCHANGED <<todo, lstat, giveUp, status>>
  BY <1>11 DEF Listed
<1> QED
  BY <1>1, <1>2, <1>3, <1>4, <1>5, <1>6, <1>7, <1>8, <1>9, <1>10, <1>11, AsideSteps
  DEF Next, Cleanup, Wake, Finish, Aside, cronVars, linkVars

\* As long as a slot stands for the same machine, that has waited no less than
\* before, and lost no less to the clocks.
LEMMA NoLessLate ==
    ASSUME TypeOK, TypeOK', [Next]_vars, NEW m \in Machines, ~Forget(m)
    PROVE  /\ waited[m] \in 0..AgeCap /\ waited'[m] \in 0..AgeCap
           /\ waited'[m] >= waited[m]
           /\ Lost(m) \in Nat /\ Lost(m)' \in Nat
           /\ Lost(m)' >= Lost(m)
           /\ Late(m) => Late(m)'
<1> USE Numbers DEF TypeOK
<1>0. /\ Lost(m) \in Nat /\ Lost(m)' \in Nat
      /\ waited[m] \in 0..AgeCap /\ waited'[m] \in 0..AgeCap
      /\ AgeCap \in Nat
  BY CapIsNat DEF Lost
<1>1. waited'[m] >= waited[m] /\ Lost(m)' >= Lost(m)
  <2>1. CASE Tick
    <3>1. waited'[m] >= waited[m]
      BY <1>0, <2>1, OneMoreType DEF Tick, OneOlder
    <3> QED
      BY <1>0, <2>1, <3>1 DEF Tick, Lost
  <2>2. CASE ClocksChange
    BY <1>0, <2>2 DEF ClocksChange, Lost
  <2>3. CASE GiveUp
    BY <1>0, <2>3 DEF GiveUp, Lost
  <2>4. CASE \E n \in Machines : RequestMachine(n)
    BY <1>0, <2>4 DEF RequestMachine, Lost
  <2>5. CASE ReplaceLink
    BY <1>0, <2>5 DEF ReplaceLink, Lost
  <2>6. CASE \E n \in Machines : Forget(n)
    <3>1. PICK n \in Machines : Forget(n)
      BY <2>6
    <3>2. n # m
      BY <3>1
    <3> QED
      BY <1>0, <3>1, <3>2 DEF Forget, Lost
  <2>7. CASE UNCHANGED <<linkVars, shift>>
    BY <1>0, <2>7 DEF linkVars, Lost
  <2> QED
    BY <2>1, <2>2, <2>3, <2>4, <2>5, <2>6, <2>7, AsideSteps
    DEF Next, Cleanup, Choose, Wake, Finish, Die, ReadAge, ReadStatus, Aside
<1> QED
  BY <1>0, <1>1 DEF Late

\* A slot is not used again while the run has to deal with it.
LEMMA NotForgotten ==
    ASSUME NEW m \in Machines, Listed(m)
    PROVE  ~Forget(m)
BY Numbers DEF Listed, Forget

\* A machine that waits and that the run has to deal with did so before, or the
\* pod watcher has put its link in the place of one that said "deleted".
LEMMA StillWaiting ==
    ASSUME TypeOK, TypeOK', Known, Handed, [Next]_vars,
           NEW m \in Machines, Listed(m), Waiting(m)'
    PROVE  \/ Waiting(m)
           \/ ReplaceLink /\ hand.machine = m /\ status[m] = "deleted"
<1> USE Numbers DEF TypeOK
<1>1. CASE ReplaceLink
  <2>1. PICK n \in Machines :
           /\ n = hand.machine /\ hand.phase \in {"pending", "running"}
           /\ status' = [status EXCEPT ![n] = hand.phase]
    BY <1>1, LinkIsReplaced
  <2>2. hand # NoLink
    BY <1>1 DEF ReplaceLink
  <2>3. CASE n = m
    BY <1>1, <2>1, <2>2, <2>3 DEF Handed, Waiting
  <2>4. CASE n # m
    BY <2>1, <2>4 DEF Waiting
  <2> QED
    BY <2>3, <2>4
<1>2. CASE GiveUp
  BY <1>2 DEF GiveUp, Waiting
<1>3. CASE \E n \in Machines : RequestMachine(n)
  BY <1>3 DEF RequestMachine, Waiting, Known
<1>4. CASE \E n \in Machines : Forget(n)
  BY <1>4 DEF Forget, Waiting
<1>5. CASE UNCHANGED status
  BY <1>5 DEF Waiting
<1> QED
  BY <1>1, <1>2, <1>3, <1>4, <1>5, AsideSteps
  DEF Next, Cleanup, Tick, ClocksChange, Choose, Wake, Finish, Die, ReadAge, ReadStatus,
      Aside, linkVars

LEMMA HandedHolds ==
    ASSUME TypeOK, TypeOK', Handed, [Next]_vars
    PROVE  Handed'
<1> USE Numbers DEF TypeOK, Handed
<1>1. CASE \E m \in Machines : \E phase \in {"pending", "running"} : CheckStatus(m, phase)
  <2>1. PICK m \in Machines : \E phase \in {"pending", "running"} : CheckStatus(m, phase)
    BY <1>1
  <2>2. PICK phase \in {"pending", "running"} : CheckStatus(m, phase)
    BY <2>1
  <2>3. hand' = [machine |-> m, phase |-> phase] /\ status' = status
    BY <2>2 DEF CheckStatus, linkVars
  <2> QED
    BY <2>2, <2>3 DEF CheckStatus, Waiting
<1>2. CASE ReplaceLink \/ WatcherDies \/ \E m \in Machines : Forget(m)
  BY <1>2 DEF ReplaceLink, WatcherDies, Forget
<1>3. CASE GiveUp
  BY <1>3 DEF GiveUp, Waiting
<1>4. CASE \E m \in Machines : RequestMachine(m)
  BY <1>4 DEF RequestMachine, Waiting
<1>5. CASE UNCHANGED <<hand, status>>
  BY <1>5 DEF Waiting
<1> QED
  BY <1>1, <1>2, <1>3, <1>4, <1>5
  DEF Next, Cleanup, Tick, ClocksChange, Choose, Wake, Finish, Die, ReadAge, ReadStatus,
      vars, linkVars

\* What was read of a link stays no more than the machine has waited.
LEMMA ReadHolds ==
    ASSUME TypeOK, TypeOK', Known, Handed, Patient, [Next]_vars,
           lstat' # NoLink, Waiting(lstat.machine)', NEW m \in Machines, m = lstat'.machine
    PROVE  (lstat'.age <= waited'[m] /\ lstat'.skew <= Lost(m)') \/ Late(m)'
<1> USE Numbers DEF TypeOK
<1>0. /\ waited[m] \in 0..AgeCap /\ waited'[m] \in 0..AgeCap
      /\ Waiting(m)' /\ lstat'.age \in 0..AgeCap /\ lstat'.skew \in Int
      /\ AgeCap \in Nat
  BY CapIsNat DEF Shifts, Waiting
<1>1. CASE ReadAge
  <2>1. /\ m \in todo /\ lstat'.age = age[m] /\ lstat'.skew = skew[m]
        /\ UNCHANGED <<status, age, waited, moved, shift>>
    BY <1>1 DEF ReadAge, linkVars
  <2>2. age[m] <= waited[m]
    BY <1>0
  <2>3. skew[m] \in {0, shift} /\ shift \in Shifts /\ (skew[m] # 0 => moved[m])
    BY <1>0
  <2>4. skew[m] <= Lost(m)
    BY <2>3 DEF Lost, Shifts
  <2>5. Lost(m)' = Lost(m)
    BY <2>1 DEF Lost
  <2> QED
    BY <1>0, <2>1, <2>2, <2>4, <2>5
<1>2. CASE ~ReadAge
  <2>1. lstat # NoLink /\ lstat.machine = m
    BY <1>2, AsideSteps DEF Next, Cleanup, Tick, ClocksChange, Choose, Wake, Finish, Die,
       Started, ReadStatus, GiveUp, RequestMachine, ReplaceLink, Forget, Aside, cronVars
  <2>2. Listed(m)
    BY <2>1 DEF Listed
  <2>3. /\ waited'[m] >= waited[m] /\ Lost(m) \in Nat /\ Lost(m)' \in Nat
        /\ Lost(m)' >= Lost(m) /\ (Late(m) => Late(m)')
    BY <2>2, NotForgotten, NoLessLate
  <2>4. Waiting(m) \/ status[m] = "deleted"
    BY <1>0, <2>2, StillWaiting
  <2>5. CASE Late(m)
    BY <2>3, <2>5
  <2>6. CASE ~Late(m)
    <3>1. Waiting(m) /\ lstat.age <= waited[m] /\ lstat.skew <= Lost(m)
      BY <2>1, <2>4, <2>6 DEF Patient
    <3>2. lstat.age \in 0..AgeCap /\ lstat.skew \in Int
      BY <2>1 DEF Shifts
    <3>3. CASE Tick
      <4>1. lstat'.age = OneMore(lstat.age) /\ lstat'.skew = lstat.skew
        BY <2>1, <3>2, <3>3 DEF Tick
      <4>2. waited'[m] = OneMore(waited[m])
        BY <1>0, <3>1, <3>3 DEF Tick, OneOlder
      <4>3. OneMore(lstat.age) <= OneMore(waited[m])
        BY <1>0, <3>1, <3>2, OneMoreType
      <4> QED
        BY <1>0, <2>3, <3>1, <3>2, <4>1, <4>2, <4>3
    <3>4. CASE ClocksChange
      <4>1. /\ lstat'.age = lstat.age /\ lstat'.skew = shift' /\ shift' \in Shifts
            /\ moved' = [n \in Machines |-> Waiting(n)]
        BY <2>1, <3>4 DEF ClocksChange
      <4>2. moved'[m] = TRUE
        BY <3>1, <4>1
      <4>3. shift' <= Lost(m)'
        BY <4>1, <4>2 DEF Lost, Shifts
      <4> QED
        BY <1>0, <2>3, <3>1, <3>2, <4>1, <4>3
    <3>5. CASE ~Tick /\ ~ClocksChange
      <4>1. lstat' = lstat
        BY <1>2, <3>5, AsideSteps DEF Next, Cleanup, Choose, Wake, Finish, Die,
           Started, ReadStatus, GiveUp, RequestMachine, ReplaceLink, Forget, Aside, cronVars
      <4> QED
        BY <1>0, <2>3, <3>1, <3>2, <4>1
    <3> QED
      BY <3>3, <3>4, <3>5
  <2> QED
    BY <2>5, <2>6
<1> QED
  BY <1>1, <1>2

\* Whom the clean-up is about to give up is late.
LEMMA GiveUpHolds ==
    ASSUME TypeOK, TypeOK', Known, Patient, [Next]_vars,
           NEW m \in Machines, giveUp' = m
    PROVE  Late(m)'
<1> USE Numbers DEF TypeOK
<1>1. CASE ReadStatus
  <2>1. /\ lstat # NoLink /\ lstat.machine = m /\ Waiting(m)
        /\ LocalAge(lstat) > PodTimeout
    BY <1>1 DEF ReadStatus
  <2>2. Listed(m)
    BY <2>1 DEF Listed
  <2>3. /\ waited[m] \in 0..AgeCap /\ Lost(m) \in Nat /\ (Late(m) => Late(m)')
    BY <2>2, NotForgotten, NoLessLate
  <2>4. lstat.age \in 0..AgeCap /\ lstat.skew \in Int /\ AgeCap \in Nat
    BY <2>1, CapIsNat DEF Shifts
  <2>5. (lstat.age <= waited[m] /\ lstat.skew <= Lost(m)) \/ Late(m)
    BY <2>1 DEF Patient
  <2> QED
    BY <2>1, <2>3, <2>4, <2>5 DEF LocalAge, Late
<1>2. CASE ~ReadStatus
  <2>1. giveUp = m
    BY <1>2, AsideSteps DEF Next, Cleanup, Tick, ClocksChange, Choose, Wake, Finish, Die,
       Started, ReadAge, GiveUp, RequestMachine, ReplaceLink, Forget, Aside, cronVars
  <2>2. Listed(m) /\ giveUp # NoLink
    BY <2>1 DEF Listed
  <2>3. Late(m)
    BY <2>1, <2>2 DEF Patient
  <2> QED
    BY <2>2, <2>3, NotForgotten, NoLessLate
<1> QED
  BY <1>1, <1>2

\* Whatever is "deleted" was late when it became so.
LEMMA DeletedHolds ==
    ASSUME TypeOK, TypeOK', Patient, [Next]_vars,
           NEW m \in Machines, status'[m] = "deleted"
    PROVE  Late(m)'
<1> USE Numbers DEF TypeOK
<1>1. ~Forget(m)
  BY DEF Forget
<1>2. Late(m) => Late(m)'
  BY <1>1, NoLessLate
<1>3. CASE status[m] = "deleted"
  BY <1>2, <1>3 DEF Patient
<1>4. CASE status[m] # "deleted"
  <2>1. GiveUp
    <3>1. CASE ReplaceLink
      <4>1. PICK n \in Machines :
               /\ hand.phase \in {"pending", "running"}
               /\ status' = [status EXCEPT ![n] = hand.phase]
        BY <3>1, LinkIsReplaced
      <4> QED
        BY <1>4, <4>1
    <3>2. CASE ~ReplaceLink
      BY <1>4, <3>2, AsideSteps DEF Next, Cleanup, Tick, ClocksChange, Choose, Wake, Finish,
         Die, ReadAge, ReadStatus, RequestMachine, Forget, Aside, linkVars
    <3> QED
      BY <3>1, <3>2
  <2>2. giveUp = m /\ giveUp # NoLink
    BY <1>4, <2>1 DEF GiveUp
  <2> QED
    BY <1>2, <2>2 DEF Patient
<1> QED
  BY <1>3, <1>4

LEMMA PatientHolds ==
    ASSUME TypeOK, TypeOK', Known, Handed, Patient, [Next]_vars
    PROVE  Patient'
<1>1. ASSUME lstat' # NoLink, Waiting(lstat.machine)'
      PROVE  \/ /\ lstat'.age <= waited'[lstat'.machine]
                /\ lstat'.skew <= Lost(lstat.machine)'
             \/ Late(lstat.machine)'
  <2>1. PICK m \in Machines : m = lstat'.machine
    BY <1>1 DEF TypeOK
  <2>2. (lstat'.age <= waited'[m] /\ lstat'.skew <= Lost(m)') \/ Late(m)'
    BY <1>1, <2>1, ReadHolds
  <2> QED
    BY <2>1, <2>2 DEF Lost, Late
<1>2. ASSUME giveUp' # NoLink
      PROVE  Late(giveUp)'
  <2>1. PICK m \in Machines : m = giveUp'
    BY <1>2 DEF TypeOK
  <2>2. Late(m)'
    BY <2>1, GiveUpHolds
  <2> QED
    BY <2>1, <2>2 DEF Late, Lost
<1>3. ASSUME NEW m \in Machines, status'[m] = "deleted"
      PROVE  Late(m)'
  BY <1>3, DeletedHolds
<1> QED
  BY <1>1, <1>2, <1>3 DEF Patient

\* Whom a step gives up was late.
LEMMA GivesUpTimedOut ==
    ASSUME TypeOK, Patient, [Next]_vars,
           NEW m \in Machines, Waiting(m), status'[m] = "deleted"
    PROVE  Late(m)
<1> USE Numbers DEF TypeOK
<1>1. status[m] # "deleted"
  BY DEF Waiting
<1>2. CASE GiveUp
  <2>1. giveUp = m
    BY <1>1, <1>2 DEF GiveUp
  <2> QED
    BY <1>2, <2>1 DEF GiveUp, Patient
<1>3. CASE ReplaceLink
  <2>1. PICK n \in Machines :
           /\ hand.phase \in {"pending", "running"}
           /\ status' = [status EXCEPT ![n] = hand.phase]
    BY <1>3, LinkIsReplaced
  <2> QED
    BY <1>1, <2>1
<1>4. CASE ~GiveUp /\ ~ReplaceLink
  BY <1>1, <1>4, AsideSteps DEF Next, Cleanup, Tick, ClocksChange, Choose, Wake, Finish, Die,
     ReadAge, ReadStatus, RequestMachine, Forget, Aside, linkVars
<1> QED
  BY <1>2, <1>3, <1>4

-----------------------------------------------------------------------------
(* The age of a link.                                                      *)

\* Who is punctual is not late: what runs has not overtaken anyone yet.
LEMMA NotLate ==
    ASSUME TypeOK, Punctual
    PROVE  NoTaskIsLate
<1> USE Numbers DEF TypeOK
<1> SUFFICES ASSUME NEW t \in Tasks, ~Running(t)
             PROVE  remaining[t] >= 0 - Others(t)
  BY DEF NoTaskIsLate, Running
<1>1. remaining[t] >= 0 - Cost(Overtook(t)) - Ticks
  BY DEF Punctual
<1>2. Cost(Overtook(t)) \in Nat /\ Others(t) \in Nat
  BY CostType DEF Others
<1>3. CASE mode = "run"
  <2>1. task \in Tasks \ {t} /\ task \notin Overtook(t)
    BY <1>3 DEF Running, Overtook
  <2>2. \A u \in Tasks : u \in Overtook(t) => u \in Tasks \ {t}
    BY DEF Overtook
  <2>3. Cost(Overtook(t)) + Duration[task] <= Others(t)
    BY <2>1, <2>2, CostAdd DEF Others
  <2> QED
    BY <1>1, <1>2, <1>3, <2>3 DEF Ticks
<1>4. CASE mode # "run"
  <2>1. \A u \in Tasks : u \in Overtook(t) => u \in Tasks \ {t}
    BY DEF Overtook
  <2>2. Cost(Overtook(t)) <= Others(t)
    BY <2>1, CostMonotone DEF Others
  <2> QED
    BY <1>1, <1>2, <1>4, <2>2 DEF Ticks
<1> QED
  BY <1>3, <1>4

LEMMA BeganInTimeHolds ==
    ASSUME TypeOK, TypeOK', Punctual, BeganInTime, [Next]_vars
    PROVE  BeganInTime'
<1> USE Numbers DEF TypeOK, BeganInTime
<1>0. \A t \in Tasks : Others(t) \in Nat
  BY RoundSplit
<1>1. CASE Tick
  BY <1>0, <1>1 DEF Tick
<1>2. CASE Choose
  <2>1. PICK t \in Tasks : IF remaining[t] < Early THEN Runs(t) ELSE Sleeps(t)
    BY <1>2 DEF Choose
  <2>2. remaining[t] >= 0 - Others(t)
    BY <1>2, NotLate DEF Choose, NoTaskIsLate
  <2> QED
    BY <1>0, <1>2, <2>1, <2>2 DEF Choose, Runs, Sleeps
<1>3. CASE UNCHANGED <<remaining, mode, task, elapsed>>
  BY <1>3
<1> QED
  BY <1>1, <1>2, <1>3
  DEF Next, Cleanup, ClocksChange, Wake, Finish, Die, Started, ReadAge, ReadStatus, GiveUp,
      RequestMachine, CheckStatus,
      ReplaceLink, WatcherDies, Forget, vars, cronVars

\* A clean-up that runs or that is awaited is late by a round at the most, and so
\* no link is older than it may be.
LEMMA InTime ==
    ASSUME TypeOK, Punctual, BeganInTime, Due, Seen
    PROVE  GivenUpInTime
<1> USE Numbers DEF TypeOK
<1> SUFFICES ASSUME NEW m \in Machines, Waiting(m)
             PROVE  age[m] <= Latest(deaths) + Gained(m)
  BY DEF GivenUpInTime, Gained
<1>0. "cleanup" \in Tasks
  BY DEF Tasks
<1>1. /\ Restarts(deaths) \in Nat /\ Round \in Nat
      /\ Latest(deaths) = PodTimeout + Duration["cleanup"] + Ahead + Round + Restarts(deaths)
      /\ AtDeadline(deaths) = PodTimeout + Duration["cleanup"] + Ahead + Restarts(deaths)
  BY RestartsAdd
<1>2. Others("cleanup") \in Nat /\ Round = Others("cleanup") + Duration["cleanup"]
  BY <1>0, RoundSplit
<1>3. /\ remaining["cleanup"] \in Int /\ Duration["cleanup"] \in Nat /\ age[m] \in Int
      /\ Gained(m) \in Nat
  BY <1>0, CapIsNat DEF Gained
<1>4. remaining["cleanup"] >= 0 - Round
  <2>1. CASE Running("cleanup")
    BY <1>1, <1>2, <1>3, <2>1 DEF Running, BeganInTime
  <2>2. CASE ~Running("cleanup")
    BY <1>0, <1>1, <1>2, <1>3, <2>2, NotLate DEF Running, NoTaskIsLate
  <2> QED
    BY <2>1, <2>2
<1>5. CASE ~Running("cleanup") \/ Listed(m)
  <2>1. age[m] + remaining["cleanup"] <= AtDeadline(deaths) + Gained(m)
    BY <1>5 DEF Due
  <2> QED
    BY <1>1, <1>3, <1>4, <2>1
<1>6. CASE Running("cleanup") /\ ~Listed(m)
  <2>1. age[m] <= PodTimeout + Gained(m) + elapsed
    BY <1>6 DEF Seen
  <2>2. elapsed \in 0..Duration["cleanup"]
    BY <1>6 DEF Running
  <2> QED
    BY <1>1, <1>3, <2>1, <2>2
<1> QED
  BY <1>5, <1>6

LEMMA ReadIsOldHolds ==
    ASSUME TypeOK, TypeOK', Known, Handed, ReadIsOld, [Next]_vars
    PROVE  ReadIsOld'
<1> USE Numbers DEF TypeOK
<1> SUFFICES ASSUME lstat' # NoLink, Waiting(lstat.machine)'
             PROVE  \/ age'[lstat'.machine] <= lstat'.age /\ skew'[lstat'.machine] = lstat'.skew
                    \/ age'[lstat'.machine] <= elapsed'
  BY DEF ReadIsOld
<1>0. PICK m \in Machines : m = lstat'.machine
  OBVIOUS
<1>1. Waiting(m)' /\ age[m] \in 0..AgeCap /\ age'[m] \in 0..AgeCap /\ AgeCap \in Nat
  BY <1>0, CapIsNat DEF Waiting
<1>2. CASE ReadAge
  BY <1>0, <1>1, <1>2 DEF ReadAge, linkVars
<1>3. CASE ReplaceLink /\ hand.machine = m
  <2>1. age'[m] = 0 /\ elapsed' \in Nat
    BY <1>3, LinkIsReplaced
  <2> QED
    BY <1>0, <2>1
<1>4. CASE ~ReadAge /\ ~(ReplaceLink /\ hand.machine = m)
  <2>1. lstat # NoLink /\ lstat.machine = m
    BY <1>0, <1>4, AsideSteps DEF Next, Cleanup, Tick, ClocksChange, Choose, Wake, Finish, Die,
       Started, ReadStatus, GiveUp, RequestMachine, ReplaceLink, Forget, Aside, cronVars
  <2>2. Listed(m)
    BY <2>1 DEF Listed
  <2>3. Waiting(m) /\ mode = "run" /\ task = "cleanup" /\ giveUp = NoLink
    BY <1>1, <1>4, <2>1, <2>2, StillWaiting
  <2>4. (age[m] <= lstat.age /\ skew[m] = lstat.skew) \/ age[m] <= elapsed
    BY <2>1, <2>3 DEF ReadIsOld
  <2>5. lstat.age \in 0..AgeCap /\ elapsed \in Nat
    BY <2>1
  <2>6. CASE Tick
    <3>1. lstat'.age = OneMore(lstat.age) /\ lstat'.skew = lstat.skew /\ skew' = skew
      BY <2>1, <2>6 DEF Tick
    <3>2. age'[m] = OneMore(age[m]) /\ elapsed' = elapsed + 1
      BY <2>3, <2>6 DEF Tick, OneOlder
    <3>3. OneMore(age[m]) <= age[m] + 1
          /\ (age[m] <= lstat.age => OneMore(age[m]) <= OneMore(lstat.age))
      BY <1>1, <2>5, OneMoreType
    <3> QED
      BY <1>0, <1>1, <2>4, <2>5, <3>1, <3>2, <3>3
  <2>7. CASE ClocksChange
    <3>1. /\ lstat'.age = lstat.age /\ lstat'.skew = shift'
          /\ skew'[m] = shift' /\ age' = age /\ elapsed' = elapsed
      BY <2>1, <2>3, <2>7 DEF ClocksChange
    <3> QED
      BY <1>0, <2>4, <3>1
  <2>8. CASE ReplaceLink
    <3>1. PICK n \in Machines :
             /\ n = hand.machine
             /\ age' = [age EXCEPT ![n] = 0] /\ skew' = [skew EXCEPT ![n] = 0]
             /\ UNCHANGED cronVars
      BY <2>8, LinkIsReplaced
    <3>2. n # m /\ elapsed' = elapsed /\ lstat' = lstat
      BY <1>4, <2>8, <3>1 DEF cronVars
    <3> QED
      BY <1>0, <2>4, <3>1, <3>2
  <2>9. CASE UNCHANGED <<age, skew, elapsed, lstat>>
    BY <1>0, <2>4, <2>9
  <2> QED
    BY <1>0, <1>1, <1>4, <2>1, <2>3, <2>6, <2>7, <2>8, <2>9, AsideSteps
    DEF Next, Cleanup, Choose, Wake, Finish, Die, Started, ReadStatus, GiveUp,
        RequestMachine, Forget, Aside, cronVars, linkVars
<1> QED
  BY <1>2, <1>3, <1>4

\* A step that makes m no older, and the deadline no later, keeps m due.
LEMMA StillDue ==
    ASSUME TypeOK, TypeOK', Due, NEW m \in Machines,
           Waiting(m), ~Running("cleanup") \/ Listed(m),
           age'[m] + remaining'["cleanup"] <= age[m] + remaining["cleanup"],
           Gained(m)' >= Gained(m), deaths' = deaths
    PROVE  age'[m] + remaining'["cleanup"] <= AtDeadline(deaths') + Gained(m)'
<1>1. age[m] + remaining["cleanup"] <= AtDeadline(deaths) + Gained(m)
  BY DEF Due
<1>2. /\ age[m] \in Int /\ age'[m] \in Int /\ Gained(m) \in Nat /\ Gained(m)' \in Nat
      /\ remaining["cleanup"] \in Int /\ remaining'["cleanup"] \in Int
  BY Numbers, CapIsNat DEF TypeOK, Tasks, Gained
<1>3. AtDeadline(deaths) \in Nat
  BY Numbers, RestartsAdd DEF TypeOK, Tasks
<1> QED
  BY <1>1, <1>2, <1>3

LEMMA DueHolds ==
    ASSUME IInv, TypeOK', First', [Next]_vars
    PROVE  Due'
<1> USE Numbers DEF TypeOK
<1> SUFFICES ASSUME NEW m \in Machines, Waiting(m)', (~Running("cleanup") \/ Listed(m))'
             PROVE  age'[m] + remaining'["cleanup"] <= AtDeadline(deaths') + Gained(m)'
  BY DEF Due
<1>0. /\ TypeOK /\ Punctual /\ BeganInTime /\ First /\ Due /\ Seen
      /\ "cleanup" \in Tasks
  BY DEF IInv, Tasks
<1>1. /\ age[m] \in 0..AgeCap /\ age'[m] \in 0..AgeCap /\ AgeCap \in Nat
      /\ Gained(m) \in Nat /\ Gained(m)' \in Nat
      /\ remaining["cleanup"] \in Int /\ remaining'["cleanup"] \in Int
      /\ Duration["cleanup"] \in Nat
  BY <1>0, CapIsNat DEF Gained
<1>2. /\ Restarts(deaths) \in Nat /\ Restarts(deaths') \in Nat
      /\ AtDeadline(deaths) = PodTimeout + Duration["cleanup"] + Ahead + Restarts(deaths)
      /\ AtDeadline(deaths') = PodTimeout + Duration["cleanup"] + Ahead + Restarts(deaths')
  BY <1>0, RestartsAdd
\* A link that is new is not too old.
<1>3. CASE age'[m] = 0
  <2>1. remaining'["cleanup"] <= Ahead
    BY DEF First
  <2> QED
    BY <1>1, <1>2, <1>3, <2>1
<1>4. CASE Tick
  <2>1. Waiting(m) /\ (~Running("cleanup") \/ Listed(m)) /\ Gained(m)' = Gained(m)
    BY <1>4 DEF Tick, Waiting, Running, Listed, Gained
  <2>2. age'[m] <= age[m] + 1 /\ remaining'["cleanup"] = remaining["cleanup"] - 1
    BY <1>0, <1>1, <1>4, <2>1, OneMoreType DEF Tick, OneOlder
  <2> QED
    BY <1>0, <1>1, <1>4, <2>1, <2>2, StillDue DEF Tick
<1>5. CASE ClocksChange
  <2>1. Waiting(m) /\ (~Running("cleanup") \/ Listed(m))
    BY <1>5 DEF ClocksChange, Waiting, Running, Listed
  <2>2. Gained(m) = 0
    BY <1>0, <1>5 DEF ClocksChange, Gained
  <2> QED
    BY <1>0, <1>1, <1>5, <2>1, <2>2, StillDue DEF ClocksChange
<1>6. CASE Choose
  <2>1. Waiting(m) /\ ~Running("cleanup") /\ Gained(m)' = Gained(m)
        /\ UNCHANGED <<age, remaining, deaths>>
    BY <1>6 DEF Choose, linkVars, Waiting, Running, Gained
  <2> QED
    BY <1>0, <1>1, <2>1, StillDue
<1>7. CASE Finish
  <2>0. ~Listed(m)
    BY <1>7 DEF Finish, Listed
  <2>1. Waiting(m)
    BY <1>7 DEF Finish, linkVars, Waiting
  <2>2. Gained(m)' = Gained(m) /\ age' = age /\ deaths' = deaths
    BY <1>7 DEF Finish, linkVars, Gained
  <2>3. CASE task = "cleanup"
    <3>1. age[m] <= PodTimeout + Gained(m) + elapsed /\ elapsed \in 0..Duration["cleanup"]
      BY <1>0, <1>7, <2>0, <2>1, <2>3 DEF Finish, Seen, Running
    <3>2. remaining'["cleanup"] = Interval["cleanup"]
      BY <1>0, <1>7, <2>3 DEF Finish
    <3> QED
      BY <1>0, <1>1, <1>2, <2>2, <3>1, <3>2
  <2>4. CASE task # "cleanup"
    <3>1. remaining'["cleanup"] = remaining["cleanup"] /\ ~Running("cleanup")
      BY <1>0, <1>7, <2>4 DEF Finish, Running
    <3> QED
      BY <1>0, <1>1, <2>1, <2>2, <3>1, StillDue
  <2> QED
    BY <2>3, <2>4
<1>8. CASE Die
  <2>1. Waiting(m) /\ Gained(m)' = Gained(m) /\ age' = age /\ deaths' = deaths + 1
    BY <1>8 DEF Die, linkVars, Waiting, Gained
  <2>2. age[m] <= Latest(deaths) + Gained(m)
    BY <1>0, <2>1, InTime DEF GivenUpInTime, Gained
  <2>3. remaining'["cleanup"] <= Jitter
    BY <1>0, <1>8 DEF Die, Started
  <2>4. /\ Restarts(deaths + 1) = Restarts(deaths) + Jitter + Round /\ Round \in Nat
        /\ Latest(deaths)
             = PodTimeout + Duration["cleanup"] + Ahead + Round + Restarts(deaths)
    BY <1>0, RestartsAdd
  <2> QED
    BY <1>0, <1>1, <1>2, <2>1, <2>2, <2>3, <2>4
<1>9. CASE ReadAge \/ ReadStatus
  <2>1. Listed(m)' => Listed(m)
    BY <1>9 DEF ReadAge, ReadStatus, Listed
  <2>2. /\ Waiting(m) /\ (~Running("cleanup") \/ Listed(m)) /\ Gained(m)' = Gained(m)
        /\ UNCHANGED <<age, remaining, deaths>>
    BY <1>9, <2>1 DEF ReadAge, ReadStatus, linkVars, Waiting, Running, Gained
  <2> QED
    BY <1>0, <1>1, <2>2, StillDue
<1>10. CASE GiveUp
  <2>1. m # giveUp
    BY <1>10 DEF GiveUp, Waiting
  <2>2. age'[m] = age[m] /\ skew'[m] = skew[m] /\ status'[m] = status[m]
    BY <1>10, <2>1 DEF GiveUp
  <2>3. /\ Waiting(m) /\ (~Running("cleanup") \/ Listed(m)) /\ Gained(m)' = Gained(m)
        /\ UNCHANGED <<remaining, deaths>>
    BY <1>10, <2>2 DEF GiveUp, Waiting, Running, Listed, Gained
  <2> QED
    BY <1>0, <1>1, <2>2, <2>3, StillDue
<1>11. CASE \E n \in Machines : RequestMachine(n)
  <2>1. PICK n \in Machines : RequestMachine(n)
    BY <1>11
  <2>2. CASE n = m
    <3>1. age'[m] = 0
      BY <1>0, <2>1, <2>2 DEF RequestMachine
    <3> QED
      BY <1>3, <3>1
  <2>3. CASE n # m
    <3>1. /\ Waiting(m) /\ (~Running("cleanup") \/ Listed(m)) /\ Gained(m)' = Gained(m)
          /\ UNCHANGED <<age, remaining, deaths>>
      BY <2>1, <2>3 DEF RequestMachine, cronVars, Waiting, Running, Listed, Gained
    <3> QED
      BY <1>0, <1>1, <3>1, StillDue
  <2> QED
    BY <2>2, <2>3
<1>12. CASE ReplaceLink
  <2>1. PICK n \in Machines :
           /\ age' = [age EXCEPT ![n] = 0] /\ skew' = [skew EXCEPT ![n] = 0]
           /\ status' = [status EXCEPT ![n] = hand.phase]
           /\ UNCHANGED <<waited, moved, shift, cronVars>>
    BY <1>0, <1>12, LinkIsReplaced
  <2>2. CASE n = m
    <3>1. age'[m] = 0
      BY <1>0, <2>1, <2>2
    <3> QED
      BY <1>3, <3>1
  <2>3. CASE n # m
    <3>1. age'[m] = age[m] /\ skew'[m] = skew[m] /\ status'[m] = status[m]
      BY <1>0, <2>1, <2>3
    <3>2. /\ Waiting(m) /\ (~Running("cleanup") \/ Listed(m)) /\ Gained(m)' = Gained(m)
          /\ UNCHANGED <<remaining, deaths>>
      BY <2>1, <3>1 DEF cronVars, Waiting, Running, Listed, Gained
    <3> QED
      BY <1>0, <1>1, <3>1, <3>2, StillDue
  <2> QED
    BY <2>2, <2>3
<1>13. CASE \E n \in Machines : Forget(n)
  <2>1. PICK n \in Machines : Forget(n)
    BY <1>13
  <2>2. n # m
    BY <1>0, <2>1 DEF Forget, Waiting
  <2>3. age'[m] = age[m] /\ skew'[m] = skew[m] /\ status'[m] = status[m]
    BY <1>0, <2>1, <2>2 DEF Forget
  <2>4. /\ Waiting(m) /\ (~Running("cleanup") \/ Listed(m)) /\ Gained(m)' = Gained(m)
        /\ UNCHANGED <<remaining, deaths>>
    BY <2>1, <2>3 DEF Forget, cronVars, Waiting, Running, Listed, Gained
  <2> QED
    BY <1>0, <1>1, <2>3, <2>4, StillDue
<1>14. CASE Wake \/ Aside
  <2>1. /\ Waiting(m) /\ (~Running("cleanup") \/ Listed(m)) /\ Gained(m)' = Gained(m)
        /\ UNCHANGED <<age, remaining, deaths>>
    BY <1>14 DEF Wake, Aside, cronVars, linkVars, Waiting, Running, Listed, Gained
  <2> QED
    BY <1>0, <1>1, <2>1, StillDue
<1> QED
  BY <1>4, <1>5, <1>6, <1>7, <1>8, <1>9, <1>10, <1>11, <1>12, <1>13, <1>14,
     AsideSteps DEF Next, Cleanup

LEMMA SeenHolds ==
    ASSUME IInv, TypeOK', [Next]_vars
    PROVE  Seen'
<1> USE Numbers DEF TypeOK
<1> SUFFICES ASSUME NEW m \in Machines, Waiting(m)', Running("cleanup")', ~Listed(m)'
             PROVE  age'[m] <= PodTimeout + Gained(m)' + elapsed'
  BY DEF Seen
<1>0. TypeOK /\ ReadIsOld /\ Seen /\ "cleanup" \in Tasks
  BY DEF IInv, Tasks
<1>1. /\ age[m] \in 0..AgeCap /\ age'[m] \in 0..AgeCap /\ AgeCap \in Nat
      /\ Gained(m) \in Nat /\ Gained(m)' \in Nat
      /\ elapsed \in Nat /\ elapsed' \in Nat
  BY <1>0, CapIsNat DEF Gained
\* What was read of a link is not the absence of one, before and after.
<1>a. /\ lstat' # NoLink <=> lstat' \in [machine : Machines, age : 0..AgeCap, skew : Shifts]
      /\ lstat # NoLink <=> lstat \in [machine : Machines, age : 0..AgeCap, skew : Shifts]
  <2>1. \A x \in [machine : Machines, age : 0..AgeCap, skew : Shifts] :
           x \in [machine : Machines, age : Nat, skew : Int]
    BY <1>1 DEF Shifts
  <2> QED
    BY <1>0, <2>1
<1>2. CASE age'[m] = 0
  BY <1>1, <1>2
<1>3. CASE Tick
  <2>0. lstat # NoLink => lstat' # NoLink /\ lstat'.machine = lstat.machine
    <3>1. lstat # NoLink => lstat' = [lstat EXCEPT !.age = OneMore(@)]
      BY <1>3 DEF Tick
    <3>2. lstat # NoLink => OneMore(lstat.age) \in 0..AgeCap
      BY <1>a, OneMoreType
    <3> QED
      BY <1>a, <3>1, <3>2
  <2>1. Waiting(m) /\ Running("cleanup") /\ ~Listed(m) /\ Gained(m)' = Gained(m)
    BY <1>3, <2>0 DEF Tick, Waiting, Running, Listed, Gained
  <2>2. age'[m] <= age[m] + 1 /\ elapsed' = elapsed + 1
    BY <1>0, <1>1, <1>3, <2>1, OneMoreType DEF Tick, OneOlder, Running
  <2> QED
    BY <1>0, <1>1, <2>1, <2>2 DEF Seen
<1>4. CASE ClocksChange
  <2>0. lstat # NoLink => lstat' # NoLink /\ lstat'.machine = lstat.machine
    <3>1. lstat # NoLink => lstat' = [lstat EXCEPT !.skew = shift'] /\ shift' \in Shifts
      BY <1>4 DEF ClocksChange
    <3> QED
      BY <1>a, <3>1
  <2>1. Waiting(m) /\ Running("cleanup") /\ ~Listed(m)
    BY <1>4, <2>0 DEF ClocksChange, Waiting, Running, Listed
  <2>2. Gained(m) = 0
    BY <1>0, <1>4 DEF ClocksChange, Gained
  <2> QED
    BY <1>0, <1>1, <1>4, <2>1, <2>2 DEF ClocksChange, Seen
<1>5. CASE Choose
  <2>1. PICK t \in Tasks : IF remaining[t] < Early THEN Runs(t) ELSE Sleeps(t)
    BY <1>5 DEF Choose
  <2>2. todo' = {n \in Machines : status[n] # "none"} /\ status' = status
    BY <1>5, <2>1 DEF Choose, Runs, Sleeps, Running, linkVars
  <2> QED
    BY <2>2 DEF Listed, Waiting
<1>6. CASE ReadAge
  <2>0. PICK n \in todo : /\ lstat' = [machine |-> n, age |-> age[n], skew |-> skew[n]]
                          /\ todo' = todo \ {n}
    BY <1>6 DEF ReadAge
  <2>1. lstat' # NoLink /\ lstat'.machine = n
    <3>a. n \in Machines /\ age[n] \in 0..AgeCap
      BY <1>0
    <3>b. skew[n] \in {0, shift} /\ shift \in Shifts
      BY <1>0, <3>a
    <3>1. n \in Machines /\ age[n] \in 0..AgeCap /\ skew[n] \in Shifts
      BY <3>a, <3>b DEF Shifts
    <3>2. lstat' \in [machine : Machines, age : 0..AgeCap, skew : Shifts]
      BY <2>0, <3>1
    <3>3. lstat'.machine = n
      BY <2>0
    <3>4. lstat' # NoLink
      BY <1>a, <3>2
    <3> QED
      BY <3>3, <3>4
  <2>2. /\ Waiting(m) /\ Running("cleanup") /\ ~Listed(m) /\ Gained(m)' = Gained(m)
        /\ UNCHANGED <<age, elapsed>>
    BY <1>6, <2>0, <2>1 DEF ReadAge, linkVars, Waiting, Running, Listed, Gained
  <2> QED
    BY <1>0, <2>2 DEF Seen
<1>7. CASE ReadStatus
  <2>1. /\ Waiting(m) /\ Running("cleanup") /\ Gained(m)' = Gained(m)
        /\ UNCHANGED <<age, elapsed>>
    BY <1>7 DEF ReadStatus, linkVars, Waiting, Running, Gained
  <2>2. CASE Listed(m)
    <3>1. lstat # NoLink /\ lstat.machine = m /\ ~(LocalAge(lstat) > PodTimeout)
      BY <1>0, <1>7, <2>1, <2>2 DEF ReadStatus, Listed
    <3>2. lstat.age \in 0..AgeCap /\ lstat.skew \in Shifts /\ skew[m] \in {0, shift}
      BY <1>0, <3>1
    <3>3. \/ age[m] <= lstat.age /\ skew[m] = lstat.skew
          \/ age[m] <= elapsed
      BY <1>0, <2>1, <3>1 DEF ReadIsOld
    <3>4. 0 - lstat.skew <= (IF lstat.skew < 0 THEN Jump ELSE 0)
      BY <3>2 DEF Shifts
    <3>5. CASE age[m] <= lstat.age /\ skew[m] = lstat.skew
      <4>1. 0 - lstat.skew <= Gained(m)
        BY <3>4, <3>5 DEF Gained
      <4>2. lstat.age + lstat.skew <= PodTimeout
        BY <3>1, <3>2, <1>1 DEF LocalAge, Shifts
      <4> QED
        BY <1>1, <2>1, <3>2, <3>5, <4>1, <4>2 DEF Shifts
    <3>6. CASE age[m] <= elapsed
      BY <1>1, <2>1, <3>6
    <3> QED
      BY <3>3, <3>5, <3>6
  <2>3. CASE ~Listed(m)
    BY <1>0, <2>1, <2>3 DEF Seen
  <2> QED
    BY <2>2, <2>3
<1>8. CASE GiveUp
  <2>1. m # giveUp
    BY <1>8 DEF GiveUp, Waiting
  <2>2. age'[m] = age[m] /\ skew'[m] = skew[m] /\ status'[m] = status[m]
    BY <1>8, <2>1 DEF GiveUp
  <2>3. /\ Waiting(m) /\ Running("cleanup") /\ ~Listed(m) /\ Gained(m)' = Gained(m)
        /\ elapsed' = elapsed
    BY <1>8, <2>1, <2>2 DEF GiveUp, Waiting, Running, Listed, Gained
  <2> QED
    BY <1>0, <2>2, <2>3 DEF Seen
<1>9. CASE \E n \in Machines : RequestMachine(n)
  <2>1. PICK n \in Machines : RequestMachine(n)
    BY <1>9
  <2>2. CASE n = m
    BY <1>0, <1>2, <2>1, <2>2 DEF RequestMachine
  <2>3. CASE n # m
    <3>1. /\ Waiting(m) /\ Running("cleanup") /\ ~Listed(m) /\ Gained(m)' = Gained(m)
          /\ UNCHANGED <<age, elapsed>>
      BY <2>1, <2>3 DEF RequestMachine, cronVars, Waiting, Running, Listed, Gained
    <3> QED
      BY <1>0, <3>1 DEF Seen
  <2> QED
    BY <2>2, <2>3
<1>10. CASE ReplaceLink
  <2>1. PICK n \in Machines :
           /\ age' = [age EXCEPT ![n] = 0] /\ skew' = [skew EXCEPT ![n] = 0]
           /\ status' = [status EXCEPT ![n] = hand.phase]
           /\ UNCHANGED <<waited, moved, shift, cronVars>>
    BY <1>0, <1>10, LinkIsReplaced
  <2>2. CASE n = m
    BY <1>0, <1>2, <2>1, <2>2
  <2>3. CASE n # m
    <3>1. age'[m] = age[m] /\ skew'[m] = skew[m] /\ status'[m] = status[m]
      BY <1>0, <2>1, <2>3
    <3>2. /\ Waiting(m) /\ Running("cleanup") /\ ~Listed(m) /\ Gained(m)' = Gained(m)
          /\ elapsed' = elapsed
      BY <2>1, <3>1 DEF cronVars, Waiting, Running, Listed, Gained
    <3> QED
      BY <1>0, <3>1, <3>2 DEF Seen
  <2> QED
    BY <2>2, <2>3
<1>11. CASE \E n \in Machines : Forget(n)
  <2>1. PICK n \in Machines : Forget(n)
    BY <1>11
  <2>2. n # m
    BY <1>0, <2>1 DEF Forget, Waiting
  <2>3. age'[m] = age[m] /\ skew'[m] = skew[m] /\ status'[m] = status[m]
    BY <1>0, <2>1, <2>2 DEF Forget
  <2>4. /\ Waiting(m) /\ Running("cleanup") /\ ~Listed(m) /\ Gained(m)' = Gained(m)
        /\ elapsed' = elapsed
    BY <2>1, <2>3 DEF Forget, cronVars, Waiting, Running, Listed, Gained
  <2> QED
    BY <1>0, <2>3, <2>4 DEF Seen
<1>12. CASE Wake \/ Finish \/ Die
  BY <1>12 DEF Wake, Finish, Die, Started, Running
<1>13. CASE Aside
  <2>1. /\ Waiting(m) /\ Running("cleanup") /\ ~Listed(m) /\ Gained(m)' = Gained(m)
        /\ UNCHANGED <<age, elapsed>>
    BY <1>13 DEF Aside, cronVars, linkVars, Waiting, Running, Listed, Gained
  <2> QED
    BY <1>0, <2>1 DEF Seen
<1> QED
  BY <1>3, <1>4, <1>5, <1>6, <1>7, <1>8, <1>9, <1>10, <1>11, <1>12, <1>13,
     AsideSteps DEF Next, Cleanup

-----------------------------------------------------------------------------
(* The theorems.                                                           *)

LEMMA InitHolds == Init => IInv
<1> SUFFICES ASSUME Init PROVE IInv
  OBVIOUS
<1> USE Numbers DEF Init
<1>1. TypeOK
  BY InitTyped
<1>2. Punctual
  <2> SUFFICES ASSUME NEW t \in Tasks
               PROVE  remaining[t] >= 0 - Cost(Overtook(t)) - Ticks
    BY DEF Punctual
  <2>1. remaining[t] \in 0..Jitter /\ Cost(Overtook(t)) \in Nat /\ Ticks = 0
    BY CostType DEF Ticks
  <2> QED
    BY <2>1
<1>3. First /\ BeganInTime
  <2>1. remaining["cleanup"] \in 0..Jitter
    BY DEF Tasks
  <2> QED
    BY <2>1 DEF First, BeganInTime
<1>4. Known /\ Handed /\ Patient /\ ReadIsOld /\ Seen
  BY DEF Known, Handed, Listed, Patient, ReadIsOld, Seen, Running
<1>5. Due
  BY DEF Due, Waiting
<1> QED
  BY <1>1, <1>2, <1>3, <1>4, <1>5 DEF IInv

LEMMA StepHolds == IInv /\ [Next]_vars => IInv'
<1> SUFFICES ASSUME IInv, [Next]_vars PROVE IInv'
  OBVIOUS
<1>1. /\ TypeOK /\ Punctual /\ BeganInTime /\ First
      /\ Known /\ Handed /\ Patient /\ ReadIsOld /\ Due /\ Seen
  BY DEF IInv
<1>2. TypeOK'
  BY <1>1, Typed
<1>3. First'
  BY <1>1, <1>2, FirstHolds
<1>4. Punctual'
  BY <1>1, <1>2, PunctualHolds
<1>5. BeganInTime'
  BY <1>1, <1>2, BeganInTimeHolds
<1>6. Known'
  BY <1>1, <1>2, KnownHolds
<1>a. Handed'
  BY <1>1, <1>2, HandedHolds
<1>7. Patient'
  BY <1>1, <1>2, PatientHolds
<1>8. ReadIsOld'
  BY <1>1, <1>2, ReadIsOldHolds
<1>9. Due'
  BY <1>2, <1>3, DueHolds
<1>10. Seen'
  BY <1>2, SeenHolds
<1> QED
  BY <1>2, <1>3, <1>4, <1>5, <1>6, <1>a, <1>7, <1>8, <1>9, <1>10 DEF IInv

LEMMA Invariance == Spec => []IInv
BY InitHolds, StepHolds, PTL DEF Spec

\* The state of the loop, of the clean-up task and of the links has its type.
THEOREM TypeCorrect == Spec => []TypeOK
<1>1. IInv => TypeOK
  BY DEF IInv
<1> QED
  BY <1>1, Invariance, PTL

\* No task is late by more than one run of each of the others, whatever their
\* intervals and however long they run (hfcron.run).
THEOREM NoTaskIsLateAlways == Spec => []NoTaskIsLate
<1>1. IInv => NoTaskIsLate
  BY NotLate DEF IInv
<1> QED
  BY <1>1, Invariance, PTL

\* A link that is not renewed is given up in time, also where the process dies
\* and where the clocks change (CleanupPodsTask).
THEOREM GivenUpInTimeAlways == Spec => []GivenUpInTime
<1>1. IInv => GivenUpInTime
  BY InTime DEF IInv
<1> QED
  BY <1>1, Invariance, PTL

\* No machine is given up that has not waited for pod_timeout, or for as much
\* less as the clocks were put forward by (CleanupPodsTask).
THEOREM PatientWithMachinesAlways == Spec => PatientWithMachines
<1> DEFINE Step ==
      \A m \in Machines :
          Waiting(m) /\ status'[m] = "deleted"
              => waited[m] + (IF moved[m] /\ shift > 0 THEN Jump ELSE 0) > PodTimeout
<1>1. IInv /\ [Next]_vars => [Step]_vars
  BY GivesUpTimedOut DEF IInv, Late, Lost
<1>2. PatientWithMachines <=> [][Step]_vars
  BY DEF PatientWithMachines
<1> QED
  BY <1>1, <1>2, Invariance, PTL DEF Spec
=============================================================================
