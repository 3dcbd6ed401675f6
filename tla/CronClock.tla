------------------------------ MODULE CronClock ------------------------------
(***************************************************************************)
(* The clean-up process and its clocks: the loop of hfcron.run over three  *)
(* tasks with deadlines, and the age of the status links by which          *)
(* CleanupPodsTask gives machines up.                                      *)
(*                                                                         *)
(* Time is a tick; what the code keeps as points in time is kept here as   *)
(* the time that remains or has passed, so that the process may run for    *)
(* ever.  The age of a link is that of the symlink (st_ctime), and the pod *)
(* watcher replaces the symlink at each event of a pod: a pod that is      *)
(* pending and has an event grows young again.  The task subtracts two     *)
(* local times without a zone, so that a change of the clocks between them *)
(* makes a link seem older or younger than it is.                          *)
(*                                                                         *)
(* Provisioning has what the clean-up task and the other processes do to   *)
(* the pods, without the ages: there a link is old enough or it is not.    *)
(***************************************************************************)
EXTENDS Integers

CONSTANTS
    Interval,    \* [Tasks -> ticks from the end of a run to the next deadline]
    Duration,    \* [Tasks -> the most ticks that a run takes]
    Early,       \* a task runs when less than this remains
    Jitter,      \* bound on the first deadlines (randint)
    PodTimeout,
    Jump,        \* by how much the local time moves when the clocks change
    Machines,    \* slots for machines, used again when a machine is forgotten
    NoLink,      \* no link is being looked at
    MaxFaults    \* bound on the deaths of the process

\* CleanupPodsTask, RefreshPodsTask and RefreshNodesTask.
Tasks == {"cleanup", "pods", "nodes"}

ASSUME TimesAssumption ==
    /\ Interval \in [Tasks -> Nat \ {0}] /\ Duration \in [Tasks -> Nat]
    /\ Early \in Nat \ {0} /\ Jitter \in Nat /\ PodTimeout \in Nat
    /\ Jump \in Nat
    /\ MaxFaults \in Nat
    /\ NoLink \notin Machines
    /\ NoLink \notin [machine : Machines, age : Nat, skew : Int]
    /\ NoLink \notin [machine : Machines, phase : {"pending", "running"}]

VARIABLES
    remaining,  \* of each task: its deadline less now
    mode,       \* choose, sleep, run
    task,       \* the task that is waited for or that runs
    elapsed,    \* since the run began
    todo,       \* clean-up: the links it has listed and not looked at
    lstat,      \* clean-up: [machine, age, skew] of the link whose st_ctime it
                \* has read, or NoLink
    giveUp,     \* clean-up: the machine that it found timed out, or NoLink
    status,     \* pods-status/<m>: none, creating, pending, running, deleted
    age,        \* of the symlink
    skew,       \* by how much the local time has moved since st_ctime
    waited,     \* history: since the machine was requested
    moved,      \* history: whether the local time has moved since then
    shift,      \* by how much it has moved at all: once, forward or back
    hand,       \* pod watcher: [machine, phase] of the event whose pod's link
                \* it has read and is about to replace, or NoLink
    deaths

cronVars == <<remaining, mode, task, elapsed, todo, lstat, giveUp, deaths>>
linkVars == <<status, age, skew, waited, moved>>
vars     == <<cronVars, linkVars, shift, hand>>

\* The most ticks that one run of each of the tasks in S takes.
Cost(S) ==
    LET Of(t) == IF t \in S THEN Duration[t] ELSE 0
    IN  Of("cleanup") + Of("pods") + Of("nodes")

Others(t) == Cost(Tasks \ {t})

\* The most ticks from a deadline to the end of the run that serves it.
Round == Cost(Tasks)

\* The furthest that the deadline of the clean-up is ever set ahead.
Ahead == IF Interval["cleanup"] > Jitter THEN Interval["cleanup"] ELSE Jitter

\* The age at which a link is given up at the latest after n deaths of the
\* process: not quite timed out when a run looked at it, it waits for the rest
\* of that run and for the next one; after each death, for a first deadline and
\* the run that serves it.
Latest(n) ==
    PodTimeout + Duration["cleanup"] + Ahead + Round + n * (Jitter + Round)

\* Ages count no further than this (a link seems younger than it is after the
\* clocks went back).
AgeCap == Latest(MaxFaults) + Jump + 1

Shifts == {0 - Jump, 0, Jump}

TypeOK ==
    /\ remaining \in [Tasks -> Int]
    /\ mode \in {"choose", "sleep", "run"}
    /\ task \in Tasks
    /\ elapsed \in 0..Duration[task]
    /\ todo \subseteq Machines
    /\ lstat = NoLink \/ lstat \in [machine : Machines, age : 0..AgeCap, skew : Shifts]
    /\ giveUp \in Machines \cup {NoLink}
    /\ lstat # NoLink => giveUp = NoLink
    /\ todo # {} \/ lstat # NoLink \/ giveUp # NoLink => mode = "run" /\ task = "cleanup"
    /\ status \in [Machines -> {"none", "creating", "pending", "running", "deleted"}]
    /\ age \in [Machines -> 0..AgeCap] /\ waited \in [Machines -> 0..AgeCap]
    /\ \A m \in Machines : status[m] = "none" => age[m] = 0 /\ waited[m] = 0
    /\ \A m \in Machines : age[m] <= waited[m]
    /\ shift \in Shifts
    /\ skew \in [Machines -> {0, shift}] /\ moved \in [Machines -> BOOLEAN]
    /\ \A m \in Machines : skew[m] # 0 => moved[m]
    /\ hand = NoLink \/ hand \in [machine : Machines, phase : {"pending", "running"}]
    /\ deaths \in 0..MaxFaults

\* The tasks are made one after the other, each with a deadline of its own.
Started ==
    /\ remaining' \in [Tasks -> 0..Jitter]
    /\ mode' = "choose" /\ task' = "cleanup" /\ elapsed' = 0
    /\ todo' = {} /\ lstat' = NoLink /\ giveUp' = NoLink

Init ==
    /\ remaining \in [Tasks -> 0..Jitter]
    /\ mode = "choose" /\ task = "cleanup" /\ elapsed = 0
    /\ todo = {} /\ lstat = NoLink /\ giveUp = NoLink
    /\ status = [m \in Machines |-> "none"]
    /\ age = [m \in Machines |-> 0] /\ waited = [m \in Machines |-> 0]
    /\ skew = [m \in Machines |-> 0] /\ moved = [m \in Machines |-> FALSE]
    /\ shift = 0 /\ hand = NoLink
    /\ deaths = 0

-----------------------------------------------------------------------------
(* Time.  The loop itself takes none; a sleep lasts until the deadline and *)
(* a run as long as it may.                                                *)

OneMore(a) == IF a = AgeCap THEN a ELSE a + 1

\* Ages matter only while a machine can still be given up.
Waiting(m) == status[m] \in {"creating", "pending"}

OneOlder(a) == [m \in Machines |-> IF Waiting(m) THEN OneMore(a[m]) ELSE a[m]]

Tick ==
    /\ \/ mode = "sleep" /\ remaining[task] > 0 /\ elapsed' = elapsed
       \/ mode = "run" /\ elapsed < Duration[task] /\ elapsed' = elapsed + 1
    /\ remaining' = [t \in Tasks |-> remaining[t] - 1]
    /\ age' = OneOlder(age)
    /\ waited' = OneOlder(waited)
    /\ lstat' = IF lstat = NoLink THEN NoLink ELSE [lstat EXCEPT !.age = OneMore(@)]
    /\ UNCHANGED <<mode, task, todo, giveUp, status, skew, moved, shift, hand,
                   deaths>>

\* The clocks are put forward or back.
ClocksChange ==
    /\ shift = 0
    /\ shift' \in Shifts \ {0}
    /\ skew' = [m \in Machines |-> IF Waiting(m) THEN shift' ELSE 0]
    /\ moved' = [m \in Machines |-> Waiting(m)]
    /\ lstat' = IF lstat = NoLink THEN NoLink ELSE [lstat EXCEPT !.skew = shift']
    /\ UNCHANGED <<remaining, mode, task, elapsed, todo, giveUp, status, age, waited,
                   hand, deaths>>

-----------------------------------------------------------------------------
(* The loop of hfcron.run.                                                 *)

Runs(t) ==
    /\ mode' = "run" /\ task' = t /\ elapsed' = 0
    /\ todo' = IF t = "cleanup" THEN {m \in Machines : status[m] # "none"} ELSE {}

Sleeps(t) == mode' = "sleep" /\ task' = t /\ elapsed' = 0 /\ UNCHANGED todo

\* Definitions named <Definition>_<Bug> are not part of the model: each is a
\* way the code could be wrong that a property must notice.

Choose_FirstDue ==
    /\ mode = "choose"
    /\ LET due == {t \in Tasks : remaining[t] < Early}
       IN  \/ "cleanup" \in due /\ Runs("cleanup")
           \/ "cleanup" \notin due /\ \E t \in due : Runs(t)
           \/ /\ due = {}
              /\ \E t \in Tasks : /\ \A u \in Tasks : remaining[t] <= remaining[u]
                                  /\ Sleeps(t)
    /\ UNCHANGED <<remaining, lstat, giveUp, linkVars, shift, hand, deaths>>

\* The task with the earliest deadline, whichever of them where two are equal.
Choose ==
    /\ mode = "choose"
    /\ \E t \in Tasks :
         /\ \A u \in Tasks : remaining[t] <= remaining[u]
         /\ IF remaining[t] < Early THEN Runs(t) ELSE Sleeps(t)
    /\ UNCHANGED <<remaining, lstat, giveUp, linkVars, shift, hand, deaths>>

Wake ==
    /\ mode = "sleep"
    /\ remaining[task] <= 0
    /\ mode' = "choose"
    /\ UNCHANGED <<remaining, task, elapsed, todo, lstat, giveUp, linkVars, shift, hand,
                   deaths>>

Finish_LinksLeft ==
    /\ mode = "run"
    /\ lstat = NoLink /\ giveUp = NoLink
    /\ remaining' = [remaining EXCEPT ![task] = Interval[task]]
    /\ mode' = "choose" /\ elapsed' = 0
    /\ UNCHANGED <<task, todo, lstat, giveUp, linkVars, shift, hand, deaths>>

\* A task that has run sets its next deadline from the end of the run.
Finish ==
    /\ mode = "run"
    /\ todo = {} /\ lstat = NoLink /\ giveUp = NoLink
    /\ remaining' = [remaining EXCEPT ![task] = Interval[task]]
    /\ mode' = "choose" /\ elapsed' = 0
    /\ UNCHANGED <<task, todo, lstat, giveUp, linkVars, shift, hand, deaths>>

\* An error that the task does not catch, or the death of the process, which
\* is started again.
Die ==
    /\ deaths < MaxFaults
    /\ deaths' = deaths + 1
    /\ Started
    /\ UNCHANGED <<linkVars, shift, hand>>

-----------------------------------------------------------------------------
(* CleanupPodsTask: for each link that was listed, its age and then its    *)
(* target, which are two calls.                                            *)

ReadAge ==
    /\ lstat = NoLink /\ giveUp = NoLink
    /\ \E m \in todo :
         /\ lstat' = [machine |-> m, age |-> age[m], skew |-> skew[m]]
         /\ todo' = todo \ {m}
    /\ UNCHANGED <<remaining, mode, task, elapsed, giveUp, linkVars, shift, hand, deaths>>

\* _is_timeout_reached: the difference of two local times.
LocalAge(link) == link.age + link.skew

ReadStatus_OffByOne ==
    /\ lstat # NoLink
    /\ giveUp' = IF Waiting(lstat.machine)
                        /\ LocalAge(lstat) >= PodTimeout
                 THEN lstat.machine ELSE NoLink
    /\ lstat' = NoLink
    /\ UNCHANGED <<remaining, mode, task, elapsed, todo, linkVars, shift, hand, deaths>>

ReadStatus_PendingOnly ==
    /\ lstat # NoLink
    /\ giveUp' = IF status[lstat.machine] = "pending" /\ LocalAge(lstat) > PodTimeout
                 THEN lstat.machine ELSE NoLink
    /\ lstat' = NoLink
    /\ UNCHANGED <<remaining, mode, task, elapsed, todo, linkVars, shift, hand, deaths>>

ReadStatus ==
    /\ lstat # NoLink
    /\ giveUp' = IF Waiting(lstat.machine)
                        /\ LocalAge(lstat) > PodTimeout
                 THEN lstat.machine ELSE NoLink
    /\ lstat' = NoLink
    /\ UNCHANGED <<remaining, mode, task, elapsed, todo, linkVars, shift, hand, deaths>>

\* The pod is deleted, and the link replaced whatever it says by now.
GiveUp ==
    /\ giveUp # NoLink
    /\ status' = [status EXCEPT ![giveUp] = "deleted"]
    /\ age' = [age EXCEPT ![giveUp] = 0]
    /\ skew' = [skew EXCEPT ![giveUp] = 0]
    /\ giveUp' = NoLink
    /\ UNCHANGED <<remaining, mode, task, elapsed, todo, lstat, waited, moved, shift,
                   hand, deaths>>

Cleanup == ReadAge \/ ReadStatus \/ GiveUp

-----------------------------------------------------------------------------
(* The other processes, as far as they write status links.                 *)

\* api.request_machines.
RequestMachine(m) ==
    /\ status[m] = "none"
    /\ status' = [status EXCEPT ![m] = "creating"]
    /\ UNCHANGED <<age, skew, waited, moved, shift, hand, cronVars>>

\* pod_watcher: an event of a pod whose link is not "deleted" ...
CheckStatus(m, phase) ==
    /\ hand = NoLink
    /\ \/ Waiting(m)
       \/ status[m] = "running" /\ phase = "running"
    /\ hand' = [machine |-> m, phase |-> phase]
    /\ UNCHANGED <<linkVars, shift, cronVars>>

\* ... replaces that link, also one that is equal and one that the clean-up has
\* made "deleted" since.
ReplaceLink ==
    /\ hand # NoLink
    /\ status' = [status EXCEPT ![hand.machine] = hand.phase]
    /\ age' = [age EXCEPT ![hand.machine] = 0]
    /\ skew' = [skew EXCEPT ![hand.machine] = 0]
    /\ hand' = NoLink
    /\ UNCHANGED <<waited, moved, shift, cronVars>>

\* The watcher dies with the event.
WatcherDies ==
    /\ hand # NoLink
    /\ hand' = NoLink
    /\ UNCHANGED <<linkVars, shift, cronVars>>

\* Nobody looks at the machine any more; its slot stands for another one.
Forget(m) ==
    /\ status[m] \in {"running", "deleted"}
    /\ todo = {} /\ lstat = NoLink /\ giveUp = NoLink /\ hand = NoLink
    /\ status' = [status EXCEPT ![m] = "none"]
    /\ age' = [age EXCEPT ![m] = 0] /\ waited' = [waited EXCEPT ![m] = 0]
    /\ skew' = [skew EXCEPT ![m] = 0] /\ moved' = [moved EXCEPT ![m] = FALSE]
    /\ UNCHANGED <<shift, hand, cronVars>>

Next ==
    \/ Tick \/ ClocksChange
    \/ Choose \/ Wake \/ Finish \/ Die
    \/ Cleanup
    \/ \E m \in Machines :
         \/ RequestMachine(m)
         \/ \E phase \in {"pending", "running"} : CheckStatus(m, phase)
         \/ Forget(m)
    \/ ReplaceLink \/ WatcherDies

Spec == Init /\ [][Next]_vars

-----------------------------------------------------------------------------
(***************************************************************************)
(* No task waits longer after its deadline than the others take to run     *)
(* once each, however long they take and however short their intervals     *)
(* are (hfcron.run: the queue is sorted by deadline, and a run sets the    *)
(* next deadline from its end).                                            *)
(***************************************************************************)
NoTaskIsLate ==
    \A t \in Tasks :
        mode # "run" \/ task # t => remaining[t] >= 0 - Others(t)

(***************************************************************************)
(* A machine is given up only when it has been waiting for longer than     *)
(* pod_timeout, also where its link was replaced between the reading of    *)
(* the age and the reading of the target, unless the clocks were put       *)
(* forward while it waited: it then loses what they were put forward by    *)
(* (CleanupPodsTask.__call__, _is_timeout_reached).                        *)
(***************************************************************************)
PatientWithMachines ==
    [][\A m \in Machines :
          Waiting(m) /\ status'[m] = "deleted"
              => waited[m] + (IF moved[m] /\ shift > 0 THEN Jump ELSE 0) > PodTimeout]_vars

(***************************************************************************)
(* A machine whose link is not renewed is given up within pod_timeout, an  *)
(* interval (or the wait for a first deadline) and one run of each task,   *)
(* and not much later where the process died meanwhile; where the clocks   *)
(* went back, later by that.  (Nothing of the kind holds of the time since *)
(* its request: events of a pending pod renew the link for ever.)          *)
(***************************************************************************)
GivenUpInTime ==
    \A m \in Machines :
        Waiting(m) =>
            age[m] <= Latest(deaths) + (IF skew[m] < 0 THEN Jump ELSE 0)
=============================================================================
