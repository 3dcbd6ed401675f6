--------------------------- MODULE RequestStatus ---------------------------
(***************************************************************************)
(* api.get_request_status, polled by Symphony for one request while the    *)
(* pod watcher and the clean-up task go on changing what it reads.         *)
(*                                                                         *)
(* The poll is not atomic: the directory of the request is listed, then    *)
(* for each machine the status link is read and, after it, the pod file.   *)
(* The environment is the pod watcher, which writes pods/<machine> before  *)
(* the first phase and unlinks it before it writes "deleted", and the      *)
(* clean-up task, which only writes the link.  A request here is either an *)
(* allocation request or a return request, whose machines may be names the *)
(* provider never saw.  Machine names are not reused in this module.       *)
(***************************************************************************)
EXTENDS MachineStatus

CONSTANTS
    Machines,       \* the machines of the request
    Phases          \* the Kubernetes phases the pods go through

ASSUME PhasesAssumption == Phases \subseteq Phase

VARIABLES
    cronOn,     \* whether the clean-up task runs (it is optional)
    isReturn,   \* whether the id is found under return-requests
    status,     \* pods-status/<machine>
    podFile,    \* pods/<machine>: not yet written, present, unlinked
    pc,         \* where the poll is
    machine,    \* the machine whose status was read and whose file is next
    todo,       \* the entries of the request's directory still to visit
    obs,        \* the status the poll read for each machine
    running,    \* the local variables of the loop ...
    failed,
    listed,     \* ... and its list of answers, as a set
    verdict     \* the status of the last answer

envVars  == <<cronOn, isReturn, status, podFile>>
pollVars == <<pc, machine, todo, obs, running, failed, listed, verdict>>
vars     == <<envVars, pollVars>>

NoMachine == "no machine"
Unread    == "unread"

ASSUME NoMachineAssumption == NoMachine \notin Machines

(***************************************************************************)
(* An answer for one machine: its result, its status, and whether the      *)
(* machineId is filled in (it is the uid of the pod file) or "".           *)
(***************************************************************************)
Answer == [name   : Machines,
           result : {"executing", "succeed", "fail"},
           status : {"running", "terminated"},
           hasId  : BOOLEAN]

TypeOK ==
    /\ cronOn \in BOOLEAN
    /\ isReturn \in BOOLEAN
    /\ status \in [Machines -> StatusLink]
    /\ podFile \in [Machines -> {"never", "present", "gone"}]
    /\ pc \in {"idle", "loop", "file"}
    /\ machine \in Machines \cup {NoMachine}
    /\ (pc = "file") = (machine # NoMachine)
    /\ todo \subseteq Machines
    /\ obs \in [Machines -> StatusLink \cup {Unread}]
    /\ running \in BOOLEAN /\ failed \in BOOLEAN
    /\ listed \subseteq Answer
    /\ verdict \in {"none", "running", "complete", "complete_with_error"}

Init ==
    /\ cronOn \in BOOLEAN
    /\ isReturn \in BOOLEAN
    /\ status \in [Machines -> IF isReturn THEN {"creating", NoStatus}
                                           ELSE {"creating"}]
    /\ podFile = [m \in Machines |-> "never"]
    /\ pc = "idle"
    /\ machine = NoMachine
    /\ todo = {}
    /\ obs = [m \in Machines |-> Unread]
    /\ running = FALSE /\ failed = FALSE
    /\ listed = {}
    /\ verdict = "none"

-----------------------------------------------------------------------------
(* The environment: cluster.handle_event, pod_watcher._postprocess_event.  *)

\* First event of a pod: pods/<machine> is written before the status link.
WritePodFile(m) ==
    /\ status[m] # NoStatus
    /\ podFile[m] = "never"
    /\ podFile' = [podFile EXCEPT ![m] = "present"]
    /\ UNCHANGED <<cronOn, isReturn, status, pollVars>>

WritePhase_BeforeFile(m) ==
    /\ podFile[m] \in {"never", "present"}
    /\ status[m] \notin {"deleted", NoStatus}
    /\ \E p \in Phases :
         /\ <<status[m], p>> \in StatusStep(cronOn)
         /\ status' = [status EXCEPT ![m] = p]
    /\ UNCHANGED <<cronOn, isReturn, podFile, pollVars>>

\* A phase is written over the status that the event found.
WritePhase(m) ==
    /\ podFile[m] = "present"
    /\ status[m] # "deleted"
    /\ \E p \in Phases :
         /\ <<status[m], p>> \in StatusStep(cronOn)
         /\ status' = [status EXCEPT ![m] = p]
    /\ UNCHANGED <<cronOn, isReturn, podFile, pollVars>>

\* The watcher read the link before the clean-up task wrote "deleted" to it,
\* and writes its phase over it.
OverwriteDeleted(m) ==
    /\ cronOn
    /\ podFile[m] = "present"
    /\ status[m] = "deleted"
    /\ \E p \in Phases : status' = [status EXCEPT ![m] = p]
    /\ UNCHANGED <<cronOn, isReturn, podFile, pollVars>>

\* DELETED: the file goes first ...
UnlinkPodFile(m) ==
    /\ podFile[m] = "present"
    /\ podFile' = [podFile EXCEPT ![m] = "gone"]
    /\ UNCHANGED <<cronOn, isReturn, status, pollVars>>

\* ... and the link is replaced after it.
WriteDeleted(m) ==
    /\ podFile[m] = "gone"
    /\ status[m] # "deleted"
    /\ status' = [status EXCEPT ![m] = "deleted"]
    /\ UNCHANGED <<cronOn, isReturn, podFile, pollVars>>

\* The clean-up task gives up on a machine that was "creating" or "pending" when
\* it looked; by the time it writes, the link may say something else.
CronMarksDeleted(m) ==
    /\ cronOn
    /\ status[m] \notin {NoStatus, "deleted"}
    /\ status' = [status EXCEPT ![m] = "deleted"]
    /\ UNCHANGED <<cronOn, isReturn, podFile, pollVars>>

-----------------------------------------------------------------------------
(* The poll.                                                               *)

BeginPoll ==
    /\ pc = "idle"
    /\ pc' = "loop"
    /\ todo' = Machines
    /\ obs' = [m \in Machines |-> Unread]
    /\ running' = FALSE /\ failed' = FALSE
    /\ listed' = {}
    /\ verdict' = "none"
    /\ UNCHANGED <<envVars, machine>>

ReadStatus_LastOneWins(m) ==
    LET result    == ResolveResult(status[m], isReturn)
        executing == result = "executing"
        omit      == executing /\ ~isReturn
    IN /\ pc = "loop" /\ m \in todo
       /\ todo' = todo \ {m}
       /\ obs' = [obs EXCEPT ![m] = status[m]]
       /\ running' = executing
       /\ failed' = IF executing THEN FALSE
                    ELSE failed \/ (result = "fail" /\ ~running)
       /\ pc' = IF omit THEN "loop" ELSE "file"
       /\ machine' = IF omit THEN NoMachine ELSE m
       /\ UNCHANGED <<envVars, listed, verdict>>

\* fetch_pod_status, _resolve_machine_status and the two flags.  A machine of
\* an allocation request that is still executing is left out of the answer.
ReadStatus(m) ==
    LET result    == ResolveResult(status[m], isReturn)
        executing == result = "executing"
        omit      == executing /\ ~isReturn
    IN /\ pc = "loop" /\ m \in todo
       /\ todo' = todo \ {m}
       /\ obs' = [obs EXCEPT ![m] = status[m]]
       /\ running' = (running \/ executing)
       /\ failed' = IF executing THEN FALSE
                    ELSE failed \/ (result = "fail" /\ ~running)
       /\ pc' = IF omit THEN "loop" ELSE "file"
       /\ machine' = IF omit THEN NoMachine ELSE m
       /\ UNCHANGED <<envVars, listed, verdict>>

ReadPodFile_KeepsMachine ==
    /\ pc = "file"
    /\ pc' = "loop"
    /\ UNCHANGED <<envVars, machine, todo, obs, running, failed, listed, verdict>>

\* _load_pod_file, and the entry appended to the answer.
ReadPodFile ==
    /\ pc = "file"
    /\ listed' = listed \cup
                   {[name   |-> machine,
                     result |-> ResolveResult(obs[machine], isReturn),
                     status |-> MachineStatusOf(obs[machine]),
                     hasId  |-> podFile[machine] = "present"]}
    /\ pc' = "loop"
    /\ machine' = NoMachine
    /\ UNCHANGED <<envVars, todo, obs, running, failed, verdict>>

Verdict(isRunning, hasFailed) ==
    IF hasFailed /\ ~isRunning THEN "complete_with_error"
    ELSE IF isRunning THEN "running" ELSE "complete"

Respond ==
    /\ pc = "loop" /\ todo = {}
    /\ verdict' = Verdict(running, failed)
    /\ pc' = "idle"
    /\ UNCHANGED <<envVars, machine, todo, obs, running, failed, listed>>

Environment ==
    \E m \in Machines :
        \/ WritePodFile(m)
        \/ WritePhase(m)
        \/ OverwriteDeleted(m)
        \/ UnlinkPodFile(m)
        \/ WriteDeleted(m)
        \/ CronMarksDeleted(m)

Poll ==
    \/ BeginPoll
    \/ \E m \in Machines : ReadStatus(m)
    \/ ReadPodFile
    \/ Respond

Next == Environment \/ Poll

Spec == Init /\ [][Next]_vars

-----------------------------------------------------------------------------
(* Properties.                                                             *)

Answered == verdict # "none"

ObservedResult(m) == ResolveResult(obs[m], isReturn)

(***************************************************************************)
(* The two flags of the loop, set and reset in the order the directory is  *)
(* listed in, amount to a verdict that does not depend on that order:      *)
(* "running" while some machine is executing, otherwise an error if some   *)
(* machine failed, otherwise "complete" (api.py, the loop and the two      *)
(* assignments of `status` after it).  Two places of get_request_status    *)
(* say otherwise, and this refutes both.  Its docstring: "If any machine   *)
(* is in failed state, the status will be set to complete_with_error",     *)
(* but beside an executing machine it is "running".  Its log, where the    *)
(* flag `failed` is set: "We have detected a failure, we are not marking   *)
(* it as complete with error to avoid Symphony deleting all the pods", but *)
(* that is where it is marked so.                                          *)
(***************************************************************************)
VerdictIsOrderFree ==
    Answered =>
        verdict =
            IF \E m \in Machines : ObservedResult(m) = "executing" THEN "running"
            ELSE IF \E m \in Machines : ObservedResult(m) = "fail"
                 THEN "complete_with_error"
                 ELSE "complete"

(***************************************************************************)
(* An answer that closes an allocation request is never overtaken: no      *)
(* machine of it is waiting to be created or scheduled when the answer is  *)
(* made, nor later, although the machines were read one at a time while    *)
(* the watcher was writing.  Needs that the clean-up task is not running:  *)
(* with it, a link can go from "deleted" back to "pending".                *)
(***************************************************************************)
ClosedMeansSettled ==
    (~cronOn /\ ~isReturn /\ verdict \in {"complete", "complete_with_error"})
        => \A m \in Machines : status[m] \notin {"creating", "pending"}

(***************************************************************************)
(* A return request answered "complete" stays complete: a machine of it    *)
(* that is running afterwards was answered as terminated because its pod   *)
(* was in phase "unknown", the one reading of _resolve_machine_status that *)
(* a later event takes back (again without the clean-up task).             *)
(***************************************************************************)
CompletedReturnStands ==
    (~cronOn /\ isReturn /\ verdict = "complete") =>
        \A m \in Machines :
            MachineStatusOf(status[m]) = "running" => obs[m] = "unknown"

(***************************************************************************)
(* With or without the clean-up task: a machine answered as allocated with *)
(* no machineId is one whose pod was deleted while the poll went from the  *)
(* status link to the pod file.                                            *)
(***************************************************************************)
IdLostOnlyToDeletion ==
    \A a \in listed :
        ~isReturn /\ a.result = "succeed" /\ ~a.hasId
            => podFile[a.name] = "gone"
=============================================================================
