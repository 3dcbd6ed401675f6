------------------------ MODULE RequestStatusProofs ------------------------
(***************************************************************************)
(* Proofs about the poll of a request: its types, and that what it answers *)
(* is independent of the order in which the machines are read and is not   *)
(* overtaken by what the watcher and the clean-up task write meanwhile;    *)
(* for any number of machines and any phases.                              *)
(***************************************************************************)
EXTENDS RequestStatus, TLAPS

\* The statuses that nothing but the clean-up task takes back.
Final == {"succeeded", "failed", "deleted", NoStatus}

Read(m) == obs[m] # Unread

\* The flags of the loop say of the machines read so far what the verdict says
\* of all of them.
Flags ==
    /\ pc # "idle" => \A m \in Machines : Read(m) <=> m \notin todo
    /\ running <=> \E m \in Machines : Read(m) /\ ObservedResult(m) = "executing"
    /\ running => ~failed
    /\ ~running => (failed <=> \E m \in Machines : Read(m) /\ ObservedResult(m) = "fail")
    /\ pc = "file" => machine \notin todo
    /\ Answered => /\ pc = "idle"
                   /\ verdict = Verdict(running, failed)
                   /\ \A m \in Machines : Read(m)

\* A machine that is not waiting any more does not come to wait, and one that
\* has ended does not come to run, but for the clean-up task.
Settled ==
    ~cronOn =>
        \A m \in Machines :
            /\ Read(m) /\ obs[m] \notin {"creating", "pending"} =>
                  status[m] \notin {"creating", "pending"}
            /\ obs[m] \in Final => status[m] \in Final

\* A pod that has a phase has, or had, a file.
Filed ==
    /\ \A m \in Machines : status[m] \in Phase \/ obs[m] \in Phase => podFile[m] # "never"
    /\ IdLostOnlyToDeletion

IInv == TypeOK /\ Flags /\ Settled /\ Filed

-----------------------------------------------------------------------------
(* What _resolve_machine_status makes of a status.                         *)
LEMMA Resolved ==
    ASSUME NEW s, NEW return \in BOOLEAN
    PROVE  /\ ResolveResult(s, return) \in {"executing", "succeed", "fail"}
           /\ MachineStatusOf(s) \in {"running", "terminated"}
BY DEF ResolveResult, RequestResult, ReturnResult, MachineStatusOf

LEMMA Initially == Init => IInv
<1>. SUFFICES ASSUME Init PROVE IInv
  OBVIOUS
<1>1. TypeOK
  BY DEF Init, TypeOK, StatusLink, PodStatus, NoStatus, NoMachine, Unread
<1>2. Flags
  BY DEF Init, Flags, Read, Answered
<1>3. Settled /\ Filed
  BY DEF Init, Settled, Filed, IdLostOnlyToDeletion, Read, Final, Unread, NoStatus, Phase
<1>. QED  BY <1>1, <1>2, <1>3 DEF IInv

-----------------------------------------------------------------------------
(* The environment.                                                        *)
LEMMA EnvironmentKeeps ==
    ASSUME IInv, NEW m \in Machines,
           \/ WritePodFile(m) \/ WritePhase(m) \/ OverwriteDeleted(m)
           \/ UnlinkPodFile(m) \/ WriteDeleted(m) \/ CronMarksDeleted(m)
    PROVE  IInv'
<1>. USE DEF IInv, pollVars
<1>0. UNCHANGED <<cronOn, isReturn, pollVars>>
  BY DEF WritePodFile, WritePhase, OverwriteDeleted, UnlinkPodFile, WriteDeleted,
         CronMarksDeleted
<1>1. TypeOK'
  BY <1>0, PhasesAssumption
     DEF TypeOK, WritePodFile, WritePhase, OverwriteDeleted, UnlinkPodFile, WriteDeleted,
         CronMarksDeleted, StatusLink, PodStatus
<1>2. Flags'
  BY <1>0 DEF Flags, Read, Answered, ObservedResult
<1>3. Settled'
  <2>1. CASE WritePhase(m) /\ ~cronOn
    <3>1. PICK p \in Phases : /\ <<status[m], p>> \in StatusStep(FALSE)
                              /\ status' = [status EXCEPT ![m] = p]
      BY <2>1 DEF WritePhase, TypeOK
    <3>2. p \in Phase
      BY PhasesAssumption
    <3>3. /\ status[m] \notin {"creating", "pending"} => p \notin {"creating", "pending"}
          /\ status[m] \notin Final
      BY <3>1, <3>2 DEF StatusStep, PhaseStep, Phase, PodStatus, Final, NoStatus
    <3>. QED  BY <1>0, <3>1, <3>3 DEF Settled, Read, TypeOK
  <2>2. CASE UNCHANGED status \/ cronOn
    BY <1>0, <2>2 DEF Settled, Read
  <2>3. CASE status' = [status EXCEPT ![m] = "deleted"]
    BY <1>0, <2>3 DEF Settled, Read, Final, TypeOK
  <2>. QED
    BY <2>1, <2>2, <2>3
       DEF WritePodFile, OverwriteDeleted, UnlinkPodFile, WriteDeleted, CronMarksDeleted
<1>4. Filed'
  <2>1. \A n \in Machines : /\ podFile[n] # "never" => podFile'[n] # "never"
                            /\ podFile[n] = "gone" => podFile'[n] = "gone"
    BY DEF TypeOK, WritePodFile, WritePhase, OverwriteDeleted, UnlinkPodFile, WriteDeleted,
           CronMarksDeleted
  <2>2. \A n \in Machines :
           status'[n] \in Phase => status[n] \in Phase \/ podFile[n] = "present"
    BY DEF TypeOK, WritePodFile, WritePhase, OverwriteDeleted, UnlinkPodFile, WriteDeleted,
           CronMarksDeleted, Phase
  <2>3. \A a \in listed : a.name \in Machines
    BY DEF TypeOK, Answer
  <2>. QED  BY <1>0, <2>1, <2>2, <2>3 DEF Filed, IdLostOnlyToDeletion
<1>. QED  BY <1>1, <1>2, <1>3, <1>4

-----------------------------------------------------------------------------
(* The poll.                                                               *)
LEMMA BeginKeeps ==
    ASSUME IInv, BeginPoll
    PROVE  IInv'
<1>. USE DEF IInv, BeginPoll, envVars
<1>1. TypeOK'
  BY DEF TypeOK
<1>2. Flags'
  BY DEF Flags, Read, Answered
<1>3. Settled' /\ Filed'
  BY DEF Settled, Filed, IdLostOnlyToDeletion, Read, Final, NoStatus, Unread, Phase
<1>. QED  BY <1>1, <1>2, <1>3

LEMMA ReadStatusKeeps ==
    ASSUME IInv, NEW m \in Machines, ReadStatus(m)
    PROVE  IInv'
<1>. USE DEF IInv, envVars
<1>. DEFINE result == ResolveResult(status[m], isReturn)
<1>0. /\ UNCHANGED <<envVars, listed, verdict>> /\ pc = "loop" /\ pc' \in {"loop", "file"}
      /\ m \in todo /\ todo' = todo \ {m}
      /\ obs' = [obs EXCEPT ![m] = status[m]]
      /\ running' = (running \/ result = "executing")
      /\ failed' = IF result = "executing" THEN FALSE
                   ELSE failed \/ (result = "fail" /\ ~running)
      /\ machine' = IF pc' = "loop" THEN NoMachine ELSE m
  BY DEF ReadStatus
<1>1. status[m] \in StatusLink /\ status[m] # Unread /\ obs[m] = Unread
  BY <1>0 DEF TypeOK, Flags, Read, StatusLink, PodStatus, Phase, NoStatus, Unread
<1>2. TypeOK'
  BY <1>0, <1>1, NoMachineAssumption DEF TypeOK
<1>3. /\ obs'[m] = status[m] /\ \A n \in Machines \ {m} : obs'[n] = obs[n]
      /\ ObservedResult(m)' = result
      /\ \A n \in Machines \ {m} : ObservedResult(n)' = ObservedResult(n)
  BY <1>0 DEF TypeOK, ObservedResult
<1>4. Flags'
  BY <1>0, <1>1, <1>3 DEF Flags, Read, Answered, TypeOK
<1>5. Settled' /\ Filed'
  BY <1>0, <1>1, <1>3 DEF Settled, Filed, IdLostOnlyToDeletion, Read
<1>. QED  BY <1>2, <1>4, <1>5

LEMMA ReadPodFileKeeps ==
    ASSUME IInv, ReadPodFile
    PROVE  IInv'
<1>. USE DEF IInv, ReadPodFile, envVars
<1>. DEFINE answer == [name   |-> machine,
                       result |-> ResolveResult(obs[machine], isReturn),
                       status |-> MachineStatusOf(obs[machine]),
                       hasId  |-> podFile[machine] = "present"]
<1>1. machine \in Machines /\ Read(machine) /\ obs[machine] \in StatusLink
  BY DEF TypeOK, Flags, Read
<1>2. answer \in Answer
  BY <1>1, Resolved DEF Answer, TypeOK
<1>3. TypeOK'
  BY <1>2, NoMachineAssumption DEF TypeOK
<1>4. Flags' /\ Settled'
  BY DEF Flags, Settled, Read, Answered, ObservedResult
<1>5. ~isReturn /\ answer.result = "succeed" /\ ~answer.hasId => podFile[machine] = "gone"
  BY <1>1 DEF Filed, TypeOK, ResolveResult, RequestResult, Phase
<1>6. Filed'
  BY <1>5 DEF Filed, IdLostOnlyToDeletion
<1>. QED  BY <1>3, <1>4, <1>6

LEMMA RespondKeeps ==
    ASSUME IInv, Respond
    PROVE  IInv'
<1>. USE DEF IInv, Respond, envVars
<1>1. TypeOK'
  BY DEF TypeOK, Verdict
<1>2. Flags'
  BY DEF Flags, Read, Answered, ObservedResult
<1>3. Settled' /\ Filed'
  BY DEF Settled, Filed, IdLostOnlyToDeletion, Read
<1>. QED  BY <1>1, <1>2, <1>3

LEMMA Inductive == IInv /\ [Next]_vars => IInv'
<1>. SUFFICES ASSUME IInv, [Next]_vars PROVE IInv'
  OBVIOUS
<1>1. CASE Environment
  BY <1>1, EnvironmentKeeps DEF Environment
<1>2. CASE Poll
  BY <1>2, BeginKeeps, ReadStatusKeeps, ReadPodFileKeeps, RespondKeeps DEF Poll
<1>3. CASE UNCHANGED vars
  BY <1>3 DEF vars, envVars, pollVars, IInv, TypeOK, Flags, Settled, Filed, Read, Answered,
     ObservedResult, IdLostOnlyToDeletion
<1>. QED  BY <1>1, <1>2, <1>3 DEF Next

LEMMA Invariance == Spec => []IInv
<1>1. Init => IInv
  BY Initially
<1>2. IInv /\ [Next]_vars => IInv'
  BY Inductive
<1>. QED  BY <1>1, <1>2, PTL DEF Spec

(***************************************************************************)
(* The state of the poll is always well typed: a machine is in hand only   *)
(* between its status link and its pod file (api.get_request_status).      *)
(***************************************************************************)
THEOREM TypeCorrect == Spec => []TypeOK
<1>1. IInv => TypeOK
  BY DEF IInv
<1>. QED  BY <1>1, Invariance, PTL

(***************************************************************************)
(* The verdict does not depend on the order in which the directory of the  *)
(* request is listed (the flags of the loop of get_request_status).        *)
(***************************************************************************)
THEOREM VerdictIsOrderFreeAlways == Spec => []VerdictIsOrderFree
<1>1. IInv => VerdictIsOrderFree
  BY DEF IInv, Flags, VerdictIsOrderFree, Verdict
<1>. QED  BY <1>1, Invariance, PTL

(***************************************************************************)
(* Without the clean-up task no machine of a request that was answered as  *)
(* closed is waiting, nor comes to wait (get_request_status against        *)
(* pod_watcher).                                                           *)
(***************************************************************************)
THEOREM ClosedMeansSettledAlways == Spec => []ClosedMeansSettled
<1>1. IInv => ClosedMeansSettled
  <2>. SUFFICES ASSUME IInv, ~cronOn, ~isReturn, NEW m \in Machines,
                       verdict \in {"complete", "complete_with_error"}
                PROVE  status[m] \notin {"creating", "pending"}
    BY DEF ClosedMeansSettled
  <2>1. Read(m) /\ ObservedResult(m) # "executing"
    BY DEF IInv, Flags, Answered, Verdict
  <2>2. obs[m] \notin {"creating", "pending"}
    BY <2>1 DEF ObservedResult, ResolveResult, RequestResult, NoStatus
  <2>. QED  BY <2>1, <2>2 DEF IInv, Settled
<1>. QED  BY <1>1, Invariance, PTL

(***************************************************************************)
(* Without the clean-up task a return request that was answered "complete" *)
(* stays so, but for a pod that was in phase "unknown".                    *)
(***************************************************************************)
THEOREM CompletedReturnStandsAlways == Spec => []CompletedReturnStands
<1>1. IInv => CompletedReturnStands
  <2>. SUFFICES ASSUME IInv, ~cronOn, isReturn, verdict = "complete",
                       NEW m \in Machines, MachineStatusOf(status[m]) = "running"
                PROVE  obs[m] = "unknown"
    BY DEF CompletedReturnStands
  <2>1. Read(m) /\ ObservedResult(m) # "executing"
    BY DEF IInv, Flags, Answered, Verdict
  <2>2. obs[m] \in Final \cup {"unknown"}
    BY <2>1 DEF ObservedResult, ResolveResult, ReturnResult, MachineStatusOf, NoStatus,
       IInv, TypeOK, StatusLink, PodStatus, Phase, Read, Final
  <2>3. obs[m] \notin Final
    BY DEF IInv, Settled, MachineStatusOf, Final, NoStatus
  <2>. QED  BY <2>2, <2>3
<1>. QED  BY <1>1, Invariance, PTL

(***************************************************************************)
(* A machine that is answered as allocated has its id, unless its pod was  *)
(* deleted between the two reads (cluster.handle_event writes the pod file *)
(* before the first phase).                                                *)
(***************************************************************************)
THEOREM IdLostOnlyToDeletionAlways == Spec => []IdLostOnlyToDeletion
<1>1. IInv => IdLostOnlyToDeletion
  BY DEF IInv, Filed
<1>. QED  BY <1>1, Invariance, PTL

=============================================================================
