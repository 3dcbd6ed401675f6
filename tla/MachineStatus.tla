--------------------------- MODULE MachineStatus ---------------------------
(***************************************************************************)
(* What a pod's status link can say and what the provider API makes of it. *)
(*                                                                         *)
(* pods-status/<machine> is a symbolic link whose target is the status:    *)
(* "creating" when request_machines reserves the machine, the lower-cased  *)
(* Kubernetes phase when the pod watcher has seen the pod, "deleted" when  *)
(* the pod watcher saw it go or the clean-up task gave up on it.  A        *)
(* machine that was never requested has no link: fetch_pod_status answers  *)
(* None, here NoStatus.                                                    *)
(***************************************************************************)

NoStatus == "none"

Phase == {"pending", "running", "succeeded", "failed", "unknown"}

PodStatus == Phase \cup {"creating", "deleted"}

StatusLink == PodStatus \cup {NoStatus}

(***************************************************************************)
(* _resolve_machine_status: the machine status and the result of the       *)
(* machine in an allocation request or in a return request.                *)
(***************************************************************************)
(* Definitions named <Definition>_<Bug> are not part of the model: each is a
   way the code could be wrong that a property must notice. *)

MachineStatusOf_PendingIsGone(s) ==
    IF s \in {"creating", "running"} THEN "running" ELSE "terminated"

MachineStatusOf(s) ==
    IF s \in {"creating", "pending", "running"} THEN "running" ELSE "terminated"

RequestResult_PendingIsReady(s) ==
    CASE s = "creating"                           -> "executing"
      [] s \in {"pending", "running", "succeeded"} -> "succeed"
      [] OTHER                                    -> "fail"

RequestResult(s) ==
    CASE s \in {"creating", "pending"}  -> "executing"
      [] s \in {"running", "succeeded"} -> "succeed"
      [] OTHER                          -> "fail"

ReturnResult(s) ==
    IF MachineStatusOf(s) = "terminated" THEN "succeed" ELSE "executing"

ResolveResult(s, isReturn) ==
    CASE s = NoStatus -> "fail"
      [] s # NoStatus /\ isReturn -> ReturnResult(s)
      [] OTHER -> RequestResult(s)

(***************************************************************************)
(* The moves a Kubernetes pod makes between phases (Kubernetes' pod        *)
(* lifecycle; "unknown" is a node that stopped reporting and may come      *)
(* back).                                                                  *)
(***************************************************************************)
PhaseStep ==
    ({"pending"} \X {"running", "succeeded", "failed", "unknown"})
        \cup ({"running"} \X {"succeeded", "failed", "unknown"})
        \cup ({"unknown"} \X {"running", "succeeded", "failed"})

(***************************************************************************)
(* The moves of a status link.  The watcher may miss phases while it is    *)
(* not connected, so one write can stand for several moves of the pod.     *)
(* The clean-up task gives up on "creating" and "pending"; a phase over    *)
(* "deleted" is the watcher overwriting its verdict (pod_watcher.py reads  *)
(* the link, then writes it) and can only happen where the task runs.      *)
(***************************************************************************)
StatusStep(cron) ==
    ({NoStatus} \X {"creating"})
        \cup ({"creating"} \X Phase)
        \cup PhaseStep
        \cup (Phase \X {"deleted"})
        \cup ({"creating"} \X {"deleted"})
        \cup (IF cron THEN {"deleted"} \X Phase ELSE {})
=============================================================================
