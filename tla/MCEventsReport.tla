--------------------------- MODULE MCEventsReport ---------------------------
(* EventsReport on a small instance.                                       *)
EXTENDS EventsReport, TLC

TheCapacity == [n \in Nodes |-> 4]

TheRequest == [p \in Pods |-> 1]
=============================================================================
