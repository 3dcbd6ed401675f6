-------------------------- MODULE MCRequestStatus --------------------------
(* RequestStatus on small instances.                                       *)
EXTENDS RequestStatus, TLC

\* The machines of a request are interchangeable.
Symmetry == Permutations(Machines)
=============================================================================
