--------------------------- MODULE MCProvisioning ---------------------------
(* Provisioning on small instances.                                        *)
EXTENDS Provisioning, TLC

CONSTANTS r1, r2, m1, m2

\* One request of two machines.
OneRequest  == {r1}
BothInOne   == (m1 :> r1) @@ (m2 :> r1)

\* Two requests of one machine each.
TwoRequests == {r1, r2}
OneInEach   == (m1 :> r1) @@ (m2 :> r2)

\* One request of one machine.
OneMachine  == {m1}
OnlyM1      == m1 :> r1

TwoMachines == {m1, m2}

\* The two machines of one request are interchangeable.
Symmetry == Permutations({m1, m2})
=============================================================================
