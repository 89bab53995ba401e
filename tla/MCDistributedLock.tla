-------------------------- MODULE MCDistributedLock --------------------------
(* Instances of DistributedLock for TLC.                                       *)
EXTENDS DistributedLock, TLC

CONSTANTS c1, c2, c3

TwoClients   == {c1, c2}
ThreeClients == {c1, c2, c3}
OnePatient   == {c1}

Symmetry == Permutations(Clients \ Patient)
=============================================================================
