---------------------------- MODULE MCSessionTask ----------------------------
(* Instances of SessionTask for TLC. Sessions, messages and requests are       *)
(* interchangeable in every run without liveness.                              *)
EXTENDS SessionTask, TLC

CONSTANTS s1, m1, m2, m3, r1, r2, r3, c1

OneSession  == {s1}
NoSession   == {}
OneMsg      == {m1}
TwoMsgs     == {m1, m2}
ThreeMsgs   == {m1, m2, m3}
TwoReqs     == {r1, r2}
ThreeReqs   == {r1, r2, r3}
OneCancel   == {c1}
NoCancel    == {}

Symmetry == Permutations(Msgs) \cup Permutations(Reqs)
=============================================================================
