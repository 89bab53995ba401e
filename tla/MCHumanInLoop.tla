---------------------------- MODULE MCHumanInLoop ----------------------------
(* Instances of HumanInLoop for TLC. *)
EXTENDS HumanInLoop, TLC

CONSTANTS c1, c2, n1, r1, r2, p1, p2

Nobody        == {}
OneCall       == {c1}
TwoCalls      == {c1, c2}
OneNote       == {n1}
OneResponder  == {r1}
TwoResponders == {r1, r2}
OnePoller     == {p1}
TwoPollers    == {p1, p2}
=============================================================================
