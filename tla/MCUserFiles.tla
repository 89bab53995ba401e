----------------------------- MODULE MCUserFiles -----------------------------
(* Instances of UserFiles for TLC: two files in a folder of a folder. *)
EXTENDS UserFiles, TLC

CONSTANTS a, b, w1, w2, r1, v1, d1

TwoFiles == {a, b}
TwoFolders == {"inner", "outer"}
Tree == (a :> "inner") @@ (b :> "inner") @@ ("inner" :> "outer") @@ ("outer" :> Root)

TwoWriters   == {w1, w2}
OneReader    == {r1}
OneMover     == {v1}
OneDeleter   == {d1}
=============================================================================
