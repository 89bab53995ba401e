---------------------------- MODULE MCAccountStore ----------------------------
(* Three rows in all: two accounts and a row of one of them, or one        *)
(* account and two; short sign-ins end within the clock, long ones do not. *)
(* Names, passwords and paths are only compared: each set is symmetric.    *)
EXTENDS AccountStore

Symmetry == Permutations(Names) \cup Permutations(Passwords) \cup Permutations(Paths)

=============================================================================
