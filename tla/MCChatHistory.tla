---------------------------- MODULE MCChatHistory ----------------------------
(* Two senders, three messages, two tasks: the second task starts while    *)
(* the reader is between the pages of the first.                           *)
EXTENDS ChatHistory

Symmetry == Permutations(Senders)

=============================================================================
