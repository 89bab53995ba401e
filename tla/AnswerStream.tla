----------------------------- MODULE AnswerStream -----------------------------
(* What the stream of an answer promises to those who listen to it: an answer  *)
(* only grows at its end, and a reader receives it from the beginning, each    *)
(* message once and in order, however often its connection breaks.             *)
EXTENDS Naturals, Sequences

CONSTANT Readers

VARIABLES
    answer,      \* the messages of the answer so far
    received     \* reader -> what it has been given

Init ==
    /\ answer = <<>>
    /\ received = [r \in Readers |-> <<>>]

Grow ==
    /\ Len(answer') = Len(answer) + 1
    /\ SubSeq(answer', 1, Len(answer)) = answer
    /\ UNCHANGED received

Receive(r) ==
    /\ Len(received[r]) < Len(answer)
    /\ received' = [received EXCEPT ![r] = Append(@, answer[Len(@) + 1])]
    /\ UNCHANGED answer

Next == Grow \/ \E r \in Readers : Receive(r)

Spec == Init /\ [][Next]_<<answer, received>>
=============================================================================
