------------------------------ MODULE LifoStack ------------------------------
(***************************************************************************)
(* What a LIFO storage promises to its owner: an array that is pushed is   *)
(* copied on top of a stack, and a pop overwrites the owner's array with   *)
(* the top of the stack, whatever is stored where and whenever.            *)
(***************************************************************************)
EXTENDS Sequences

CONSTANT Values

VARIABLES stack, array

Init == stack = << >> /\ array \notin Values

Compute == array' \in Values /\ UNCHANGED stack
Push    == stack' = << array >> \o stack /\ UNCHANGED array
Pop     == stack # << >> /\ array' = Head(stack) /\ stack' = Tail(stack)

Next == Compute \/ Push \/ Pop

Spec == Init /\ [][Next]_<<stack, array>>
=============================================================================
