----------------------------- MODULE MCAutoType -----------------------------
(* One auto-type job types one shifted key.                                *)
EXTENDS AutoType, TLC

CONSTANT j1

\* Shift is scan code 2: the key is read before it.
Keys == {1, 2}

OneShifted == j1 :> <<[key |-> 1, shift |-> TRUE]>>
=============================================================================
