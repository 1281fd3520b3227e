--------------------------- MODULE MCCombatEngine ---------------------------
(* A kill, and a later hit on a mob of the same name.                      *)
EXTENDS CombatEngine

Ev(kind, t, attacker, defender, amount) ==
  [kind |-> kind, t |-> t, att |-> attacker, def |-> defender, amount |-> amount, owner |-> 0]

\* The second mob is hit in the second after the first was slain.
TwoFights ==
  {<<[event |-> Ev("hit", 1, 1, 11, 1), seenBy |-> {1, 2}],
     [event |-> Ev("slain", 1, 0, 11, 0), seenBy |-> {1}],
     [event |-> Ev("hit", 2, 1, 11, 1), seenBy |-> {1}]>>}
NoFault(fight) == 0
=============================================================================
