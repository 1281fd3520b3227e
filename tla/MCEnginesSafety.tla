-------------------------- MODULE MCEnginesSafety --------------------------
(***************************************************************************)
(* Components whose promises are about single states and steps, one per    *)
(* part of the state space: the combat engine over scripted fights,        *)
(* pairing, the in-memory controller, and the overlay's client set with    *)
(* the user's edits.  Every part starts all of them and runs its own: one  *)
(* caller with two clients is "controller", two with one are "overlap".    *)
(***************************************************************************)
EXTENDS CombatEngine, Pairing, MemoryController, ClientSet, TLC

CONSTANTS p2, x, y, t2   \* a process, characters, a caller

\* Fights: who was hit by whom in which second, and whose logs say so.
Ev(kind, t, attacker, defender, amount) ==
  [kind |-> kind, t |-> t, att |-> attacker, def |-> defender, amount |-> amount, owner |-> 0]
By(event, sources) == [event |-> event, seenBy |-> sources]

\* A kill that one log tells later than a further hit.
KillFight == <<By(Ev("hit", 1, 1, 11, 1), {1, 2}), By(Ev("slain", 1, 0, 11, 0), {1}),
          By(Ev("hit", 2, 1, 11, 1), {1})>>
\* Two encounters that turn out to be one.
MergeFight == <<By(Ev("hit", 1, 1, 11, 1), {1}), By(Ev("hit", 1, 2, 12, 2), {2}),
           By(Ev("hit", 1, 1, 12, 1), {1, 2}), By(Ev("hit", 2, 1, 12, 1), {1})>>
\* Equal hits in one second, and a pet whose owner is known only later.
PetFight == <<By(Ev("hit", 1, 1, 11, 1), {1, 2}), By(Ev("hit", 1, 1, 11, 1), {1}),
              By(Ev("hit", 2, 21, 11, 2), {2}), By(Ev("attempt", 2, 11, 1, 0), {1}),
              By([Ev("claim", 3, 21, 0, 0) EXCEPT !.owner = 2], {2})>>
Fights == {KillFight, MergeFight, PetFight}
OneForKill(fight) == IF fight = KillFight THEN 1 ELSE 0

\* The client set: p2 plays x, the others may be assigned anything by hand.
OnlyP2  == [p \in Pid |-> IF p = p2 THEN {x} ELSE {}]
OrderX  == <<x>>
CycleYX == <<y, x>>

VARIABLE part

SuiteInit ==
  /\ part \in {"combat", "pairing", "controller", "overlap", "clients"}
  /\ CombatInit /\ PairInit /\ MemInit /\ BoxInit
  /\ part # "combat" => world = KillFight

SuiteNext ==
  /\ UNCHANGED part
  /\ \/ part = "combat" /\ CombatNext
        /\ UNCHANGED <<pairVars, memVars, boxVars>>
     \/ part = "pairing" /\ PairNext
        /\ UNCHANGED <<combatVars, memVars, boxVars>>
     \/ /\ \/ part = "controller" /\ MemNext /\ publishing'[t2] = NoUpdate
           \/ part = "overlap" /\ MemNext /\ idsIssued' <= 1 /\ failing' = {}
        /\ UNCHANGED <<combatVars, pairVars, boxVars>>
     \/ part = "clients" /\ BoxNext
        /\ UNCHANGED <<combatVars, pairVars, memVars>>

SuiteSpec == SuiteInit /\ [][SuiteNext]_<<part, combatVars, pairVars, memVars, boxVars>>

-----------------------------------------------------------------------------

\* Several logs of one fight, read late, twice or not at all, add up to that fight
\* (CombatEngine).
CombatHolds == [](part = "combat" => CombatSound) /\ PartialStays
=============================================================================
