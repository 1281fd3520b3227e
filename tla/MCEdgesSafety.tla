--------------------------- MODULE MCEdgesSafety ---------------------------
(***************************************************************************)
(* How keys reach a game through its shared memory, one way per part of    *)
(* the state space: one key's strokes, by Stonemite and by auto-typing,    *)
(* through a ring that overflows and a counter that wraps; two keys of a   *)
(* Stonemite that stalls, is killed at any access and is started again     *)
(* over the same mapping; and two auto-type jobs.                          *)
(***************************************************************************)
EXTENDS KeyEdges, AutoType, TLC

CONSTANTS j1, j2

OneKey  == {1}
TwoKeys == {1, 2}
NoKeys  == {}

\* A shifted key against a plain one; Shift is scan code 2.
ShiftAndAfter == {2, 3}
ShiftAndPlain == j1 :> <<[key |-> 3, shift |-> TRUE]>> @@ j2 :> <<[key |-> 3, shift |-> FALSE]>>

VARIABLE part

Faulty == INSTANCE KeyEdges WITH AutoScan <- NoKeys, Tries <- 1,
            MaxEdges <- 2, MaxSeq <- 4, MaxFaults <- 2

SuiteInit ==
  /\ \/ part \in {"strokes", "jobs"} /\ Init
     \/ part = "faults" /\ Faulty!Init
  /\ part = "jobs" => cursor = 0
  /\ JobsInit

\* The strokes are those of key 1.
SuiteNext ==
  /\ UNCHANGED part
  /\ \/ part = "strokes" /\ Next /\ edges'[2] = 0 /\ UNCHANGED jobVars
     \/ part = "faults" /\ Faulty!Next /\ UNCHANGED jobVars
     \/ part = "jobs" /\ JobsNext /\ UNCHANGED vars

SuiteSpec == SuiteInit /\ [][SuiteNext]_<<part, vars, jobVars>>
=============================================================================
