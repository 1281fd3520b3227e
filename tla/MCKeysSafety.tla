---------------------------- MODULE MCKeysSafety ----------------------------
(***************************************************************************)
(* Two instances of KeyDelivery, one per part of the state space: requests *)
(* and the overlay's own action compete for two clients while mappings,    *)
(* timers and callers fail; and physical keys are broadcast while the      *)
(* overlay types into the same mappings, and focus and filter change.      *)
(***************************************************************************)
EXTENDS KeyDelivery, TLC

CONSTANTS p1, p2, ctrl, key, r1, r2

\* r1: two strokes, the first a chord, to p1; r2: one chord to both clients.
Jobs ==
  r1 :> [pids |-> {p1}, prog |-> <<{ctrl, key}, {key}>>, batch |-> FALSE] @@
  r2 :> [pids |-> {p1, p2}, prog |-> <<{ctrl, key}>>, batch |-> TRUE]

Invite == <<{ctrl, key}>>

AnyButP2   == {{}, {p1}, {p1, p2}}
BothOrNone == {{}, {p1, p2}}
Both       == {p1, p2}
OnlyKey    == {key}
NoFilter   == {{}}
AnyFilter  == {{}, {key}}

VARIABLE part

Mixed == INSTANCE KeyDelivery WITH QueueCap <- 2, PidReports <- BothOrNone,
           MayFocus <- Both, Typeable <- OnlyKey, Filters <- AnyFilter, Faults <- FALSE

SuiteInit == \/ part = "claims" /\ Init
             \/ part = "mixed" /\ Mixed!Init

SuiteNext ==
  /\ UNCHANGED part
  /\ \/ part = "claims" /\ Next
     \/ part = "mixed" /\ Mixed!Next /\ UNCHANGED reply

SuiteSpec == SuiteInit /\ [][SuiteNext]_<<part, vars>>
=============================================================================
