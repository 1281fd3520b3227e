--------------------------- MODULE MCClutchSafety ---------------------------
(***************************************************************************)
(* Two instances of MouseClutch side by side, one per part of the state    *)
(* space: the local key with failing hooks, focus changes and exiting      *)
(* clients, while the control connection stays idle; and the local key     *)
(* together with the commands of a control connection.                     *)
(***************************************************************************)
EXTENDS MouseClutch, TLC

CONSTANTS p1, p2, k1, s1

\* What the overlay may report: the two clients, or also none of them.
BothClients == {{p1, p2}}
NoneOrBoth == {{}, {p1, p2}}

\* The clients are interchangeable.
ClientSymmetry == Permutations({p1, p2})

VARIABLE part

Local == INSTANCE MouseClutch WITH PidReports <- NoneOrBoth,
           EligibleReports <- NoneOrBoth, MayExit <- Pid, HookFaults <- TRUE,
           BroadcastChoices <- BOOLEAN, QueueCap <- 0, MaxSeq <- 0

SuiteInit == part \in {"local", "mixed"} /\ Init

SuiteNext ==
  /\ \/ part = "local" /\ open' = open /\ Local!Next
     \/ part = "mixed" /\ Next
  /\ UNCHANGED part

SuiteSpec == SuiteInit /\ [][SuiteNext]_<<part, vars>>
=============================================================================
