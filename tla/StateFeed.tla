----------------------------- MODULE StateFeed -----------------------------
(***************************************************************************)
(* What the control server promises the readers of its state: a register   *)
(* whose revision only grows, and for each reader a view of it that may    *)
(* skip revisions but never goes back and is never ahead of the register.  *)
(***************************************************************************)
EXTENDS Naturals

CONSTANT Reader

VARIABLES
  current,   \* the revision of the register
  view       \* for each reader, the revision it was last told

feedVars == <<current, view>>

FeedInit == current = 0 /\ view = [r \in Reader |-> 0]

Advance == current' = current + 1 /\ UNCHANGED view

\* A reader is told some revision between the one it knows and the current one.
Tell(r) ==
  /\ \E v \in view[r] .. current : view' = [view EXCEPT ![r] = v]
  /\ UNCHANGED current

FeedNext == Advance \/ \E r \in Reader : Tell(r)

FeedSpec == FeedInit /\ [][FeedNext]_feedVars
=============================================================================
