--------------------------- MODULE MCLogsLiveness ---------------------------
(***************************************************************************)
(* What follows the game's log files, one component per part of the state  *)
(* space: the worker that watches them and hands their lines to the        *)
(* overlay, the tailer of one file, the badges that show a fight, and the  *)
(* cast bars with the times they learn.                                    *)
(***************************************************************************)
EXTENDS LogWorker, LogTail, CombatBadges, CastBars, TLC

\* A spell per way a name is resolved: by class, by the only entry, by the bard's rule,
\* an item's clicky, and a name nobody knows.
Spell(id, name, base, classes) == [id |-> id, name |-> name, base |-> base, classes |-> classes]
SomeSpells == {"heal", "gate", "song", "click", "nonsense"}
SomeCatalog ==
  {Spell(1, "heal", 2, {"CLR"}), Spell(2, "heal", 1, {"WIZ"}), Spell(3, "gate", 1, {"CLR", "WIZ"}),
   Spell(4, "song", 1, {"BRD"}), Spell(5, "click", 0, {})}
Main == CHOOSE w \in Character : TRUE     \* who is played at first
OldTimes == {[owner |-> Main, class |-> "CLR", name |-> "gate", millis |-> 20, base |-> 1]}

VARIABLE part

SuiteInit ==
  /\ part \in {"worker", "tail", "badges", "casts"}
  /\ LogInit /\ TailInit /\ BadgesInit /\ CastInit
  /\ part # "badges" => fightPips = {} /\ ~fightCfg.enabled /\ ~fightCfg.animations
                          /\ fightCfg.hit = 1
  /\ \A p \in Caster : played[p] = Main
  /\ part # "casts" => \A w \in Character : classOf[w] = NoClass
  /\ \A w \in Character \ {Main} : classOf[w] \in {NoClass, "CLR"}

SuiteNext ==
  /\ UNCHANGED part
  /\ \/ part = "worker" /\ LogNext /\ UNCHANGED <<tailVars, fightVars, castVars>>
     \/ part = "tail" /\ TailNext /\ UNCHANGED <<logVars, fightVars, castVars>>
     \/ part = "badges" /\ BadgesNext /\ UNCHANGED <<logVars, tailVars, castVars>>
     \/ part = "casts" /\ CastNext /\ UNCHANGED <<logVars, tailVars, fightVars>>

-----------------------------------------------------------------------------
(* Fairness, of each component while it is the one that runs: its threads  *)
(* and its loop run, timers and paints are delivered, and time passes.     *)

WorkerRuns ==
  /\ WF_logVars(part = "worker" /\ WorkerStep)
  /\ WF_logVars(part = "worker" /\ OwnerStep)
  /\ WF_logVars(part = "worker" /\ TimePasses)

TailRuns == WF_tailVars(part = "tail" /\ ReadStep)

BadgesRun ==
  /\ WF_fightVars(part = "badges" /\ FightTick)
  /\ WF_fightVars(part = "badges" /\ FightGoesOn)
  /\ \A p \in Fighter : WF_fightVars(part = "badges" /\ PaintBadge(p))

CastsRun ==
  /\ WF_castVars(part = "casts" /\ CastTick)
  /\ WF_castVars(part = "casts" /\ CastGoesOn)
  /\ WF_castVars(part = "casts" /\ EndClassBatch)
  /\ \A p \in Caster : WF_castVars(part = "casts" /\ PaintBar(p))

SuiteSpec ==
  /\ SuiteInit /\ [][SuiteNext]_<<part, logVars, tailVars, fightVars, castVars>>
  /\ WorkerRuns /\ TailRuns /\ BadgesRun /\ CastsRun

-----------------------------------------------------------------------------

\* A badge shows the fight it stands for (CombatBadges).
BadgesHold == [](part = "badges" => DeathKept) /\ BadgesSettle

\* Casts teach the class that cast them, and their bars go away (CastBars).
CastsHold == [](part = "casts" => CastsSound) /\ BarsEnd
=============================================================================
