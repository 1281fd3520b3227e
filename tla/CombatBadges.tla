---------------------------- MODULE CombatBadges ----------------------------
(***************************************************************************)
(* Combat awareness (overlay/combat_awareness.rs): what a PiP label shows  *)
(* of its client's fight - an attack frame, a hit flash, damage taken, an  *)
(* attack problem, death - and the timer that redraws it when a phase      *)
(* ends.  Times are ages in units, kept at the age from which they make no *)
(* difference; that age also stands for "never" (None in the code).        *)
(***************************************************************************)
EXTENDS Integers, FiniteSets

CONSTANTS
    Fighter,        \* process ids of clients
    HitDurations,   \* values of the combat_hit_duration setting
    FlashMs,        \* HIT_FLASH_MS
    FlashInterval,  \* MIN_HIT_FLASH_INTERVAL_MS
    ImpactMs, DecayMs, DamageMs,    \* the phases of the damage effect
    IssueMs,        \* ATTACK_ISSUE_MS
    MaxLog,         \* bound: log events
    MaxRebuilds     \* bound: settings reloads, promotions, attached and closed clients

ASSUME BadgeTimes ==
    /\ HitDurations \subseteq Nat \ {0} /\ HitDurations # {}
    /\ 0 < FlashMs /\ FlashMs < FlashInterval
    /\ 0 < ImpactMs /\ ImpactMs < DecayMs /\ DecayMs < DamageMs /\ 0 < IssueMs

VARIABLES
    fights,     \* CombatAwarenessCenter.entries
    fightCfg,   \* enabled, hit_duration_ms, animations_enabled
    fightPips,  \* the clients with a PiP
    fightTimer, \* the timer is set
    fightDirty, \* PiP labels with a redraw request
    fightShown, \* what each label was last painted with
    slain,      \* history: the clients whose newest death has no revival after it
    fightSpent  \* the bounds used up

fightVars == <<fights, fightCfg, fightPips, fightTimer, fightDirty, fightShown, slain, fightSpent>>

LongAgo == CHOOSE n \in HitDurations : \A m \in HitDurations : m <= n
Problem == {"outOfRange", "tooClose", "lineOfSight"}
NoFight == [hit |-> LongAgo, flash |-> FlashInterval, damage |-> DamageMs,
            problem |-> "none", issue |-> IssueMs, dead |-> FALSE, rendered |-> <<>>]
Unmarked == [dead |-> "absent"]
Neutral == <<"none", "none", "none">>

-----------------------------------------------------------------------------
(* Entry::visual_key: border, damage phase and status. *)
VisualKey(e) ==
    LET status == IF e.issue < IssueMs THEN e.problem ELSE "none"
        attacking == e.hit < fightCfg.hit
        flashing == fightCfg.animations /\ attacking /\ e.flash < FlashMs
    IN  IF e.dead THEN <<"dead", "none", "dead">>
        ELSE << IF status # "none" THEN "attention"
                ELSE IF flashing THEN "hit"
                ELSE IF attacking THEN "attacking" ELSE "none",
                IF e.damage >= DamageMs THEN "none"
                ELSE IF ~fightCfg.animations THEN "decay"
                ELSE IF e.damage < ImpactMs THEN "impact"
                ELSE IF e.damage < DecayMs THEN "decay" ELSE "faint",
                status >>

(* What the label of p should show now. *)
Key(p) == IF fights[p] = Unmarked \/ ~fightCfg.enabled THEN Neutral ELSE VisualKey(fights[p])

(* Mutant: attack problems do not count as something that will change. *)
HasPendingTransitionNoIssue(e) ==
    ~e.dead /\ (e.flash < FlashMs \/ e.hit < fightCfg.hit \/ e.damage < DamageMs)

(* Entry::has_pending_transition. *)
HasPendingTransition(e) ==
    /\ ~e.dead
    /\ \/ e.flash < FlashMs \/ e.hit < fightCfg.hit
       \/ e.damage < DamageMs \/ e.issue < IssueMs

HasPendingTransitions ==
    fightCfg.enabled /\ \E p \in Fighter : fights[p] # Unmarked /\ HasPendingTransition(fights[p])

FightSpend(what) ==
    /\ fightSpent[what] < [log |-> MaxLog, rebuilds |-> MaxRebuilds][what]
    /\ fightSpent' = [fightSpent EXCEPT ![what] = @ + 1]

BadgesInit ==
    /\ fights = [p \in Fighter |-> Unmarked]
    /\ fightCfg \in [enabled : BOOLEAN, hit : HitDurations, animations : BOOLEAN]
    /\ fightPips \in SUBSET Fighter
    /\ fightTimer = FALSE /\ fightDirty = {} /\ slain = {}
    /\ fightShown = [p \in Fighter |-> Neutral]
    /\ fightSpent = [log |-> 0, rebuilds |-> 0]

-----------------------------------------------------------------------------
(* The event of a log line, applied to the entry it belongs to. *)
WeaponDamageDealt(e) ==
    [e EXCEPT !.hit = 0, !.issue = IssueMs, !.problem = "none",
              !.flash = IF fightCfg.animations /\ @ >= FlashInterval THEN 0 ELSE @]
DamageTaken(e) == [e EXCEPT !.damage = 0]
AttackBlocked(e, problem) == [e EXCEPT !.problem = problem, !.issue = 0]
Died(e) == [NoFight EXCEPT !.dead = TRUE, !.rendered = e.rendered]
Revived(e) == [NoFight EXCEPT !.rendered = e.rendered]

(* Deaths and revivals are recorded even while the feature is off. *)
Counts(event) == fightCfg.enabled \/ event \in {"died", "revived"}

(* apply_event. *)
Applied(e, event) ==
    CASE event = "dealt" /\ ~e.dead -> WeaponDamageDealt(e)
      [] event = "taken" /\ ~e.dead -> DamageTaken(e)
      [] event \in Problem /\ ~e.dead -> AttackBlocked(e, event)
      [] event = "died" -> Died(e)
      [] event = "revived" /\ e.dead -> Revived(e)
      [] OTHER -> e

FightEvent == {"dealt", "taken", "died", "revived"} \cup Problem

(* apply_log_event: the label is redrawn if what it shows has changed, and *)
(* the timer is set if it will change again.                               *)
ApplyFightEvent(p, event) ==
    LET entry == IF fights[p] = Unmarked THEN NoFight ELSE fights[p]
    IN  /\ FightSpend("log")
        /\ UNCHANGED <<fightCfg, fightPips, fightShown>>
        /\ slain' = CASE event = "died" -> slain \cup {p}
                      [] event = "revived" -> slain \ {p}
                      [] OTHER -> slain
        /\ fights' = IF Counts(event) THEN [fights EXCEPT ![p] = Applied(entry, event)] ELSE fights
        /\ fightDirty' = IF Key(p)' # Key(p) THEN fightDirty \cup ({p} \cap fightPips) ELSE fightDirty
        /\ fightTimer' = (fightTimer \/ HasPendingTransitions')

(* tick: every PiP whose last paint is out of date is redrawn; the timer   *)
(* ends when nothing is going to change.                                   *)
FightTick ==
    /\ fightTimer
    /\ fightDirty' = fightDirty \cup
           {p \in fightPips : fights[p] # Unmarked /\ fights[p].rendered # Key(p)}
    /\ fightTimer' = HasPendingTransitions
    /\ UNCHANGED <<fights, fightCfg, fightPips, fightShown, slain, fightSpent>>

(* A paint of the label of p: the centre's snapshot is drawn and           *)
(* remembered in the entry.                                                *)
PaintBadge(p) ==
    /\ p \in fightDirty
    /\ fightDirty' = fightDirty \ {p}
    /\ fightShown' = [fightShown EXCEPT ![p] = Key(p)]
    /\ fights' = [fights EXCEPT ![p] = IF @ = Unmarked THEN @ ELSE [@ EXCEPT !.rendered = Key(p)]]
    /\ UNCHANGED <<fightCfg, fightPips, fightTimer, slain, fightSpent>>

(* Time passes for every entry. *)
Older(age, limit) == IF age < limit THEN age + 1 ELSE age
FightGoesOn ==
    /\ fights' = [p \in Fighter |->
           IF fights[p] = Unmarked THEN Unmarked
           ELSE [fights[p] EXCEPT !.hit = Older(@, LongAgo), !.flash = Older(@, FlashInterval),
                                  !.damage = Older(@, DamageMs), !.issue = Older(@, IssueMs)]]
    /\ fights' # fights
    /\ UNCHANGED <<fightCfg, fightPips, fightTimer, fightDirty, fightShown, slain, fightSpent>>

-----------------------------------------------------------------------------
(* apply_config on one entry. *)
Reconfigured(e, new) ==
    IF ~new.enabled THEN [NoFight EXCEPT !.dead = e.dead]
    ELSE IF new = fightCfg THEN e
    ELSE [e EXCEPT !.hit = LongAgo, !.flash = FlashInterval, !.damage = DamageMs, !.rendered = <<>>]

(* force_rebuild: settings are applied, the timer is killed if the feature *)
(* was switched off, and all PiPs are built and painted anew.              *)
ReloadFightSettings(new) ==
    /\ FightSpend("rebuilds")
    /\ fights' = [p \in Fighter |->
           IF fights[p] = Unmarked THEN Unmarked ELSE Reconfigured(fights[p], new)]
    /\ fightCfg' = new
    /\ fightTimer' = (fightTimer /\ (new = fightCfg \/ new.enabled))
    /\ fightDirty' = fightPips
    /\ UNCHANGED <<fightPips, fightShown, slain>>

(* Another client is promoted: the PiPs change and are painted anew. *)
RebuildPips(pips) ==
    /\ FightSpend("rebuilds")
    /\ fightPips' = pips
    /\ fightDirty' = pips
    /\ fightShown' = [p \in Fighter |-> IF p \in fightPips THEN fightShown[p] ELSE Neutral]
    /\ UNCHANGED <<fights, fightCfg, fightTimer, slain>>

(* A client closes (remove). *)
RemoveFighter(p) ==
    /\ FightSpend("rebuilds")
    /\ fights' = [fights EXCEPT ![p] = Unmarked]
    /\ slain' = slain \ {p}
    /\ fightPips' = fightPips \ {p}
    /\ fightDirty' = fightPips'
    /\ UNCHANGED <<fightCfg, fightTimer, fightShown>>

BadgesNext ==
    \/ FightTick \/ FightGoesOn
    \/ \E p \in Fighter :
          \/ PaintBadge(p) \/ RemoveFighter(p)
          \/ \E event \in FightEvent : ApplyFightEvent(p, event)
    \/ \E new \in [enabled : BOOLEAN, hit : HitDurations, animations : BOOLEAN] :
          ReloadFightSettings(new)
    \/ \E pips \in SUBSET Fighter : RebuildPips(pips)

BadgesSpec == BadgesInit /\ [][BadgesNext]_fightVars

-----------------------------------------------------------------------------
(* A death is remembered until the revival, whatever settings are loaded   *)
(* and whether the feature is on when either is logged (apply_config,      *)
(* apply_event).                                                           *)
DeathKept == \A p \in Fighter : p \in slain <=> (fights[p] # Unmarked /\ fights[p].dead = TRUE)

(* A label that shows an old state of the fight is brought up to date: the *)
(* timer outlives every phase that is still to end (has_pending_transition *)
(* against visual_key), over settings reloads and promotions.              *)
BadgesSettle == \A p \in Fighter :
    []<>(p \in fightPips => fightShown[p] = Key(p))
=============================================================================
