------------------------------ MODULE CastBars ------------------------------
(***************************************************************************)
(* Cast bars (overlay/casting.rs with the spell catalogue of eqspell): the *)
(* cast each client is seen to begin in its log, the bar its PiP shows,    *)
(* the estimates of cast times learned from confirmed casts, and the file  *)
(* cast-times.toml that keeps them over restarts.                          *)
(*                                                                         *)
(* A client plays a character, whose class is the one the character cache  *)
(* knows; a log line names the character whose log it is in, and belongs   *)
(* to the client by its process id.                                        *)
(*                                                                         *)
(* Times are ages in units; an estimate is held in tenths of a unit, so    *)
(* that the 90/10 blend of a new sample is visible.                        *)
(***************************************************************************)
EXTENDS Integers, Sequences, FiniteSets, FiniteSetsExt

CONSTANTS
    Caster,         \* process ids of clients
    Character,      \* their characters
    Catalog,        \* SpellCatalog: records [id, name, base, classes]
    SpellName,      \* the spell names the logs mention, known or not
    Bard, BardTime, \* the class whose songs all take the same time, and that time
    Class,          \* class codes
    LegacyTimes,    \* estimates of an old file: records [owner, class, name, millis, base]
    Grace,          \* UNCONFIRMED_GRACE
    Linger,         \* how long an outcome stays
    MaxSample,      \* MAX_SAMPLE
    MaxLag,         \* bound: units between a line's arrival and its processing
    MaxCasts,       \* bound: casting events
    MaxUpsets       \* bound: changes of class or character, reloads, closed clients, crashes

ASSUME CastTimes ==
    /\ Grace \in Nat \ {0} /\ Linger \in Nat \ {0} /\ MaxSample \in Nat \ {0} /\ MaxLag \in Nat
    /\ \A s \in Catalog :
          s.id \in Nat /\ s.base \in Nat /\ s.base <= MaxSample /\ s.classes \subseteq Class
    /\ BardTime \in 1..MaxSample /\ IsFiniteSet(Class)

\* What an earlier version left: one time for each character, class and name, and learned
\* under the same limits (estimate_maps).
ASSUME LegacyFile ==
    /\ \A e \in LegacyTimes : e.millis \in 1..(10 * MaxSample)
    /\ \A e, f \in LegacyTimes :
          e.owner = f.owner /\ e.class = f.class /\ e.name = f.name => e = f

VARIABLES
    casts,      \* CastingCenter.entries
    played,     \* the character of each client's window
    former,     \* the characters a window had before, whose lines may still arrive
    classOf,    \* the class of each character (CharacterCache)
    classChanged,   \* a log batch that is being applied changed a window's class
    reassigned, \* history: clients whose last cast began as another character's
    estimates,  \* learned times, by character, class and spell id
    legacy,     \* estimates of an old file that are still keyed by name
    unsaved,    \* dirty
    castFile,   \* cast-times.toml: what it holds, or Torn
    castPips,   \* the clients with a PiP
    castTimer, castDirty,   \* the timer is set; PiP labels with a redraw request
    castShown,  \* the labels on which a bar is painted
    dropped,    \* history: a painted cast was dropped by one that cannot be resolved
    castSpent   \* the bounds used up

personaVars == <<played, former, classOf, classChanged, reassigned>>
castVars == <<casts, personaVars, estimates, legacy, unsaved, castFile, castPips, castTimer,
              castDirty, castShown, dropped, castSpent>>

NoClass == "unknown"
NoCast == [phase |-> "none"]
NoSpell == [id |-> 0]
AgeLimit == Max({MaxSample + 1, MaxSample + Grace, Linger}) + MaxLag

\* The window's class: whatever gives it a character takes the class from the cache, and a
\* class learned later is put into both (reconcile_identity, apply_change).
WindowClass(p) == classOf[played[p]]

-----------------------------------------------------------------------------
(* unique_candidate: the candidates agree, so that any of them will do. *)
UniqueCandidate(candidates) ==
    IF candidates # {} /\ \A s, t \in candidates : s.base = t.base
    THEN CHOOSE s \in candidates : \A t \in candidates : s.id <= t.id
    ELSE NoSpell

(* SpellCatalog::resolve: the spell of the client's class, else the only   *)
(* player spell of that name, else the only spell of that name.            *)
ResolveSpell(name, class) ==
    LET candidates == {s \in Catalog : s.name = name}
        mine == {s \in candidates : class \in s.classes}
        players == UniqueCandidate({s \in candidates : s.classes # {}})
    IN  IF mine # {} THEN CHOOSE s \in mine : \A t \in mine : s.id <= t.id
        ELSE IF players # NoSpell THEN players ELSE UniqueCandidate(candidates)

(* A spell that only one class has says more than the window's class. *)
EffectiveClass(spell, class) ==
    IF Cardinality(spell.classes) = 1 THEN CHOOSE c \in spell.classes : TRUE ELSE class

BaseDuration(spell, class) ==
    IF EffectiveClass(spell, class) = Bard /\ spell.base # 0 THEN BardTime ELSE spell.base

(* The key under which a cast is learned: songs and unknown classes teach  *)
(* nothing.                                                                *)
EstimateKey(who, spell, class) ==
    IF EffectiveClass(spell, class) \in {Bard, NoClass} THEN <<>>
    ELSE <<who, EffectiveClass(spell, class), spell.id>>

Keyed(key) == {e \in estimates : e.key = key}

(* An estimate keyed by name in an old file, for this character and spell. *)
LegacyFor(who, spell, class) ==
    {e \in legacy : e.owner = who /\ e.name = spell.name /\ e.class = EffectiveClass(spell, class)}

(* The cast moves an estimate of the old file to its new key. *)
Migrates(who, spell, class) ==
    LET key == EstimateKey(who, spell, class)
    IN  key # <<>> /\ Keyed(key) = {} /\ LegacyFor(who, spell, class) # {}

(* active_snapshot and terminal_snapshot: there is something to show. *)
CastVisible(c, lag) ==
    LET age == IF c.age > lag THEN c.age - lag ELSE 0
    IN  IF c.phase = "active" THEN 10 * age < c.estimate + 10 * Grace ELSE age < Linger

AnyCastVisible(lag) == \E p \in Caster : casts[p] # NoCast /\ CastVisible(casts[p], lag)

(* What the file holds after a save, and what a start reads back. *)
Content(learned, old) == [learned |-> learned, old |-> old]
Torn == [torn |-> TRUE]
Loaded(file) == IF file = Torn THEN Content({}, {}) ELSE file

CastSpend(what) ==
    /\ castSpent[what] < [casts |-> MaxCasts, upsets |-> MaxUpsets][what]
    /\ castSpent' = [castSpent EXCEPT ![what] = @ + 1]

CastInit ==
    /\ casts = [p \in Caster |-> NoCast]
    /\ played \in [Caster -> Character] /\ former = [p \in Caster |-> {}]
    /\ classOf \in [Character -> Class \cup {NoClass}]
    /\ classChanged = FALSE /\ reassigned = {}
    /\ castFile = Content({}, LegacyTimes)
    /\ estimates = {} /\ legacy = LegacyTimes /\ unsaved = FALSE
    /\ castPips = Caster /\ castTimer = FALSE /\ castDirty = {}
    /\ castShown = {} /\ dropped = {}
    /\ castSpent = [casts |-> 0, upsets |-> 0]

-----------------------------------------------------------------------------
(* CastingCenter::save, after every batch of log lines: nothing to do, or  *)
(* a write that succeeds or fails and is tried again by the next batch.    *)
Save(learned, old, dirty) ==
    \/ /\ dirty
       /\ castFile' = Content(learned, old) /\ unsaved' = FALSE
    \/ UNCHANGED castFile /\ unsaved' = dirty

SetCastTimer(lag) == castTimer' = (castTimer \/ AnyCastVisible(lag)')

(* start: a spell that cannot be resolved drops the cast that was shown    *)
(* and asks for no redraw; an instant spell is complete at once.  The line *)
(* is of the log of character `who`, the class is the window's.            *)
StartCast(p, who, name, lag) ==
    LET spell == ResolveSpell(name, WindowClass(p))
        class == EffectiveClass(spell, WindowClass(p))
        base == BaseDuration(spell, WindowClass(p))
        key == EstimateKey(who, spell, WindowClass(p))
        moved == IF Migrates(who, spell, WindowClass(p))
                 THEN {[key |-> key, millis |-> e.millis, base |-> e.base] :
                          e \in LegacyFor(who, spell, WindowClass(p))}
                 ELSE {}
        known == {e \in Keyed(key) \cup moved : e.base = base}
    IN  \/ /\ spell = NoSpell
           /\ casts' = [casts EXCEPT ![p] = NoCast]
           /\ dropped' = IF casts[p] # NoCast THEN dropped \cup {p} ELSE dropped
           /\ Save(estimates, legacy, unsaved)
           /\ UNCHANGED <<estimates, legacy, castDirty>>
        \/ /\ spell # NoSpell /\ base = 0
           /\ casts' = [casts EXCEPT ![p] =
                  [phase |-> "complete", name |-> name, age |-> lag]]
           /\ castDirty' = castDirty \cup ({p} \cap castPips)
           /\ Save(estimates, legacy, unsaved)
           /\ UNCHANGED <<estimates, legacy, dropped>>
        \/ /\ spell # NoSpell /\ base # 0
           /\ estimates' = estimates \cup moved
           /\ legacy' = IF moved # {} THEN legacy \ LegacyFor(who, spell, WindowClass(p)) ELSE legacy
           /\ casts' = [casts EXCEPT ![p] =
                  [phase |-> "active", name |-> name, spell |-> spell, class |-> class, key |-> key,
                   age |-> lag,
                   estimate |-> IF known = {} THEN 10 * base
                                ELSE Max({1} \cup {e.millis : e \in known})]]
           /\ castDirty' = castDirty \cup ({p} \cap castPips)
           /\ Save(estimates', legacy', unsaved \/ Migrates(who, spell, WindowClass(p)))
           /\ UNCHANGED dropped

(* The estimate a confirmed cast leaves: nine tenths of the new sample. *)
Learned(c, sample) ==
    LET previous == {e \in Keyed(c.key) : e.base = c.spell.base}
        before == IF previous = {} THEN 10 * c.spell.base ELSE Max({e.millis : e \in previous})
    IN  (estimates \ Keyed(c.key))
            \cup {[key |-> c.key, base |-> c.spell.base,
                   millis |-> (9 * 10 * sample + before) \div 10]}

(* terminal: a fizzle, a resist, an interruption or a completion ends the  *)
(* running cast unless it names another spell, which changes nothing; an   *)
(* interruption teaches nothing, nor does a sample of no time at all or    *)
(* one that is too long.                                                   *)
EndCast(p, outcome, lag) ==
    LET c == casts[p]
        sample == IF c.age > lag THEN c.age - lag ELSE 0
        trains == outcome # "interrupted" /\ sample > 0 /\ sample <= MaxSample /\ c.key # <<>>
    IN  /\ c.phase = "active"
        /\ casts' = [casts EXCEPT ![p] = [phase |-> outcome, name |-> c.name, age |-> lag]]
        /\ estimates' = IF trains THEN Learned(c, sample) ELSE estimates
        /\ castDirty' = castDirty \cup ({p} \cap castPips)
        /\ Save(estimates', legacy, unsaved \/ trains)
        /\ UNCHANGED <<legacy, dropped>>

(* apply_log_envelope of a casting event. *)
ApplyCastEvent(p, lag) ==
    /\ CastSpend("casts")
    /\ \/ \E who \in {played[p]} \cup former[p], name \in SpellName :
             /\ StartCast(p, who, name, lag)
             /\ reassigned' = IF who = played[p] THEN reassigned \ {p} ELSE reassigned \cup {p}
       \/ \E outcome \in {"complete", "fizzled", "resisted", "interrupted"} :
             EndCast(p, outcome, lag) /\ UNCHANGED reassigned
    /\ SetCastTimer(lag)
    /\ UNCHANGED <<played, former, classOf, classChanged, castPips, castShown>>

(* Mutant: casts of another persona survive the change. *)
KeptByReconcileAll(c, class) == TRUE

(* reconcile_clients: a running cast must be of the window's class. *)
KeptByReconcile(c, class) == c.phase = "active" => c.class = class

(* apply_change: a character is known to be of another class from here on. *)
ChangeClass(who, class) ==
    /\ class # classOf[who] /\ CastSpend("upsets")
    /\ classOf' = [classOf EXCEPT ![who] = class]
    /\ classChanged' = (classChanged \/ \E p \in Caster : played[p] = who)
    /\ Save(estimates, legacy, unsaved)
    /\ UNCHANGED <<casts, played, former, reassigned, estimates, legacy, castPips, castTimer,
                   castDirty, castShown, dropped>>

(* The end of apply_log_batches when a window's class changed in it: the   *)
(* running casts are reconciled, those that began later in the batch too,  *)
(* and the PiPs painted anew.                                              *)
EndClassBatch ==
    /\ classChanged /\ classChanged' = FALSE
    /\ casts' = [p \in Caster |-> IF casts[p] # NoCast /\ KeptByReconcile(casts[p], WindowClass(p))
                                  THEN casts[p] ELSE NoCast]
    /\ castDirty' = castPips
    /\ Save(estimates, legacy, unsaved)
    /\ UNCHANGED <<played, former, classOf, reassigned, estimates, legacy, castPips, castTimer,
                   castShown, dropped, castSpent>>

(* poll_characters, and handle_char_assign for one client: windows get the *)
(* characters of `now`, with the class the cache knows.  The PiPs are      *)
(* painted anew, but the casts are not reconciled: what runs goes on.      *)
ChangeCharacters(now) ==
    /\ ~classChanged /\ now # played /\ CastSpend("upsets")
    /\ played' = now
    /\ former' = [p \in Caster |-> former[p] \cup ({played[p]} \ {now[p]})]
    /\ reassigned' = reassigned \cup {p \in Caster : now[p] # played[p]}
    /\ castDirty' = castPips
    /\ UNCHANGED <<casts, classOf, classChanged, estimates, legacy, unsaved, castFile, castPips,
                   castTimer, castShown, dropped>>

-----------------------------------------------------------------------------
(* tick: bars that move and bars that have run out are redrawn. *)
RedrawnByCastTick(p) == casts[p] # NoCast

CastTick ==
    /\ castTimer /\ ~classChanged
    /\ castDirty' = castDirty \cup {p \in castPips : RedrawnByCastTick(p)}
    /\ casts' = [p \in Caster |-> IF casts[p] # NoCast /\ CastVisible(casts[p], 0)
                                  THEN casts[p] ELSE NoCast]          \* prune
    /\ castTimer' = AnyCastVisible(0)
    /\ UNCHANGED <<personaVars, estimates, legacy, unsaved, castFile, castPips, castShown,
                   dropped, castSpent>>

PaintBar(p) ==
    /\ p \in castDirty /\ ~classChanged
    /\ castDirty' = castDirty \ {p}
    /\ castShown' = IF casts[p] # NoCast /\ CastVisible(casts[p], 0)
                    THEN castShown \cup {p} ELSE castShown \ {p}
    /\ dropped' = dropped \ {p}
    /\ UNCHANGED <<casts, personaVars, estimates, legacy, unsaved, castFile, castPips, castTimer,
                   castSpent>>

CastGoesOn ==
    /\ \E p \in Caster : casts[p] # NoCast /\ casts[p].age < AgeLimit
    /\ casts' = [p \in Caster |-> IF casts[p] # NoCast /\ casts[p].age < AgeLimit
                                  THEN [casts[p] EXCEPT !.age = @ + 1] ELSE casts[p]]
    /\ UNCHANGED <<personaVars, estimates, legacy, unsaved, castFile, castPips, castTimer,
                   castDirty, castShown, dropped, castSpent>>

(* Settings are reloaded: casts and timer go, the PiPs are painted anew. *)
ReloadCasting ==
    /\ ~classChanged /\ CastSpend("upsets")
    /\ casts' = [p \in Caster |-> NoCast]
    /\ castTimer' = FALSE
    /\ castDirty' = castPips
    /\ UNCHANGED <<personaVars, estimates, legacy, unsaved, castFile, castPips, castShown, dropped>>

(* Clients are promoted or closed: the PiPs change. *)
ChangePips(pips) ==
    /\ ~classChanged /\ CastSpend("upsets")
    /\ castPips' = pips
    /\ castDirty' = pips
    /\ castShown' = castShown \cap castPips
    /\ casts' \in {casts} \cup {[casts EXCEPT ![p] = NoCast] : p \in Caster \ pips}   \* remove
    /\ UNCHANGED <<personaVars, estimates, legacy, unsaved, castFile, castTimer, dropped>>

(* The program ends and is started again.  cleanup saves first; a crash    *)
(* saves nothing, and one in the middle of a save leaves a torn file,      *)
(* which load_estimates treats as none.  The windows are found again with  *)
(* their characters.                                                       *)
RestartCasting ==
    /\ CastSpend("upsets")
    /\ \E file \in {castFile} \cup (IF unsaved THEN {Torn, Content(estimates, legacy)} ELSE {}) :
          /\ castFile' = file
          /\ estimates' = Loaded(file).learned
          /\ legacy' = Loaded(file).old
          /\ unsaved' = FALSE
    /\ casts' = [p \in Caster |-> NoCast]
    /\ castTimer' = FALSE /\ castDirty' = castPips /\ castShown' = {} /\ dropped' = {}
    /\ former' = [p \in Caster |-> {}] /\ classChanged' = FALSE /\ reassigned' = {}
    /\ UNCHANGED <<played, classOf, castPips>>

CastNext ==
    \/ CastTick \/ CastGoesOn \/ ReloadCasting \/ RestartCasting \/ EndClassBatch
    \/ \E p \in Caster :
          \/ PaintBar(p)
          \/ \E lag \in 0..MaxLag : ApplyCastEvent(p, lag)
    \/ \E who \in Character, class \in Class : ChangeClass(who, class)
    \/ \E now \in [Caster -> Character] : ChangeCharacters(now)
    \/ \E pips \in SUBSET Caster : ChangePips(pips)

CastSpec == CastInit /\ [][CastNext]_castVars

-----------------------------------------------------------------------------
(* There is one estimate for a character, class and spell, it is positive and *)
(* no longer than the longest sample or cast (terminal, start).            *)
EstimatesSane ==
    /\ \A e, f \in estimates : e.key = f.key => e = f
    /\ \A e \in estimates : e.millis \in 1..(10 * MaxSample)

(* Whenever nothing is waiting to be saved, the file holds exactly what    *)
(* was learned, the estimates that moved from their old key included, so   *)
(* that a restart loses none (save, load_estimates).                       *)
EstimatesSaved == ~unsaved => Loaded(castFile) = Content(estimates, legacy)

(* Between two batches of log lines, a running cast is of the class of the *)
(* persona its client plays, or of the only class that has the spell, and  *)
(* what it teaches goes to that persona, however often the logs tell of    *)
(* another class (start, reconcile_clients).  The exception is a cast that *)
(* began as another character's: a window that is given another character  *)
(* keeps what runs, and lines of the former character still start casts.   *)
PersonaSafe == \A p \in Caster :
    LET c == casts[p]
    IN  c.phase = "active" /\ ~classChanged /\ p \notin reassigned =>
            /\ c.class = EffectiveClass(c.spell, WindowClass(p))
            /\ c.key = EstimateKey(played[p], c.spell, WindowClass(p))

(* A bar that is painted goes away once its cast is over or has run out,   *)
(* also if its lines came late (tick, prune, has_visible_entries).  The    *)
(* exception is a cast dropped by one that cannot be resolved: start       *)
(* forgets it without a redraw.                                            *)
BarsEnd == \A p \in Caster :
    []<>(p \notin castShown \/ p \notin castPips \/ p \in dropped)

(* Casts teach the class that cast them, and what they teach is kept.      *)
CastsSound == EstimatesSane /\ EstimatesSaved /\ PersonaSafe
=============================================================================
