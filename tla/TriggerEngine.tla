---------------------------- MODULE TriggerEngine ----------------------------
(***************************************************************************)
(* The trigger engine (eqtrigger/engine.rs), the evaluator the log worker  *)
(* drives it with (log_watcher/triggers.rs), and the model of running      *)
(* timers the overlay keeps from the worker's frames (overlay/timers.rs).  *)
(*                                                                         *)
(* Lines, patterns and names are data: a trigger lists the lines its       *)
(* pattern matches, and its timer's name for each.  What a template says   *)
(* is left out; that a stage fires is an event [phase, trigger, timer].    *)
(* A timer carries a serial number, so that the properties can follow it.  *)
(***************************************************************************)
EXTENDS Integers, FiniteSets, Sequences, SequencesExt

CONSTANTS Key,         \* log sources, one per character
          Line, Variable,
          Library,     \* sequence of compiled triggers
          ActiveFor,   \* [Key -> indexes its profiles make active]
          MaxTime,     \* bound: the worker's clock
          MaxLinesRead,    \* bound: lines read
          MaxReloads   \* bound: library reloads

ASSUME TriggerBounds ==
  /\ Key # {} /\ {MaxTime, MaxLinesRead, MaxReloads} \subseteq Nat
  /\ ActiveFor \in [Key -> SUBSET DOMAIN Library]
  /\ \A i \in DOMAIN Library : Library[i].hit \subseteq Line

VARIABLES now,        \* the worker's clock
          characters, \* TriggerEngine.characters
          hasTimers,  \* TriggerEvaluator.has_timers
          frameBox,    \* the newest timer frame not yet taken, or <<>>
          shownTimers,      \* TimerOverlayState.timers
          started,    \* serial of the last timer started
          batch,      \* events of the last call
          fate,       \* the stages fired for each timer so far
          linesRead, reloads

trigVars == <<now, characters, hasTimers, frameBox, shownTimers, started, batch, fate, linesRead, reloads>>

Index == DOMAIN Library
Unset == -1                                  \* a variable or time that is absent
Text  == -2                                  \* a value that is not a number
NoRepeat == [count |-> 0, last |-> 0]

\* state_for: a character the engine has not met
NewCharacter ==
  [disabled |-> {}, values |-> [v \in Variable |-> Unset],
   counters |-> [v \in Variable |-> Unset], expiry |-> [v \in Variable |-> Unset],
   counter |-> [i \in Index |-> NoRepeat], repeated |-> {},
   lockout |-> [i \in Index |-> Unset], previous |-> <<>>, timers |-> <<>>]

-----------------------------------------------------------------------------
(* Variables *)

Clear(st, vs) ==
  [st EXCEPT !.values   = [v \in Variable |-> IF v \in vs THEN Unset ELSE @[v]],
             !.counters = [v \in Variable |-> IF v \in vs THEN Unset ELSE @[v]],
             !.expiry   = [v \in Variable |-> IF v \in vs THEN Unset ELSE @[v]]]

\* Mutant: a variable is still there at the instant it expires.
ExpireLate(st) == Clear(st, {v \in Variable : st.expiry[v] # Unset /\ now > st.expiry[v]})

Expire(st) == Clear(st, {v \in Variable : st.expiry[v] # Unset /\ now >= st.expiry[v]})

SetVariable(st, v, value, ttl) ==
  [st EXCEPT !.values[v] = value, !.expiry[v] = IF ttl > 0 THEN now + ttl ELSE Unset]

CounterBase(st, act) ==
  CASE st.counters[act.var] # Unset -> st.counters[act.var]
    [] st.counters[act.var] = Unset /\ st.values[act.var] >= 0 -> st.values[act.var]
    [] OTHER -> act.value

ApplyVariableAction(st, act) ==
  CASE act.op = "Clear"    -> Clear(st, {act.var})
    [] act.op = "SetValue" -> SetVariable(st, act.var, act.value, act.ttl)
    [] act.op = "SetCounter" ->
         LET updated == CounterBase(st, act) + 1
         IN  SetVariable([st EXCEPT !.counters[act.var] = updated], act.var, updated, act.ttl)

-----------------------------------------------------------------------------
(* Repeated counts: keyed by trigger for {counter}, by timer name for {repeated} *)

UpdateRepeated(d, reset) ==
  [count |-> IF d.count = 0 \/ now - d.last > reset THEN 1 ELSE d.count + 1, last |-> now]

RepeatedOf(st, i, name) ==
  LET found == {r \in st.repeated : r.trigger = i /\ r.name = name}
  IN  IF found = {} THEN NoRepeat ELSE (CHOOSE r \in found : TRUE).data

ForgetRepeated(st, i, name) == {r \in st.repeated : r.trigger # i \/ r.name # name}

CountTimerName(st, i, name) ==
  [st EXCEPT !.repeated =
     ForgetRepeated(st, i, name)
       \cup {[trigger |-> i, name |-> name,
              data |-> UpdateRepeated(RepeatedOf(st, i, name), Library[i].reset)]}]

-----------------------------------------------------------------------------
(* Firing a trigger.  A call works on c = [st, out, started, changed]      *)

Stage(c, phase, timer) ==
  [c EXCEPT !.out = Append(@, [phase |-> phase, trigger |-> timer.trigger, id |-> timer.id,
                               fresh |-> TRUE])]

\* Captures are substituted in the template, variables only in the display name.
Template(i, line)        == <<Library[i].name[line], Unset>>
DisplayName(st, i, line) ==
  <<Library[i].name[line],
    IF Library[i].nameVar = {} THEN Unset ELSE st.values[CHOOSE v \in Library[i].nameVar : TRUE]>>

OwnTimer(t, i, name, sameName) == t.trigger = i /\ (sameName => t.name = name)
IgnoresRunning(st, i, name) ==
  LET mode == Library[i].mode
      same == mode = "IgnoreIfSameNameRunning"
  IN  /\ mode \in {"IgnoreIfAnyRunning", "IgnoreIfSameNameRunning"}
      /\ \E n \in DOMAIN st.timers : OwnTimer(st.timers[n], i, name, same)
KeptTimers(st, i, name) ==
  LET mode == Library[i].mode
      same == mode = "RestartSameName"
      Kept(t) == ~OwnTimer(t, i, name, same)
  IN  IF mode \in {"RestartAll", "RestartSameName"} THEN SelectSeq(st.timers, Kept) ELSE st.timers

TimerDuration(i, line, loop) ==
  IF loop = 0 /\ Library[i].kind # "Looping" /\ Library[i].dynamic[line] > 0
  THEN Library[i].dynamic[line] ELSE Library[i].duration

StartTimer(c, i, line, loop) ==
  LET t    == Library[i]
      name == DisplayName(c.st, i, line)
      len  == TimerDuration(i, line, loop)
      new  == [trigger |-> i, id |-> c.started + 1, name |-> name, end |-> now + len,
               warningAt |-> IF t.warning > 0 /\ len > t.warning THEN now + len - t.warning
                             ELSE Unset,
               warned |-> FALSE, loop |-> loop, line |-> line]
  IN  IF len = 0 THEN c
      ELSE IF IgnoresRunning(c.st, i, name) THEN [c EXCEPT !.changed = TRUE]
      ELSE [c EXCEPT !.st.timers = Append(KeptTimers(c.st, i, name), new),
                     !.started = @ + 1, !.changed = TRUE]

Lock(st, i, loop) ==
  IF loop = 0 /\ Library[i].lockout > 0
  THEN [st EXCEPT !.lockout[i] = now + Library[i].lockout] ELSE st
CountFiring(st, i) ==
  IF Library[i].counts THEN [st EXCEPT !.counter[i] = UpdateRepeated(@, Library[i].reset)] ELSE st

LockedOut(st, i, loop) ==
  loop = 0 /\ Library[i].lockout > 0 /\ st.lockout[i] # Unset /\ now <= st.lockout[i]

\* The variables a firing depends on have not outlived their time.
DependsOnLive(st, i) ==
  \A v \in Library[i].needs \ Library[i].captures : st.expiry[v] = Unset \/ now < st.expiry[v]

HandleTrigger(c, i, line, loop) ==
  LET counted  == CountFiring(Lock(c.st, i, loop), i)
      assigned == FoldLeft(ApplyVariableAction, counted, Library[i].actions)
      named    == IF Library[i].repeats THEN CountTimerName(assigned, i, Template(i, line))
                  ELSE assigned
      timed    == StartTimer([c EXCEPT !.st = named], i, line, loop)
  IN  IF LockedOut(c.st, i, loop) THEN c
      ELSE [timed EXCEPT !.out = Append(@, [phase |-> "Initial", trigger |-> i, id |-> 0,
                                            fresh |-> loop > 0 \/ DependsOnLive(c.st, i)])]

-----------------------------------------------------------------------------
(* One line *)

\* The pattern, its regex budget and the pattern of the previous line.
MatchesLine(st, i, line) ==
  /\ line \in Library[i].hit \ Library[i].over
  /\ Library[i].prev # {} => (st.previous # <<>> /\ st.previous[1] \in Library[i].prev)
ConditionPasses(st, i) ==
  \A v \in Library[i].needs : st.values[v] # Unset \/ v \in Library[i].captures

\* Variables expire at the first match of a line; a second expiry changes nothing.
EvaluateTrigger(c, i, line) ==
  LET expired == [c EXCEPT !.st = Expire(@)]
  IN  CASE i \in c.st.disabled -> c
        [] i \notin c.st.disabled /\ line \in Library[i].over ->
             [c EXCEPT !.st.disabled = @ \cup {i}]
        [] i \notin c.st.disabled /\ line \notin Library[i].over ->
             IF ~MatchesLine(c.st, i, line) THEN c
             ELSE IF ~ConditionPasses(expired.st, i) THEN expired
             ELSE HandleTrigger(expired, i, line, 0)

ClearEndVariables(st, i) == Clear(st, Library[i].clears)

\* The counts are those before any timer of this line ends.
EndsEarly(st, t, line) ==
  \/ line \in Library[t.trigger].enders
  \/ /\ Library[t.trigger].stop > 0 /\ (Library[t.trigger].counts \/ Library[t.trigger].repeats)
     /\ \/ RepeatedOf(st, t.trigger, t.name).count >= Library[t.trigger].stop
        \/ st.counter[t.trigger].count >= Library[t.trigger].stop

EndEarly(c, t) ==
  LET reset == [c EXCEPT !.st.repeated = ForgetRepeated(c.st, t.trigger, t.name),
                         !.st.counter[t.trigger] = NoRepeat, !.changed = TRUE]
      fired == Stage([reset EXCEPT !.st = Expire(@)], "TimerEndEarly", t)
  IN  [fired EXCEPT !.st = ClearEndVariables(@, t.trigger)]

CheckTimerEnders(c, line) ==
  LET Ends(t)  == EndsEarly(c.st, t, line)
      Stays(t) == ~EndsEarly(c.st, t, line)
  IN  FoldLeft(EndEarly, [c EXCEPT !.st.timers = SelectSeq(@, Stays)],
               SelectSeq(c.st.timers, Ends))

\* `active` is sorted and deduplicated.
InOrder(S) == SetToSortSeq(S, <)

ProcessLine(st, key, line) ==
  LET Evaluate(c, i) == EvaluateTrigger(c, i, line)
      fired == FoldLeft(Evaluate, [st |-> st, out |-> <<>>, started |-> started,
                                   changed |-> FALSE], InOrder(ActiveFor[key]))
      ended == CheckTimerEnders(fired, line)
  IN  [ended EXCEPT !.st.previous = <<line>>]

-----------------------------------------------------------------------------
(* The clock *)

WarningDue(t) == ~t.warned /\ t.warningAt # Unset /\ now >= t.warningAt
IsEnded(t)    == now >= t.end

Warn(c, t) == Stage([c EXCEPT !.st = Expire(@)], "TimerWarning", t)
EndNaturally(c, t) ==
  LET fired   == Stage([c EXCEPT !.st = Expire(@), !.changed = TRUE], "TimerEnd", t)
      cleared == [fired EXCEPT !.st = ClearEndVariables(@, t.trigger)]
  IN  IF Library[t.trigger].kind = "Looping" /\ Library[t.trigger].loops > t.loop
      THEN HandleTrigger(cleared, t.trigger, t.line, t.loop + 1) ELSE cleared

AdvanceCharacter(c, st) ==
  LET due     == SelectSeq(st.timers, WarningDue)
      Marked(t) == [t EXCEPT !.warned = @ \/ WarningDue(t)]
      marked  == [n \in DOMAIN st.timers |-> Marked(st.timers[n])]
      warned  == FoldLeft(Warn, [c EXCEPT !.st = [st EXCEPT !.timers = marked]], due)
      Runs(t) == ~IsEnded(t)
  IN  FoldLeft(EndNaturally, [warned EXCEPT !.st.timers = SelectSeq(@, Runs)],
               SelectSeq(marked, IsEnded))

\* The characters share nothing, so the order of the map does not matter.
Advanced ==
  LET Step(acc, k) ==
        LET c == AdvanceCharacter([acc EXCEPT !.st = characters[k]], characters[k])
        IN  [c EXCEPT !.all[k] = c.st]
  IN  FoldLeft(Step, [st |-> NewCharacter, out |-> <<>>, started |-> started,
                      changed |-> FALSE, all |-> characters], SetToSeq(Key))

-----------------------------------------------------------------------------
(* The evaluator, the worker's frames and the overlay *)

TimerFrame(chars) ==
  UNION {{[key |-> k, id |-> t.id, name |-> t.name, end |-> t.end] : t \in ToSet(chars[k].timers)} :
           k \in Key}

PhasesOf(events, id) ==
  LET About(e) == e.id = id
      own == SelectSeq(events, About)
  IN  [n \in DOMAIN own |-> own[n].phase]

\* timers_changed: recompute has_timers and post the new frame.
Commit(chars, call) ==
  /\ characters' = chars
  /\ started' = call.started
  /\ batch' = call.out
  /\ fate' = [id \in 1..call.started |-> (IF id <= started THEN fate[id] ELSE <<>>)
                                           \o PhasesOf(call.out, id)]
  /\ hasTimers' = IF call.changed THEN TimerFrame(chars) # {} ELSE hasTimers
  /\ frameBox' = IF call.changed THEN <<TimerFrame(chars)>> ELSE frameBox

WorkerReadsLine(k, line) ==
  /\ linesRead < MaxLinesRead /\ linesRead' = linesRead + 1
  /\ \E c \in {ProcessLine(characters[k], k, line)} :
       Commit([characters EXCEPT ![k] = c.st], c)
  /\ UNCHANGED <<now, shownTimers, reloads>>

WorkerAdvances ==
  /\ hasTimers
  /\ UNCHANGED <<now, shownTimers, linesRead, reloads>>
  /\ \E c \in {Advanced} : Commit(c.all, c)

\* A new library: the engine starts over and an empty frame clears the view.
ReloadLibrary ==
  /\ reloads < MaxReloads /\ reloads' = reloads + 1
  /\ characters' = [k \in Key |-> NewCharacter] /\ hasTimers' = FALSE
  /\ frameBox' = <<{}>> /\ batch' = <<>>
  /\ UNCHANGED <<now, shownTimers, started, fate, linesRead>>

\* The overlay takes the newest frame, and drops what expires between frames.
OverlayTakesFrame ==
  /\ frameBox # <<>>
  /\ shownTimers' = frameBox[1] /\ frameBox' = <<>>
  /\ UNCHANGED <<now, characters, hasTimers, started, batch, fate, linesRead, reloads>>
OverlayDropsExpired ==
  /\ \E t \in shownTimers : now >= t.end
  /\ shownTimers' = {t \in shownTimers : now < t.end}
  /\ UNCHANGED <<now, characters, hasTimers, frameBox, started, batch, fate, linesRead, reloads>>

ClockTicks ==
  /\ now < MaxTime /\ now' = now + 1
  /\ UNCHANGED <<characters, hasTimers, frameBox, shownTimers, started, batch, fate, linesRead, reloads>>

TrigInit ==
  /\ now = 0 /\ characters = [k \in Key |-> NewCharacter] /\ hasTimers = FALSE
  /\ frameBox = <<>> /\ shownTimers = {} /\ started = 0 /\ batch = <<>> /\ fate = <<>>
  /\ linesRead = 0 /\ reloads = 0

TrigNext ==
  \/ \E k \in Key, line \in Line : WorkerReadsLine(k, line)
  \/ WorkerAdvances \/ ReloadLibrary
  \/ OverlayTakesFrame \/ OverlayDropsExpired \/ ClockTicks

TrigSpec == TrigInit /\ [][TrigNext]_trigVars

\* advance stutters unless something is due.
SomethingDue ==
  hasTimers /\ \E k \in Key : \E n \in DOMAIN characters[k].timers :
    WarningDue(characters[k].timers[n]) \/ IsEnded(characters[k].timers[n])
-----------------------------------------------------------------------------
(* Properties *)

TimersOf(k) == {characters[k].timers[n] : n \in DOMAIN characters[k].timers}
AllTimers   == UNION {TimersOf(k) : k \in Key}

\* Types, and no timer beyond the loops its trigger allows.
TrigTypeOK ==
  /\ now \in 0..MaxTime /\ linesRead \in 0..MaxLinesRead /\ hasTimers \in BOOLEAN
  /\ \A t \in AllTimers : /\ t.id \in 1..started /\ t.trigger \in Index
                          /\ t.loop \in 0..Library[t.trigger].loops
  /\ Len(frameBox) <= 1

\* The stages of a timer come in order and at most once: a warning before the end, one
\* end, natural or early, and nothing afterwards; a running timer has not ended
\* (process_line, advance and check_timer_enders, whatever lines and delays come between).
TimerLifecycle ==
  /\ \A id \in 1..started :
       fate[id] \in {<<>>, <<"TimerWarning">>, <<"TimerEnd">>, <<"TimerEndEarly">>,
                     <<"TimerWarning", "TimerEnd">>, <<"TimerWarning", "TimerEndEarly">>}
  /\ \A t \in AllTimers : fate[t.id] = IF t.warned THEN <<"TimerWarning">> ELSE <<>>

\* What a restart mode promises holds over loops, restarts and renamed timers: at most one
\* timer of the trigger, or at most one of each displayed name (start_timer).
RestartModesHold ==
  \A k \in Key : \A t, u \in TimersOf(k) :
    (t.trigger = u.trigger /\ t.id # u.id) =>
      /\ Library[t.trigger].mode \notin {"RestartAll", "IgnoreIfAnyRunning"}
      /\ Library[t.trigger].mode \in {"RestartSameName", "IgnoreIfSameNameRunning"} =>
           t.name # u.name

\* has_timers is never stale, so advance is never skipped while a timer runs, and once the
\* newest frame is taken the overlay shows exactly the timers that run and have not expired
\* (TriggerEvaluator::process and advance, publish_timer_frame, replace_frame).
FramesCurrent ==
  /\ hasTimers = (AllTimers # {})
  /\ frameBox = <<>> => {t.id : t \in {s \in shownTimers : now < s.end}}
                         = {t.id : t \in {s \in AllTimers : now < s.end}}

\* A trigger with a condition never fires on a variable whose time to live is over
\* (VariableStore::expire before every evaluation).
LiveVariablesOnly == \A n \in DOMAIN batch : batch[n].fresh

\* A timer past its end does not stay, neither in the engine nor on the overlay (liveness of the
\* worker's advance and of the overlay's expiry).
TimersEnd == []<>(\A t \in AllTimers \cup shownTimers : t.end > now)

\* Timers start, warn, end and are shown as their triggers say.
TimersSound ==
  TrigTypeOK /\ TimerLifecycle /\ RestartModesHold /\ FramesCurrent /\ LiveVariablesOnly
=============================================================================
