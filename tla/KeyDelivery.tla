---------------------------- MODULE KeyDelivery ----------------------------
(***************************************************************************)
(* Keyboard delivery to background EverQuest clients.  Two sources share   *)
(* each client's shared-memory mapping: the physical keys the low-level    *)
(* hook broadcasts (crates/stonemite/src/broadcast.rs) and the targeted    *)
(* key sequences of the control API (crates/stonemite/src/control.rs).     *)
(* Every handler runs on the tray thread, so one handler is one action.    *)
(*                                                                         *)
(* A request's content is fixed by the constant Job; a stroke is the set   *)
(* of scan codes it presses, a program a sequence of strokes.  Whether an  *)
(* input's next_step has been reached is the flag `wait'.  Keys the Mouse  *)
(* Clutch swallows never get this far (module MouseClutch).                *)
(***************************************************************************)
EXTENDS Naturals, Sequences, FiniteSets

CONSTANTS
  Pid,          \* EverQuest processes
  NoPid,
  Scan,         \* DirectInput scan codes
  Modifier,     \* is_modifier_scan()
  Req,          \* control requests that deliver input
  Job,          \* Req -> [pids, prog, batch]
  Local,        \* the completion of an input the overlay started itself
  LocalProg,    \* its program
  QueueCap,     \* COMMAND_CAPACITY
  PidReports,   \* process sets the overlay's poll may report
  MayFocus,     \* processes that may take the foreground in this instance
  Typeable,     \* keys the user may press in this instance
  Filters,      \* filters (sets of blocked keys) the settings may hold
  Faults        \* may hooks, timers or CreateFileMapping fail?

Program == {s \in Seq((SUBSET Scan) \ {{}}) : s # <<>>}

ASSUME PidAssumption == NoPid \notin Pid
ASSUME LocalAssumption == Local \notin Req
ASSUME ScanAssumption == Modifier \subseteq Scan /\ Typeable \subseteq Scan
ASSUME JobAssumption ==
  /\ LocalProg \in Program
  /\ \A r \in Req : /\ Job[r].prog \in Program
                    /\ Job[r].pids \in (SUBSET Pid) \ {{}}
                    /\ Job[r].batch \in BOOLEAN
                    /\ Job[r].batch \/ \E p \in Pid : Job[r].pids = {p}
ASSUME InstanceAssumption ==
  /\ PidReports \subseteq SUBSET Pid
  /\ MayFocus \subseteq Pid
  /\ Filters \subseteq SUBSET Scan
  /\ Faults \in BOOLEAN
  /\ QueueCap \in Nat

VARIABLES
  \* The world.
  foreground,    \* process of the foreground window, NoPid when not EverQuest
  held,          \* keys physically down
  acked,         \* processes whose proxy acknowledged the mapping
  \* BroadcastState.
  running, loaded, targets, activePid, broadcasting, wasForeground, blocked,
  bkeys, tkeys,  \* ProcessShm.broadcast_keys, targeted_keys
  tactive,       \* processes whose ProcessShm has targeted_active
  \* The mappings.
  keys,          \* controller_keys
  sources,       \* controller_keyboard_active
  suppressed,    \* mappings with the suppress flag
  \* UiState.
  input, batch, timer, queue,
  \* What the callers of the control API have seen, and a history of the
  \* strokes that were completely down in a mapping.
  reply, pressed

worldVars  == <<foreground, held, acked>>
targetVars == <<running, loaded, targets, activePid>>
castVars   == <<broadcasting, wasForeground, blocked>>
shmVars    == <<bkeys, tkeys, tactive, keys, sources, suppressed>>
inputVars  == <<input, batch, timer, queue, reply, pressed>>
vars == <<worldVars, targetVars, castVars, shmVars, inputVars>>

Phase   == {"Press", "PressChord", "Release", "ReleaseModifiers", "Finish"}
Source  == {"Broadcast", "Targeted"}
NoInput == [by |-> "None"]
NoBatch == [remaining |-> {}, error |-> FALSE]

ProgOf(by)  == IF by = Local THEN LocalProg ELSE Job[by].prog
Running     == {p \in Pid : input[p] # NoInput}
InputsOf(r) == {p \in Running : input[p].by = r}

----------------------------------------------------------------------------
(* Strokes and their phases.                                               *)

HasModifierChord(s) == s \cap Modifier # {} /\ s \ Modifier # {}

\* phase_scans(): the keys a phase presses or releases.
PhaseScans(s, ph) ==
  CASE ph = "Press"            -> IF HasModifierChord(s) THEN s \cap Modifier ELSE s
    [] ph = "PressChord"       -> s \ Modifier
    [] ph = "Release"          -> IF HasModifierChord(s) THEN s \ Modifier ELSE s
    [] ph = "ReleaseModifiers" -> s \cap Modifier
    [] ph = "Finish"           -> {}

Stroke(i) == ProgOf(i.by)[i.index]

\* The next step of an input and the time it has to wait for it.
GoTo(i, ph) == [i EXCEPT !.phase = ph, !.wait = TRUE]

\* Mutant: the last stroke is typed again and again.
CompleteStrokeAgain(i) == GoTo(i, "Press")

\* complete_stroke()
CompleteStroke(i) ==
  IF i.index = Len(ProgOf(i.by)) THEN GoTo(i, "Finish")
  ELSE [i EXCEPT !.index = @ + 1, !.phase = "Press", !.wait = TRUE]

\* What advance_one_input() makes of an input whose phase it has written.
NextPhase(i) ==
  LET chord == HasModifierChord(Stroke(i))
  IN  CASE i.phase = "Press" /\ chord   -> GoTo(i, "PressChord")
        [] i.phase = "Press" /\ ~chord  -> GoTo(i, "Release")
        [] i.phase = "PressChord"       -> GoTo(i, "Release")
        [] i.phase = "Release" /\ chord -> GoTo(i, "ReleaseModifiers")
        [] OTHER                        -> CompleteStroke(i)

\* The keys of its stroke an input has down before its next phase.
Down(i) ==
  LET s == Stroke(i)
  IN  CASE i.phase \in {"Press", "Finish"} -> {}
        [] i.phase \in {"PressChord", "ReleaseModifiers"} -> s \cap Modifier
        [] i.phase = "Release" -> s

----------------------------------------------------------------------------
(* The mapping of one process.                                             *)

\* Mutant: a targeted release lets go of keys that broadcast holds.
WriteTargetedOnly(old, S, b, t) == (old \ S) \cup (S \cap t)

\* write_combined_key() on each key of S: a key is down while either source
\* holds it.
WriteCombined(old, S, b, t) == (old \ S) \cup (S \cap (b \cup t))

Ready(p) == p \in targets /\ p \in acked

\* begin_targeted_input() on the processes of S.
BeginTargeted(S) ==
  /\ tactive' = tactive \cup S
  /\ sources' = [p \in Pid |-> IF p \in S THEN sources[p] \cup {"Targeted"} ELSE sources[p]]

----------------------------------------------------------------------------

Init ==
  /\ foreground = NoPid
  /\ held = {}
  /\ acked = {}
  /\ running = TRUE
  /\ loaded = {} /\ targets = {}
  /\ activePid = NoPid
  /\ broadcasting = FALSE
  /\ wasForeground = FALSE
  /\ blocked \in Filters
  /\ bkeys = [p \in Pid |-> {}] /\ tkeys = [p \in Pid |-> {}]
  /\ tactive = {}
  /\ keys = [p \in Pid |-> {}]
  /\ sources = [p \in Pid |-> {}]
  /\ suppressed = {}
  /\ input = [p \in Pid |-> NoInput]
  /\ batch = [r \in Req |-> NoBatch]
  /\ timer = FALSE
  /\ queue = <<>>
  /\ reply = [r \in Req |-> "unsent"]
  /\ pressed = {}

----------------------------------------------------------------------------
(* The world and the overlay.                                              *)

FocusChange(p) ==
  /\ foreground # p
  /\ foreground' = p
  /\ UNCHANGED <<held, acked, targetVars, castVars, shmVars, inputVars>>

ProxyAck(p) ==
  /\ p \in targets \ acked
  /\ acked' = acked \cup {p}
  /\ UNCHANGED <<foreground, held, targetVars, castVars, shmVars, inputVars>>

\* The key sets f of the processes in S; the others have none.
Only(S, f) == [p \in Pid |-> IF p \in S THEN f[p] ELSE {}]

\* poll_inner(): set_active(false) when the last client is gone and the setting
\* says so, update_targets(), publish().  A process that is no longer reported
\* has its mapping retired; new is the set of mappings created.
Poll(pids, active, new, off) ==
  LET kept == targets \cap pids
      on   == broadcasting /\ ~off
  IN  /\ running
      /\ off => pids = {} /\ loaded # {} /\ broadcasting
      /\ new = pids \ targets \/ Faults
      /\ broadcasting' = on
      /\ loaded' = pids
      /\ targets' = kept \cup new
      /\ activePid' = active
      /\ bkeys' = Only(kept, bkeys)
      /\ tkeys' = Only(kept, tkeys)
      /\ tactive' = tactive \cap kept
      /\ keys' = Only(kept, keys)
      /\ sources' = [p \in Pid |-> IF p \in kept THEN sources[p]
                                   ELSE IF p \in new /\ on THEN {"Broadcast"} ELSE {}]
      /\ suppressed' = (kept \cup new) \ {active}
      /\ UNCHANGED <<worldVars, running, wasForeground, blocked, inputVars>>

SetActivePid(p) ==
  /\ running
  /\ p \in loaded
  /\ activePid' = p
  /\ suppressed' = targets \ {p}
  /\ UNCHANGED <<worldVars, running, loaded, targets, castVars, bkeys, tkeys,
                 tactive, keys, sources, inputVars>>

----------------------------------------------------------------------------
(* Broadcasting.                                                           *)

\* set_active(): turning on is undone when the hook cannot be installed.
ClearBroadcast(on) ==
  LET clear == IF on THEN {} ELSE targets
  IN  /\ bkeys' = [p \in Pid |-> IF p \in clear THEN {} ELSE bkeys[p]]
      /\ keys' = [p \in Pid |-> IF p \in clear THEN WriteCombined(keys[p], Scan, {}, tkeys[p])
                                ELSE keys[p]]

SetActive(on) ==
  /\ running
  /\ broadcasting # on
  /\ broadcasting' = on
  /\ ClearBroadcast(on)
  /\ sources' = [p \in Pid |-> IF p \notin targets THEN sources[p]
                               ELSE IF on THEN sources[p] \cup {"Broadcast"}
                               ELSE sources[p] \ {"Broadcast"}]
  /\ UNCHANGED <<worldVars, targetVars, wasForeground, blocked, tkeys, tactive,
                 suppressed, inputVars>>

\* on_settings_changed(): the filter half.
OnSettingsChanged(f) ==
  /\ running
  /\ blocked' = f
  /\ UNCHANGED <<worldVars, targetVars, broadcasting, wasForeground, shmVars,
                 inputVars>>

\* The clients a key event goes to, and those cleared when EverQuest is found
\* to have lost the focus.
BroadcastTo(p) == p \in targets /\ p # foreground
ClearedOnFocusLoss(p) == p \in targets /\ p # activePid

\* The keys of p the event writes, and the broadcast keys it leaves down.
KeysTouched(p, k) ==
  IF foreground \notin loaded
  THEN IF wasForeground /\ ClearedOnFocusLoss(p) THEN Scan ELSE {}
  ELSE IF broadcasting /\ k \notin blocked /\ BroadcastTo(p) THEN {k} ELSE {}

KeysAfter(p, k, down) ==
  IF down /\ foreground \in loaded THEN bkeys[p] \cup KeysTouched(p, k)
  ELSE bkeys[p] \ KeysTouched(p, k)

\* ll_keyboard_proc() on a press, repeat or release of k.  The hook is
\* installed while broadcasting is on, and may be for the clutch otherwise.
KeyEvent(k, down, seen) ==
  /\ down \/ k \in held
  /\ held' = IF down THEN held \cup {k} ELSE held \ {k}
  /\ seen => running
  /\ running /\ broadcasting => seen
  /\ bkeys' = [p \in Pid |-> IF seen THEN KeysAfter(p, k, down) ELSE bkeys[p]]
  /\ keys' = [p \in Pid |-> IF seen THEN WriteCombined(keys[p], KeysTouched(p, k), bkeys'[p], tkeys[p])
                            ELSE keys[p]]
  /\ wasForeground' = IF seen THEN foreground \in loaded ELSE wasForeground
  /\ UNCHANGED <<foreground, acked, targetVars, broadcasting, blocked, tkeys,
                 tactive, sources, suppressed, inputVars>>

----------------------------------------------------------------------------
(* Requests.                                                               *)

Closed(r) == reply[r] = "failed"

\* enqueue(): refused when the queue is full; when the UI thread cannot be
\* notified the caller fails although the command stays queued.
Enqueue(r, notified) ==
  /\ running
  /\ reply[r] = "unsent"
  /\ notified \/ Faults
  /\ IF Len(queue) < QueueCap
     THEN /\ queue' = Append(queue, r)
          /\ reply' = [reply EXCEPT ![r] = IF notified THEN "pending" ELSE "failed"]
     ELSE queue' = queue /\ reply' = [reply EXCEPT ![r] = "failed"]
  /\ UNCHANGED <<worldVars, targetVars, castVars, shmVars, input, batch, timer,
                 pressed>>

\* INPUT_TIMEOUT, or the connection that asked is gone.
GiveUp(r) ==
  /\ reply[r] = "pending"
  /\ reply' = [reply EXCEPT ![r] = "failed"]
  /\ UNCHANGED <<worldVars, targetVars, castVars, shmVars, input, batch, timer,
                 queue, pressed>>

FirstStep(by) == [by |-> by, index |-> 1, phase |-> "Press", wait |-> TRUE]

\* start_resolved_input(), prepare_ and start_eq_action_batch(), and
\* send_invite_follow(): all or none of the processes of S start.
CanStart(S) ==
  /\ S \subseteq loaded
  /\ \A p \in S : Ready(p) /\ input[p] = NoInput /\ p \notin tactive

\* Whether SetTimer() succeeded, or was not needed.
TimerSetTo(ok) == ok \/ (Faults /\ Running = {})

Start(S, by) ==
  /\ BeginTargeted(S)
  /\ input' = [p \in Pid |-> IF p \in S THEN FirstStep(by) ELSE input[p]]
  /\ timer' = (timer \/ Running = {})
  /\ UNCHANGED <<bkeys, tkeys, keys, suppressed, pressed>>

Refuse == UNCHANGED <<shmVars, input, timer, pressed>>

\* drain_commands() on the next queued command.
DrainCommand(ok) ==
  LET r == Head(queue)
      S == Job[r].pids
      starts == ~Closed(r) /\ CanStart(S) /\ ok
  IN  /\ running
      /\ queue # <<>>
      /\ TimerSetTo(ok)
      /\ queue' = Tail(queue)
      /\ IF starts THEN Start(S, r) ELSE Refuse
      /\ batch' = IF starts /\ Job[r].batch
                  THEN [batch EXCEPT ![r] = [remaining |-> S, error |-> FALSE]] ELSE batch
      /\ reply' = IF starts \/ Closed(r) THEN reply ELSE [reply EXCEPT ![r] = "err"]
      /\ UNCHANGED <<worldVars, targetVars, castVars>>

SendInviteFollow(p) ==
  /\ running
  /\ CanStart({p})
  /\ Start({p}, Local)
  /\ UNCHANGED <<worldVars, targetVars, castVars, batch, queue, reply>>

\* Time reaches an input's next_step.
StepDue(p) ==
  /\ p \in Running
  /\ input[p].wait
  /\ input' = [input EXCEPT ![p].wait = FALSE]
  /\ UNCHANGED <<worldVars, targetVars, castVars, shmVars, batch, timer, queue,
                 reply, pressed>>

\* input_completion_is_closed()
CompletionClosed(i) ==
  /\ i.by # Local
  /\ Closed(i.by) \/ (Job[i.by].batch /\ batch[i.by] = NoBatch)

\* What advance_one_input() does with the input of p.
Fate(p) ==
  LET i == input[p]
  IN  IF i = NoInput THEN "none"
      ELSE IF CompletionClosed(i) THEN "closed"
      ELSE IF p \notin loaded THEN "gone"
      ELSE IF i.wait THEN "waits"
      ELSE IF i.phase = "Finish" THEN "delivered"
      ELSE IF p \notin tactive THEN "lost"
      ELSE "steps"

Finished(p) == Fate(p) \in {"closed", "gone", "delivered", "lost"}

\* Mutant: a target keeps its keys when its sequence ends.
TargetedAfterKeeping(p) ==
  LET i == input[p]
  IN  IF Fate(p) # "steps" THEN tkeys[p]
      ELSE IF i.phase \in {"Press", "PressChord"} THEN tkeys[p] \cup PhaseScans(Stroke(i), i.phase)
      ELSE tkeys[p] \ PhaseScans(Stroke(i), i.phase)

\* The targeted keys of p after advance_one_input(); finish_targeted_input()
\* releases them all.
TargetedAfter(p) ==
  LET i == input[p]
  IN  IF Finished(p) THEN {}
      ELSE IF Fate(p) # "steps" THEN tkeys[p]
      ELSE IF i.phase \in {"Press", "PressChord"} THEN tkeys[p] \cup PhaseScans(Stroke(i), i.phase)
      ELSE tkeys[p] \ PhaseScans(Stroke(i), i.phase)

\* Mutant: the batch is answered with the result of its last input.
BatchAnswerOfLast(r) ==
  IF \E p \in InputsOf(r) : Fate(p) \in {"gone", "lost"} THEN "err" ELSE "ok"

\* finish_input() for the inputs a batch lost: its request is answered when
\* the last of them is done, with an error if any of them failed.
BatchAnswer(r) ==
  IF batch[r].error \/ \E p \in InputsOf(r) : Fate(p) \in {"gone", "lost"} THEN "err" ELSE "ok"

BatchAfter(r) ==
  LET left == {p \in batch[r].remaining : ~(p \in InputsOf(r) /\ Finished(p))}
  IN  IF left = {} THEN NoBatch
      ELSE [remaining |-> left, error |-> BatchAnswer(r) = "err"]

ReplyAfter(r) ==
  IF reply[r] # "pending" \/ InputsOf(r) = {} THEN reply[r]
  ELSE IF Job[r].batch THEN IF BatchAfter(r) = NoBatch THEN BatchAnswer(r) ELSE "pending"
  ELSE IF \E p \in InputsOf(r) : Fate(p) = "delivered" THEN "ok"
  ELSE IF \E p \in InputsOf(r) : Fate(p) \in {"gone", "lost"} THEN "err"
  ELSE "pending"

\* advance_input(): the 10 ms timer callback, over every active input.
AdvanceInput ==
  LET steps == {p \in Pid : Fate(p) = "steps"}
      over  == {p \in Pid : Finished(p)}
  IN  /\ running
      /\ timer
      /\ tkeys' = [p \in Pid |-> TargetedAfter(p)]
      /\ keys' = [p \in Pid |-> WriteCombined(keys[p], (tkeys[p] \ tkeys'[p]) \cup (tkeys'[p] \ tkeys[p]),
                                              bkeys[p], tkeys'[p])]
      /\ tactive' = tactive \ over
      /\ sources' = [p \in Pid |-> IF p \in over THEN sources[p] \ {"Targeted"} ELSE sources[p]]
      /\ input' = [p \in Pid |-> IF p \in over THEN NoInput
                                 ELSE IF p \in steps THEN NextPhase(input[p]) ELSE input[p]]
      /\ batch' = [r \in Req |-> IF batch[r] = NoBatch THEN NoBatch ELSE BatchAfter(r)]
      /\ reply' = [r \in Req |-> ReplyAfter(r)]
      /\ timer' = (Running \ over # {})
      /\ pressed' = pressed \cup {<<input[p].by, p, input[p].index>> :
                                    p \in {q \in steps : input[q].by # Local /\ Stroke(input[q]) \subseteq tkeys'[q]}}
      /\ UNCHANGED <<worldVars, targetVars, castVars, bkeys, suppressed, queue>>

\* control::stop() and broadcast::cleanup(): every input is finished, every
\* mapping retired, and the callers see the dispatcher stop.
Stop ==
  /\ running
  /\ running' = FALSE
  /\ loaded' = {} /\ targets' = {} /\ activePid' = NoPid
  /\ broadcasting' = FALSE
  /\ bkeys' = [p \in Pid |-> {}] /\ tkeys' = [p \in Pid |-> {}]
  /\ tactive' = {}
  /\ keys' = [p \in Pid |-> {}]
  /\ sources' = [p \in Pid |-> {}]
  /\ suppressed' = {}
  /\ input' = [p \in Pid |-> NoInput]
  /\ batch' = [r \in Req |-> NoBatch]
  /\ timer' = FALSE
  /\ queue' = <<>>
  /\ reply' = [r \in Req |-> IF reply[r] = "pending" THEN "failed" ELSE reply[r]]
  /\ UNCHANGED <<worldVars, wasForeground, blocked, pressed>>

----------------------------------------------------------------------------

\* The overlay makes a focusable client the active one, or any if none is.
ActiveOf(pids) ==
  IF pids = {} THEN {NoPid}
  ELSE IF pids \cap MayFocus = {} THEN {CHOOSE p \in pids : TRUE}
  ELSE pids \cap MayFocus

World ==
  \/ \E p \in MayFocus \cup {NoPid} : FocusChange(p)
  \/ \E p \in Pid : ProxyAck(p)
  \/ \E pids \in PidReports : \E active \in ActiveOf(pids), new \in SUBSET (pids \ targets), off \in BOOLEAN :
       Poll(pids, active, new, off)
  \/ \E p \in MayFocus : SetActivePid(p)

Keyboard ==
  \/ Typeable # {} /\ \E on \in BOOLEAN : SetActive(on)
  \/ \E f \in Filters \ {blocked} : OnSettingsChanged(f)
  \/ \E k \in Typeable, down \in BOOLEAN, seen \in BOOLEAN : KeyEvent(k, down, seen)

Control ==
  \/ \E r \in Req, notified \in BOOLEAN : Enqueue(r, notified)
  \/ \E r \in Req : GiveUp(r)
  \/ \E ok \in BOOLEAN : DrainCommand(ok)
  \/ \E p \in Pid : SendInviteFollow(p)
  \/ \E p \in Pid : StepDue(p)
  \/ AdvanceInput
  \/ Stop

Next == World \/ Keyboard \/ Control

Spec == Init /\ [][Next]_vars

----------------------------------------------------------------------------
(* Properties.                                                             *)

Input == [by : Req \cup {Local}, index : Nat \ {0}, phase : Phase, wait : BOOLEAN]

\* Every variable has its type.
TypeOK ==
  /\ foreground \in Pid \cup {NoPid}
  /\ held \subseteq Scan
  /\ acked \subseteq Pid
  /\ running \in BOOLEAN
  /\ loaded \subseteq Pid
  /\ targets \subseteq loaded
  /\ activePid \in Pid \cup {NoPid}
  /\ broadcasting \in BOOLEAN
  /\ wasForeground \in BOOLEAN
  /\ blocked \subseteq Scan
  /\ bkeys \in [Pid -> SUBSET Scan]
  /\ tkeys \in [Pid -> SUBSET Scan]
  /\ tactive \subseteq targets
  /\ keys \in [Pid -> SUBSET Scan]
  /\ sources \in [Pid -> SUBSET Source]
  /\ suppressed \subseteq targets
  /\ input \in [Pid -> Input \cup {NoInput}]
  /\ \A p \in Running : input[p].index <= Len(ProgOf(input[p].by))
  /\ batch \in [Req -> [remaining : SUBSET Pid, error : BOOLEAN]]
  /\ timer \in BOOLEAN
  /\ queue \in Seq(Req)
  /\ reply \in [Req -> {"unsent", "pending", "ok", "err", "failed"}]
  /\ pressed \subseteq Req \X Pid \X (Nat \ {0})

\* A mapping shows exactly the keys either source holds: neither source
\* releases a key the other holds or leaves one behind, whatever is turned
\* off, cleared, finished or re-created in between; a retired mapping shows
\* none.
MappingIsUnion ==
  \A p \in Pid : /\ keys[p] = bkeys[p] \cup tkeys[p]
                 /\ sources[p] = {s \in Source : /\ p \in targets
                                                 /\ s = "Broadcast" => broadcasting
                                                 /\ s = "Targeted" => p \in tactive}

\* The targeted keys down in a mapping are those the sequence in progress for
\* that client has down in its current stroke; without a sequence none is.
TargetedKeysOwned ==
  \A p \in Pid : IF p \in tactive THEN p \in Running /\ tkeys[p] = Down(input[p])
                 ELSE tkeys[p] = {}

\* A batch that is not yet answered waits for exactly the inputs it started,
\* a request that is running has its inputs, and while any input is in
\* progress the timer that advances it is set.
BatchesTrackInputs ==
  /\ \A r \in Req : batch[r].remaining = IF Job[r].batch THEN InputsOf(r) ELSE {}
  /\ Running # {} => timer
  /\ \A r \in Req : reply[r] = "pending" =>
       InputsOf(r) # {} \/ \E n \in DOMAIN queue : queue[n] = r

\* Once broadcasting is off no client has a broadcast key down.
NoKeysOnceOff == ~broadcasting => \A p \in Pid : bkeys[p] = {}

\* A request is answered with success only if every stroke was completely down
\* in the mapping of every client it named.
AnswersTruthful ==
  \A r \in Req : reply[r] = "ok" =>
    \A p \in Job[r].pids, n \in DOMAIN Job[r].prog : <<r, p, n>> \in pressed

\* A key of a chord is down only together with the chord's modifiers.
ChordsOrdered ==
  [][\A p \in Running : HasModifierChord(Stroke(input[p])) =>
       \A k \in Stroke(input[p]) \ Modifier :
         k \in tkeys'[p] /\ k \notin tkeys[p] => Stroke(input[p]) \cap Modifier \subseteq tkeys[p]]_vars

\* The keys of a sequence are down exactly while it owns its client, in the order
\* of its chord, and whoever waits for it is answered.
KeysOwned == [](TypeOK /\ TargetedKeysOwned /\ BatchesTrackInputs) /\ ChordsOrdered

\* What the games see of the two sources that share a mapping.
MappingSound == MappingIsUnion /\ NoKeysOnceOff

\* Every targeted sequence ends and lets go of its client: no key stays down
\* because a caller vanished, a client was lost or a timer was not set.
InputsEnd == \A p \in Pid : []<>(p \notin tactive)

\* "EQ lost focus - release all stuck keyboard-broadcast keys": once the hook
\* has noticed that no client is in the foreground, no client has a broadcast
\* key down.
FocusLossReleases == ~wasForeground => \A p \in Pid : bkeys[p] = {}
=============================================================================
