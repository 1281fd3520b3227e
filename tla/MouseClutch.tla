---------------------------- MODULE MouseClutch ----------------------------
(***************************************************************************)
(* The Mouse Clutch of crates/stonemite/src/broadcast.rs: while it is      *)
(* engaged, physical mouse input of the foreground EverQuest client (the   *)
(* source) is also delivered to selected background clients.  The clutch   *)
(* is owned by a local key and by leased remote holds; every handler runs  *)
(* on the tray thread, so one handler is one action.                       *)
(*                                                                         *)
(* Deadlines are modelled by the time left until them: only the difference *)
(* between a deadline and GetTickCount64 is ever read.  Remote commands    *)
(* travel through the bounded FIFO of crates/stonemite/src/control.rs and  *)
(* are lost when it is full.  The keyboard half of the engine (which keys  *)
(* are broadcast) is module KeyDelivery; here `broadcasting' only matters  *)
(* because it shares the hooks with the clutch.                            *)
(***************************************************************************)
EXTENDS Naturals, Sequences, FiniteSets

CONSTANTS
  Pid,              \* EverQuest processes
  Vk,               \* virtual keys that may be bound to the clutch
  Button,           \* mouse buttons
  Session,          \* control connections (ids are never reused)
  HoldId,           \* hold identifiers a connection may use
  NoPid, NoVk, NoPending,
  PidReports,       \* process sets the overlay's poll may report
  MayFocus,         \* processes that may take the foreground in this instance
  MayExit,          \* processes that may exit in this instance
  EligibleReports,  \* geometry-compatible sets the overlay may report
  Drain,            \* MOUSE_DRAIN_MS, in model time units
  Lease,            \* REMOTE_MOUSE_CLUTCH_LEASE_MS, in model time units
  QueueCap,         \* COMMAND_CAPACITY
  ClosedCap,        \* closed sessions remembered (256 in the code)
  MaxSeq,           \* bound: commands one connection may issue
  HookFaults,       \* may SetWindowsHookEx / UnhookWindowsHookEx fail?
  BroadcastChoices  \* values set_active may be called with

ASSUME PidAssumption == NoPid \notin Pid
ASSUME VkAssumption == NoVk \notin Vk /\ NoPending \notin Vk \cup {NoVk}
ASSUME ReportsAssumption ==
  PidReports \subseteq SUBSET Pid /\ EligibleReports \subseteq SUBSET Pid
  /\ MayFocus \subseteq Pid /\ MayExit \subseteq Pid
ASSUME TimeAssumption == Drain \in Nat \ {0} /\ Lease \in Nat \ {0}
ASSUME BoundAssumption ==
  QueueCap \in Nat /\ ClosedCap \in Nat \ {0} /\ MaxSeq \in Nat
ASSUME FlagAssumption ==
  HookFaults \in BOOLEAN /\ BroadcastChoices \subseteq BOOLEAN

Owner == Session \X HoldId

VARIABLES
  \* The world outside the engine.
  foreground,   \* process of the foreground window, NoPid when not EverQuest
  proxy,        \* Pid -> "absent" | "ready" (acknowledged) | "dead" (and exited)
  physButtons,  \* mouse buttons physically down
  heldKeys,     \* keys physically down
  \* BroadcastState.
  running,      \* the engine exists
  eqPids, targets, selected, eligible, activePid,
  clutch,       \* struct MouseClutch
  holds, seqs, closed,
  binding, pending, keyIsDown,
  dirty, hooks, broadcasting,
  \* The control connections and the command queue.
  open, sent, queue,
  \* History: keys whose press was swallowed, and the last published status.
  eaten, shown

envVars    == <<foreground, proxy, physButtons, heldKeys>>
targetVars == <<eqPids, targets, selected, eligible, activePid>>
remoteVars == <<holds, seqs, closed>>
bindVars   == <<binding, pending, keyIsDown>>
hookVars   == <<hooks, broadcasting>>
clientVars == <<open, sent, queue>>
vars == <<envVars, running, targetVars, clutch, remoteVars, bindVars, dirty,
          hookVars, clientVars, eaten, shown>>

Phase  == {"Inactive", "Active", "Releasing", "Draining"}
Clutch == [phase : Phase, buttons : SUBSET Button, swallowed : Vk \cup {NoVk},
           local : BOOLEAN, source : Pid \cup {NoPid}, left : 0..Drain]
Hold   == [source : Pid \cup {NoPid}, left : 0..Lease]
Hooks  == [kb : BOOLEAN, ms : BOOLEAN]
HoldOp == {"Begin", "Renew", "End"}
Msg    == [session : Session, hold : HoldId, op : HoldOp, seq : 1..MaxSeq]
            \cup [session : Session, op : {"Close"}]

NoHold  == [source |-> NoPid, left |-> 0]
NoHolds == [o \in Owner |-> NoHold]
Held(hs)    == {o \in Owner : hs[o].source # NoPid}
AnyHeld(hs) == Held(hs) # {}

----------------------------------------------------------------------------
(* struct MouseClutch: its methods are functions from a clutch to a clutch.*)

\* status(): what the indicator and the control API show.
Status(c) == IF c.phase = "Draining" THEN "Releasing" ELSE c.phase

\* activate() succeeds: joining an active clutch needs the same source,
\* engaging needs every button up and a ready target.
CanActivate(c, src, hasTargets) ==
  IF c.phase = "Active" THEN c.source = src
  ELSE c.buttons = {} /\ hasTargets

Activate(c, src) ==
  IF c.phase = "Active" THEN c
  ELSE [c EXCEPT !.phase = "Active", !.source = src, !.left = 0]

\* Mutant: a drain waits one tick more than its bound.
BeginDrainTooLong(c) == [c EXCEPT !.phase = "Draining", !.left = Drain + 1]

BeginDrain(c) == [c EXCEPT !.phase = "Draining", !.left = Drain]

\* Mutant: a local release disengages although an API hold remains.
ReleaseIgnoringRemote(c, remote) ==
  IF c.local \/ c.phase # "Active" THEN c
  ELSE IF c.buttons = {} THEN BeginDrain(c)
  ELSE [c EXCEPT !.phase = "Releasing"]

ReleaseIfUnowned(c, remote) ==
  IF c.local \/ remote \/ c.phase # "Active" THEN c
  ELSE IF c.buttons = {} THEN BeginDrain(c)
  ELSE [c EXCEPT !.phase = "Releasing"]

OnKeyDown(c, vk, src, hasTargets) ==
  IF CanActivate(c, src, hasTargets)
  THEN [Activate(c, src) EXCEPT !.swallowed = vk, !.local = TRUE]
  ELSE [c EXCEPT !.swallowed = vk]

OnKeyUp(c, remote) ==
  ReleaseIfUnowned([c EXCEPT !.swallowed = NoVk, !.local = FALSE], remote)

SetButtonOnly(c, b, pressed) ==
  [c EXCEPT !.buttons = IF pressed THEN @ \cup {b} ELSE @ \ {b}]

SetButton(c, b, pressed) ==
  LET bs == IF pressed THEN c.buttons \cup {b} ELSE c.buttons \ {b}
      d  == [c EXCEPT !.buttons = bs]
  IN  IF c.phase = "Releasing" /\ bs = {} THEN BeginDrain(d) ELSE d

\* Mutant: a cancellation during a drain starts the bound anew.
CancelRestartingDrain(c) ==
  IF c.phase # "Inactive" THEN BeginDrain([c EXCEPT !.local = FALSE]) ELSE c

CancelBounded(c) ==
  LET d == [c EXCEPT !.local = FALSE]
  IN  IF c.phase \in {"Active", "Releasing"} THEN BeginDrain(d) ELSE d

ForceInactive(c) ==
  [c EXCEPT !.phase = "Inactive", !.local = FALSE, !.source = NoPid, !.left = 0]

DrainIsDue(c) == c.phase = "Draining" /\ c.left = 0

----------------------------------------------------------------------------
(* Targets and hooks.                                                      *)

\* proxy_is_ready(): the acknowledgement stays in the mapping when the
\* process exits; only the process handle tells that it is gone.
Ready(p) == proxy[p] \in {"ready", "dead"}
Alive(p) == proxy[p] # "dead"

MouseTargets(src) == {p \in targets \cap eligible : p # src /\ Ready(p)}

HasReadyMouseTargets(src) == src \in eligible /\ MouseTargets(src) # {}

\* mouse_clutch_availability_for() = Ready
ClutchAvailable ==
  /\ foreground # NoPid
  /\ activePid = foreground
  /\ foreground \in eqPids
  /\ HasReadyMouseTargets(foreground)

KeyboardHookNeeded(on, b, p, c) ==
  on \/ b # NoVk \/ p # NoPending \/ c.swallowed # NoVk

MouseHookNeeded(b, p, c, hs) ==
  b # NoVk \/ p # NoPending \/ AnyHeld(hs) \/ c.phase # "Inactive"

\* The possible results of reconcile_hooks() from hooks h.  A failed
\* installation returns before the removals; a failed removal leaves that hook
\* installed.
HookResult == [kb : BOOLEAN, ms : BOOLEAN, ok : BOOLEAN]

ReconcileHooks(h, kbNeed, msNeed) ==
  {r \in HookResult :
     /\ \/ kbNeed /\ ~h.kb /\ r.kb = h.kb /\ r.ms = h.ms /\ ~r.ok
        \/ msNeed /\ ~h.ms /\ r.kb = (h.kb \/ kbNeed) /\ ~r.ms /\ ~r.ok
        \/ /\ kbNeed => r.kb
           /\ msNeed => r.ms
           /\ r.kb => h.kb \/ kbNeed
           /\ r.ms => h.ms \/ msNeed
           /\ r.ok = ((r.kb => kbNeed) /\ (r.ms => msNeed))
     /\ HookFaults \/ r.ok}

\* reconcile_hooks() for broadcasting on, binding b, request p, clutch c and
\* holds hs.
Reconcile(h, on, b, p, c, hs) ==
  ReconcileHooks(h, KeyboardHookNeeded(on, b, p, c), MouseHookNeeded(b, p, c, hs))

HooksOf(r) == [kb |-> r.kb, ms |-> r.ms]
KeepHooks  == {[kb |-> hooks.kb, ms |-> hooks.ms, ok |-> TRUE]}

\* Installing the mouse hook samples the buttons.
Installed(h, g) == ~h.ms /\ g.ms

SampledIf(c, installed) ==
  IF installed THEN [c EXCEPT !.buttons = physButtons] ELSE c

\* Mutant: cancelling every owner does not mark the status for publication.
CancelAllQuietly(cond) ==
  /\ clutch' = IF cond THEN CancelBounded(clutch) ELSE clutch
  /\ holds' = IF cond THEN NoHolds ELSE holds
  /\ dirty' = dirty

\* cancel_all_clutch_owners(), when cond holds.
CancelAllIf(cond) ==
  /\ clutch' = IF cond THEN CancelBounded(clutch) ELSE clutch
  /\ holds' = IF cond THEN NoHolds ELSE holds
  /\ dirty' = (dirty \/ cond)

CanApplyPending(c, p) ==
  p # NoPending /\ c.phase = "Inactive" /\ c.swallowed = NoVk

\* A binding whose hooks cannot be installed is dropped.
BindingAfter(ok, b) == IF ok THEN b ELSE NoVk

\* apply_pending_clutch_binding() on clutch c, selection sel, holds hs and
\* request p, followed by the caller's own reconcile_hooks() when again holds.
ApplyPending(c, sel, hs, p, again) ==
  LET applies == CanApplyPending(c, p)
      b1 == IF applies THEN p ELSE binding
      wait == IF applies THEN NoPending ELSE p
  IN  \E r1 \in IF applies THEN Reconcile(hooks, broadcasting, b1, wait, c, hs) ELSE KeepHooks :
        LET b2 == BindingAfter(r1.ok, b1)
            c2 == IF r1.ok THEN c ELSE ForceInactive(c)
        IN  \E r2 \in IF r1.ok THEN {r1} ELSE Reconcile(r1, broadcasting, b2, wait, c2, hs) :
              \E r3 \in IF again THEN Reconcile(r2, broadcasting, b2, wait, c2, hs) ELSE {r2} :
                /\ binding' = b2
                /\ pending' = wait
                /\ keyIsDown' = IF applies THEN b1 \in heldKeys ELSE keyIsDown
                /\ hooks' = HooksOf(r3)
                /\ selected' = IF r1.ok THEN sel ELSE {}
                /\ clutch' = SampledIf(c2, \/ Installed(hooks, r1)
                                           \/ Installed(r1, r2)
                                           \/ Installed(r2, r3))

----------------------------------------------------------------------------
(* The engine starts with init(): no targets, hooks installed only for a   *)
(* configured binding, and the binding dropped when that fails.            *)

Init ==
  /\ foreground = NoPid
  /\ proxy = [p \in Pid |-> "absent"]
  /\ physButtons \in SUBSET Button
  /\ heldKeys \in SUBSET Vk
  /\ running = TRUE
  /\ eqPids = {} /\ targets = {} /\ selected = {} /\ eligible = {}
  /\ activePid = NoPid
  /\ clutch = [phase |-> "Inactive", buttons |-> physButtons,
               swallowed |-> NoVk, local |-> FALSE, source |-> NoPid,
               left |-> 0]
  /\ holds = NoHolds
  /\ seqs = [o \in Owner |-> 0]
  /\ closed = <<>>
  /\ binding \in Vk \cup {NoVk}
  /\ pending = NoPending
  /\ keyIsDown = (binding \in heldKeys)
  /\ dirty = FALSE
  /\ hooks \in Hooks
  /\ hooks.ms = (binding # NoVk)
  /\ hooks.kb => hooks.ms \/ HookFaults
  /\ hooks.ms => hooks.kb
  /\ broadcasting = FALSE
  /\ open = Session
  /\ sent = [s \in Session |-> 0]
  /\ queue = <<>>
  /\ eaten = {}
  /\ shown = "Inactive"

----------------------------------------------------------------------------
(* The world: focus, processes, keys and buttons, time.                    *)

FocusChange(p) ==
  /\ foreground # p
  /\ foreground' = p
  /\ UNCHANGED <<proxy, physButtons, heldKeys, running, targetVars, clutch,
                 remoteVars, bindVars, dirty, hookVars, clientVars, eaten,
                 shown>>

\* The proxy DLL in p acknowledges the mapping the engine created.
ProxyAck(p) ==
  /\ p \in targets
  /\ proxy[p] = "absent"
  /\ proxy' = [proxy EXCEPT ![p] = "ready"]
  /\ UNCHANGED <<foreground, physButtons, heldKeys, running, targetVars,
                 clutch, remoteVars, bindVars, dirty, hookVars, clientVars,
                 eaten, shown>>

\* A client exits.  Its mapping survives while the engine holds it.
ProcessExit(p) ==
  /\ proxy[p] = "ready"
  /\ proxy' = [proxy EXCEPT ![p] = IF p \in targets THEN "dead" ELSE "absent"]
  /\ foreground' = IF foreground = p THEN NoPid ELSE foreground
  /\ UNCHANGED <<physButtons, heldKeys, running, targetVars, clutch,
                 remoteVars, bindVars, dirty, hookVars, clientVars, eaten,
                 shown>>

Less(n) == IF n = 0 THEN 0 ELSE n - 1

Elapse ==
  /\ clutch' = [clutch EXCEPT !.left = Less(@)]
  /\ holds' = [o \in Owner |-> [source |-> holds[o].source, left |-> Less(holds[o].left)]]
  /\ UNCHANGED <<envVars, running, targetVars, seqs, closed, bindVars, dirty,
                 hookVars, clientVars, eaten, shown>>

\* ll_mouse_proc(): sees a button only while the mouse hook is installed.
MouseButton(b, pressed) ==
  LET next == IF running /\ hooks.ms THEN SetButton(clutch, b, pressed) ELSE clutch
  IN  /\ pressed = (b \notin physButtons)
      /\ physButtons' = IF pressed THEN physButtons \cup {b} ELSE physButtons \ {b}
      /\ clutch' = next
      /\ dirty' = (dirty \/ Status(next) # Status(clutch))
      /\ UNCHANGED <<foreground, proxy, heldKeys, running, targetVars,
                     remoteVars, bindVars, hookVars, clientVars, eaten, shown>>

\* Mutant: every press of the bound key counts, not only a fresh one.
BoundKeyDown(vk) ==
  running /\ hooks.kb /\ clutch.swallowed # vk /\ pending = NoPending /\ vk = binding

\* A press of the bound key that is not the repeat of an earlier press.
FreshPress(vk) == BoundKeyDown(vk) /\ ~keyIsDown

\* ll_keyboard_proc() on a key press or repeat, the clutch part.
KeyDown(vk) ==
  LET fresh  == FreshPress(vk)
      takes  == fresh /\ foreground \in eqPids
      has    == HasReadyMouseTargets(foreground)
      joined == takes /\ CanActivate(clutch, foreground, has)
      next   == IF takes THEN OnKeyDown(clutch, vk, foreground, has) ELSE clutch
      swallows == running /\ hooks.kb /\ (takes \/ clutch.swallowed = vk)
  IN  /\ heldKeys' = heldKeys \cup {vk}
      /\ keyIsDown' = (keyIsDown \/ fresh)
      /\ clutch' = next
      /\ selected' = IF joined /\ has THEN MouseTargets(foreground) ELSE selected
      /\ dirty' = (dirty \/ Status(next) # Status(clutch))
      /\ eaten' = IF vk \notin heldKeys /\ swallows THEN eaten \cup {vk} ELSE eaten
      /\ UNCHANGED <<foreground, proxy, physButtons, running, eqPids, targets,
                     eligible, activePid, remoteVars, binding, pending,
                     hookVars, clientVars, shown>>

KeyUp(vk) ==
  LET mine == running /\ hooks.kb /\ clutch.swallowed = vk
      next == IF mine THEN OnKeyUp(clutch, AnyHeld(holds)) ELSE clutch
      clears == running /\ hooks.kb /\ (mine \/ vk = binding)
  IN  /\ vk \in heldKeys
      /\ heldKeys' = heldKeys \ {vk}
      /\ keyIsDown' = (keyIsDown /\ ~clears)
      /\ clutch' = next
      /\ dirty' = (dirty \/ Status(next) # Status(clutch))
      /\ eaten' = eaten \ {vk}
      /\ UNCHANGED <<foreground, proxy, physButtons, running, targetVars,
                     remoteVars, binding, pending, hookVars, clientVars, shown>>

----------------------------------------------------------------------------
(* The overlay's poll and focus callbacks.                                 *)

UpdateTargets(pids, active, created) ==
  LET gone == \/ clutch.source # NoPid /\ clutch.source \notin pids
              \/ selected \ pids # {}
  IN  /\ running
      /\ CancelAllIf(gone)
      /\ eqPids' = pids
      /\ targets' = (targets \cap pids) \cup created
      /\ selected' = selected \cap pids
      /\ activePid' = active
      /\ proxy' = [p \in Pid |-> IF p \in targets \ pids /\ proxy[p] = "dead"
                                 THEN "absent" ELSE proxy[p]]
      /\ UNCHANGED <<foreground, physButtons, heldKeys, running, eligible, seqs,
                     closed, bindVars, hookVars, clientVars, eaten, shown>>

\* Mutant: clients that stop being eligible stay targets of an engaged clutch.
UpdateEligibleWithoutCancel(pids) ==
  /\ running
  /\ eligible' = pids
  /\ UNCHANGED <<envVars, running, eqPids, targets, selected, activePid, clutch,
                 holds, dirty, seqs, closed, bindVars, hookVars, clientVars,
                 eaten, shown>>

UpdateMouseEligiblePids(pids) ==
  /\ running
  /\ CancelAllIf(selected \ pids # {})
  /\ eligible' = pids
  /\ UNCHANGED <<envVars, running, eqPids, targets, selected, activePid, seqs,
                 closed, bindVars, hookVars, clientVars, eaten, shown>>

SetActivePid(p) ==
  /\ running
  /\ CancelAllIf(clutch.source # NoPid /\ clutch.source # p)
  /\ activePid' = p
  /\ UNCHANGED <<envVars, running, eqPids, targets, selected, eligible, seqs,
                 closed, bindVars, hookVars, clientVars, eaten, shown>>

----------------------------------------------------------------------------
(* Remote holds.                                                           *)

HoldMsg(s, h, op) == [session |-> s, hold |-> h, op |-> op, seq |-> sent[s] + 1]

\* A connection numbers each command it receives and offers it to the UI
\* thread's queue; try_send drops it when the queue is full.
ClientSend(s, h, op) ==
  /\ running
  /\ s \in open
  /\ sent[s] < MaxSeq
  /\ sent' = [sent EXCEPT ![s] = @ + 1]
  /\ queue' = IF Len(queue) < QueueCap THEN Append(queue, HoldMsg(s, h, op)) ELSE queue
  /\ UNCHANGED <<envVars, running, targetVars, clutch, remoteVars, bindVars,
                 dirty, hookVars, open, eaten, shown>>

\* connection_loop() ends: one attempt to close the session, lost when the
\* queue is full or the server is shutting down.
ConnectionLost(s) ==
  /\ running
  /\ s \in open
  /\ open' = open \ {s}
  /\ \/ Len(queue) < QueueCap /\ queue' = Append(queue, [session |-> s, op |-> "Close"])
     \/ queue' = queue
  /\ UNCHANGED <<envVars, running, targetVars, clutch, remoteVars, bindVars,
                 dirty, hookVars, sent, eaten, shown>>

ClosedSessions == {closed[i] : i \in DOMAIN closed}

BeginHold(o) ==
  LET src  == foreground
      live == holds[o].source # NoPid
      hs   == [holds EXCEPT ![o] = [source |-> IF live THEN @.source ELSE src,
                                    left |-> Lease]]
      resuming == clutch.phase = "Active" /\ clutch.source = src
      sampled  == [clutch EXCEPT !.buttons = physButtons]
      engages  == CanActivate(sampled, src, TRUE)
      Keep     == holds' = holds /\ UNCHANGED <<selected, dirty, shown>>
  IN  \/ /\ live
         /\ holds' = hs
         /\ shown' = Status(clutch)
         /\ UNCHANGED <<clutch, selected, hooks, dirty>>
      \/ /\ ~live /\ ~ClutchAvailable
         /\ Keep /\ UNCHANGED <<clutch, hooks>>
      \/ /\ ~live /\ ClutchAvailable
         /\ \E r \in Reconcile(hooks, broadcasting, binding, pending, clutch, hs) :
              LET c == SampledIf(clutch, Installed(hooks, r) \/ (r.ok /\ ~resuming))
                  succeeds == r.ok /\ (resuming \/ engages)
              IN  \/ /\ succeeds
                     /\ clutch' = Activate(c, src)
                     /\ selected' = IF resuming THEN selected ELSE MouseTargets(src)
                     /\ holds' = hs
                     /\ hooks' = HooksOf(r)
                     /\ dirty' = TRUE
                     /\ shown' = Status(clutch')
                  \/ /\ ~succeeds
                     /\ \E r2 \in Reconcile(r, broadcasting, binding, pending, c, holds) :
                          /\ hooks' = HooksOf(r2)
                          /\ clutch' = SampledIf(c, Installed(r, r2))
                     /\ Keep

\* A renewal of a hold that was canceled is refused and never re-arms it.
RenewHold(o) ==
  LET live == holds[o].source # NoPid
      same == clutch.phase = "Active" /\ clutch.source = holds[o].source
  IN  /\ holds' = [holds EXCEPT ![o] = IF live /\ same THEN [@ EXCEPT !.left = Lease]
                                       ELSE NoHold]
      /\ shown' = IF live /\ same THEN Status(clutch) ELSE shown
      /\ UNCHANGED <<clutch, selected, hooks, dirty>>

\* The part End and the closing of a session share: holds become hs.
DropHolds(hs) ==
  LET next == ReleaseIfUnowned(clutch, AnyHeld(hs))
  IN  /\ holds' = hs
      /\ IF hs = holds
         THEN UNCHANGED <<clutch, hooks, dirty>> /\ shown' = Status(clutch)
         ELSE /\ \E r \in Reconcile(hooks, broadcasting, binding, pending, next, hs) :
                   /\ hooks' = HooksOf(r)
                   /\ clutch' = SampledIf(next, Installed(hooks, r))
              /\ dirty' = TRUE
              /\ shown' = Status(clutch')
      /\ UNCHANGED selected

EndHold(o) == DropHolds([holds EXCEPT ![o] = NoHold])

UpdateRemoteMouseClutchHold(m) ==
  LET o == <<m.session, m.hold>>
  IN  IF m.session \in ClosedSessions
      THEN UNCHANGED <<clutch, selected, holds, seqs, hooks, dirty, shown>>
      ELSE IF m.seq <= seqs[o]
      THEN /\ UNCHANGED <<clutch, selected, holds, seqs, hooks, dirty>>
           /\ shown' = Status(clutch)
      ELSE /\ seqs' = [seqs EXCEPT ![o] = m.seq]
           /\ \/ m.op = "Begin" /\ BeginHold(o)
              \/ m.op = "Renew" /\ RenewHold(o)
              \/ m.op = "End" /\ EndHold(o)

EndRemoteMouseClutchSession(s) ==
  LET longer == IF s \in ClosedSessions THEN closed ELSE Append(closed, s)
  IN  /\ closed' = IF Len(longer) > ClosedCap THEN Tail(longer) ELSE longer
      /\ seqs' = [o \in Owner |-> IF o[1] = s THEN 0 ELSE seqs[o]]
      /\ DropHolds([o \in Owner |-> IF o[1] = s THEN NoHold ELSE holds[o]])

\* drain_commands() handles the queue's next command on the tray thread.
DrainCommand ==
  /\ running
  /\ queue # <<>>
  /\ queue' = Tail(queue)
  /\ LET m == Head(queue)
     IN  \/ m.op # "Close" /\ UpdateRemoteMouseClutchHold(m) /\ UNCHANGED closed
         \/ m.op = "Close" /\ EndRemoteMouseClutchSession(m.session)
  /\ UNCHANGED <<envVars, running, eqPids, targets, eligible, activePid,
                 bindVars, broadcasting, open, sent, eaten>>

----------------------------------------------------------------------------
(* The 15 ms timer, settings, broadcasting and shutdown.                   *)

\* What tick() demands of an engaged clutch.
ClutchStillValid(c) ==
  /\ c.source # NoPid
  /\ c.source = foreground
  /\ c.source \in eqPids
  /\ selected # {}
  /\ \A p \in selected : Ready(p) /\ Alive(p)

LiveHolds == [o \in Owner |-> IF holds[o].left > 0 THEN holds[o] ELSE NoHold]

Tick ==
  LET live   == LiveHolds
      c1     == IF live = holds THEN clutch ELSE ReleaseIfUnowned(clutch, AnyHeld(live))
      broken == c1.phase # "Inactive" /\ ~ClutchStillValid(c1)
      c2     == IF broken THEN CancelBounded(c1) ELSE c1
      due    == DrainIsDue(c2)
      hs     == IF broken THEN NoHolds ELSE live
      sel    == IF due THEN {} ELSE selected
  IN  /\ running
      /\ ApplyPending(IF due THEN ForceInactive(c2) ELSE c2, sel, hs, pending, TRUE)
      /\ holds' = hs
      /\ dirty' = FALSE
      /\ shown' = IF dirty \/ live # holds \/ broken \/ Status(clutch') # Status(clutch)
                  THEN Status(clutch') ELSE shown
      /\ UNCHANGED <<envVars, running, eqPids, targets, eligible, activePid,
                     seqs, closed, broadcasting, clientVars, eaten>>

\* on_settings_changed(): the new binding waits until an engaged clutch has
\* drained and the swallowed key is up.
OnSettingsChanged(b) ==
  /\ running
  /\ ApplyPending(CancelBounded(clutch), selected, NoHolds, b, FALSE)
  /\ holds' = NoHolds
  /\ dirty' = TRUE
  /\ UNCHANGED <<envVars, running, eqPids, targets, eligible, activePid, seqs,
                 closed, broadcasting, clientVars, eaten, shown>>

\* set_active(): the hooks half.  Turning on is undone when a hook fails.
SetActive(on) ==
  /\ running
  /\ broadcasting # on
  /\ \E r1 \in Reconcile(hooks, on, binding, pending, clutch, holds) :
       LET undone == on /\ ~r1.ok
       IN  \E r2 \in IF undone THEN Reconcile(r1, FALSE, binding, pending, clutch, holds)
                     ELSE {r1} :
             /\ hooks' = HooksOf(r2)
             /\ clutch' = SampledIf(clutch, Installed(hooks, r1) \/ Installed(r1, r2))
             /\ broadcasting' = (on /\ ~undone)
  /\ UNCHANGED <<envVars, running, targetVars, remoteVars, bindVars, dirty,
                 clientVars, eaten, shown>>

\* cleanup() and the end of the process: every mapping is retired.
Cleanup ==
  /\ running
  /\ running' = FALSE
  /\ eqPids' = {} /\ targets' = {} /\ selected' = {} /\ eligible' = {}
  /\ activePid' = NoPid
  /\ clutch' = [ForceInactive(clutch) EXCEPT !.swallowed = NoVk]
  /\ holds' = NoHolds
  /\ seqs' = [o \in Owner |-> 0]
  /\ closed' = <<>>
  /\ binding' = NoVk /\ pending' = NoPending /\ keyIsDown' = FALSE
  /\ dirty' = FALSE
  /\ hooks' = [kb |-> FALSE, ms |-> FALSE]
  /\ broadcasting' = FALSE
  /\ open' = {} /\ queue' = <<>>
  /\ eaten' = {}
  /\ shown' = "Inactive"
  /\ UNCHANGED <<envVars, sent>>

----------------------------------------------------------------------------

\* The overlay makes one of the reported clients the active one.
ActiveOf(pids) == IF pids = {} THEN {NoPid} ELSE pids

World ==
  \/ \E p \in MayFocus \cup {NoPid} : FocusChange(p)
  \/ \E p \in Pid : ProxyAck(p)
  \/ \E p \in MayExit : ProcessExit(p)
  \/ \E b \in Button, pressed \in BOOLEAN : MouseButton(b, pressed)
  \/ \E vk \in Vk : KeyDown(vk)
  \/ \E vk \in Vk : KeyUp(vk)
  \/ Elapse

Overlay ==
  \/ \E pids \in PidReports : \E active \in ActiveOf(pids), created \in SUBSET (pids \ targets) :
       UpdateTargets(pids, active, created)
  \/ \E pids \in EligibleReports : UpdateMouseEligiblePids(pids)
  \/ \E p \in MayFocus : SetActivePid(p)

Remote ==
  \/ \E s \in Session, h \in HoldId, op \in HoldOp : ClientSend(s, h, op)
  \/ \E s \in Session : ConnectionLost(s)
  \/ DrainCommand

Engine ==
  \/ Tick
  \/ \E b \in Vk \cup {NoVk} : OnSettingsChanged(b)
  \/ \E on \in BroadcastChoices : SetActive(on)
  \/ Cleanup

Next == World \/ Overlay \/ Remote \/ Engine

Spec == Init /\ [][Next]_vars

----------------------------------------------------------------------------
(* Properties.                                                             *)

\* Every variable has its type.
TypeOK ==
  /\ foreground \in Pid \cup {NoPid}
  /\ proxy \in [Pid -> {"absent", "ready", "dead"}]
  /\ physButtons \in SUBSET Button
  /\ heldKeys \in SUBSET Vk
  /\ running \in BOOLEAN
  /\ eqPids \in SUBSET Pid
  /\ targets \in SUBSET Pid
  /\ selected \in SUBSET Pid
  /\ eligible \in SUBSET Pid
  /\ activePid \in Pid \cup {NoPid}
  /\ clutch \in Clutch
  /\ holds \in [Owner -> Hold]
  /\ seqs \in [Owner -> 0..MaxSeq]
  /\ closed \in Seq(Session)
  /\ binding \in Vk \cup {NoVk}
  /\ pending \in Vk \cup {NoVk, NoPending}
  /\ keyIsDown \in BOOLEAN
  /\ dirty \in BOOLEAN
  /\ hooks \in Hooks
  /\ broadcasting \in BOOLEAN
  /\ open \in SUBSET Session
  /\ sent \in [Session -> 0..MaxSeq]
  /\ queue \in Seq(Msg)
  /\ eaten \in SUBSET Vk
  /\ shown \in {"Inactive", "Active", "Releasing"}

\* The clutch is engaged exactly while the local key or some remote hold owns
\* it, and every hold was taken for the process the clutch is engaged on:
\* no release, cancellation, expiry or failed Begin leaves an engaged clutch
\* without an owner or an owner of a disengaged clutch.
OwnersMatchPhase ==
  /\ clutch.phase = "Active" <=> clutch.local \/ AnyHeld(holds)
  /\ \A o \in Held(holds) : holds[o].source = clutch.source
  /\ clutch.local => clutch.swallowed # NoVk

\* Mouse input is forwarded only while the clutch is engaged, releasing or
\* draining, never to its source, and while it is engaged only to targets with
\* a mapping that have the source's geometry - and to at least one of them.
SelectionSound ==
  /\ selected \subseteq targets
  /\ targets \subseteq eqPids
  /\ clutch.phase = "Inactive" => selected = {} /\ clutch.source = NoPid
  /\ clutch.phase # "Inactive" => clutch.source # NoPid /\ clutch.source \notin selected
  /\ clutch.phase = "Active" =>
       clutch.source \in eqPids /\ selected # {} /\ selected \subseteq eligible

\* A key whose press was swallowed has its repeats and its release swallowed,
\* and no other key has: focus, settings or target changes between press and
\* release never deliver half of a key stroke to EverQuest.
KeyStrokesWhole ==
  running => \A vk \in heldKeys : vk \in eaten <=> clutch.swallowed = vk

\* The hooks an engaged clutch relies on are installed, a swallowed key is the
\* bound key with the keyboard hook to see its release, and the button state
\* the clutch waits on is the physical one; broadcasting has its keyboard hook.
HooksCoverClutch ==
  /\ clutch.phase # "Inactive" => hooks.ms
  /\ clutch.swallowed # NoVk => hooks.kb /\ clutch.swallowed = binding
  /\ binding # NoVk => hooks.kb /\ hooks.ms
  /\ broadcasting => hooks.kb
  /\ hooks.ms => clutch.buttons = physButtons

\* Both hold however hooks fail, keys and focus interleave.
HooksSound == KeyStrokesWhole /\ HooksCoverClutch

\* When no refresh is due, the status last published to the overlay and the
\* control clients is the clutch's.
StatusPublished == running /\ ~dirty => shown = Status(clutch)

\* The clutch engages only with every mouse button up, so that no target sees
\* the release of a button whose press it never saw.
EngagesWithButtonsUp ==
  [][clutch.phase # "Active" /\ clutch'.phase = "Active" => physButtons = {}]_vars

\* A drain is never extended: cancellations, button presses and settings
\* changes while draining leave its deadline alone.
DrainNeverExtended ==
  [][clutch.phase = "Draining" /\ clutch'.phase = "Draining" => clutch'.left <= clutch.left]_vars

\* What no step may do while the clutch is handed over between owners.
HandoverSteps == EngagesWithButtonsUp /\ DrainNeverExtended

\* A released clutch comes to rest, or is engaged again.
DrainEnds == []<>(clutch.phase \in {"Inactive", "Active"})

\* A hold whose client stops renewing it, or whose connection's closing command
\* was lost, does not keep the clutch engaged.
HoldsExpire == \A o \in Owner : []<>(holds[o] = NoHold)

\* Whoever lets go, vanishes or is forgotten, the mouse is the user's again.
ClutchLetsGo == DrainEnds /\ HoldsExpire
=============================================================================
