----------------------------- MODULE InputProxy -----------------------------
(***************************************************************************)
(* The proxy DLL inside one game process (trusik): it opens the mapping    *)
(* the controller made, judges by heartbeats who still speaks, shows the   *)
(* game synthetic keys, keeps a background game awake with posted          *)
(* activation messages, and wakes it with its keyboard event.              *)
(*                                                                         *)
(* Time is counted in steps of the heartbeat timeout's order; a process    *)
(* sees it as a tick count that wraps (GetTickCount).  A reader samples    *)
(* the tick before it loads the mapping, so it may be one step behind.     *)
(* One key stands for all; KeyEdges has the buffered edges of the keys.    *)
(***************************************************************************)
EXTENDS Integers, FiniteSets, Sequences

CONSTANTS TickWrap,          \* 2^32 of the tick counter
          Timeout,       \* HEARTBEAT_TIMEOUT_MS
          RetryAfter,    \* RETRY_INTERVAL_MS
          StableFrames,  \* DEACTIVATE_STABLE_FRAMES
          FirstClock, MaxClock,      \* bounds: time
          MaxSwitches                \* bound: changes by the controller and the user

ASSUME ProxyBounds ==
  /\ {Timeout, RetryAfter, StableFrames} \subseteq Nat \ {0}
  /\ {MaxSwitches, FirstClock, TickWrap} \subseteq Nat
  /\ FirstClock < TickWrap /\ MaxClock \in FirstClock .. TickWrap + FirstClock
  /\ Timeout + RetryAfter + 2 < TickWrap \div 2

VARIABLES clock, switches,
          controller,  \* Stonemite: [alive, beatAt]; beatAt is the clock's value
          shm,         \* SharedKeyState: made, acknowledged, keyboard (its one key is down),
                       \*   mouse, beat, and auto-typing's generation and leaseBeat
          runtime,     \* initialize_runtime: "none", "hooked", "ready" or "failed"
          cache,       \* MappingCache: [open, retry]
          hwnd, foreground,     \* EQ_HWND is set; the game has the real foreground
          watcher,     \* wm_activate_thread
          posted,      \* the last WM_ACTIVATEAPP posted and the generation it was for;
                       \*   "left" when none was due because the game seemed in front
          wire,        \* the game's read: the tick it sampled (0: none yet), the level it got last
          notifier,    \* KeyboardNotification: [running, handle, previous]
          announced    \* the level of the keys when the game's event was last set

ctlVars   == <<controller, shm, switches>>
watchVars == <<watcher, posted>>
proxyGame == <<wire, notifier, announced>>
proxyVars == <<clock, ctlVars, runtime, cache, hwnd, foreground, watchVars, proxyGame>>

Tick(c)     == c % TickWrap
Sub(a, b)   == (a - b + TickWrap) % TickWrap               \* wrapping_sub
AtLeastOne(t) == IF t = 0 THEN 1 ELSE t
Stamp(c)    == AtLeastOne(Tick(c))

-----------------------------------------------------------------------------
(* SharedKeyState, read at the tick of clock value c *)

IsFresh(beat, now) == beat # 0 /\ Sub(now, beat) <= Timeout

ControllerFresh(c)  == IsFresh(shm.beat, Tick(c))
ControllerKeys(c)   == shm.keyboard /\ ControllerFresh(c)
ActiveGeneration(c) ==
  IF IsFresh(shm.leaseBeat, Tick(c)) THEN shm.generation ELSE 0
MouseActive(c)      == shm.mouse /\ ControllerFresh(c)
IsActive(c)         == ControllerKeys(c) \/ ActiveGeneration(c) # 0 \/ MouseActive(c)
ReadKeys(c)         == ControllerKeys(c)    \* auto-typing's keys: see AutoType

\* retry_is_due: a difference below half the range lies in the past.
RetryIsDue(now) == cache.retry = 0 \/ Sub(now, cache.retry) < TickWrap \div 2

\* compatible_ptr: opens the mapping when due, and acknowledges it.
Opens(c) == cache.open \/ (RetryIsDue(Tick(c)) /\ shm.made)
Cached(c) ==
  IF cache.open THEN cache
  ELSE IF Opens(c) THEN [open |-> TRUE, retry |-> 0]
  ELSE IF RetryIsDue(Tick(c)) THEN [open |-> FALSE, retry |-> Tick(c + RetryAfter)]
  ELSE cache

Consult(c) ==
  /\ cache' = Cached(c)
  /\ shm' = [shm EXCEPT !.acknowledged = @ \/ Opens(c)]

\* The clock values a reader may have sampled; none is late once time has stopped.
Sampled == {clock} \cup (IF FirstClock < clock /\ clock < MaxClock THEN {clock - 1} ELSE {})

-----------------------------------------------------------------------------
(* The controller *)

Switched == switches < MaxSwitches /\ switches' = switches + 1

\* create_shm: a mapping left by an earlier controller is retired first.  (The bound on
\* time leaves the proxy one retry.)
CreateShm ==
  /\ ~controller.alive \/ ~shm.made
  /\ clock + RetryAfter < MaxClock
  /\ Switched
  /\ controller' = [alive |-> TRUE, beatAt |-> clock]
  /\ shm' = [shm EXCEPT !.made = TRUE, !.keyboard = FALSE, !.mouse = FALSE, !.beat = Stamp(clock)]
  /\ UNCHANGED <<clock, runtime, cache, hwnd, foreground, watchVars, proxyGame>>

\* Broadcast or targeted input, Mouse Clutch and auto-typing begin and end.
ControllerActs ==
  /\ controller.alive /\ shm.made /\ Switched
  /\ \/ shm' = [shm EXCEPT !.keyboard = ~@]
     \/ shm' = [shm EXCEPT !.mouse = ~@]
     \/ shm.leaseBeat = 0 /\ shm' = [shm EXCEPT !.generation = @ + 1, !.leaseBeat = Stamp(clock)]
     \/ shm.leaseBeat # 0 /\ shm' = [shm EXCEPT !.leaseBeat = 0]
  /\ UNCHANGED <<clock, controller, runtime, cache, hwnd, foreground, watchVars, proxyGame>>

\* refresh_controller_heartbeat, and auto-typing's refresh of its lease.
ControllerBeats ==
  /\ controller.alive /\ shm.made /\ controller.beatAt < clock
  /\ controller' = [controller EXCEPT !.beatAt = clock]
  /\ shm' = [shm EXCEPT !.beat = Stamp(clock),
                        !.leaseBeat = IF @ = 0 THEN 0 ELSE Stamp(clock)]
  /\ UNCHANGED <<clock, switches, runtime, cache, hwnd, foreground, watchVars, proxyGame>>

ControllerDies ==
  /\ controller.alive /\ shm.made /\ Switched
  /\ controller' = [controller EXCEPT !.alive = FALSE]
  /\ UNCHANGED <<clock, shm, runtime, cache, hwnd, foreground, watchVars, proxyGame>>

\* A live controller beats well within the timeout.
TimePasses ==
  /\ clock < MaxClock
  /\ controller.alive /\ shm.made => controller.beatAt = clock
  /\ clock' = clock + 1
  /\ UNCHANGED <<ctlVars, runtime, cache, hwnd, foreground, watchVars, proxyGame>>

-----------------------------------------------------------------------------
(* The game starts its input *)

\* DirectInput8Create, first call: the hooks answer from here on.
InitializeRuntime ==
  /\ runtime = "none"
  /\ runtime' \in {"hooked", "failed"}
  /\ UNCHANGED <<clock, ctlVars, cache, hwnd, foreground, watchVars, proxyGame>>

\* is_compatible, then create_event and signal_ready.
SignalReady(c) ==
  /\ runtime = "hooked" /\ runtime' = "ready"
  /\ Consult(c)
  /\ UNCHANGED <<clock, controller, switches, hwnd, foreground, watchVars, proxyGame>>

\* CreateDevice and SetCooperativeLevel of the keyboard start the watcher.
SetCooperativeLevel ==
  /\ runtime = "ready" /\ ~hwnd
  /\ hwnd' = TRUE
  /\ watcher' = [watcher EXCEPT !.at = "asleep"]
  /\ UNCHANGED <<clock, ctlVars, runtime, cache, foreground, posted, proxyGame>>

\* KeyboardNotification::replace: the event is duplicated, or cannot be; the first
\* call starts the worker.
SetEventNotification ==
  /\ runtime = "ready" /\ Switched
  /\ \E duplicated \in BOOLEAN :
       notifier' = [notifier EXCEPT !.running = TRUE, !.handle = duplicated]
  /\ announced' = FALSE
  /\ UNCHANGED <<clock, controller, shm, runtime, cache, hwnd, foreground, watchVars, wire>>

\* dev_release of the last reference stops the worker.
ReleaseDevice ==
  /\ notifier.running /\ Switched
  /\ notifier' = [running |-> FALSE, handle |-> FALSE, previous |-> FALSE]
  /\ UNCHANGED <<clock, controller, shm, runtime, cache, hwnd, foreground, watchVars, wire,
                 announced>>

\* The user brings the game to the foreground, or leaves it.
ChangeForeground ==
  /\ Switched
  /\ foreground' = ~foreground
  /\ UNCHANGED <<clock, controller, shm, runtime, cache, hwnd, watchVars, proxyGame>>

-----------------------------------------------------------------------------
(* wm_activate_thread *)

ShouldPostActivation(active, generation, mouse) ==
  /\ active
  /\ \/ ~watcher.asserted
     \/ generation # 0 /\ generation # watcher.generation
     \/ mouse /\ ~watcher.mouse

\* One frame: sample, perhaps post, count quiet frames.
WatcherFrame(c) ==
  /\ watcher.at = "asleep"
  /\ Consult(c)
  /\ LET active == Opens(c) /\ IsActive(c)
         gen    == IF Opens(c) THEN ActiveGeneration(c) ELSE 0
         mouse  == Opens(c) /\ MouseActive(c)
         post   == ShouldPostActivation(active, gen, mouse) /\ hwnd
         quiet  == IF active THEN 0 ELSE IF watcher.asserted THEN watcher.quiet + 1
                   ELSE watcher.quiet
     IN /\ posted' = IF post THEN [what |-> "activate", generation |-> gen] ELSE posted
        /\ watcher' = [at |-> IF quiet >= StableFrames THEN "recheck" ELSE "asleep",
                       asserted |-> watcher.asserted \/ post, generation |-> gen,
                       mouse |-> mouse, quiet |-> quiet]
  /\ UNCHANGED <<clock, controller, switches, runtime, hwnd, foreground, proxyGame>>

\* After the stable interval the state is read once more; while it is active, so is the
\* answer of GetForegroundWindow, which the proxy hooks.
WatcherRechecks(c) ==
  /\ watcher.at = "recheck"
  /\ Consult(c)
  /\ watcher' = [watcher EXCEPT !.at = IF Opens(c) /\ IsActive(c) THEN "asleep" ELSE "look",
                                !.quiet = IF Opens(c) /\ IsActive(c) THEN 0 ELSE @]
  /\ UNCHANGED <<clock, controller, switches, runtime, hwnd, foreground, posted, proxyGame>>

WatcherLooks(c) ==
  /\ watcher.at = "look"
  /\ Consult(c)
  /\ LET seen == foreground \/ (hwnd /\ Opens(c) /\ IsActive(c))
     IN  watcher' = [watcher EXCEPT !.at = IF seen THEN "leave" ELSE "deactivate"]
  /\ UNCHANGED <<clock, controller, switches, runtime, hwnd, foreground, posted, proxyGame>>

\* Mutant: the watcher forgets that it let the game go.
WatcherDeactivatesSilently ==
  /\ watcher.at \in {"leave", "deactivate"}
  /\ posted' = [what |-> IF watcher.at = "deactivate" THEN "deactivate" ELSE "left",
                generation |-> 0]
  /\ watcher' = [watcher EXCEPT !.at = "asleep", !.quiet = 0]
  /\ UNCHANGED <<clock, ctlVars, runtime, cache, hwnd, foreground, proxyGame>>

\* The input may have come back since the recheck, and the foreground have changed.
WatcherDeactivates ==
  /\ watcher.at \in {"leave", "deactivate"}
  /\ posted' = [what |-> IF watcher.at = "deactivate" THEN "deactivate" ELSE "left",
                generation |-> 0]
  /\ watcher' = [watcher EXCEPT !.at = "asleep", !.quiet = 0, !.asserted = FALSE]
  /\ UNCHANGED <<clock, ctlVars, runtime, cache, hwnd, foreground, proxyGame>>

-----------------------------------------------------------------------------
(* What the game reads *)

\* GetDeviceState, GetKeyboardState, GetKeyState and GetAsyncKeyState through with_state:
\* the tick is sampled, then the mapping is loaded.  The synthetic level is shown
\* whatever the real one is.
GameSamples ==
  /\ runtime \in {"hooked", "ready"} /\ wire.tick = 0
  /\ Consult(clock)
  /\ wire' = IF Opens(clock) THEN [wire EXCEPT !.tick = clock] ELSE [wire EXCEPT !.held = FALSE]
  /\ UNCHANGED <<clock, controller, switches, runtime, hwnd, foreground, watchVars, notifier,
                 announced>>

GameReads ==
  /\ wire.tick # 0
  /\ wire' = [tick |-> 0, held |-> ReadKeys(wire.tick)]
  /\ UNCHANGED <<clock, ctlVars, runtime, cache, hwnd, foreground, watchVars, notifier, announced>>

\* KeyboardNotification::run, one turn.
Notify(c) ==
  /\ notifier.running
  /\ Consult(c)
  /\ LET keys == Opens(c) /\ ReadKeys(c)
     IN /\ announced' = IF notifier.handle /\ (keys \/ notifier.previous) THEN keys ELSE announced
        /\ notifier' = [notifier EXCEPT !.previous = keys]
  /\ UNCHANGED <<clock, controller, switches, runtime, hwnd, foreground, watchVars, wire>>

-----------------------------------------------------------------------------

ProxyInit ==
  /\ clock = FirstClock /\ switches = 0
  /\ controller = [alive |-> TRUE, beatAt |-> FirstClock]
  /\ shm = [made |-> FALSE, acknowledged |-> FALSE, keyboard |-> FALSE,
            mouse |-> FALSE, beat |-> 0, generation |-> 0, leaseBeat |-> 0]
  /\ runtime = "none" /\ cache = [open |-> FALSE, retry |-> 0]
  /\ hwnd = FALSE /\ foreground = FALSE
  /\ watcher = [at |-> "none", asserted |-> FALSE, generation |-> 0, mouse |-> FALSE,
                quiet |-> 0]
  /\ posted = [what |-> "none", generation |-> 0]
  /\ wire = [tick |-> 0, held |-> FALSE]
  /\ notifier = [running |-> FALSE, handle |-> FALSE, previous |-> FALSE] /\ announced = FALSE

WatcherStep ==
  \/ WatcherDeactivates
  \/ \E c \in Sampled : WatcherFrame(c) \/ WatcherRechecks(c) \/ WatcherLooks(c)
GameStep    == GameSamples \/ GameReads
NotifyStep  == \E c \in Sampled : Notify(c)

ProxyNext ==
  \/ CreateShm \/ ControllerActs \/ ControllerBeats \/ ControllerDies \/ TimePasses
  \/ InitializeRuntime \/ SetCooperativeLevel \/ SetEventNotification \/ ReleaseDevice
  \/ ChangeForeground
  \/ \E c \in Sampled : SignalReady(c)
  \/ WatcherStep \/ GameStep \/ NotifyStep

ProxySpec == ProxyInit /\ [][ProxyNext]_proxyVars

-----------------------------------------------------------------------------

\* Types; a mapping in use was made by the controller and is acknowledged (try_open).
ProxyTypeOK ==
  /\ clock \in FirstClock .. MaxClock /\ switches \in 0 .. MaxSwitches
  /\ runtime \in {"none", "hooked", "ready", "failed"}
  /\ watcher.quiet \in 0 .. StableFrames
  /\ watcher.at \in {"none", "asleep", "recheck", "look", "leave", "deactivate"}
  /\ cache.open => cache.retry = 0 /\ shm.made /\ shm.acknowledged

\* The mapping is found although the tick count wraps between a failed attempt and
\* the retry (retry_is_due).
MappingOpened == <>[](shm.made /\ runtime = "ready" => cache.open)

\* A controller that died holds no key down: its heartbeat expires, also across the
\* wrap of the tick count (heartbeat_is_fresh).
DeadControllerReleases ==
  <>[](~controller.alive /\ controller.beatAt + Timeout + 1 < clock => ~wire.held)

\* "A rapid clutch re-press must not receive a stale WM_ACTIVATEAPP(FALSE)": a game whose
\* input stays on is active in the end, whatever was sampled around the recheck.
ActiveStaysActive ==
  <>[](watcher.at # "none" /\ cache.open /\ IsActive(clock) => posted.what = "activate")

\* Each generation of auto-typing gets an activation of its own, although another
\* source may hold the game active already.
GenerationsAsserted ==
  <>[](watcher.at # "none" /\ cache.open /\ ActiveGeneration(clock) # 0 =>
         posted.generation = ActiveGeneration(clock))

\* A game is not kept active once nobody sends it input, unless it was found in front
\* (wm_activate_thread); a controller that died ends its input by its heartbeat.
GameLetGo ==
  <>[](watcher.at # "none" /\ ~(cache.open /\ IsActive(clock)) => posted.what # "activate")

\* The game's keyboard event was set after the keys changed last: a game that waits
\* for it sees the release too.
LastLevelAnnounced ==
  <>[](notifier.handle /\ cache.open => announced = ReadKeys(clock))

\* Whatever raced, the game's activation and its keys end up as its controller last
\* left them.
ProxySettles ==
  /\ MappingOpened /\ DeadControllerReleases
  /\ ActiveStaysActive /\ GenerationsAsserted /\ GameLetGo /\ LastLevelAnnounced
=============================================================================
