----------------------------- MODULE Compositor -----------------------------
(***************************************************************************)
(* What the overlay draws with the graphics device, and what it does when  *)
(* the device is lost, a commit fails or cannot be rolled back             *)
(* (overlay/render/compositor.rs), the requests to draw again and the      *)
(* recovery pass (runtime.rs, surfaces.rs, window_procs.rs), and the toast *)
(* that is published only once it is drawn (toast.rs,                      *)
(* toast_controller.rs).  Everything runs on one thread, so that a handler *)
(* is one action; an action picks the call of the device that fails.  The  *)
(* pixels of a window are a version of its scene, whose parity stands for  *)
(* the window's size.                                                      *)
(***************************************************************************)
EXTENDS Integers, Sequences, FiniteSets, SequencesExt

CONSTANTS Pips,        \* the number of PiP labels
          MaxScene,    \* bound: versions of a scene
          MaxMoves,    \* bound: changes of the foreground and of the clients
          MaxFaults    \* bound: handlers in which calls of the device fail

ASSUME CompositorBounds == {Pips, MaxScene, MaxMoves, MaxFaults} \subseteq Nat

Label  == 1            \* active_label_hwnd; the status banner is drawn the same way
Toast  == 2
Pip    == 3 .. Pips + 2   \* PiP labels; the DPS panel and the button are shown like one
Window == 1 .. Pips + 2
SizeOf(version) == version % 2

VARIABLES s,       \* OverlayState with its compositor, and the Runtime
          moves, faults

compVars == <<s, moves, faults>>

\* scene: the state to be drawn, by window; allowed: a game is in the foreground; on:
\* windows with a registration; redraws: recovery_redraws; pending and invalid: windows
\* with a request to draw, and with a paint message to come; message: one is posted.
CompInit ==
  /\ s = [scene |-> [w \in Window |-> 1], allowed |-> TRUE,
          alive |-> [w \in Window |-> IF w \in Pip THEN "no" ELSE "up"],
          device |-> TRUE, on |-> {}, redraws |-> {}, dirty |-> FALSE,
          size |-> [w \in Window |-> 0], frame |-> [w \in Window |-> 0],
          res |-> [w \in Window |-> "none"],
          opacity |-> [w \in Window |-> "full"], committed |-> [w \in Window |-> "full"],
          pending |-> {Label}, invalid |-> {}, shown |-> {},
          posted |-> FALSE, message |-> FALSE, servicing |-> FALSE, hits |-> 0,
          hovered |-> FALSE, phase |-> "hidden", ready |-> FALSE, alpha |-> 0, timer |-> FALSE]
  /\ moves = 0 /\ faults = 0

\* The call that fails in a handler: at a window, once or each time it is tried; dead
\* if the device cannot be made again either.
NoFault == [kind |-> "none", at |-> Label, twice |-> FALSE, dead |-> FALSE]
Fault   == {NoFault} \cup IF faults = MaxFaults THEN {}
             ELSE [kind : {"draw", "commit", "lost"}, at : Window, twice : BOOLEAN, dead : BOOLEAN]
Strikes(c, w, f) == f.kind # "none" /\ f.at = w /\ (c.hits = 0 \/ f.twice)

Attached(c, w) == c.res[w] = "attached"     \* surface_is_ready

-----------------------------------------------------------------------------
(* The runtime *)

\* request_redraw: requests coalesce, and only the first one asks for a paint message.
RequestRedraw(c, ws) ==
  [c EXCEPT !.pending = @ \cup ws, !.invalid = @ \cup (ws \ c.pending)]

RetainRedraw(c, ws) == [c EXCEPT !.pending = @ \cup ws]

\* ShowWindow and hiding; Windows asks a window that appears to paint.
Shows(c, ws) == [c EXCEPT !.shown = @ \cup ws, !.invalid = @ \cup (ws \ c.shown)]
Hides(c, ws) == [c EXCEPT !.shown = @ \ ws]

-----------------------------------------------------------------------------
(* The device *)

\* recover_device: every resource goes; registrations stay, and wait for a frame of
\* their own scene in detached resources.
RecoverDevice(c, f) ==
  LET gone == [c EXCEPT !.device = FALSE, !.res = [w \in Window |-> "none"],
                        !.frame = [w \in Window |-> 0], !.dirty = FALSE, !.redraws = {}]
  IN  IF f.dead THEN gone
      ELSE [gone EXCEPT !.device = TRUE, !.redraws = c.on, !.committed = c.opacity,
                        !.res = [w \in Window |-> IF w \in c.on THEN "detached" ELSE "none"]]

RecoverIfNeeded(c, f) ==
  IF ~c.device \/ \E w \in c.on : c.res[w] = "none" THEN RecoverDevice(c, f) ELSE c

HideUnready(c) == Hides(c, {w \in Pip : ~Attached(c, w)})    \* hide_unready_pip_pairs

\* schedule_compositor_recovery; a message is posted unless one is, or the pass runs.
ScheduleRecovery(c) ==
  IF c.redraws = {} THEN c
  ELSE [RequestRedraw(HideUnready(c), c.redraws) EXCEPT !.posted = @ \/ ~c.servicing,
                                                        !.message = @ \/ (~c.servicing /\ ~c.posted)]

\* ensure_compositor: afterwards there is a device, or every PiP is hidden.
Ensured(r) == IF r.device THEN ScheduleRecovery(r) ELSE Hides(r, Pip)
EnsureCompositor(c, f) == Ensured(RecoverIfNeeded(c, f))

\* set_surface_opacity: an attached effect needs a commit.
SetOpacity(c, w, value) ==
  IF c.opacity[w] = value THEN c
  ELSE [c EXCEPT !.opacity[w] = value, !.dirty = @ \/ Attached(c, w)]

\* flush, after the commit succeeded.
Flushed(c) == [c EXCEPT !.dirty = FALSE, !.committed = c.opacity]

\* flush, when the commit fails: it stays to be done.
FlushFailed(c) == c

WantedOpacity(c, w) ==
  IF (w = Label /\ c.hovered) \/ (w = Toast /\ c.alpha = 0) THEN "low" ELSE "full"

\* register_surface
Registered(c, w) ==
  IF w \in c.on THEN c
  ELSE [c EXCEPT !.on = @ \cup {w}, !.size[w] = SizeOf(c.scene[w]), !.res[w] = "detached",
                 !.frame[w] = 0, !.opacity[w] = "full", !.committed[w] = "full",
                 !.redraws = @ \cup {w}]

\* Mutant: the new size is taken over before the commit that failed.
CommitFailedSized(c, w) == [c EXCEPT !.size[w] = SizeOf(c.scene[w])]

\* replace_surface_frame, when the commit fails.  A frame of the same size is in the
\* buffer already, attached or not; one of a new size has a buffer that is dropped.
CommitFailed(c, w) ==
  IF c.size[w] = SizeOf(c.scene[w]) THEN [c EXCEPT !.frame[w] = c.scene[w]] ELSE c

\* replace_surface_frame, when all goes well: the frame is complete before it is attached.
Presented(c, w) ==
  [c EXCEPT !.frame[w] = c.scene[w], !.size[w] = SizeOf(c.scene[w]), !.res[w] = "attached",
            !.redraws = @ \ {w}]

\* A scene needs a commit to appear, unless its buffer is on the screen.
NeedsCommit(c, w) == c.dirty \/ ~Attached(c, w) \/ c.size[w] # SizeOf(c.scene[w])

\* render_*_surface, without a frame: the request is kept.
Fails(d, w) == [s |-> [RetainRedraw(d, {w}) EXCEPT !.hits = @ + 1], ok |-> FALSE]

\* render_*_surface: c before and d after the registration and the opacity.
RenderFrame(c, d, w, f) ==
  CASE Strikes(c, w, f) /\ f.kind = "draw" -> Fails(IF w \in c.on THEN d ELSE c, w)
    [] Strikes(c, w, f) /\ f.kind = "lost" -> Fails(RecoverDevice(d, f), w)
    [] Strikes(c, w, f) /\ f.kind = "commit" /\ NeedsCommit(d, w) ->
         Fails(IF Attached(d, w) /\ d.size[w] = SizeOf(c.scene[w])
               THEN FlushFailed(Presented(d, w)) ELSE CommitFailed(d, w), w)
    [] OTHER ->
         [s |-> [(IF NeedsCommit(d, w) THEN Flushed(Presented(d, w)) ELSE Presented(d, w))
                   EXCEPT !.pending = @ \ {w}, !.ready = @ \/ w = Toast],
          ok |-> TRUE]

\* render_*_surface: the state afterwards, and the frame appeared or not.
RenderOn(c, w, f) ==
  IF c.device
  THEN RenderFrame(c, SetOpacity(Registered(c, w), w, WantedOpacity(c, w)), w, f)
  ELSE [s |-> RetainRedraw(c, {w}), ok |-> FALSE]
RenderOnce(c, w, f) ==
  RenderOn(EnsureCompositor([c EXCEPT !.ready = @ /\ w # Toast], f), w, f)

-----------------------------------------------------------------------------
(* The recovery pass *)

\* unregister_composition_surface: a failing teardown makes the device anew, after which
\* the surface is detached.
Unregister(c, w, f) ==
  LET bad  == Attached(c, w) /\ Strikes(c, w, f)
      r    == IF bad THEN RecoverDevice([c EXCEPT !.hits = @ + 1], f) ELSE c
  IN  IF bad /\ f.dead THEN [s |-> r, ok |-> FALSE]
      ELSE [s |-> [r EXCEPT !.on = @ \ {w}, !.res[w] = "none", !.frame[w] = 0,
                            !.redraws = @ \ {w}, !.pending = @ \ {w}], ok |-> TRUE]

\* destroy_pip_window: without its surface detached a window waits to be destroyed.
Destroyed(u, w) ==
  [Hides(u.s, {w}) EXCEPT !.alive[w] = IF u.ok THEN "no" ELSE "pending", !.invalid = @ \ {w}]
DestroyPip(c, w, f) == Destroyed(Unregister(c, w, f), w)

\* retry_pending_composition_destroys
RetryDestroys(c, f) ==
  FoldLeft(LAMBDA d, w : IF d.alive[w] = "pending" THEN DestroyPip(d, w, f) ELSE d,
           c, [i \in Window |-> i])

\* suppress_toast_publication
Suppress(c) == [Hides(c, {Toast}) EXCEPT !.ready = FALSE, !.timer = FALSE]

\* publication_allowed
Publishable(c) == c.phase # "hidden" /\ c.ready /\ c.allowed /\ Attached(c, Toast)

\* apply_pip_pair_visibility: a pair without a frame waits for one, hidden.
ApplyPips(c, visible) ==
  LET up    == {w \in Pip : c.alive[w] = "up"}
      ready == {w \in up : visible /\ Attached(c, w)}
  IN  Shows(Hides(IF visible THEN RequestRedraw(c, up \ ready) ELSE c, up \ ready), ready)

PublishToast(c) ==
  IF Publishable(c) THEN [Shows(c, {Toast}) EXCEPT !.timer = TRUE]
  ELSE [Hides(c, {Toast}) EXCEPT !.timer = FALSE]

\* The windows with a request are rendered, each once.
DrawPending(c, f) ==
  FoldLeft(LAMBDA d, w : IF w \in d.pending /\ d.alive[w] = "up" THEN RenderOnce(d, w, f).s ELSE d,
           c, [i \in Window |-> i])
DrawRecovered(r, f) == DrawPending(RetainRedraw(r, r.redraws), f)

\* service_compositor_recovery: one attempt for each window with a request; a second loss
\* leaves the requests to the poll.
ServiceOn(e, f) ==
  IF e.device THEN PublishToast(ApplyPips(DrawRecovered(RetryDestroys(e, f), f), e.allowed))
  ELSE Suppress(e)
Service(c, f) ==
  [ServiceOn(EnsureCompositor([c EXCEPT !.servicing = TRUE, !.posted = FALSE], f), f)
     EXCEPT !.servicing = FALSE]

\* A failing render outside the pass starts one.
AfterRender(r, c, f) ==
  IF r.ok \/ (~r.s.device /\ r.s.hits = c.hits) THEN r ELSE [r EXCEPT !.s = Service(@, f)]
Render(c, w, f) == AfterRender(RenderOnce(c, w, f), c, f)

\* set_composition_opacity, when the call fails: e before and d after the opacity.
OpacityFailed(e, d, f) ==
  [(CASE f.kind = "lost" -> RecoverDevice(d, f) [] f.kind = "commit" -> FlushFailed(d) [] OTHER -> e)
     EXCEPT !.hits = @ + 1]

\* set_composition_opacity
OpacityOn(e, d, w, f) ==
  IF ~e.device THEN RetainRedraw(e, {w})
  ELSE IF w \in e.on /\ (~d.dirty \/ ~Strikes(e, w, f)) THEN (IF d.dirty THEN Flushed(d) ELSE d)
  ELSE Service(RetainRedraw(IF w \in e.on THEN OpacityFailed(e, d, f) ELSE e, {w}), f)
OpacityWith(e, w, f)   == OpacityOn(e, SetOpacity(e, w, WantedOpacity(e, w)), w, f)
ChangeOpacity(c, w, f) == OpacityWith(EnsureCompositor(c, f), w, f)

\* update_visibility
RenderPending(c, f) ==
  FoldLeft(LAMBDA d, w : IF w # Toast /\ w \in d.pending /\ d.alive[w] = "up"
                         THEN Render(d, w, f).s ELSE d,
           c, [i \in Window |-> i])
ShowLabel(c) == IF Attached(c, Label) THEN Shows(c, {Label}) ELSE c
UpdateVisibility(c, f) ==
  IF c.allowed THEN ShowLabel(ApplyPips(RenderPending(c, f), TRUE))
  ELSE [Hides(IF c.hovered THEN ChangeOpacity([c EXCEPT !.hovered = FALSE], Label, f) ELSE c, Window)
          EXCEPT !.timer = FALSE, !.phase = "hidden", !.ready = FALSE]

-----------------------------------------------------------------------------
(* Handlers.  Each is atomic: a message that arrives meanwhile finds the overlay busy. *)

Ends(c, f) ==
  /\ s' = [c EXCEPT !.hits = 0]
  /\ faults' = faults + IF f = NoFault THEN 0 ELSE 1

\* The state behind a window changes: request_redraw.
SceneChanges(w) ==
  /\ s.alive[w] = "up" /\ w # Toast /\ s.scene[w] < MaxScene
  /\ s' = RequestRedraw([s EXCEPT !.scene[w] = @ + 1], {w})
  /\ UNCHANGED <<moves, faults>>

\* WM_PAINT of a window on the screen.
Painted(c, w) == IF w = Toast /\ ~Publishable(c) THEN Suppress(c) ELSE c
Paint(w, f) ==
  /\ w \in s.invalid \cap s.shown
  /\ LET asked == [s EXCEPT !.invalid = @ \ {w}, !.pending = @ \ {w}]
     IN  Ends(IF w \notin s.pending /\ Attached(s, w) THEN asked
              ELSE Painted(Render(asked, w, f).s, w), f)
  /\ UNCHANGED moves

\* WM_PAINT or the posted message while the overlay is busy: the paint is validated
\* without a frame, the message is lost.
PaintBusy(w) ==
  /\ w \in s.invalid \cap s.shown /\ faults < MaxFaults /\ faults' = faults + 1
  /\ s' = [s EXCEPT !.invalid = @ \ {w}]
  /\ UNCHANGED moves
RecoveryBusy ==
  /\ s.message /\ faults < MaxFaults /\ faults' = faults + 1
  /\ s' = [s EXCEPT !.message = FALSE]
  /\ UNCHANGED moves

\* WM_SERVICE_COMPOSITOR_RECOVERY
ServicePosted(f) ==
  /\ s.message
  /\ Ends(Service([s EXCEPT !.message = FALSE], f), f)
  /\ UNCHANGED moves

\* poll: a PiP comes or goes, then the recovery pass and the visibility.
Created(c, w, f) == Render([c EXCEPT !.alive[w] = "up"], w, f).s
Poll(c, f)       == Ends(UpdateVisibility(Service(c, f), f), f)
PollUnchanged(f) == Poll(s, f) /\ UNCHANGED moves
PollWindows(w, f) ==
  /\ moves < MaxMoves /\ moves' = moves + 1
  /\ s.alive[w] # "pending"
  /\ Poll(IF s.alive[w] = "no" THEN Created(s, w, f) ELSE DestroyPip(s, w, f), f)

\* handle_foreground_change
SetForeground(f) ==
  /\ moves < MaxMoves /\ moves' = moves + 1
  /\ Ends(UpdateVisibility([s EXCEPT !.allowed = ~@], f), f)

\* WM_MOUSEMOVE and WM_MOUSELEAVE of the active label.
Hover(f) ==
  /\ Label \in s.shown /\ moves < MaxMoves /\ moves' = moves + 1
  /\ Ends(ChangeOpacity([s EXCEPT !.hovered = ~@], Label, f), f)

\* show_toast_inner, up to the new text: no older toast remains visible.
StageToast(c) == [Suppress(c) EXCEPT !.phase = "hidden", !.alpha = 0, !.scene[Toast] = @ + 1]

\* show_toast_inner: the new toast is published once its frame is presented.
Staged(r) ==
  LET staged == [r.s EXCEPT !.phase = "in"]
  IN  IF ~r.ok THEN Suppress(r.s)
      ELSE IF Publishable(staged) THEN [Shows(staged, {Toast}) EXCEPT !.timer = TRUE]
      ELSE Suppress([r.s EXCEPT !.phase = "hidden"])
ToastOn(e, f) == IF e.device THEN Staged(Render(StageToast(e), Toast, f)) ELSE e
ShowToast(f) ==
  /\ s.allowed /\ s.scene[Toast] < MaxScene
  /\ Ends(ToastOn(EnsureCompositor(s, f), f), f)
  /\ UNCHANGED moves

\* advance_toast: fade in, stay, fade out.
AdvanceToast(f) ==
  /\ s.timer
  /\ LET later == CASE s.phase = "in" -> "visible" [] s.phase = "visible" -> "out" [] OTHER -> "hidden"
     IN  Ends(IF ~Publishable(s) THEN Suppress([s EXCEPT !.phase = "hidden"])
              ELSE CASE later = "visible" -> ChangeOpacity([s EXCEPT !.phase = later, !.alpha = 1], Toast, f)
                     [] later = "out" -> [s EXCEPT !.phase = later]
                     [] OTHER -> Suppress([s EXCEPT !.phase = later]), f)
  /\ UNCHANGED moves

CompNext ==
  \/ \E w \in Window : SceneChanges(w) \/ PaintBusy(w)
  \/ RecoveryBusy
  \/ \E f \in Fault :
       \/ \E w \in Window : Paint(w, f)
       \/ \E w \in Pip : PollWindows(w, f)
       \/ ServicePosted(f) \/ PollUnchanged(f) \/ SetForeground(f) \/ Hover(f)
       \/ ShowToast(f) \/ AdvanceToast(f)

CompSpec == CompInit /\ [][CompNext]_compVars

\* The poll would change nothing.
PollQuiet == [UpdateVisibility(Service(s, NoFault), NoFault) EXCEPT !.hits = 0] = s

-----------------------------------------------------------------------------

\* Types; what is attached has a complete frame of the size that is registered, whichever
\* commit failed, and a window is destroyed only without a registration.
CompTypeOK ==
  /\ s.phase \in {"hidden", "in", "visible", "out"} /\ ~s.servicing /\ s.hits = 0
  /\ s.redraws \subseteq s.on
  /\ \A w \in Window :
       /\ s.res[w] \in {"none", "detached", "attached"}
       /\ w \notin s.on => s.res[w] = "none"
       /\ Attached(s, w) => s.device /\ s.frame[w] # 0 /\ s.size[w] = SizeOf(s.frame[w])

\* "only destroy while the outer overlay transaction guard blocks" and after the surface
\* is detached: no registration outlives its window.
NoOrphanSurfaces == \A w \in s.on : s.alive[w] # "no"

\* A PiP is on the screen only with a frame of its own: after every handler, although the
\* device may have been lost in the middle of it.
NoUnfinishedPips == \A w \in Pip \cap s.shown : s.alive[w] = "up" /\ Attached(s, w)

\* "Replacement is fail-closed": the toast on the screen is the last one asked for, drawn
\* completely, never an older frame.
ToastTruthful ==
  Toast \in s.shown => s.ready /\ Attached(s, Toast) /\ s.frame[Toast] = s.scene[Toast]

\* Requests that were coalesced, retained without a paint message or lost with one end in
\* a frame: the PiPs show their clients' last state in the end.
FramesArrive ==
  <>[](\A w \in Pip : s.alive[w] = "up" /\ s.allowed => w \in s.shown /\ s.frame[w] = s.scene[w])

\* The last opacity set is committed in the end, also when a commit failed.
OpacityCommitted == <>[](\A w \in s.on : s.committed[w] = s.opacity[w])

\* A toast whose timer was killed by a lost device still goes away.
ToastsEnd == <>[](s.phase = "hidden" /\ Toast \notin s.shown)

\* A window whose surface could not be detached is destroyed later.
DestroysFinish == <>[](\A w \in Window : s.alive[w] # "pending")

\* Nothing stale, unfinished or without a window is on the screen.
SurfacesSound == CompTypeOK /\ NoOrphanSurfaces /\ NoUnfinishedPips /\ ToastTruthful

\* Whatever failed is done in the end.
CompositorSettles == FramesArrive /\ OpacityCommitted /\ ToastsEnd /\ DestroysFinish
=============================================================================
