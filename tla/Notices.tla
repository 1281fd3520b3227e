------------------------------ MODULE Notices ------------------------------
(***************************************************************************)
(* The notification centre of the overlay (overlay/notifications.rs): the  *)
(* unread notices of every EverQuest client, the preview painted on its    *)
(* PiP label with the Accept and Dismiss buttons of a group invitation,    *)
(* and the Win32 timer that animates the previews.                         *)
(*                                                                         *)
(* Everything runs on the overlay's thread, one window message at a time:  *)
(* log events, timer ticks, paints, mouse messages, the poll and a         *)
(* settings reload.  A notice is told apart by a serial number `id'; time  *)
(* is the age of the newest notice of a client, counted in units and kept  *)
(* at PreviewDuration once it is reached.                                  *)
(***************************************************************************)
EXTENDS Integers, Sequences, FiniteSets, SequencesExt

CONSTANTS
    Box,                \* process ids of EverQuest clients
    Namesakes,          \* the clients logged in under the name of an old-style log source
    Sources,            \* the log sources that produce events: clients, or "named"
    Roomy,              \* the clients whose PiP has room for the buttons of an invitation
    AnimationDuration,  \* units the border of a new notice is animated
    PreviewDuration,    \* units the preview of a new notice is shown
    MaxUnread,          \* MAX_TRACKED_UNREAD
    AaLevels,           \* values of aa_points_per_notification in the settings
    MaxEvents,          \* bound: log events
    MaxInputs,          \* bound: mouse and focus changes
    MaxPolicies,         \* bound: settings reloads, attached and closed clients
    Nobody              \* no process

ASSUME NoticeBounds ==
    /\ AnimationDuration \in Nat /\ PreviewDuration \in Nat
    /\ AnimationDuration < PreviewDuration
    /\ MaxUnread \in Nat \ {0} /\ AaLevels \subseteq Nat \ {0}
    /\ \E most \in AaLevels : \A level \in AaLevels : level <= most
    /\ Namesakes \subseteq Box /\ Roomy \subseteq Box /\ Nobody \notin Box

VARIABLES
    attached,   \* clients.windows
    selected,   \* the active client: it has a label of its own and no PiP
    keyboard,   \* the client with the foreground and the keyboard focus, or Nobody
    notices,    \* NotificationCenter.entries
    aaPoints,   \* aa_points_since_notification
    policy,     \* the notification settings
    ticking,    \* the animation timer is set
    repaint,    \* PiP labels with a redraw request
    onScreen,   \* what each PiP label was last painted with
    editing,    \* interaction.edit_mode
    pressedOn,  \* history: for each client, notice and button of the newest press on its PiP
    acted,      \* history: of the newest executed action, the notice and button, and those pressed
    spent       \* the bounds used up

noticeVars == <<attached, selected, keyboard, notices, aaPoints, policy,
                ticking, repaint, onScreen, editing, pressedOn, acted, spent>>

Kind == {"tell", "groupInvite", "trade", "aaGain"}
Button == {"accept", "dismiss"}
NoEntry == [kind |-> "none"]
NoPress == <<0, "none">>
Labelled == attached \ {selected}   \* the clients with a PiP

-----------------------------------------------------------------------------
(* Notification::preview_visible and animation_frame. *)
PreviewVisible(n) == ~n.previewDone /\ n.age < PreviewDuration
Animating(n) == ~n.animationDone /\ n.age < AnimationDuration

(* Mutant: the press survives the arrival of a newer notice. *)
PushKeepsPress(old, kind, id, actions) ==
    [kind |-> kind, age |-> 0, actions |-> actions,
     unread |-> LET u == IF old = NoEntry THEN <<>> ELSE old.unread
                IN  Append(IF Len(u) = MaxUnread THEN Tail(u) ELSE u, <<id, kind>>),
     hovered |-> IF old = NoEntry THEN "none" ELSE old.hovered,
     pressed |-> IF old = NoEntry THEN "none" ELSE old.pressed,
     previewPressed |-> IF old = NoEntry THEN FALSE ELSE old.previewPressed,
     animationDone |-> FALSE, previewDone |-> FALSE]

(* Notification::push. *)
Push(old, kind, id, actions) ==
    [kind |-> kind, age |-> 0, actions |-> actions,
     unread |-> LET u == IF old = NoEntry THEN <<>> ELSE old.unread
                IN  Append(IF Len(u) = MaxUnread THEN Tail(u) ELSE u, <<id, kind>>),
     hovered |-> "none", pressed |-> "none", previewPressed |-> FALSE,
     animationDone |-> FALSE, previewDone |-> FALSE]

(* Notification::finish_current_preview: the newest of the notices that    *)
(* are left becomes the current one; without any the entry goes.           *)
FinishCurrentPreview(n) ==
    IF n.unread = <<>> THEN NoEntry
    ELSE [n EXCEPT !.kind = Last(n.unread)[2], !.actions = FALSE,
                   !.hovered = "none", !.pressed = "none", !.previewPressed = FALSE,
                   !.animationDone = TRUE, !.previewDone = TRUE]

(* Notification::dismiss_invite. *)
DismissInvite(n) ==
    IF n = NoEntry \/ n.kind # "groupInvite" THEN n
    ELSE FinishCurrentPreview([n EXCEPT !.unread = Front(@)])

(* What is left of the notices u without those of a kind, in their order   *)
(* (SelectSeq, spelt out for the proofs).                                  *)
Retained(u, kind) ==
    LET kept[i \in 0..Len(u)] ==
            IF i = 0 THEN <<>>
            ELSE IF u[i][2] # kind THEN Append(kept[i - 1], u[i]) ELSE kept[i - 1]
    IN  kept[Len(u)]

(* Notification::resolve_kind. *)
ResolveKind(n, kind) ==
    IF n = NoEntry THEN n
    ELSE LET left == [n EXCEPT !.unread = Retained(@, kind)]
         IN  IF n.kind = kind THEN FinishCurrentPreview(left)
             ELSE IF left.unread = <<>> THEN NoEntry ELSE left

(* pid_for_log_source: an exact process must still be attached; a name     *)
(* must belong to exactly one attached client.                             *)
PidForLogSource(source) ==
    IF source \in Box THEN (IF source \in attached THEN source ELSE Nobody)
    ELSE LET matches == Namesakes \cap attached
         IN  IF Cardinality(matches) = 1 THEN CHOOSE p \in matches : TRUE ELSE Nobody

(* What a paint of the PiP label shows of a notice. *)
Visual(n) ==
    IF n = NoEntry THEN "blank"
    ELSE IF PreviewVisible(n) THEN "preview"
    ELSE IF Animating(n) THEN "animated" ELSE "steady"

-----------------------------------------------------------------------------
Spend(what) == spent' = [spent EXCEPT ![what] = @ + 1]
MaySpend(what) ==
    spent[what] < [events |-> MaxEvents, inputs |-> MaxInputs, reloads |-> MaxPolicies][what]

NoticesInit ==
    /\ attached = Box
    /\ \E p \in Box : selected = p /\ keyboard \in {p, Nobody}
    /\ notices = [p \in Box |-> NoEntry]
    /\ aaPoints = [p \in Box |-> 0]
    /\ policy = [visual |-> TRUE, kinds |-> Kind, aaPer |-> Max(AaLevels)]
    /\ ticking = FALSE /\ repaint = {} /\ onScreen = [p \in Box |-> "blank"]
    /\ editing = FALSE /\ pressedOn = [p \in Box |-> NoPress] /\ acted = <<NoPress, NoPress>>
    /\ spent = [events |-> 0, inputs |-> 0, reloads |-> 0]

(* apply_to_pid (with visual_delivery): nothing unread for the client that *)
(* has the keyboard, nothing new while visuals are off.                    *)
ApplyToPid(p, kind) ==
    \/ /\ keyboard = p
       /\ notices' = [notices EXCEPT ![p] = NoEntry]
       /\ UNCHANGED <<ticking, repaint>>
    \/ /\ keyboard # p /\ ~policy.visual
       /\ UNCHANGED <<notices, ticking, repaint>>
    \/ /\ keyboard # p /\ policy.visual
       /\ \E available \in BOOLEAN :     \* invite_follow_available
              notices' = [notices EXCEPT ![p] =
                  Push(@, kind, spent.events + 1, kind = "groupInvite" /\ available)]
       /\ ticking' = TRUE
       /\ repaint' = repaint \cup ({p} \cap Labelled)

(* apply: a tell, an invitation, a trade, ... is read from a log. *)
Apply(source, kind) ==
    LET p == PidForLogSource(source)
    IN  /\ kind # "aaGain" /\ kind \in policy.kinds /\ p # Nobody
        /\ ApplyToPid(p, kind)
        /\ UNCHANGED aaPoints

(* record_aa_point_gain and its notice. *)
ApplyAaGain(source) ==
    LET p == PidForLogSource(source)
        count == aaPoints[p] + 1
    IN  /\ "aaGain" \in policy.kinds /\ p # Nobody
        /\ IF count < policy.aaPer
           THEN /\ aaPoints' = [aaPoints EXCEPT ![p] = count]
                /\ UNCHANGED <<notices, ticking, repaint>>
           ELSE /\ aaPoints' = [aaPoints EXCEPT ![p] = 0]
                /\ ApplyToPid(p, "aaGain")

(* resolve_for_source: EverQuest says that an invitation was answered or a *)
(* trade was cancelled.                                                    *)
Resolve(source, kind) ==
    LET p == PidForLogSource(source)
    IN  /\ kind \in {"groupInvite", "trade"} /\ p # Nobody
        /\ notices' = [notices EXCEPT ![p] = ResolveKind(@, kind)]
        /\ repaint' = repaint \cup ({p} \cap Labelled)
        /\ UNCHANGED <<aaPoints, ticking>>

(* apply_log_event; an event that matches no case changes nothing. *)
ApplyLogEvent ==
    /\ \E source \in Sources :
          \/ /\ MaySpend("events") /\ Spend("events")
             /\ \/ \E kind \in Kind : Apply(source, kind)
                \/ ApplyAaGain(source)
          \/ /\ \E kind \in Kind : Resolve(source, kind)
             /\ UNCHANGED spent
    /\ UNCHANGED <<attached, selected, keyboard, policy, onScreen, editing, pressedOn, acted>>

-----------------------------------------------------------------------------
(* redraws_for_tick: a step of the border, its end, or the preview's end. *)
RedrawnByTick(n) ==
    \/ Animating(n) \/ ~n.animationDone
    \/ ~PreviewVisible(n) /\ ~n.previewDone

Ticked(n) == [n EXCEPT !.animationDone = @ \/ ~Animating(n),
                       !.previewDone = @ \/ ~PreviewVisible(n)]

(* tick: only the clients that have a PiP are advanced; the timer ends     *)
(* with the last preview of any client.                                    *)
NoticeTick ==
    LET shown == {p \in Labelled : notices[p] # NoEntry}
    IN  /\ ticking
        /\ repaint' = repaint \cup {p \in shown : RedrawnByTick(notices[p])}
        /\ notices' = [p \in Box |-> IF p \in shown THEN Ticked(notices[p]) ELSE notices[p]]
        /\ ticking' = \E p \in Box : notices[p] # NoEntry /\ PreviewVisible(notices'[p])
        /\ UNCHANGED <<attached, selected, keyboard, aaPoints, policy, onScreen, editing,
                       pressedOn, acted, spent>>

(* Time: every notice grows older. *)
Grow ==
    /\ \E p \in Box : notices[p] # NoEntry /\ notices[p].age < PreviewDuration
    /\ notices' = [p \in Box |->
           IF notices[p] # NoEntry /\ notices[p].age < PreviewDuration
           THEN [notices[p] EXCEPT !.age = @ + 1] ELSE notices[p]]
    /\ UNCHANGED <<attached, selected, keyboard, aaPoints, policy, ticking, repaint,
                   onScreen, editing, pressedOn, acted, spent>>

(* A WM_PAINT of a PiP label (external: surfaces.rs paints, the Compositor *)
(* module follows what happens to the frame).                              *)
PaintLabel(p) ==
    /\ p \in repaint
    /\ repaint' = repaint \ {p}
    /\ onScreen' = [onScreen EXCEPT ![p] = Visual(notices[p])]
    /\ UNCHANGED <<attached, selected, keyboard, notices, aaPoints, policy, ticking,
                   editing, pressedOn, acted, spent>>

-----------------------------------------------------------------------------
(* preview_available_bounds, preview_layout: the buttons of an invitation  *)
(* are laid out only where they fit; a preview without them takes no       *)
(* pointer input.                                                          *)
ButtonsFit(p) == p \in Roomy

(* invite_interaction_at_point: what the pointer hits on the PiP of p. *)
Hit(p, point) ==
    LET n == notices[p]
    IN  IF editing \/ n = NoEntry \/ point = "outside" THEN "outside"
        ELSE IF ~n.actions \/ n.previewDone \/ ~PreviewVisible(n) THEN "outside"
        ELSE IF ButtonsFit(p) THEN point ELSE "outside"

Point == Button \cup {"surface", "outside"}
AsButton(hit) == IF hit \in Button THEN hit ELSE "none"

(* update_invite_hover: WM_MOUSEMOVE outside of edit mode. *)
UpdateInviteHover(p, point) ==
    /\ p \in Labelled /\ ~editing /\ notices[p] # NoEntry
    /\ notices[p].hovered # AsButton(Hit(p, point))
    /\ notices' = [notices EXCEPT ![p].hovered = AsButton(Hit(p, point))]
    /\ repaint' = repaint \cup {p}
    /\ MaySpend("inputs") /\ Spend("inputs")
    /\ UNCHANGED <<attached, selected, keyboard, aaPoints, policy, ticking, onScreen,
                   editing, pressedOn, acted>>

(* clear_invite_interaction: the pointer left, capture was lost or a modal *)
(* state began.  The three fields are cleared by one short-circuit `||': a *)
(* hover that is cleared leaves the press in place.                        *)
ClearInviteInteraction(p) ==
    /\ p \in Labelled /\ notices[p] # NoEntry
    /\ notices[p].hovered # "none" \/ notices[p].pressed # "none" \/ notices[p].previewPressed
    /\ notices' = [notices EXCEPT ![p] =
           IF @.hovered # "none" THEN [@ EXCEPT !.hovered = "none"]
           ELSE IF @.pressed # "none" THEN [@ EXCEPT !.pressed = "none"]
           ELSE [@ EXCEPT !.previewPressed = FALSE]]
    /\ repaint' = repaint \cup {p}
    /\ MaySpend("inputs") /\ Spend("inputs")
    /\ UNCHANGED <<attached, selected, keyboard, aaPoints, policy, ticking, onScreen,
                   editing, pressedOn, acted>>

(* press_invite_action: WM_LBUTTONDOWN on the preview of an invitation. *)
PressInviteAction(p, point) ==
    /\ p \in Labelled /\ Hit(p, point) # "outside"
    /\ notices' = [notices EXCEPT ![p].previewPressed = TRUE,
                                  ![p].hovered = AsButton(Hit(p, point)),
                                  ![p].pressed = AsButton(Hit(p, point))]
    /\ pressedOn' = [pressedOn EXCEPT ![p] =
           <<Last(notices[p].unread)[1], AsButton(Hit(p, point))>>]
    /\ repaint' = repaint \cup {p}
    /\ MaySpend("inputs") /\ Spend("inputs")
    /\ UNCHANGED <<attached, selected, keyboard, aaPoints, policy, ticking, onScreen,
                   editing, acted>>

(* release_invite_action and execute_invite_action: WM_LBUTTONUP.  The     *)
(* button acts if it is the one that was pressed; an Accept that cannot be *)
(* sent keeps the notice and takes its buttons away.                       *)
ReleaseInviteAction(p, point) ==
    LET n == notices[p]
        button == AsButton(Hit(p, point))
        released == [n EXCEPT !.previewPressed = FALSE, !.pressed = "none", !.hovered = button]
        refused == [n EXCEPT !.previewPressed = FALSE, !.pressed = "none", !.hovered = "none",
                             !.actions = FALSE]
    IN  /\ p \in Labelled /\ ~editing /\ n # NoEntry /\ n.previewPressed
        /\ repaint' = repaint \cup {p}
        /\ \/ /\ button = "none" \/ button # n.pressed
              /\ notices' = [notices EXCEPT ![p] = released]
              /\ UNCHANGED acted
           \/ /\ button # "none" /\ button = n.pressed
              /\ acted' = <<<<Last(n.unread)[1], button>>, pressedOn[p]>>
              /\ \/ notices' = [notices EXCEPT ![p] = DismissInvite(released)]
                 \/ button = "accept" /\ notices' = [notices EXCEPT ![p] = refused]
        /\ UNCHANGED <<attached, selected, keyboard, aaPoints, policy, ticking, onScreen,
                       editing, pressedOn, spent>>

-----------------------------------------------------------------------------
(* External: the user moves the focus between the clients and elsewhere,   *)
(* and turns the layout editor on or off.                                  *)
MoveFocus ==
    /\ MaySpend("inputs") /\ Spend("inputs")
    /\ \/ keyboard' \in (attached \cup {Nobody}) \ {keyboard} /\ UNCHANGED editing
       \/ editing' = ~editing /\ UNCHANGED keyboard
    /\ UNCHANGED <<attached, selected, notices, aaPoints, policy, ticking, repaint,
                   onScreen, pressedOn, acted>>

(* The poll: the client with the keyboard is promoted, its notices are     *)
(* acknowledged, and changed PiPs are built and painted anew.              *)
PollFocus ==
    /\ keyboard # Nobody /\ (selected # keyboard \/ notices[keyboard] # NoEntry)
    /\ notices' = [notices EXCEPT ![keyboard] = NoEntry]
    /\ selected' = keyboard
    /\ repaint' = IF selected = keyboard THEN repaint ELSE attached \ {keyboard}
    /\ UNCHANGED <<attached, keyboard, aaPoints, policy, ticking, onScreen, editing,
                   pressedOn, acted, spent>>

(* The poll: a client has gone or come. *)
PollClients(p) ==
    /\ MaySpend("reloads") /\ Spend("reloads")
    /\ \/ /\ p \in attached /\ attached # {p}
          /\ attached' = attached \ {p}
          /\ notices' = [notices EXCEPT ![p] = NoEntry]      \* remove_client
          /\ aaPoints' = [aaPoints EXCEPT ![p] = 0]
          /\ keyboard' = IF keyboard = p THEN Nobody ELSE keyboard
          /\ selected' \in IF selected = p THEN attached' ELSE {selected}
       \/ /\ p \notin attached
          /\ attached' = attached \cup {p}
          /\ UNCHANGED <<notices, aaPoints, keyboard, selected>>
    /\ repaint' = attached' \ {selected'}
    /\ onScreen' = [onScreen EXCEPT ![p] = "blank"]
    /\ UNCHANGED <<policy, ticking, editing, pressedOn, acted>>

(* force_rebuild: the settings are read again (apply_config). *)
ReloadSettings(new) ==
    /\ MaySpend("reloads") /\ Spend("reloads")
    /\ policy' = new
    /\ aaPoints' = IF ("aaGain" \in policy.kinds) = ("aaGain" \in new.kinds)
                      /\ policy.aaPer = new.aaPer
                   THEN aaPoints ELSE [p \in Box |-> 0]
    /\ IF ~new.visual \/ policy.kinds # new.kinds
       THEN notices' = [p \in Box |-> NoEntry] /\ ticking' = FALSE
       ELSE UNCHANGED <<notices, ticking>>
    /\ repaint' = Labelled
    /\ UNCHANGED <<attached, selected, keyboard, onScreen, editing, pressedOn, acted>>

Policies == [visual : BOOLEAN, kinds : {Kind, Kind \ {"aaGain"}}, aaPer : AaLevels]

NoticesNext ==
    \/ ApplyLogEvent \/ NoticeTick \/ Grow \/ MoveFocus \/ PollFocus
    \/ \E p \in Box :
          \/ PaintLabel(p) \/ ClearInviteInteraction(p) \/ PollClients(p)
          \/ \E point \in Point :
                \/ UpdateInviteHover(p, point) \/ PressInviteAction(p, point)
                \/ ReleaseInviteAction(p, point)
    \/ \E new \in Policies : ReloadSettings(new)

NoticesSpec == NoticesInit /\ [][NoticesNext]_noticeVars

-----------------------------------------------------------------------------
Entry == [kind : Kind, age : 0..PreviewDuration, actions : BOOLEAN,
          unread : Seq(Nat \X Kind), hovered : Button \cup {"none"},
          pressed : Button \cup {"none"}, previewPressed : BOOLEAN,
          animationDone : BOOLEAN, previewDone : BOOLEAN]

(* The state is well formed, the unread notices of a client stay within    *)
(* MAX_TRACKED_UNREAD and its counted points below the reporting step.     *)
NoticesTypeOK ==
    /\ attached \subseteq Box /\ selected \in attached
    /\ keyboard \in attached \cup {Nobody}
    /\ \A p \in Box : notices[p] # NoEntry =>
          /\ notices[p] \in Entry /\ p \in attached
          /\ Len(notices[p].unread) \in 1..MaxUnread
    /\ \A p \in Box : aaPoints[p] \in 0..(policy.aaPer - 1)
    /\ repaint \subseteq Box /\ policy \in Policies

(* What a client's preview is about is its newest unread notice, and only  *)
(* an invitation that still offers its buttons holds a press: resolving,   *)
(* dismissing and refusing leave neither behind (finish_current_preview).  *)
CurrentIsNewest ==
    \A p \in Box : notices[p] # NoEntry =>
        /\ notices[p].kind = Last(notices[p].unread)[2]
        /\ notices[p].pressed # "none" =>
              notices[p].actions /\ notices[p].kind = "groupInvite"

(* An Accept or Dismiss is carried out for the notice and the button that  *)
(* were last pressed on the client's PiP, whatever notices arrive or are   *)
(* resolved before the mouse button is released there                      *)
(* (release_invite_action against push and resolve_kind).                  *)
ActsOnPressed == acted[1] = acted[2]

(* A preview that was painted does not stay: the timer runs for as long as *)
(* a preview is left and redraws its PiP when it ends (tick), and an entry *)
(* that goes is redrawn as well.  A client that takes the keyboard is the  *)
(* exception: a notice for it drops the entry without a redraw             *)
(* (SuppressFocused), and the promotion that would rebuild its PiP may be  *)
(* missed.                                                                 *)
PreviewsRedrawn ==
    [][\A p \in Box : onScreen[p] = "preview" /\ notices[p] # NoEntry /\ notices'[p] = NoEntry
         => p \in repaint' \/ onScreen'[p] # "preview" \/ p \notin Labelled' \/ keyboard = p]_noticeVars
PreviewsEnd == \A p \in Box :
    []<>(onScreen[p] # "preview" \/ p \notin Labelled \/ notices[p] = NoEntry \/ keyboard = p)

(* A client that keeps the keyboard has nothing unread for long, even when *)
(* it was the active client all along (poll, acknowledge).                 *)
FocusedIsRead == \A p \in Box :
    []<>(keyboard = p => notices[p] = NoEntry)

(* Notices come and go under the mouse and the keyboard, and none is acted *)
(* on for another.                                                         *)
NoticesSound == NoticesTypeOK /\ CurrentIsNewest /\ ActsOnPressed

(* None stays behind.                                                      *)
NoticesEnd == PreviewsRedrawn /\ PreviewsEnd /\ FocusedIsRead
=============================================================================
