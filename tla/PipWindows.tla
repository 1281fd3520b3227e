----------------------------- MODULE PipWindows -----------------------------
(***************************************************************************)
(* The picture-in-picture windows of the overlay: which host window shows  *)
(* which client (overlay/hosts.rs), how a rebuild hands thumbnails over    *)
(* when the desktop manager fails (pip_transition.rs), and the mouse       *)
(* gestures and the context menu on the hosts (pip_interaction.rs,         *)
(* menu.rs).  A message finds a host by its index, which a rebuild         *)
(* changes.  A thumbnail is the pair of its host and the client it shows.  *)
(* Invitations pressed on a host are in Notices, the partition of the      *)
(* clients into the active one and the PiPs in ClientSet.                  *)
(***************************************************************************)
EXTENDS Integers, Sequences, FiniteSets, SequencesExt, Functions

CONSTANTS Client,
          MaxPips,      \* MAX_PIPS, and bound: host windows
          MaxChanges,   \* bound: changes of the clients and displays
          MaxGestures,  \* bound: buttons pressed
          MaxPipFaults     \* bound: failing calls of the desktop manager

ASSUME PipBounds ==
  /\ {MaxPips, MaxChanges, MaxGestures, MaxPipFaults} \subseteq Nat
  /\ IsFiniteSet(Client)

Host     == 1 .. MaxPips + 1
NoClient == "none"
NoHost   == 0
\* The other windows that can be in front: the game's, the menu's hidden owner, a
\* stranger's; numbers, as the hosts are.
Game      == -1
MenuOwner == -2
Stranger  == -3

VARIABLES pips, activeClient,  \* ClientRegistry: the PiPs in order, and the active client
          hosts,        \* pip_windows: a sequence of [id, pid]
          dwm, opaque,  \* the thumbnails registered, and those with an opacity
          transition,   \* pip_transition: [on, out, timer]; out are outgoing thumbnails
          reorder,      \* reorder_drag: [from, dragging], and the client that was pressed
          dropTarget,   \* an index, 0 for none
          moving,       \* move_drag or pip_resize_drag: [index], and the client pressed
          strip,        \* strip_resize_drag
          editMode,
          pointer,      \* the host that tracks the pointer
          held,         \* the left button is down
          capture,      \* the host with the mouse capture
          front,        \* the foreground window: Game, MenuOwner, Stranger or a host
          cleared,      \* hosts with a posted WM_CLEAR_INVITE_CAPTURE
          menu,         \* [at, client, source]: the context menu
          hit,          \* the last gesture: the clients meant, the clients affected
          changes, gestures, pipFaults

winVars  == <<hosts, dwm, opaque, transition>>
dragVars == <<reorder, dropTarget, moving, strip>>
inVars   == <<pointer, held, capture, front, cleared>>
pipVars  == <<pips, activeClient, winVars, dragVars, inVars, editMode, menu, hit, changes, gestures, pipFaults>>

Ids(hs)        == {hs[i].id : i \in DOMAIN hs}
Shown(hs)      == [i \in DOMAIN hs |-> hs[i].pid]
Thumb(h)       == <<h.id, h.pid>>
IndexOf(id)    == CHOOSE i \in DOMAIN hosts : hosts[i].id = id
NoReorder      == [from |-> 0, dragging |-> FALSE, client |-> NoClient]
NoMove         == [index |-> 0, client |-> NoClient]
NoTransition   == [on |-> FALSE, out |-> {}, timer |-> FALSE]
NoMenu         == [at |-> "closed", client |-> NoClient, source |-> NoHost]

\* A call of the desktop manager may fail while faults are left.
Works == IF pipFaults < MaxPipFaults THEN BOOLEAN ELSE {TRUE}

-----------------------------------------------------------------------------
(* The transition *)

\* switch_thumbnail_handoffs: the incoming thumbnails become opaque and are confirmed
\* before the outgoing ones go; else the outgoing ones stay.
Switched(out, works, thumbs, visible, hs) ==
  IF works \/ out = {}
  THEN [out |-> {}, dwm |-> thumbs \ out,
        opaque |-> (visible \ out) \cup {Thumb(hs[i]) : i \in DOMAIN hs}]
  ELSE [out |-> out, dwm |-> thumbs, opaque |-> visible]

-----------------------------------------------------------------------------
(* rebuild_thumbnails *)

\* Hosts that show no wanted client and are not assigned yet.
FreeHosts(want, plan) ==
  {i \in DOMAIN hosts : hosts[i].pid \notin ToSet(want) /\ i \notin Range(plan)}

\* plan_host_reuse: a host that shows a wanted client keeps it; other targets take the
\* host of their own slot, then the first spare one.
Assignments(want) ==
  LET kept == [t \in DOMAIN want |->
                 IF want[t] \in ToSet(Shown(hosts))
                 THEN CHOOSE i \in DOMAIN hosts : hosts[i].pid = want[t] ELSE 0]
      take(plan, t) ==
        LET free == FreeHosts(want, plan)
        IN  IF plan[t] # 0 \/ free = {} THEN plan
            ELSE [plan EXCEPT ![t] = IF t \in free THEN t ELSE Min(free)]
  IN  FoldLeft(take, kept, [t \in DOMAIN want |-> t])

\* The k-th identity that no host has (create_pip_window).
NewHost(k) == CHOOSE id \in Host \ Ids(hosts) :
                Cardinality({other \in Host \ Ids(hosts) : other =< id}) = k

\* The hosts after a rebuild: bad targets keep the old thumbnail, or get no host.
Rebuilt(want, bad) ==
  LET plan  == Assignments(want)
      entry == [t \in DOMAIN want |->
                  IF plan[t] = 0
                  THEN [id |-> NewHost(Cardinality({u \in 1 .. t : plan[u] = 0})), pid |-> want[t]]
                  ELSE [id |-> hosts[plan[t]].id,
                        pid |-> IF t \in bad THEN hosts[plan[t]].pid ELSE want[t]]]
      \* the targets that have a host, compacted
      kept  == {t \in DOMAIN want : ~(plan[t] = 0 /\ t \in bad)}
  IN  [n \in 1 .. Cardinality(kept) |->
         entry[CHOOSE t \in kept : Cardinality({u \in kept : u =< t}) = n]]

\* Thumbnails whose host goes on with another client.
Outgoing(next) == {Thumb(hosts[i]) : i \in {j \in DOMAIN hosts :
                     \E n \in DOMAIN next : next[n].id = hosts[j].id /\ next[n].pid # hosts[j].pid}}

\* A host that is destroyed loses capture, pointer and posted messages; the message of
\* the lost capture arrives while the overlay is busy, and is dropped.
ForgetHosts(next, c) ==
  /\ capture' = IF c \in Ids(next) THEN c ELSE NoHost
  /\ pointer' = IF pointer \in Ids(next) THEN pointer ELSE NoHost
  /\ cleared' = cleared \cap Ids(next)

ForegroundAfter(f, next) == IF f \in Host /\ f \notin Ids(next) THEN Stranger ELSE f

CancelOnRebuild == reorder' = NoReorder /\ dropTarget' = 0    \* cancel_reorder_drag

\* The call of a rebuild that fails: none, the one that settles the transition before, the
\* one that hands over, or the thumbnail of a target.
Failing(want) ==
  {"none"} \X {0} \cup IF pipFaults = MaxPipFaults THEN {}
                       ELSE {"settle", "switch"} \X {0} \cup {"target"} \X DOMAIN want

\* rebuild_thumbnails for the PiPs `want`, with the foreground at f and the capture at c.
\* It ends early while a transition cannot be settled.
Rebuild(want, f, c) ==
  \E failing \in Failing(want) :
  \E next \in {Rebuilt(want, IF failing[1] = "target" THEN {failing[2]} ELSE {})} :
  \E out \in {Outgoing(next)} :
    LET settles  == failing[1] # "settle"
        switches == failing[1] # "switch"
        done   == Switched(transition.out, settles, dwm, opaque, hosts)
        gone   == {Thumb(hosts[i]) : i \in {j \in DOMAIN hosts : hosts[j].id \notin Ids(next)}}
        same   == {Thumb(next[n]) : n \in DOMAIN next} \ out
        fresh  == {Thumb(next[n]) : n \in {m \in DOMAIN next : next[m].id \notin Ids(hosts)}}
        after  == Switched(out, switches, (done.dwm \ gone) \cup same,
                           (done.opaque \ gone) \cup fresh, next)
        moved  == \E n \in DOMAIN next : next[n].id \in Ids(hosts)
                                 /\ (out # {} \/ IndexOf(next[n].id) # n)
    IN /\ ~settles => transition.out # {}
       /\ ~switches => out # {}
       /\ CancelOnRebuild
       /\ IF transition.out # {} /\ ~settles
          THEN /\ transition' = [transition EXCEPT !.timer = FALSE]
               /\ front' = f /\ capture' = c
               /\ UNCHANGED <<hosts, dwm, opaque, pointer, cleared>>
          ELSE /\ hosts' = next /\ dwm' = after.dwm /\ opaque' = after.opaque
               /\ \E animated \in {FALSE, moved} :
                    transition' = [on |-> animated \/ after.out # {}, out |-> after.out,
                                   timer |-> animated]
               /\ ForgetHosts(next, c)
               /\ front' = ForegroundAfter(f, next)
       /\ pipFaults' = pipFaults + IF failing[1] = "none" THEN 0 ELSE 1

\* poll_processes and foreground changes: clients come, go or change places; the poll
\* rebuilds also while the presentation is incomplete.
Incomplete == transition.on \/ Shown(hosts) # pips

PollProcesses(now, act) ==
  /\ act \notin ToSet(now) /\ (act = NoClient => now = <<>>)
  /\ \/ <<now, act>> # <<pips, activeClient>> /\ changes < MaxChanges /\ changes' = changes + 1
     \/ <<now, act>> = <<pips, activeClient>> /\ Incomplete /\ UNCHANGED changes
  /\ pips' = now /\ activeClient' = act
  /\ Rebuild(now, front, capture)
  /\ UNCHANGED <<moving, strip, held, editMode, menu, hit, gestures>>

\* WM_DPICHANGED and WM_DISPLAYCHANGE of a host.
DisplayChanged ==
  /\ hosts # <<>> /\ changes < MaxChanges /\ changes' = changes + 1
  /\ Rebuild(pips, front, capture)
  /\ UNCHANGED <<pips, activeClient, moving, strip, held, editMode, menu, hit, gestures>>

\* tick of the transition's timer, on time or past the end of the motion.
TickTransition ==
  /\ transition.on /\ transition.timer
  /\ \E works \in Works, complete \in BOOLEAN :
       LET done == Switched(transition.out, works, dwm, opaque, hosts)
       IN /\ dwm' = done.dwm /\ opaque' = done.opaque
          /\ transition' = IF complete /\ done.out = {} THEN NoTransition
                           ELSE [transition EXCEPT !.out = done.out]
          /\ pipFaults' = pipFaults + IF works THEN 0 ELSE 1
  /\ UNCHANGED <<pips, activeClient, hosts, dragVars, inVars, editMode, menu, hit, changes, gestures>>

-----------------------------------------------------------------------------
(* Gestures: pip_wnd_proc_inner *)

Unmoved   == UNCHANGED <<pips, activeClient, winVars, changes, pipFaults>>

\* restore_active_eq_if_owned.
Restored(id) == IF front = id /\ activeClient # NoClient THEN Game ELSE front

NoGesture == reorder' = NoReorder /\ dropTarget' = 0 /\ moving' = NoMove /\ strip' = FALSE

\* WM_LBUTTONDOWN on host i, which comes to the front; in use mode it may hit the
\* strip's edge.
PressLeft(i) ==
  /\ ~held /\ held' = TRUE /\ gestures < MaxGestures /\ gestures' = gestures + 1
  /\ capture = NoHost
  /\ pointer' = hosts[i].id /\ front' = hosts[i].id
  /\ dropTarget' = 0
  /\ \/ /\ editMode
        /\ moving' = [index |-> i, client |-> hosts[i].pid]
        /\ reorder' = NoReorder /\ capture' = hosts[i].id
        /\ UNCHANGED strip
     \/ /\ ~editMode
        /\ \/ strip' = TRUE /\ capture' = hosts[i].id /\ reorder' = NoReorder
           \/ /\ reorder' = [from |-> i, dragging |-> FALSE, client |-> hosts[i].pid]
              /\ UNCHANGED <<strip, capture>>
        /\ UNCHANGED moving
  /\ UNCHANGED <<cleared, editMode, menu, hit>> /\ Unmoved

\* WM_MOUSEMOVE arrives at the host with the capture, else at the one under the pointer.
Hears(i) == hosts[i].id = IF capture = NoHost THEN pointer ELSE capture

\* WM_MOUSEMOVE in edit mode: the window at the drag's index follows the pointer.
DragWindow(i) ==
  /\ Hears(i) /\ editMode /\ moving.index \in DOMAIN hosts
  /\ hit' = [what |-> "move", meant |-> <<moving.client>>, got |-> <<hosts[moving.index].pid>>]
  /\ UNCHANGED <<dragVars, inVars, editMode, menu, gestures>> /\ Unmoved

\* WM_MOUSEMOVE in use mode, past the threshold: a drag to another host (target) or to
\* none.  A drag of the strip's edge only lays the strip out again.
DragClient(i, target) ==
  /\ Hears(i) /\ ~editMode /\ ~strip /\ reorder # NoReorder
  /\ reorder' = [reorder EXCEPT !.dragging = TRUE]
  /\ dropTarget' = target
  /\ capture' = IF reorder.dragging THEN capture ELSE hosts[i].id
  /\ UNCHANGED <<moving, strip, pointer, held, front, cleared, editMode, menu, hit, gestures>>
  /\ Unmoved

\* WM_MOUSELEAVE of the host that tracks the pointer.
LeaveMouse ==
  /\ pointer # NoHost /\ capture = NoHost
  /\ pointer' = NoHost
  /\ reorder' = IF reorder.dragging THEN reorder ELSE NoReorder
  /\ dropTarget' = IF reorder.dragging THEN dropTarget ELSE 0
  /\ front' = IF moving # NoMove \/ strip \/ reorder.dragging THEN front ELSE Restored(pointer)
  /\ UNCHANGED <<moving, strip, held, capture, cleared, editMode, menu, hit, gestures>> /\ Unmoved

\* WM_CANCELMODE.
CancelMode(i) ==
  /\ capture = hosts[i].id
  /\ NoGesture /\ capture' = NoHost /\ front' = Restored(hosts[i].id)
  /\ UNCHANGED <<pointer, held, cleared, editMode, menu, hit, gestures>> /\ Unmoved

\* WM_CAPTURECHANGED: another window takes the capture; the cleaning up is posted.
LoseCapture ==
  /\ capture # NoHost /\ capture' = NoHost /\ cleared' = cleared \cup {capture}
  /\ UNCHANGED <<dragVars, pointer, held, front, editMode, menu, hit, gestures>> /\ Unmoved

ClearCapture(id) ==
  /\ id \in cleared /\ cleared' = cleared \ {id}
  /\ NoGesture /\ front' = Restored(id)
  /\ UNCHANGED <<pointer, held, capture, editMode, menu, hit, gestures>> /\ Unmoved

\* The clients' order with the two exchanged (swap_pips); nothing if one is gone.
Exchanged(a, b) ==
  [k \in DOMAIN pips |-> IF {a, b} \subseteq ToSet(pips)
     THEN IF pips[k] = a THEN b ELSE IF pips[k] = b THEN a ELSE pips[k] ELSE pips[k]]

\* Mutant: the order is exchanged at the presentation's indexes.
SwapTargetsByIndex(from, to) ==
  IF {from, to} \subseteq DOMAIN pips THEN <<pips[from], pips[to]>> ELSE <<>>

\* client_reorder_indices: the clients presented at the two indexes, while both are PiPs.
SwapTargets(from, to) ==
  IF {from, to} \subseteq DOMAIN hosts /\ {hosts[from].pid, hosts[to].pid} \subseteq ToSet(pips)
  THEN <<hosts[from].pid, hosts[to].pid>> ELSE <<>>

\* WM_LBUTTONUP at the host with the capture, else at any.
ReleaseLeft(i) ==
  /\ held /\ held' = FALSE /\ (capture = NoHost \/ capture = hosts[i].id)
  /\ UNCHANGED <<editMode, menu, gestures>>
  /\ \/ \* a drag of a window or of the strip ends
        /\ moving # NoMove \/ strip
        /\ moving' = NoMove /\ strip' = (strip /\ moving # NoMove)
        /\ capture' = NoHost /\ front' = Restored(hosts[i].id)
        /\ UNCHANGED <<reorder, dropTarget, pointer, cleared, hit>> /\ Unmoved
     \/ \* a client is dropped on another
        /\ moving = NoMove /\ ~strip /\ reorder.dragging /\ dropTarget # 0
        /\ LET pair == SwapTargets(reorder.from, dropTarget)
           IN  /\ pair # <<>> /\ pair[1] # pair[2]
               /\ hit' = [what |-> "swap", got |-> pair,
                          meant |-> <<reorder.client, hosts[dropTarget].pid>>]
               /\ pips' = Exchanged(pair[1], pair[2])
               /\ Rebuild(Exchanged(pair[1], pair[2]), Restored(hosts[i].id), NoHost)
        /\ UNCHANGED <<activeClient, moving, strip, changes>>
     \/ \* a click activates the client that was presented
        /\ moving = NoMove /\ ~strip /\ reorder # NoReorder /\ ~reorder.dragging
        /\ hosts[reorder.from].pid \in ToSet(pips) /\ activeClient # NoClient
        /\ LET pid  == hosts[reorder.from].pid
               next == [k \in DOMAIN pips |-> IF pips[k] = pid THEN activeClient ELSE pips[k]]
           IN  /\ hit' = [what |-> "click", meant |-> <<reorder.client>>, got |-> <<pid>>]
               /\ activeClient' = pid /\ pips' = next
               /\ Rebuild(next, Game, NoHost)
        /\ UNCHANGED <<moving, strip, changes>>
     \/ \* the activation fails
        /\ moving = NoMove /\ ~strip /\ reorder # NoReorder /\ ~reorder.dragging
        /\ reorder' = NoReorder /\ dropTarget' = 0
        /\ capture' = NoHost /\ front' = Restored(hosts[i].id)
        /\ UNCHANGED <<moving, strip, pointer, cleared, hit>> /\ Unmoved
     \/ \* nothing to finish
        /\ moving = NoMove /\ ~strip
        /\ \/ reorder = NoReorder
           \/ reorder.dragging /\ (dropTarget = 0 \/ SwapTargets(reorder.from, dropTarget) = <<>>
                                     \/ dropTarget = reorder.from)
        /\ reorder' = NoReorder /\ dropTarget' = 0
        /\ capture' = NoHost /\ front' = Restored(hosts[i].id)
        /\ UNCHANGED <<moving, strip, pointer, cleared, hit>> /\ Unmoved

\* The button goes up where no host hears of it.
ReleaseElsewhere ==
  /\ held /\ held' = FALSE /\ capture = NoHost /\ pointer = NoHost
  /\ UNCHANGED <<dragVars, pointer, capture, front, cleared, editMode, menu, hit, gestures>>
  /\ Unmoved

\* WM_LBUTTONDBLCLK on the strip's edge: the strip gets its usual width.
ResetStrip(i) ==
  /\ ~held /\ ~editMode /\ capture = NoHost
  /\ gestures < MaxGestures /\ gestures' = gestures + 1
  /\ Rebuild(pips, IF activeClient = NoClient THEN hosts[i].id ELSE Game, capture)
  /\ UNCHANGED <<pips, activeClient, moving, strip, held, editMode, menu, hit, changes>>

\* Another button goes down on a host, which comes to the front, and up again.
PressOther(i) ==
  /\ ~held /\ capture = NoHost /\ gestures < MaxGestures /\ gestures' = gestures + 1
  /\ pointer' = hosts[i].id /\ front' = hosts[i].id
  /\ UNCHANGED <<dragVars, held, capture, cleared, editMode, menu, hit>> /\ Unmoved

ReleaseOther(i) ==
  /\ ~held /\ front = hosts[i].id /\ front' = Restored(hosts[i].id)
  /\ UNCHANGED <<dragVars, pointer, held, capture, cleared, editMode, menu, hit, gestures>>
  /\ Unmoved

-----------------------------------------------------------------------------
(* The context menu *)

\* WM_RBUTTONUP: queue_char_menu, unless a menu is under way or the post fails.
QueueCharMenu(i) ==
  /\ ~held /\ gestures < MaxGestures /\ gestures' = gestures + 1
  /\ \/ menu = NoMenu /\ menu' = [at |-> "queued", client |-> hosts[i].pid, source |-> hosts[i].id]
                      /\ front' = hosts[i].id
     \/ UNCHANGED menu /\ front' = IF activeClient = NoClient THEN hosts[i].id ELSE Game
  /\ UNCHANGED <<dragVars, pointer, held, capture, cleared, editMode, hit>> /\ Unmoved

\* show_pending_char_menu up to TrackPopupMenu: the client must still run; Windows may
\* refuse the foreground, and then there is nothing to choose from.
ShowCharMenu ==
  /\ menu.at = "queued"
  /\ IF menu.client \notin ToSet(pips) \cup {activeClient}
     THEN menu' = NoMenu /\ front' = Restored(menu.source)
     ELSE \/ menu' = [menu EXCEPT !.at = "open"] /\ front' = MenuOwner
          \/ menu' = NoMenu /\ front' = Restored(menu.source)
  /\ UNCHANGED <<dragVars, pointer, held, capture, cleared, editMode, hit, gestures>> /\ Unmoved

\* The choice is applied (edit_mode::toggle_inner stands for the commands), the menu closed.
CloseCharMenu ==
  /\ menu.at = "open" /\ menu' = NoMenu
  /\ editMode' \in BOOLEAN
  /\ front' = Restored(MenuOwner)
  /\ UNCHANGED <<dragVars, pointer, held, capture, cleared, hit, gestures>> /\ Unmoved

\* edit_mode::toggle, from the tray.
ToggleEditMode ==
  /\ changes < MaxChanges /\ changes' = changes + 1
  /\ editMode' = ~editMode
  /\ UNCHANGED <<pips, activeClient, winVars, dragVars, inVars, menu, hit, gestures, pipFaults>>

-----------------------------------------------------------------------------

PipInit ==
  /\ pips = <<>> /\ activeClient = NoClient
  /\ hosts = <<>> /\ dwm = {} /\ opaque = {} /\ transition = NoTransition
  /\ reorder = NoReorder /\ dropTarget = 0 /\ moving = NoMove /\ strip = FALSE
  /\ editMode = FALSE /\ pointer = NoHost /\ held = FALSE /\ capture = NoHost /\ front = Game
  /\ cleared = {} /\ menu = NoMenu /\ changes = 0 /\ gestures = 0 /\ pipFaults = 0
  /\ hit = [what |-> "none", meant |-> <<>>, got |-> <<>>]

Orders == UNION {{s \in [1 .. n -> Client] : IsInjective(s)} : n \in 0 .. MaxPips}

PollStep == \E now \in Orders, act \in Client \cup {NoClient} : PollProcesses(now, act)
PipNext ==
  \/ PollStep \/ DisplayChanged \/ TickTransition \/ ToggleEditMode
  \/ \E i \in DOMAIN hosts :
       \/ PressLeft(i) \/ ReleaseLeft(i) \/ CancelMode(i) \/ QueueCharMenu(i)
       \/ ResetStrip(i) \/ PressOther(i) \/ ReleaseOther(i) \/ DragWindow(i)
       \/ \E target \in 0 .. Len(hosts) : DragClient(i, target)
  \/ LeaveMouse \/ LoseCapture \/ ReleaseElsewhere
  \/ \E id \in cleared : ClearCapture(id)
  \/ ShowCharMenu \/ CloseCharMenu

PipSpec == PipInit /\ [][PipNext]_pipVars

-----------------------------------------------------------------------------

\* Types; no client and no host window appears twice in the strip (plan_host_reuse).
PipTypeOK ==
  /\ pips \in Orders
  /\ \A i \in DOMAIN hosts : hosts[i] \in [id : Host, pid : Client]
  /\ IsInjective([i \in DOMAIN hosts |-> hosts[i].id]) /\ IsInjective(Shown(hosts))
  /\ capture \in Ids(hosts) \cup {NoHost} /\ pointer \in Ids(hosts) \cup {NoHost}
  /\ reorder.from \in 0 .. Len(hosts) /\ dropTarget \in 0 .. Len(hosts)

\* Every thumbnail registered belongs to a host or is about to be handed over, and
\* every one in use is registered, whichever calls failed (rebuild_thumbnails).
ThumbnailsAccounted ==
  dwm = {Thumb(hosts[i]) : i \in DOMAIN hosts} \cup transition.out

\* "this slot never goes blank": a host always shows some client, also while a handoff
\* fails, is retried or rolled back.
NeverBlank ==
  \A i \in DOMAIN hosts : \E t \in opaque \cap dwm : t[1] = hosts[i].id

\* "it must never redirect an interaction to a different EQ client": a click or a drop
\* affects the clients that were under the pointer, although a poll may rebuild the
\* strip in between.
GesturesHitTheirClient == hit.what \in {"click", "swap"} => hit.meant = hit.got

\* A potential or running reorder does not outlive the button: capture lost to another
\* window, hosts destroyed and the pointer leaving all end it.
ReordersEnd == []<>(held \/ reorder = NoReorder)

\* The overlay gives the foreground back after every gesture and menu: no host and not
\* the menu's hidden owner keeps it ("do not strand focus").
ForegroundReturns == <>[](activeClient = NoClient \/ front \in {Game, Stranger})

\* Once the desktop manager works again the strip shows the clients in their order, and
\* nothing is left to hand over.
StripComplete == <>[](Shown(hosts) = pips /\ ~transition.on)

\* The strip never loses, blanks or confuses a client.
PipsSound == PipTypeOK /\ ThumbnailsAccounted /\ NeverBlank /\ GesturesHitTheirClient

\* Gestures, focus and handoffs all come to an end.
PipsSettle == StripComplete /\ ReordersEnd /\ ForegroundReturns
=============================================================================
