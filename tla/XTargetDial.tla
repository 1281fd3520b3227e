---------------------------- MODULE XTargetDial ----------------------------
(***************************************************************************)
(* A Stream Deck dial that selects Extended Targets and considers them:    *)
(* XTargetDialAction in the plugin, the targeted actions and the Consider  *)
(* protocol of the production controller, and the game that answers a      *)
(* Consider with a line in its log.                                        *)
(*                                                                         *)
(* A turn of the dial is settled by a timer before the last slot turned to *)
(* is sent; a press waits for the selection under way.  Requests and their *)
(* answers travel in order on one connection; the answer carries the state *)
(* the dial then sees.  One box is loaded; the dial may be configured for  *)
(* it or for a box that is not.                                            *)
(***************************************************************************)
EXTENDS Naturals, Sequences

CONSTANTS
  Slots,        \* the saved Extended Target slots, 1..n
  MaxTurns,     \* turns of the dial
  MaxPushes,    \* presses of the dial
  MaxTroubles   \* changes of settings, bindings or readiness, failed requests

ASSUME DialBounds ==
  /\ 1 \in Slots /\ Slots \subseteq Nat
  /\ {MaxTurns, MaxPushes, MaxTroubles} \subseteq Nat

VARIABLES
  dial,     \* VisibleDial
  view,     \* the box in the plugin's newest snapshot: [ready, bound, selected]
  box,      \* the controller's state of the box
  game,     \* [target, read, replies]: what EverQuest targets, log lines to come
  wire,     \* requests not yet taken up
  answers,  \* answers not yet received
  used      \* [turns, pushes, troubles] so far

dialVars == <<dial, view, box, game, wire, answers, used>>

None == 0   \* no slot

DialInit ==
  /\ dial = [here |-> TRUE, selected |-> None, queued |-> None, timer |-> FALSE,
             epoch |-> 0, selecting |-> FALSE, alerting |-> FALSE,
             sending |-> None, sentAt |-> 0, considering |-> FALSE,
             considerAlert |-> FALSE, pendingConsider |-> FALSE, error |-> FALSE]
  /\ box = [ready |-> TRUE, bound |-> Slots, selected |-> 1, active |-> <<>>,
            pending |-> FALSE, result |-> <<>>]
  /\ view = [ready |-> TRUE, bound |-> Slots, selected |-> 1]
  /\ game = [target |-> None, read |-> FALSE, replies |-> <<>>]
  /\ wire = <<>> /\ answers = <<>>
  /\ used = [turns |-> 0, pushes |-> 0, troubles |-> 0]

Snapshot == [ready |-> box.ready, bound |-> box.bound, selected |-> box.selected]

----------------------------------------------------------------------------
(* The dial's callbacks, from dial state to dial state                     *)

SetError(d) == [d EXCEPT !.error = TRUE]
ClearError(d) == [d EXCEPT !.error = FALSE]

\* Each reads the box as the newest snapshot v shows it.
ReconcileSelection(d, v) ==
  [d EXCEPT !.selected = IF @ \in Slots THEN @ ELSE v.selected]

WaitsForSelection(d) == d.selecting \/ d.queued # None \/ d.timer

MayConsider(d, v) == d.selected \in v.bound /\ d.selected = v.selected

SendRequest(kind, slot) == wire' = Append(wire, [kind |-> kind, slot |-> slot])

\* Whether #sendConsider sends, and what it leaves of the dial d.
Considers(d, v) ==
  /\ ~d.considering /\ ~d.error /\ d.here /\ v.ready
  /\ MayConsider(ReconcileSelection(d, v), v)

AfterConsider(d, v) ==
  IF d.considering \/ d.error THEN d
  ELSE IF ~d.here THEN SetError(d)
  ELSE IF Considers(d, v)
  THEN [ReconcileSelection(d, v) EXCEPT !.considering = TRUE]
  ELSE SetError(ReconcileSelection(d, v))

SendConsider(d, v) ==
  /\ dial' = AfterConsider(d, v)
  /\ IF Considers(d, v) THEN SendRequest("consider", AfterConsider(d, v).selected)
                        ELSE UNCHANGED wire

\* The head of #drainSelection: the queued slot is taken and sent.  A dial
\* whose box is not loaded shows an alert instead, and goes on after it.
Drained(d) ==
  LET taken == [d EXCEPT !.queued = None, !.selecting = TRUE]
  IN IF d.here THEN [taken EXCEPT !.sending = d.queued, !.sentAt = d.epoch]
     ELSE SetError([taken EXCEPT !.alerting = TRUE, !.pendingConsider = FALSE])

Drain(d) ==
  IF ~d.selecting /\ d.queued # None
  THEN /\ dial' = Drained(d)
       /\ IF d.here THEN SendRequest("target", d.queued) ELSE UNCHANGED wire
  ELSE dial' = d /\ UNCHANGED wire

\* The press that waited for the selection.
AfterSelection(done, v) ==
  IF done.pendingConsider /\ done.queued = None /\ ~done.timer
  THEN LET asked == [done EXCEPT !.pendingConsider = FALSE]
       IN IF done.error THEN dial' = asked /\ UNCHANGED wire
          ELSE SendConsider(asked, v)
  ELSE dial' = done /\ UNCHANGED wire

NotSelecting(d) ==
  [d EXCEPT !.selecting = FALSE, !.alerting = FALSE, !.sending = None]

\* Mutant: what was queued meanwhile is left to a timer that has fired
FinishSelectionIdle(d, v) == AfterSelection(NotSelecting(d), v)

\* The tail of #drainSelection: a slot turned to meanwhile goes next, then a
\* press that waited.
FinishSelection(d, v) ==
  IF d.queued # None /\ ~d.timer THEN Drain(NotSelecting(d))
  ELSE AfterSelection(NotSelecting(d), v)

----------------------------------------------------------------------------

OnDialRotate(slot) ==
  /\ used.turns < MaxTurns
  /\ IF ~dial.here THEN dial' = SetError(dial)
     ELSE LET d == ReconcileSelection(dial, view)
          IN IF slot = d.selected THEN dial' = d
             ELSE dial' = [d EXCEPT
                    !.selected = slot, !.queued = slot, !.timer = TRUE,
                    !.error = ~(view.ready /\ slot \in view.bound)]
  /\ used' = [used EXCEPT !.turns = @ + 1]
  /\ UNCHANGED <<view, box, game, wire, answers>>

OnDialDown ==
  /\ used.pushes < MaxPushes
  /\ used' = [used EXCEPT !.pushes = @ + 1]
  /\ IF dial.considering THEN UNCHANGED <<dial, wire>>
     ELSE IF WaitsForSelection(dial)
     THEN dial' = [dial EXCEPT !.pendingConsider = TRUE] /\ UNCHANGED wire
     ELSE SendConsider(dial, view)
  /\ UNCHANGED <<view, box, game, answers>>

\* TARGET_SETTLE_MS without another turn.
SelectionSettles ==
  /\ dial.timer
  /\ Drain([dial EXCEPT !.timer = FALSE])
  /\ UNCHANGED <<view, box, game, answers, used>>

ErrorTimerFires ==
  /\ dial.error
  /\ dial' = IF dial.here THEN ReconcileSelection(ClearError(dial), view)
             ELSE ClearError(dial)
  /\ UNCHANGED <<view, box, game, wire, answers, used>>

Trouble == /\ used.troubles < MaxTroubles
           /\ used' = [used EXCEPT !.troubles = @ + 1]

\* The dial is configured for the other box: a request under way goes on, but
\* nothing of the selection is kept.
OnDidReceiveSettings ==
  /\ Trouble
  /\ dial' = [dial EXCEPT !.here = ~@, !.selected = None, !.queued = None,
                !.timer = FALSE, !.epoch = @ + 1, !.pendingConsider = FALSE,
                !.error = FALSE]
  /\ UNCHANGED <<view, box, game, wire, answers>>

\* An answer is for this selection only if nothing was turned or configured
\* since it was sent.
StillShown(d) ==
  d.epoch = d.sentAt /\ d.selected = d.sending /\ d.queued = None

Failed(d) == SetError([d EXCEPT !.alerting = TRUE, !.pendingConsider = FALSE])

\* A failure that is shown holds the dial until its alert is over.
Received(d, a) ==
  IF a.kind = "consider"
  THEN /\ dial' = IF a.ok THEN [d EXCEPT !.considering = FALSE]
                  ELSE SetError([d EXCEPT !.considerAlert = TRUE])
       /\ UNCHANGED wire
  ELSE IF StillShown(d) /\ ~a.ok THEN dial' = Failed(d) /\ UNCHANGED wire
  ELSE FinishSelection(IF StillShown(d) THEN ClearError(d) ELSE d, a.state)

\* The answer's state is stored before its promise goes on.
AnswerArrives ==
  /\ answers # <<>>
  /\ view' = Head(answers).state
  /\ Received(dial, Head(answers))
  /\ answers' = Tail(answers)
  /\ UNCHANGED <<box, game, used>>

AlertShown ==
  /\ dial.alerting
  /\ FinishSelection(dial, view)
  /\ UNCHANGED <<view, box, game, answers, used>>

ConsiderAlertShown ==
  /\ dial.considerAlert
  /\ dial' = [dial EXCEPT !.considerAlert = FALSE, !.considering = FALSE]
  /\ UNCHANGED <<view, box, game, wire, answers, used>>

StatePushed ==
  /\ answers = <<>> /\ view # Snapshot
  /\ view' = Snapshot
  /\ UNCHANGED <<dial, box, game, wire, answers, used>>

----------------------------------------------------------------------------
(* The production controller and the game                                  *)

Answered(b, kind, ok) ==
  answers' = Append(answers, [kind |-> kind, ok |-> ok,
    state |-> [ready |-> b.ready, bound |-> b.bound, selected |-> b.selected]])

NoteXtargetRotation(b) == [b EXCEPT !.pending = FALSE, !.result = <<>>]

NoteEqActionStarted(b, kind) ==
  IF kind = "consider" THEN [b EXCEPT !.pending = TRUE, !.result = <<>>] ELSE b

\* start_eq_action: a selection clears the Consider even when it cannot be
\* delivered; a box that is busy with another input refuses this one.
StartEqAction ==
  /\ wire # <<>>
  /\ LET r == Head(wire)
         b == IF r.kind = "target" THEN NoteXtargetRotation(box) ELSE box
         possible == /\ b.ready /\ b.active = <<>>
                     /\ r.kind = "target" => r.slot \in b.bound
     IN IF possible
        THEN /\ box' = [NoteEqActionStarted(b, r.kind) EXCEPT !.active = <<r>>]
             /\ UNCHANGED answers
        ELSE box' = b /\ Answered(b, r.kind, FALSE)
  /\ wire' = Tail(wire)
  /\ UNCHANGED <<dial, view, game, used>>

\* The game reads the stroke while it is held, and answers a Consider in its
\* log.
GameReads ==
  /\ box.active # <<>> /\ ~game.read
  /\ game' = [game EXCEPT
       !.read = TRUE,
       !.target = IF box.active[1].kind = "target" THEN box.active[1].slot ELSE @,
       !.replies = IF box.active[1].kind = "consider" THEN Append(@, game.target)
                   ELSE @]
  /\ UNCHANGED <<dial, view, box, wire, answers, used>>

NoteEqActionDelivered(b, r) ==
  IF r.kind = "target" THEN [b EXCEPT !.selected = r.slot] ELSE b

\* The input's last phase, or its client lost before it.
FinishEqAction(ok) ==
  /\ box.active # <<>> /\ (ok => game.read)
  /\ LET r == box.active[1]
         b == [(IF ok THEN NoteEqActionDelivered(box, r) ELSE box)
                 EXCEPT !.active = <<>>]
     IN box' = b /\ Answered(b, r.kind, ok)
  /\ game' = [game EXCEPT !.read = FALSE]
  /\ IF ok THEN UNCHANGED used ELSE Trouble
  /\ UNCHANGED <<dial, view, wire>>

\* record_consider: a line counts only while a Consider is pending.
RecordConsider ==
  /\ game.replies # <<>>
  /\ game' = [game EXCEPT !.replies = Tail(@)]
  /\ box' = IF box.pending
            THEN [box EXCEPT !.pending = FALSE, !.result = <<Head(game.replies)>>]
            ELSE box
  /\ UNCHANGED <<dial, view, wire, answers, used>>

\* CONSIDER_REQUEST_TTL and CONSIDER_RESULT_TTL.
ConsiderExpires ==
  /\ box.pending \/ box.result # <<>>
  /\ box' = [box EXCEPT !.pending = FALSE, !.result = <<>>]
  /\ UNCHANGED <<dial, view, game, wire, answers, used>>

\* The next poll finds other bindings, or the input channel ready or not.
BoxChanges ==
  /\ Trouble
  /\ \/ box' = [box EXCEPT !.ready = ~@]
     \/ \E s \in Slots : box' = [box EXCEPT !.bound =
                                   IF s \in @ THEN @ \ {s} ELSE @ \cup {s}]
  /\ UNCHANGED <<dial, view, game, wire, answers>>

----------------------------------------------------------------------------

DialNext ==
  \/ \E s \in Slots : OnDialRotate(s)
  \/ OnDialDown \/ SelectionSettles \/ ErrorTimerFires \/ OnDidReceiveSettings
  \/ AnswerArrives \/ AlertShown \/ ConsiderAlertShown \/ StatePushed
  \/ StartEqAction \/ GameReads \/ (\E ok \in BOOLEAN : FinishEqAction(ok))
  \/ RecordConsider \/ ConsiderExpires \/ BoxChanges

DialSpec == DialInit /\ [][DialNext]_dialVars

----------------------------------------------------------------------------

\* A Consider on its way to the game considers what its dial shows: the slot
\* selected in the box when the Consider was asked for is selected still, no
\* turn of the dial got in between, and the answer to an older selection never
\* passed for the answer to the newest.
ConsidersTheSelection ==
  LET requests == box.active \o wire
  IN \A i \in DOMAIN requests : requests[i].kind = "consider" =>
       /\ requests[i].slot = box.selected
       /\ \A j \in 1..(i - 1) : requests[j].kind # "target"

\* The dial always comes to rest: the last slot turned to is sent even when it
\* was turned to while another was under way, and a press that waited is
\* answered or given up, whatever was refused, alerted or configured meanwhile.
DialSettles ==
  []<>(dial.queued = None /\ ~dial.selecting /\ ~dial.pendingConsider
       /\ ~dial.considering)
============================================================================
