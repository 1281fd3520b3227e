------------------------- MODULE MCOverlayLiveness -------------------------
(***************************************************************************)
(* What the overlay shows, one component per part of the state space: the  *)
(* strip of PiP windows with its gestures, the surfaces of its compositor, *)
(* the timers of the trigger engine, and the notices on the labels.        *)
(***************************************************************************)
EXTENDS PipWindows, Compositor, TriggerEngine, Notices, TLC

CONSTANTS eqA, eqB, eqC   \* clients

\* Lines, and triggers over them: what hits, what the timer does.
SomeLines == {"a", "b", "e"}
Trig(lines) ==
  [hit |-> lines, over |-> {}, prev |-> {}, needs |-> {}, captures |-> {}, lockout |-> 0,
   reset |-> 5, counts |-> FALSE, repeats |-> FALSE, actions |-> <<>>, kind |-> "Countdown",
   mode |-> "StartNew", duration |-> 0, dynamic |-> [l \in SomeLines |-> 0], warning |-> 0,
   loops |-> 0, enders |-> {}, stop |-> 0, clears |-> {}, nameVar |-> {},
   name |-> [l \in SomeLines |-> "n"]]
Do(op, value, ttl) == [op |-> op, var |-> "v", value |-> value, ttl |-> ttl]

\* A countdown with a warning, ended early by a line; a timer that loops once; one
\* with conditions on the line before and on a variable, ending at its second repeat.
SomeTriggers ==
  <<[Trig({"a"}) EXCEPT !.duration = 3, !.warning = 1, !.mode = "RestartSameName",
       !.enders = {"e"}, !.nameVar = {"v"}, !.actions = <<Do("SetCounter", 0, 1)>>],
    [Trig({"b", "e"}) EXCEPT !.kind = "Looping", !.duration = 1, !.loops = 1,
       !.lockout = 1, !.mode = "RestartAll", !.clears = {"v"}],
    [Trig({"b"}) EXCEPT !.prev = {"a", "b"}, !.needs = {"v"}, !.over = {"e"},
       !.mode = "IgnoreIfAnyRunning", !.duration = 2, !.dynamic["b"] = 1, !.counts = TRUE,
       !.repeats = TRUE, !.stop = 2, !.reset = 1,
       !.actions = <<Do("SetValue", Text, 0), Do("Clear", 0, 0)>>]>>
AllActive == [k \in Key |-> 1..3]

VARIABLE part

SuiteInit ==
  /\ part \in {"pips", "surfaces", "timers", "notices"}
  /\ PipInit /\ CompInit /\ TrigInit /\ NoticesInit
  /\ part # "notices" => selected = eqA /\ keyboard = eqA

SuiteNext ==
  /\ UNCHANGED part
  /\ \/ part = "pips" /\ UNCHANGED <<compVars, trigVars, noticeVars>> /\ PipNext
     \/ part = "surfaces" /\ UNCHANGED <<pipVars, trigVars, noticeVars>> /\ CompNext
     \/ part = "timers" /\ UNCHANGED <<pipVars, compVars, noticeVars>> /\ TrigNext
     \/ part = "notices" /\ UNCHANGED <<pipVars, compVars, trigVars>> /\ NoticesNext

-----------------------------------------------------------------------------
(* Fairness, of each component while it is the one that runs: an action is *)
(* not forever possible unless it happens again and again (weak fairness,  *)
(* where a state predicate stands for its ENABLED).                        *)

\* The poll and the transition's timer come back, posted messages arrive, buttons are
\* let go, the pointer leaves, and a menu is answered.
PipsRun ==
  /\ []<>(part # "pips" \/ ~Incomplete)
       \/ []<><<part = "pips" /\ PollProcesses(pips, activeClient)>>_pipVars
  /\ []<>(part # "pips" \/ ~transition.timer)
       \/ []<><<part = "pips" /\ TickTransition>>_pipVars
  /\ []<>(part # "pips" \/ ~held)
       \/ []<><<part = "pips" /\ (ReleaseElsewhere \/ \E i \in DOMAIN hosts : ReleaseLeft(i))>>_pipVars
  /\ []<>(part # "pips" \/ pointer = NoHost \/ capture # NoHost)
       \/ []<><<part = "pips" /\ LeaveMouse>>_pipVars
  /\ []<>(part # "pips" \/ cleared = {})
       \/ []<><<part = "pips" /\ \E id \in cleared : ClearCapture(id)>>_pipVars
  /\ []<>(part # "pips" \/ menu = NoMenu)
       \/ []<><<part = "pips" /\ (ShowCharMenu \/ CloseCharMenu)>>_pipVars

\* The poll and the toast's animation are timers of the process.
SurfacesRun ==
  /\ []<>(part # "surfaces" \/ PollQuiet)
       \/ []<><<part = "surfaces" /\ PollUnchanged(NoFault)>>_compVars
  /\ []<>(part # "surfaces" \/ ~s.timer)
       \/ []<><<part = "surfaces" /\ AdvanceToast(NoFault)>>_compVars

\* The worker loops at least every 100 ms, the overlay's timer runs while it shows a
\* timer, and time passes.
TimersRun ==
  /\ []<>(part # "timers" \/ ~SomethingDue)
       \/ []<><<part = "timers" /\ SomethingDue /\ WorkerAdvances>>_trigVars
  /\ WF_trigVars(part = "timers" /\ ClockTicks)
  /\ WF_trigVars(part = "timers" /\ OverlayTakesFrame)
  /\ WF_trigVars(part = "timers" /\ OverlayDropsExpired)

\* Time passes, the overlay's loop delivers its timers and paints, and the poll comes
\* round.
NoticesRun ==
  /\ WF_noticeVars(part = "notices" /\ NoticeTick)
  /\ WF_noticeVars(part = "notices" /\ Grow)
  /\ WF_noticeVars(part = "notices" /\ PollFocus)
  /\ \A p \in Box : WF_noticeVars(part = "notices" /\ PaintLabel(p))

SuiteSpec ==
  /\ SuiteInit /\ [][SuiteNext]_<<part, pipVars, compVars, trigVars, noticeVars>>
  /\ PipsRun /\ SurfacesRun /\ TimersRun /\ NoticesRun

-----------------------------------------------------------------------------

\* The strip never loses, blanks or confuses a client, and every reorder ends
\* (PipWindows).
PipsHold == [](part = "pips" => PipsSound) /\ PipsSettle

\* Surfaces are complete whichever commit failed, and show the scene in the end
\* (Compositor).
SurfacesHold == [](part = "surfaces" => SurfacesSound) /\ CompositorSettles

\* Timers start, warn, end and are shown as their triggers say (TriggerEngine).
TimersHold == [](part = "timers" => TimersSound) /\ TimersEnd

\* Notices come and go under the mouse and the keyboard, none is acted on for another
\* and none stays behind (Notices).
NoticesHold == [](part = "notices" => NoticesSound) /\ NoticesEnd
=============================================================================
