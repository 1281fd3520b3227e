--------------------------- MODULE MCTrayLiveness ---------------------------
(***************************************************************************)
(* The input engine of the tray thread lets go in the end, one component   *)
(* per part of the state space: the Mouse Clutch with the commands of a    *)
(* control connection, and a batch of targeted keys for two clients.       *)
(***************************************************************************)
EXTENDS MouseClutch, TLC

CONSTANTS p1, p2, s1, ctrl, key, r2, Local

BothClients == {{p1, p2}}

\* One chord to both clients, asked for in a request and in the overlay.
BatchJob   == [r \in {r2} |-> [pids |-> {p1, p2}, prog |-> <<{ctrl, key}>>, batch |-> TRUE]]
Invite     == <<{ctrl, key}>>
OneRequest == {r2}
BothKeys   == {ctrl, key}
OneModifier == {ctrl}
NoneOrBoth == {{}, {p1, p2}}
Nothing    == {}
NoFilter   == {{}}

\* The variables of KeyDelivery that MouseClutch has not.
VARIABLES part, held, acked, loaded, wasForeground, blocked, bkeys, tkeys, tactive, keys,
          sources, suppressed, input, batch, timer, reply, pressed

ownKeyVars == <<held, acked, loaded, wasForeground, blocked, bkeys, tkeys, tactive, keys,
                sources, suppressed, input, batch, timer, reply, pressed>>
keyVars == <<foreground, running, targets, activePid, broadcasting, queue, ownKeyVars>>

ownClutchVars == <<proxy, physButtons, heldKeys, eqPids, selected, eligible, clutch, holds,
                   seqs, closed, binding, pending, keyIsDown, dirty, hooks, open, sent,
                   eaten, shown>>

Keys == INSTANCE KeyDelivery WITH Scan <- BothKeys, Modifier <- OneModifier,
          Req <- OneRequest, Job <- BatchJob, LocalProg <- Invite, PidReports <- NoneOrBoth,
          MayFocus <- Nothing, Typeable <- Nothing, Filters <- NoFilter, Faults <- TRUE

SuiteInit ==
  /\ part \in {"clutch", "keys"}
  /\ Init /\ Keys!Init
  /\ part = "keys" => physButtons = {} /\ ~hooks.kb

SuiteNext ==
  /\ UNCHANGED part
  /\ \/ part = "clutch" /\ Next /\ UNCHANGED ownKeyVars
     \/ part = "keys" /\ Keys!Next /\ UNCHANGED ownClutchVars

-----------------------------------------------------------------------------
(* Fairness, of each component while it is the one that runs.              *)

\* The tray thread keeps running its timer and its message loop, time passes, and a
\* user lets go of a button at last.
ClutchRuns ==
  /\ WF_vars(part = "clutch" /\ Tick)
  /\ WF_vars(part = "clutch" /\ Elapse)
  /\ WF_vars(part = "clutch" /\ DrainCommand)
  /\ \A b \in Button : WF_vars(part = "clutch" /\ MouseButton(b, FALSE))

\* Time passes, the input timer fires while it is set, and posted commands are
\* drained by the message loop.
KeysRun ==
  /\ WF_keyVars(part = "keys" /\ Keys!AdvanceInput)
  /\ WF_keyVars(part = "keys" /\ \E ok \in BOOLEAN : Keys!DrainCommand(ok))
  /\ \A p \in Pid : WF_keyVars(part = "keys" /\ Keys!StepDue(p))

SuiteSpec ==
  /\ SuiteInit /\ [][SuiteNext]_<<part, vars, ownKeyVars>>
  /\ ClutchRuns /\ KeysRun

-----------------------------------------------------------------------------

\* Every targeted sequence ends (KeyDelivery).
InputsLetGo == Keys!InputsEnd
=============================================================================
