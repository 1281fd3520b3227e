------------------------- MODULE MCControlLiveness -------------------------
(***************************************************************************)
(* What serves somebody outside the process, and must come back to the     *)
(* state of the game after every upset, one component per part of the      *)
(* state space: the control server and its connections, the overlay's      *)
(* client set, the Stream Deck plugin, and its Extended Target dial.       *)
(***************************************************************************)
EXTENDS ControlServer, ClientSet, DeckClient, XTargetDial, TLC

CONSTANTS p1, p2, p3, x, y

Three      == {p1, p2, p3}
\* p2 logs in as x, who is preferred; p1 as y.
OnePersona == [p \in Three |-> IF p = p2 THEN {x} ELSE IF p = p1 THEN {y} ELSE {}]
OrderX     == <<x>>
CycleYX    == <<y, x>>

VARIABLE part

SuiteInit ==
  /\ part \in {"server", "clients", "deck", "dial"}
  /\ SrvInit /\ BoxInit /\ DeckInit /\ DialInit

SuiteNext ==
  /\ UNCHANGED part
  /\ \/ part = "server" /\ SrvNext /\ UNCHANGED <<boxVars, deckVars, dialVars>>
     \/ part = "clients" /\ BoxNext /\ UNCHANGED <<srvVars, deckVars, dialVars>>
     \/ part = "deck" /\ DeckNext /\ UNCHANGED <<srvVars, boxVars, dialVars>>
     \/ part = "dial" /\ DialNext /\ UNCHANGED <<srvVars, boxVars, deckVars>>

-----------------------------------------------------------------------------
(* Fairness, of each component while it is the one that runs.              *)

\* The tasks of the server run, writes and waits end by success or by their timeouts,
\* and the server thread and the tray thread run.
ServerRuns ==
  /\ \A c \in Conn : WF_srvVars(part = "server" /\ SrvProgress(c))
  /\ WF_srvVars(part = "server" /\ ServerProgress)
  /\ WF_srvVars(part = "server" /\ TrayProgress)

\* The poll, whose timer message waits for the thread to be free, recurs (strong
\* fairness, its ENABLED written out), and an activation returns.
ClientsRun ==
  /\ <>[](part # "clients" \/ busy \/ PollIdle) \/ []<><<Poll>>_boxVars
  /\ []<>(part # "clients" \/ ~busy) \/ []<><<ActivationEnds>>_boxVars

\* Timers fire, the plugin's event loop runs, Stonemite's server answers, and
\* Stonemite is started again.
DeckRuns ==
  /\ WF_deckVars(part = "deck" /\ OnOpen)
  /\ WF_deckVars(part = "deck" /\ OnMessage)
  /\ WF_deckVars(part = "deck" /\ OnClose)
  /\ WF_deckVars(part = "deck" /\ HeartbeatFires)
  /\ WF_deckVars(part = "deck" /\ PongTimeout)
  /\ WF_deckVars(part = "deck" /\ \E p \in deck.pending : CommandTimeout(p))
  /\ WF_deckVars(part = "deck" /\ ReconnectFires)
  /\ WF_deckVars(part = "deck" /\ HandshakeTimeout)
  /\ WF_deckVars(part = "deck" /\ SettingsSaved)
  /\ WF_deckVars(part = "deck" /\ (PairSucceeds \/ PairFails))
  /\ WF_deckVars(part = "deck" /\ ServerAccepts)
  /\ WF_deckVars(part = "deck" /\ ServerAnswers)
  /\ WF_deckVars(part = "deck" /\ StonemiteStarts)
  /\ WF_deckVars(part = "deck" /\ \E id \in srv.sessions : ServerNotices(id))

\* Timers fire, alerts end, the connection delivers, and the input timer ends every
\* stroke, seen by the game or not.
DialRuns ==
  /\ WF_dialVars(part = "dial" /\ SelectionSettles)
  /\ WF_dialVars(part = "dial" /\ AnswerArrives)
  /\ WF_dialVars(part = "dial" /\ AlertShown)
  /\ WF_dialVars(part = "dial" /\ ConsiderAlertShown)
  /\ WF_dialVars(part = "dial" /\ StartEqAction)
  /\ WF_dialVars(part = "dial" /\ GameReads)
  /\ WF_dialVars(part = "dial" /\ FinishEqAction(TRUE))

SuiteSpec ==
  /\ SuiteInit /\ [][SuiteNext]_<<part, srvVars, boxVars, deckVars, dialVars>>
  /\ ServerRuns /\ ClientsRun /\ DeckRuns /\ DialRuns

-----------------------------------------------------------------------------

\* Nobody waits for the server forever (ControlServer).
ServerSettles == part = "server" => SrvSettles

\* What the overlay skipped while it was busy is made up for (ClientSet).
ClientsReconcile == part = "clients" => PictureReconciled

\* The plugin comes back to Stonemite's newest state (DeckClient).
DeckReturns == part = "deck" => DeckSettles

\* The dial considers what it shows, and comes to rest (XTargetDial).
DialHolds == [](part = "dial" => ConsidersTheSelection) /\ (part = "dial" => DialSettles)
=============================================================================
