--------------------------- MODULE MCGameLiveness ---------------------------
(***************************************************************************)
(* What happens at the border between Stonemite and a game, one component  *)
(* per part of the state space: auto-type jobs, the input proxy inside the *)
(* game, the identity the game publishes, and the ring of key edges when   *)
(* its owner dies.                                                         *)
(***************************************************************************)
EXTENDS AutoType, InputProxy, CharacterIdentity, TLC

CONSTANTS j1, j2

\* The same plain key for both jobs; Shift is scan code 2.
ShiftAndAfter == {2, 3}
BothPlain == [j \in {j1, j2} |-> <<[key |-> 3, shift |-> FALSE]>>]

\* Two characters on one server, one of them on another as well.
SomeIdentities == {<<"n1", "s1">>, <<"n2", "s1">>, <<"n2", "s2">>}

OneKey == {1}
NoKeys == {}

VARIABLES part, seq, ckeys, head, ring, sources, fresh, auto, wr, rd, cursor, observed,
          edges, delivered, quiet, lost, faults

edgeVars == <<seq, ckeys, head, ring, sources, fresh, auto, wr, rd, cursor, observed,
              edges, delivered, quiet, lost, faults>>

Edges == INSTANCE KeyEdges WITH Scan <- OneKey, AutoScan <- NoKeys, Cap <- 2, Wrap <- 4,
           Tries <- 1, MaxEdges <- 2, MaxSeq <- 4, MaxFaults <- 1

SuiteInit ==
  /\ part \in {"jobs", "proxy", "identity", "edges"}
  /\ JobsInit /\ ProxyInit /\ IdInit /\ Edges!Init
  /\ part # "edges" => cursor = 0

SuiteNext ==
  /\ UNCHANGED part
  /\ \/ part = "jobs" /\ JobsNext /\ UNCHANGED <<proxyVars, idVars, edgeVars>>
     \/ part = "proxy" /\ ProxyNext /\ UNCHANGED <<jobVars, idVars, edgeVars>>
     \/ part = "identity" /\ IdNext /\ UNCHANGED <<jobVars, proxyVars, edgeVars>>
     \/ part = "edges" /\ Edges!Next /\ UNCHANGED <<jobVars, proxyVars, idVars>>

-----------------------------------------------------------------------------
(* Fairness, of each component while it is the one that runs.              *)

\* The jobs' threads run, the game polls, and leases lapse.
JobsRun ==
  /\ \A j \in Job : WF_jobVars(part = "jobs" /\ JobStep(j))
  /\ WF_jobVars(part = "jobs" /\ LeaseLapses)
  /\ WF_jobVars(part = "jobs" /\ TypedPoll)

\* The threads sleep and wake, the game polls, Stonemite beats while it lives.
ProxyRuns ==
  /\ WF_proxyVars(part = "proxy" /\ TimePasses)
  /\ WF_proxyVars(part = "proxy" /\ ControllerBeats)
  /\ WF_proxyVars(part = "proxy" /\ \E c \in Sampled : SignalReady(c))
  /\ WF_proxyVars(part = "proxy" /\ WatcherStep)
  /\ WF_proxyVars(part = "proxy" /\ GameStep)
  /\ WF_proxyVars(part = "proxy" /\ NotifyStep)

\* The hook runs to its end, and Stonemite polls.
IdentityRuns ==
  /\ WF_idVars(part = "identity" /\ WriterStep)
  /\ WF_idVars(part = "identity" /\ ReaderStep)

\* The game polls and the heartbeat lapses.
EdgesRun ==
  /\ WF_edgeVars(part = "edges" /\ Edges!Poll)
  /\ WF_edgeVars(part = "edges" /\ Edges!Lapse)

SuiteSpec ==
  /\ SuiteInit /\ [][SuiteNext]_<<part, jobVars, proxyVars, idVars, edgeVars>>
  /\ JobsRun /\ ProxyRuns /\ IdentityRuns /\ EdgesRun

-----------------------------------------------------------------------------

\* The proxy uses a mapping that its controller made, and acknowledges it, and
\* whatever raced, the game ends up as its controller last left it (InputProxy).
ProxyHolds == [](part = "proxy" => ProxyTypeOK) /\ ProxySettles

\* Whoever held a key down is killed, and the game is told to let go: of the keys
\* of auto-typing (AutoType) and of a mapping's own (KeyEdges).
KeysLetGo == GameLetsGo /\ Edges!DeadOwnerReleased
=============================================================================
