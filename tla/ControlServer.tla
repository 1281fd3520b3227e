--------------------------- MODULE ControlServer ---------------------------
(***************************************************************************)
(* The control server of trushar: the state hub, one task per connection   *)
(* (crates/trushar/src/server.rs), the queue to the tray thread that runs  *)
(* the commands, and the shutdown, where the tray thread joins the server  *)
(* thread and no longer runs commands.  The server thread is a single      *)
(* threaded runtime: its tasks interleave where they await, and the tray   *)
(* thread publishes at any moment.                                         *)
(***************************************************************************)
EXTENDS Naturals, FiniteSets

CONSTANTS
  Conn,          \* connections
  StateData,     \* distinct public states
  MaxRevision,   \* bound on the revisions published
  MaxRequests,   \* bound on the frames a connection receives
  MaxInFlight,   \* MAX_IN_FLIGHT_COMMANDS
  UiCapacity     \* COMMAND_CAPACITY of the queue to the tray thread

ASSUME ControlServerBounds ==
  /\ MaxRevision \in Nat
  /\ MaxRequests \in Nat
  /\ MaxInFlight \in Nat
  /\ UiCapacity \in Nat

VARIABLES
  hub,          \* the snapshot: its revision and its data
  phase,        \* where the task of each connection is
  seen,         \* the version its watch receiver has marked as seen
  lastPushed,   \* last_state_revision
  outgoing,     \* the message send_message is writing
  inFlight,     \* the command futures, by request, and their state
  received,     \* how many requests the connection has received
  answered,     \* the requests whose answer was written
  delivered,    \* the revision of the last message written
  uiQueue,      \* commands waiting for the tray thread
  effectOf,     \* the revision each executed command left behind
  serverThread, \* "starting", "running", "draining" or "done"
  uiThread      \* "starting", "abandoning" (a start that timed out), "looping",
                \* "joining" (drop(trushar_server)) or "stopped"

srvVars == <<hub, phase, seen, lastPushed, outgoing, inFlight, received,
             answered, delivered, uiQueue, effectOf, serverThread, uiThread>>

connVars == <<seen, lastPushed, outgoing, inFlight, received, answered, delivered>>

Request == 1 .. MaxRequests

\* A message that carries no state, to no request: errors of undecodable frames.
NoRequest == 0

Idle == [kind |-> "none", request |-> NoRequest, revision |-> 0]
State(rev) == [kind |-> "state", request |-> NoRequest, revision |-> rev]
Success(r, rev) == [kind |-> "success", request |-> r, revision |-> rev]
Failure(r) == [kind |-> "error", request |-> r, revision |-> 0]

\* The end-of-session command, queued by the task itself.
Cleanup == MaxRequests + 1

\* Mutant: a start that times out does not raise the flag.
ShuttingDownAtQuit == uiThread \in {"joining", "stopped"}

\* The shutdown flag is up.
ShuttingDown == uiThread \in {"abandoning", "joining", "stopped"}

Connected == {"subscribed", "writing", "loop"}

SrvInit ==
  /\ \E d \in StateData : hub = [revision |-> 0, data |-> d]
  /\ phase = [c \in Conn |-> "absent"]
  /\ seen = [c \in Conn |-> 0]
  /\ lastPushed = [c \in Conn |-> 0]
  /\ outgoing = [c \in Conn |-> Idle]
  /\ inFlight = [c \in Conn |-> [r \in {} |-> "waiting"]]
  /\ received = [c \in Conn |-> 0]
  /\ answered = [c \in Conn |-> {}]
  /\ delivered = [c \in Conn |-> 0]
  /\ uiQueue = {}
  /\ effectOf = [c \in Conn |-> [r \in Request |-> 0]]
  /\ serverThread = "starting"
  /\ uiThread = "starting"

-----------------------------------------------------------------------------
(* The hub *)

\* StateHub::publish: equal data is dropped, other data takes a revision.  The
\* watch channel is replaced under the same lock, so it always holds hub.
Published(d) ==
  IF d = hub.data THEN hub ELSE [revision |-> hub.revision + 1, data |-> d]

\* The overlay publishes on its own account.
PublishState(d) ==
  /\ uiThread = "looping"
  /\ hub.revision < MaxRevision
  /\ hub' = Published(d)
  /\ UNCHANGED <<phase, connVars, uiQueue, effectOf, serverThread, uiThread>>

-----------------------------------------------------------------------------
(* A connection, from the upgrade to the end of its task *)

\* The connection is accepted and upgraded; the task subscribes first, which
\* marks the version of that moment as seen.
Subscribe(c) ==
  /\ phase[c] = "absent" /\ serverThread = "running"
  /\ phase' = [phase EXCEPT ![c] = "subscribed"]
  /\ seen' = [seen EXCEPT ![c] = hub.revision]
  /\ UNCHANGED <<hub, lastPushed, outgoing, inFlight, received, answered,
                 delivered, uiQueue, effectOf, serverThread, uiThread>>

\* send_message begins; it ends in WriteDone or WriteFails.
Write(c, message) ==
  /\ phase' = [phase EXCEPT ![c] = "writing"]
  /\ outgoing' = [outgoing EXCEPT ![c] = message]

\* The snapshot of the initial message is taken after the subscription.
SendInitial(c) ==
  /\ phase[c] = "subscribed"
  /\ lastPushed' = [lastPushed EXCEPT ![c] = hub.revision]
  /\ Write(c, State(hub.revision))
  /\ UNCHANGED <<hub, seen, inFlight, received, answered, delivered, uiQueue,
                 effectOf, serverThread, uiThread>>

WriteDone(c) ==
  /\ phase[c] = "writing"
  /\ phase' = [phase EXCEPT ![c] = "loop"]
  /\ outgoing' = [outgoing EXCEPT ![c] = Idle]
  /\ delivered' = [delivered EXCEPT ![c] =
       IF outgoing[c].kind = "error" THEN @ ELSE outgoing[c].revision]
  /\ answered' = [answered EXCEPT ![c] = @ \cup ({outgoing[c].request} \ {NoRequest})]
  /\ UNCHANGED <<hub, seen, lastPushed, inFlight, received, uiQueue, effectOf,
                 serverThread, uiThread>>

\* connection_loop_inner returns: the command futures are dropped with it.
LeaveLoop(c, next) ==
  /\ phase' = [phase EXCEPT ![c] = next]
  /\ outgoing' = [outgoing EXCEPT ![c] = Idle]
  /\ inFlight' = [inFlight EXCEPT ![c] = [r \in {} |-> "waiting"]]
  /\ UNCHANGED <<hub, seen, lastPushed, received, answered, delivered, uiQueue,
                 effectOf, serverThread, uiThread>>

\* The write fails or takes longer than WRITE_TIMEOUT.
WriteFails(c) == phase[c] = "writing" /\ LeaveLoop(c, "returned")

\* First branch of the select: a close frame, whose answer is awaited for a
\* bounded time.
CloseForShutdown(c) ==
  /\ phase[c] = "loop" /\ ShuttingDown
  /\ LeaveLoop(c, "closing")

CloseEnds(c) == phase[c] = "closing" /\ LeaveLoop(c, "returned")

Finished(c) == {r \in DOMAIN inFlight[c] : inFlight[c][r] # "waiting"}

Without(f, r) == [x \in DOMAIN f \ {r} |-> f[x]]

\* Mutant: an answer repeats the state pushed last.
AnswerLastPushed(c, r) ==
  IF inFlight[c][r] = "done" THEN Success(r, lastPushed[c]) ELSE Failure(r)

\* The snapshot of a success is taken when the answer is built.
Answer(c, r) ==
  IF inFlight[c][r] = "done" THEN Success(r, hub.revision) ELSE Failure(r)

\* Second branch: a command future is ready and its answer is written.
AnswerCommand(c) ==
  /\ phase[c] = "loop" /\ ~ShuttingDown
  /\ \E r \in Finished(c) :
       /\ Write(c, Answer(c, r))
       /\ inFlight' = [inFlight EXCEPT ![c] = Without(@, r)]
  /\ UNCHANGED <<hub, seen, lastPushed, received, answered, delivered, uiQueue,
                 effectOf, serverThread, uiThread>>

\* Mutant: the state is read before the change is awaited.
PushStateRead(c) ==
  /\ phase[c] = "loop" /\ ~ShuttingDown /\ Finished(c) = {}
  /\ seen[c] # hub.revision
  /\ seen' = [seen EXCEPT ![c] = hub.revision]
  /\ Write(c, State(seen[c]))
  /\ UNCHANGED <<hub, lastPushed, inFlight, received, answered, delivered, uiQueue,
                 effectOf, serverThread, uiThread>>

\* Third branch: the watch channel has a version not seen yet; the latest one is
\* pushed unless it is not newer than the last one pushed.
PushState(c) ==
  /\ phase[c] = "loop" /\ ~ShuttingDown /\ Finished(c) = {}
  /\ seen[c] # hub.revision
  /\ seen' = [seen EXCEPT ![c] = hub.revision]
  /\ IF hub.revision > lastPushed[c]
       THEN /\ lastPushed' = [lastPushed EXCEPT ![c] = hub.revision]
            /\ Write(c, State(hub.revision))
       ELSE UNCHANGED <<lastPushed, phase, outgoing>>
  /\ UNCHANGED <<hub, inFlight, received, answered, delivered, uiQueue, effectOf,
                 serverThread, uiThread>>

\* Fourth branch of the biased select: only when the others are not ready.
MayRead(c) ==
  /\ phase[c] = "loop" /\ ~ShuttingDown
  /\ Finished(c) = {} /\ seen[c] = hub.revision

ReceiveRequest(c) ==
  /\ MayRead(c) /\ received[c] < MaxRequests
  /\ received' = [received EXCEPT ![c] = @ + 1]
  /\ UNCHANGED <<hub, seen, lastPushed, answered, delivered, effectOf,
                 serverThread, uiThread>>

\* get_state is answered at once and is not counted as in flight.
GetState(c) ==
  /\ ReceiveRequest(c)
  /\ Write(c, Success(received[c] + 1, hub.revision))
  /\ UNCHANGED <<inFlight, uiQueue>>

\* Too many commands in flight, or an argument that cannot be converted.
RejectCommand(c) ==
  /\ ReceiveRequest(c)
  /\ Write(c, Failure(received[c] + 1))
  /\ UNCHANGED <<inFlight, uiQueue>>

\* A binary or undecodable frame: an error without a request.
RejectFrame(c) ==
  /\ MayRead(c)
  /\ Write(c, Failure(NoRequest))
  /\ UNCHANGED <<hub, seen, lastPushed, inFlight, received, answered, delivered,
                 uiQueue, effectOf, serverThread, uiThread>>

\* ProductionController::enqueue: a full queue makes a future that is ready with
\* an error; otherwise the command waits for the tray thread.  A notification that
\* cannot be posted fails the future but leaves the command in the queue.
Enqueue(c, r, result) ==
  IF Cardinality(uiQueue) >= UiCapacity
    THEN result = "failed" /\ UNCHANGED uiQueue
    ELSE result \in {"waiting", "failed"} /\ uiQueue' = uiQueue \cup {<<c, r>>}

StartCommand(c) ==
  LET r == received[c] + 1 IN
  /\ ReceiveRequest(c)
  /\ Cardinality(DOMAIN inFlight[c]) < MaxInFlight
  /\ \E result \in {"waiting", "failed"} :
       /\ Enqueue(c, r, result)
       /\ inFlight' = [inFlight EXCEPT ![c] =
            [x \in DOMAIN @ \cup {r} |-> IF x = r THEN result ELSE @[x]]]
  /\ UNCHANGED <<phase, outgoing>>

\* A close frame, the end of the stream, an oversized message or a failed pong.
PeerLeaves(c) == MayRead(c) /\ LeaveLoop(c, "returned")

\* CommandTimeout: the future gives up; the command stays in the queue.
CommandTimesOut(c) ==
  \E r \in DOMAIN inFlight[c] :
    /\ inFlight[c][r] = "waiting"
    /\ inFlight' = [inFlight EXCEPT ![c][r] = "failed"]
    /\ UNCHANGED <<hub, phase, seen, lastPushed, outgoing, received, answered,
                   delivered, uiQueue, effectOf, serverThread, uiThread>>

\* connection_loop after the inner loop: the end of the session is queued and
\* awaited for at most WRITE_TIMEOUT.
EndSession(c) ==
  /\ phase[c] = "returned"
  /\ \E result \in {"waiting", "failed"} :
       /\ Enqueue(c, Cleanup, result)
       /\ phase' = [phase EXCEPT ![c] = IF result = "waiting" THEN "ending" ELSE "gone"]
  /\ UNCHANGED <<hub, connVars, effectOf, serverThread, uiThread>>

EndSessionOver(c) ==
  /\ phase[c] = "ending"
  /\ phase' = [phase EXCEPT ![c] = "gone"]
  /\ UNCHANGED <<hub, connVars, uiQueue, effectOf, serverThread, uiThread>>

-----------------------------------------------------------------------------
(* The tray thread *)

\* drain_commands runs one command, which publishes what it changed before its
\* reply is sent; the reply is lost on a future that gave up.  Inputs take many
\* timer ticks, so commands finish in any order.
ExecuteCommand(c, r, d) ==
  /\ uiThread = "looping" /\ <<c, r>> \in uiQueue
  /\ hub.revision < MaxRevision \/ d = hub.data
  /\ hub' = Published(d)
  /\ uiQueue' = uiQueue \ {<<c, r>>}
  /\ effectOf' = IF r = Cleanup THEN effectOf
                 ELSE [effectOf EXCEPT ![c][r] = Published(d).revision]
  /\ IF r \in DOMAIN inFlight[c] /\ inFlight[c][r] = "waiting"
       THEN \E result \in {"done", "failed"} :
              inFlight' = [inFlight EXCEPT ![c][r] = result]
       ELSE UNCHANGED inFlight
  /\ UNCHANGED <<phase, seen, lastPushed, outgoing, received, answered, delivered,
                 serverThread, uiThread>>

\* The message loop ends and the server handle is dropped: the shutdown flag is
\* raised and the tray thread waits for the server thread.
Quit ==
  /\ uiThread = "looping"
  /\ uiThread' = "joining"
  /\ UNCHANGED <<hub, phase, connVars, uiQueue, effectOf, serverThread>>

\* After the join, control::stop drops the queue.
Joined ==
  /\ uiThread = "joining" /\ serverThread = "done"
  /\ uiThread' = "stopped"
  /\ uiQueue' = {}
  /\ UNCHANGED <<hub, phase, connVars, effectOf, serverThread>>

-----------------------------------------------------------------------------
(* The server thread *)

\* The listener is bound and reported, or one of the steps before that fails.
Started ==
  /\ serverThread = "starting"
  /\ serverThread' \in {"running", "done"}
  /\ UNCHANGED <<hub, phase, connVars, uiQueue, effectOf, uiThread>>

\* ServerHandle::start returns with the handle, or without a server after it
\* joined the thread that failed.
StartReported ==
  /\ uiThread = "starting" /\ serverThread # "starting"
  /\ uiThread' = "looping"
  /\ UNCHANGED <<hub, phase, connVars, uiQueue, effectOf, serverThread>>

\* START_TIMEOUT passes: the shutdown flag is raised and the thread joined.
StartTimesOut ==
  /\ uiThread = "starting"
  /\ uiThread' = "abandoning"
  /\ UNCHANGED <<hub, phase, connVars, uiQueue, effectOf, serverThread>>

Abandoned ==
  /\ uiThread = "abandoning" /\ serverThread = "done"
  /\ uiThread' = "looping"
  /\ UNCHANGED <<hub, phase, connVars, uiQueue, effectOf, serverThread>>

StopAccepting ==
  /\ serverThread = "running" /\ ShuttingDown
  /\ serverThread' = "draining"
  /\ UNCHANGED <<hub, phase, connVars, uiQueue, effectOf, uiThread>>

HandlersDrained ==
  /\ serverThread = "draining"
  /\ \A c \in Conn : phase[c] \in {"absent", "gone"}
  /\ serverThread' = "done"
  /\ UNCHANGED <<hub, phase, connVars, uiQueue, effectOf, uiThread>>

\* CONNECTION_SHUTDOWN_TIMEOUT passes: every task left is aborted at its await.
AbortAll ==
  /\ serverThread = "draining"
  /\ phase' = [c \in Conn |-> IF phase[c] = "absent" THEN "absent" ELSE "gone"]
  /\ inFlight' = [c \in Conn |-> [r \in {} |-> "waiting"]]
  /\ outgoing' = [c \in Conn |-> Idle]
  /\ serverThread' = "done"
  /\ UNCHANGED <<hub, seen, lastPushed, received, answered, delivered, uiQueue,
                 effectOf, uiThread>>

-----------------------------------------------------------------------------
ConnStep(c) ==
  \/ Subscribe(c) \/ SendInitial(c) \/ WriteDone(c) \/ WriteFails(c)
  \/ CloseForShutdown(c) \/ CloseEnds(c) \/ AnswerCommand(c) \/ PushState(c)
  \/ GetState(c) \/ RejectCommand(c) \/ RejectFrame(c) \/ StartCommand(c)
  \/ PeerLeaves(c) \/ CommandTimesOut(c) \/ EndSession(c) \/ EndSessionOver(c)

SrvNext ==
  \/ \E c \in Conn : ConnStep(c)
  \/ \E d \in StateData : PublishState(d)
  \/ \E c \in Conn, r \in Request \cup {Cleanup}, d \in StateData : ExecuteCommand(c, r, d)
  \/ Started \/ StartReported \/ StartTimesOut \/ Abandoned
  \/ Quit \/ Joined \/ StopAccepting \/ HandlersDrained \/ AbortAll

SrvSpec == SrvInit /\ [][SrvNext]_srvVars

\* What each thread does without being asked: the tasks run, writes and waits end
\* by success or by their timeouts, and the server thread sees the shutdown flag.
SrvProgress(c) ==
  \/ SendInitial(c) \/ WriteDone(c) \/ WriteFails(c) \/ CloseForShutdown(c)
  \/ CloseEnds(c) \/ AnswerCommand(c) \/ PushState(c) \/ EndSession(c)
  \/ EndSessionOver(c)

ServerProgress == Started \/ StopAccepting \/ HandlersDrained \/ AbortAll

TrayProgress == StartReported \/ Abandoned \/ Joined

-----------------------------------------------------------------------------
(* Properties *)

\* Every variable keeps its type; a request in flight was received.
SrvTypeOK ==
  /\ hub \in [revision : 0 .. MaxRevision, data : StateData]
  /\ phase \in [Conn -> {"absent", "subscribed", "writing", "loop", "closing",
                         "returned", "ending", "gone"}]
  /\ seen \in [Conn -> 0 .. hub.revision]
  /\ lastPushed \in [Conn -> 0 .. hub.revision]
  /\ delivered \in [Conn -> 0 .. hub.revision]
  /\ received \in [Conn -> 0 .. MaxRequests]
  /\ answered \in [Conn -> SUBSET Request]
  /\ uiQueue \subseteq (Conn \X (Request \cup {Cleanup}))
  /\ serverThread \in {"starting", "running", "draining", "done"}
  /\ uiThread \in {"starting", "abandoning", "looping", "joining", "stopped"}
  /\ \A c \in Conn : DOMAIN inFlight[c] \subseteq 1 .. received[c]

\* A success tells a state that includes what the command did: its revision is at
\* least the one the command left (README: "Every successful request returns the
\* authoritative current snapshot").
AnswersReflectCommand ==
  \A c \in Conn :
    outgoing[c].kind = "success" =>
      outgoing[c].revision >= effectOf[c][outgoing[c].request]

\* A request is in flight, being answered or answered, never two of them: no
\* request is answered twice, and none is forgotten while the connection lives.
RequestsAccounted ==
  \A c \in Conn : phase[c] \in Connected =>
    /\ DOMAIN inFlight[c] \cap answered[c] = {}
    /\ outgoing[c].request \notin DOMAIN inFlight[c] \cup answered[c]
    /\ 1 .. received[c] =
         (DOMAIN inFlight[c] \cup answered[c] \cup {outgoing[c].request}) \ {NoRequest}

\* The revisions a connection is told never fall and never run ahead, whatever
\* answers and pushes it receives: the server implements StateFeed.
Feed == INSTANCE StateFeed WITH
  Reader <- Conn, current <- hub.revision, view <- delivered

FeedImplemented == Feed!FeedSpec

\* A connection that stays open is told the last revision in the end, whichever
\* publications fell between its subscription and its first message.
LatestStateReaches ==
  \A c \in Conn : []<>(phase[c] \notin Connected \/ ShuttingDown
                        \/ delivered[c] = hub.revision)

\* The tray thread never waits forever for the server thread, at the start and at
\* the end, although connections wait for commands that only the tray thread runs.
StopEnds == []<>(uiThread \in {"looping", "stopped"})

\* No request is answered twice, forgotten or answered with an older state.
SrvSound == SrvTypeOK /\ AnswersReflectCommand /\ RequestsAccounted

\* Nobody waits forever: no connection for the state, no thread for the other.
SrvSettles == LatestStateReaches /\ StopEnds
=============================================================================
