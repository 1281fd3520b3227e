----------------------------- MODULE DeckClient -----------------------------
(***************************************************************************)
(* The Stream Deck plugin's connection to Stonemite: TrusharClient (one    *)
(* web socket at a time, reconnects, heartbeats, requests with time-outs,  *)
(* pairing), the DashboardStore's status and snapshot, the commands of the *)
(* property inspector and the Mouse Clutch key of the DashboardController. *)
(*                                                                         *)
(* The plugin runs on one event loop: a callback and the continuations of  *)
(* the promises it settles are one step.  "deck" is the plugin, "srv" is   *)
(* Stonemite as the plugin sees it.  A session is named by the number of   *)
(* its socket.  The client's generation counter is left out: a callback    *)
(* that is still registered always carries the current generation.         *)
(***************************************************************************)
EXTENDS Naturals, Sequences, FiniteSets, FiniteSetsExt

CONSTANTS
  MaxCommands,   \* commands given in the property inspector, and wake-ups
  MaxPresses,    \* presses of the Mouse Clutch key
  MaxUpsets,     \* failures of Stonemite or of the link
  MaxRevisions    \* state revisions of one run of Stonemite

ASSUME DeckBounds ==
  {MaxCommands, MaxPresses, MaxUpsets, MaxRevisions} \subseteq Nat

VARIABLES
  deck,     \* the plugin
  srv,      \* Stonemite: [up, revision, sessions, inbox, holds, stalled]
  spent     \* [commands, presses, upsets] so far

deckVars == <<deck, srv, spent>>

Nothing == [none |-> TRUE]

\* LOCAL_CONNECTION; a paired PC is named by the command that paired it, as
\* every pairing yields a token of its own.
Local == 0

\* Every status but "connected" is one in which the store shows no snapshot.
Statuses == {"connecting", "reconnecting", "connected", "pairing",
             "unavailable", "rejected", "incompatible", "unpaired"}

DeckInit ==
  /\ deck = [credentials |-> Local, saved |-> Local,
             socket |-> [id |-> 1, state |-> "connecting", terminal |-> FALSE,
                         frames |-> <<>>],
             heartbeat |-> "off", reconnectTimer |-> FALSE,
             pending |-> {}, status |-> "connecting", snapshot |-> 0,
             pairing |-> FALSE, epoch |-> 0, tasks |-> {},
             hold |-> Nothing, keyDown |-> FALSE]
  /\ srv = [up |-> TRUE, revision |-> 1, sessions |-> {}, inbox |-> <<>>,
            holds |-> {}, stalled |-> {}]
  /\ spent = [commands |-> 0, presses |-> 0, upsets |-> 0]

----------------------------------------------------------------------------
(* Parts of the client's callbacks, each from plugin state to plugin state *)

HasSocket(d) == d.socket # Nothing
SocketOpen(d) == HasSocket(d) /\ d.socket.state = "open"
Holding(d, h) == d.hold # Nothing /\ d.hold.id = h

SetConnection(d, status) ==
  [d EXCEPT !.status = status,
            !.snapshot = IF status = "connected" THEN @ ELSE 0,
            !.hold = IF status = "connected" THEN @ ELSE Nothing]

SetSnapshot(d, revision) ==
  [d EXCEPT !.snapshot = IF @ > revision THEN @ ELSE revision]

StopHeartbeat(d) == [d EXCEPT !.heartbeat = "off"]

\* A rejected begin or renewal forgets its hold; a rejected end changes nothing.
Rejected(d, p) ==
  [d EXCEPT !.hold = IF p.kind # "end" /\ Holding(d, p.hold) THEN Nothing ELSE @]

\* Mutant: the requests of the old connection are left waiting
RejectPendingLater(d) == d

RejectPending(d) ==
  [d EXCEPT !.pending = {},
            !.hold = IF \E p \in d.pending : p.kind # "end" /\ Holding(d, p.hold)
                     THEN Nothing ELSE @]

\* The listeners go with the socket: nothing it does later is heard.
CloseSocket(d) == [d EXCEPT !.socket = Nothing]

\* The least number no session, stalled link or frame under way still has.
NewSocket ==
  LET used == srv.sessions \cup srv.stalled
                \cup {srv.inbox[i].session : i \in DOMAIN srv.inbox}
  IN Min((1..(Cardinality(used) + 2)) \ (used \cup
         (IF HasSocket(deck) THEN {deck.socket.id} ELSE {})))

Connect(d, status) ==
  [SetConnection(d, status) EXCEPT
     !.socket = [id |-> NewSocket, state |-> "connecting",
                 terminal |-> FALSE, frames |-> <<>>]]

\* A pairing that is cancelled rejects its promise; its command reports the
\* failure unless a later command has begun.
CancelPair(d) ==
  [d EXCEPT !.pairing = FALSE,
            !.tasks = {t \in @ : t.stage # "pairing"}]

PairingReports(d) ==
  d.pairing /\ \E t \in d.tasks : t.stage = "pairing" /\ t.epoch = d.epoch

\* What configure, reconnect and pair begin with.
Dropped(d) ==
  RejectPending(CloseSocket(StopHeartbeat(
    [CancelPair(d) EXCEPT !.reconnectTimer = FALSE])))

Configure(d, credentials) ==
  IF d.credentials = credentials THEN d
  ELSE Connect([Dropped(d) EXCEPT !.credentials = credentials], "connecting")

Reconnect(d) == Connect(Dropped(d), "connecting")

ScheduleReconnect(d) ==
  [SetConnection(d, "reconnecting") EXCEPT !.reconnectTimer = TRUE]

\* A request needs an open socket; otherwise it is rejected at once.
Requested(d, p) ==
  IF SocketOpen(d) THEN [d EXCEPT !.pending = @ \cup {p}] ELSE Rejected(d, p)

Sent(d, p) ==
  IF SocketOpen(d) /\ d.socket.id \notin srv.stalled
  THEN [srv EXCEPT !.inbox = Append(@, [kind |-> p.kind, hold |-> p.hold,
                                        session |-> d.socket.id])]
  ELSE srv

MaySchedule(d) == d.status = "connected"

\* What the promise of an accepted request goes on to do.
Resolved(d, p) ==
  IF p.kind # "end" /\ Holding(d, p.hold)
  THEN [d EXCEPT !.hold.accepted = TRUE, !.hold.renewTimer = MaySchedule(d)]
  ELSE d

Linked == HasSocket(deck) /\ deck.socket.id \notin srv.stalled

----------------------------------------------------------------------------
(* The client's callbacks                                                  *)

OnOpen ==
  /\ Linked /\ deck.socket.state = "connecting"
  /\ deck.socket.id \in srv.sessions
  /\ deck' = [SetConnection(deck, "connected") EXCEPT
                !.socket.state = "open", !.heartbeat = "armed"]
  /\ UNCHANGED <<srv, spent>>

HeartbeatFires ==
  /\ deck.heartbeat = "armed"
  /\ deck' = [deck EXCEPT
                !.heartbeat = IF SocketOpen(deck) THEN "waiting" ELSE "off"]
  /\ UNCHANGED <<srv, spent>>

OnPong ==
  /\ deck.heartbeat = "waiting" /\ Linked /\ deck.socket.id \in srv.sessions
  /\ deck' = [deck EXCEPT !.heartbeat = "armed"]
  /\ UNCHANGED <<srv, spent>>

\* terminate(): the close event follows.
Terminated(d) == [d EXCEPT !.socket.state = "closing"]

\* Mutant: the stalled socket is kept
PongTimeoutIgnored ==
  /\ deck.heartbeat = "waiting" /\ HasSocket(deck)
  /\ deck.socket.id \in srv.stalled
  /\ deck' = [SetConnection(deck, "reconnecting") EXCEPT !.heartbeat = "off"]
  /\ UNCHANGED <<srv, spent>>

PongTimeout ==
  /\ deck.heartbeat = "waiting" /\ HasSocket(deck)
  /\ deck.socket.id \in srv.stalled
  /\ deck' = Terminated([SetConnection(deck, "reconnecting") EXCEPT
                           !.heartbeat = "off"])
  /\ UNCHANGED <<srv, spent>>

CommandTimeout(p) ==
  /\ p \in deck.pending
  /\ HasSocket(deck) /\ deck.socket.id \in srv.stalled
  /\ deck' = Terminated(SetConnection(
               Rejected([deck EXCEPT !.pending = @ \ {p}], p), "reconnecting"))
  /\ UNCHANGED <<srv, spent>>

\* One frame: a state, a result with its state, an error, or nonsense.
HandleMessage(d, m) ==
  CASE m.type = "state" -> SetSnapshot(d, m.revision)
    [] m.type = "result" ->
         IF m.request \in d.pending
         THEN Resolved([SetSnapshot(d, m.revision) EXCEPT
                          !.pending = @ \ {m.request}], m.request)
         ELSE d
    [] m.type = "error" ->
         IF m.request \in d.pending
         THEN Rejected([d EXCEPT !.pending = @ \ {m.request}], m.request)
         ELSE d
    [] m.type = "nonsense" ->
         [SetConnection(RejectPending(StopHeartbeat(d)), "incompatible") EXCEPT
            !.socket.state = "closing", !.socket.terminal = TRUE]

OnMessage ==
  /\ Linked /\ deck.socket.state # "connecting" /\ deck.socket.frames # <<>>
  /\ deck' = HandleMessage([deck EXCEPT !.socket.frames = Tail(@)],
                           Head(deck.socket.frames))
  /\ UNCHANGED <<srv, spent>>

\* The peer is gone, the connection was refused, or the socket was closed here.
OnClose ==
  /\ HasSocket(deck)
  /\ \/ deck.socket.state = "closing"
     \/ Linked /\ deck.socket.state = "open" /\ deck.socket.id \notin srv.sessions
     \/ deck.socket.state = "connecting" /\ ~srv.up
  /\ LET d == RejectPending(CloseSocket(StopHeartbeat(deck)))
     IN deck' = IF deck.socket.terminal THEN d ELSE ScheduleReconnect(d)
  /\ UNCHANGED <<srv, spent>>

ReconnectFires ==
  /\ deck.reconnectTimer
  /\ deck' = Connect([deck EXCEPT !.reconnectTimer = FALSE], "reconnecting")
  /\ UNCHANGED <<srv, spent>>

----------------------------------------------------------------------------
(* Commands of the property inspector, and the wake-up of the computer     *)

Commanded == /\ spent.commands < MaxCommands
             /\ spent' = [spent EXCEPT !.commands = @ + 1]

\* The inspector's controls: all are disabled while a pairing is under way,
\* and "Use this PC" also while no paired PC is saved.
Busy == deck.status = "pairing"

CommandReconnect ==
  /\ Commanded /\ ~Busy
  /\ deck' = Reconnect([deck EXCEPT !.epoch = @ + 1])
  /\ UNCHANGED srv

\* Waking up is no command: a pairing it cancels still reports its failure.
OnSystemDidWakeUp ==
  /\ Commanded
  /\ deck' = IF PairingReports(deck)
             THEN SetConnection(Reconnect(deck), "unpaired")
             ELSE Reconnect(deck)
  /\ UNCHANGED srv

CommandPair ==
  /\ Commanded /\ ~Busy
  /\ deck' = [SetConnection(Dropped(deck), "pairing") EXCEPT
                !.pairing = TRUE, !.epoch = @ + 1,
                !.tasks = @ \cup {[stage |-> "pairing", epoch |-> deck.epoch + 1]}]
  /\ UNCHANGED srv

CommandForget ==
  /\ Commanded /\ ~Busy /\ deck.saved # Local
  /\ deck' = [deck EXCEPT
                !.epoch = @ + 1, !.saved = Local,
                !.tasks = @ \cup {[stage |-> "forgetting", epoch |-> deck.epoch + 1]}]
  /\ UNCHANGED srv

PairSucceeds ==
  /\ deck.pairing
  /\ \E t \in deck.tasks :
       /\ t.stage = "pairing"
       /\ deck' = IF t.epoch = deck.epoch
                  THEN [deck EXCEPT !.pairing = FALSE, !.saved = t.epoch,
                          !.tasks = (@ \ {t}) \cup {[t EXCEPT !.stage = "saving"]}]
                  ELSE [deck EXCEPT !.pairing = FALSE, !.tasks = @ \ {t}]
  /\ UNCHANGED <<srv, spent>>

PairFails ==
  /\ deck.pairing
  /\ \E t \in deck.tasks :
       /\ t.stage = "pairing"
       /\ LET d == [deck EXCEPT !.pairing = FALSE, !.tasks = @ \ {t}]
          IN deck' = IF t.epoch = deck.epoch
                     THEN SetConnection(d, "unpaired") ELSE d
  /\ UNCHANGED <<srv, spent>>

StillCurrent(t) == t.epoch = deck.epoch

\* Stream Deck has stored the settings; a forgotten PC also clears the store.
SettingsSaved ==
  /\ \E t \in deck.tasks :
       /\ t.stage # "pairing"
       /\ LET d == [deck EXCEPT !.tasks = @ \ {t}]
          IN deck' = IF ~StillCurrent(t) THEN d
                     ELSE IF t.stage = "saving" THEN Configure(d, t.epoch)
                     ELSE [Configure(d, Local) EXCEPT !.snapshot = 0]
  /\ UNCHANGED <<srv, spent>>

----------------------------------------------------------------------------
(* The Mouse Clutch key                                                    *)

OnKeyDown ==
  /\ spent.presses < MaxPresses /\ ~deck.keyDown
  /\ LET id == spent.presses + 1
         p  == [kind |-> "begin", hold |-> id]
         available == deck.status = "connected" /\ deck.snapshot # 0
     IN IF available
        THEN /\ deck' = Requested([deck EXCEPT !.keyDown = TRUE,
                          !.hold = [id |-> id, accepted |-> FALSE,
                                    renewTimer |-> FALSE]], p)
             /\ srv' = Sent(deck, p)
        ELSE /\ deck' = [deck EXCEPT !.keyDown = TRUE]
             /\ UNCHANGED srv
  /\ spent' = [spent EXCEPT !.presses = @ + 1]

Releases(d) == d.hold # Nothing

\* The key comes up, or its tile disappears.
OnKeyUp ==
  /\ deck.keyDown
  /\ LET up == [deck EXCEPT !.keyDown = FALSE, !.hold = Nothing]
         p  == [kind |-> "end", hold |-> deck.hold.id]
     IN IF Releases(deck)
        THEN deck' = Requested(up, p) /\ srv' = Sent(deck, p)
        ELSE deck' = up /\ UNCHANGED srv
  /\ UNCHANGED spent

RenewTimerFires ==
  /\ deck.hold # Nothing /\ deck.hold.renewTimer
  /\ LET p == [kind |-> "renew", hold |-> deck.hold.id]
     IN /\ deck' = Requested([deck EXCEPT !.hold.renewTimer = FALSE], p)
        /\ srv' = Sent(deck, p)
  /\ UNCHANGED spent

----------------------------------------------------------------------------
(* Stonemite and the link                                                  *)

Deliver(id, m) ==
  deck' = IF HasSocket(deck) /\ deck.socket.id = id
          THEN [deck EXCEPT !.socket.frames = Append(@, m)] ELSE deck

ServerAccepts ==
  /\ srv.up /\ Linked /\ deck.socket.state = "connecting"
  /\ deck.socket.id \notin srv.sessions
  /\ srv' = [srv EXCEPT !.sessions = @ \cup {deck.socket.id}]
  /\ Deliver(deck.socket.id, [type |-> "state", revision |-> srv.revision])
  /\ UNCHANGED spent

ServerAnswers ==
  /\ srv.inbox # <<>>
  /\ LET r == Head(srv.inbox)
         p == [kind |-> r.kind, hold |-> r.hold]
         own == <<r.session, r.hold>>
         held == IF r.kind = "end" THEN srv.holds \ {own} ELSE srv.holds \cup {own}
         accepted == r.kind = "begin" \/ own \in srv.holds
     IN IF r.session \in srv.sessions
        THEN /\ srv' = [srv EXCEPT !.inbox = Tail(@),
                          !.holds = IF accepted THEN held ELSE @]
             /\ Deliver(r.session,
                  IF accepted
                  THEN [type |-> "result", request |-> p, revision |-> srv.revision]
                  ELSE [type |-> "error", request |-> p])
        ELSE srv' = [srv EXCEPT !.inbox = Tail(@)] /\ UNCHANGED deck
  /\ UNCHANGED spent

ServerPublishes ==
  /\ srv.up /\ srv.revision < MaxRevisions
  /\ srv' = [srv EXCEPT !.revision = @ + 1]
  /\ IF HasSocket(deck) /\ deck.socket.id \in srv.sessions
     THEN Deliver(deck.socket.id, [type |-> "state", revision |-> srv.revision + 1])
     ELSE UNCHANGED deck
  /\ UNCHANGED spent

DropSession(id) ==
  srv' = [srv EXCEPT !.sessions = @ \ {id}, !.holds = {h \in @ : h[1] # id},
                     !.inbox = SelectSeq(@, LAMBDA r : r.session # id)]

Uses(id) == HasSocket(deck) /\ deck.socket.id = id /\ deck.socket.state # "closing"

\* The server reads the last frames of a socket before it sees its end; a
\* session whose link is stalled ends when its pings are not answered.
ServerNotices(id) ==
  /\ id \in srv.sessions
  /\ \/ id \in srv.stalled
     \/ /\ ~Uses(id)
        /\ \A i \in DOMAIN srv.inbox : srv.inbox[i].session # id
  /\ DropSession(id)
  /\ UNCHANGED <<deck, spent>>

Upset == /\ spent.upsets < MaxUpsets
         /\ spent' = [spent EXCEPT !.upsets = @ + 1]

StonemiteStops ==
  /\ Upset /\ srv.up
  /\ srv' = [srv EXCEPT !.up = FALSE, !.sessions = {}, !.inbox = <<>>, !.holds = {}]
  /\ deck' = IF Linked /\ deck.socket.state = "connecting"
             THEN Terminated(deck) ELSE deck

StonemiteStarts ==
  /\ ~srv.up
  /\ srv' = [srv EXCEPT !.up = TRUE, !.revision = 1]
  /\ UNCHANGED <<deck, spent>>

LinkStalls ==
  /\ Upset /\ HasSocket(deck) /\ deck.socket.id \in srv.sessions
  /\ srv' = [srv EXCEPT !.stalled = @ \cup {deck.socket.id},
               !.inbox = SelectSeq(@, LAMBDA r : r.session # deck.socket.id)]
  /\ UNCHANGED deck

\* A socket stuck in its handshake is given up by handshakeTimeout.
HandshakeTimeout ==
  /\ HasSocket(deck) /\ deck.socket.state = "connecting"
  /\ deck.socket.id \in srv.stalled
  /\ deck' = Terminated(deck)
  /\ UNCHANGED <<srv, spent>>

ServerSendsNonsense ==
  /\ Upset /\ SocketOpen(deck) /\ deck.socket.id \in srv.sessions
  /\ Deliver(deck.socket.id, [type |-> "nonsense"])
  /\ UNCHANGED srv

\* The handshake is answered with an HTTP status: 401 and 403 are final.
UnexpectedResponse(final) ==
  /\ Upset /\ HasSocket(deck) /\ deck.socket.state = "connecting" /\ srv.up
  /\ deck.socket.id \notin srv.sessions
  /\ deck' = [SetConnection(deck, IF final THEN "rejected" ELSE "unavailable")
                EXCEPT !.socket.state = "closing", !.socket.terminal = final]
  /\ UNCHANGED srv

\* Stonemite cancels a hold on its own: focus, settings or a lost target.
ServerCancelsHold ==
  /\ Upset
  /\ \E h \in srv.holds : srv' = [srv EXCEPT !.holds = @ \ {h}]
  /\ UNCHANGED deck

----------------------------------------------------------------------------

DeckStep ==
  \/ OnOpen \/ HeartbeatFires \/ OnPong \/ PongTimeout \/ OnMessage \/ OnClose
  \/ ReconnectFires \/ HandshakeTimeout \/ SettingsSaved \/ RenewTimerFires
  \/ \E p \in deck.pending : CommandTimeout(p)

StonemiteStep ==
  \/ ServerAccepts \/ ServerAnswers \/ StonemiteStarts
  \/ \E id \in srv.sessions : ServerNotices(id)

UserStep ==
  \/ CommandReconnect \/ OnSystemDidWakeUp \/ CommandPair \/ CommandForget
  \/ OnKeyDown \/ OnKeyUp

UpsetStep ==
  \/ StonemiteStops \/ LinkStalls \/ ServerSendsNonsense \/ ServerCancelsHold
  \/ \E final \in BOOLEAN : UnexpectedResponse(final)

DeckNext ==
  \/ DeckStep \/ StonemiteStep \/ UserStep \/ UpsetStep
  \/ PairSucceeds \/ PairFails \/ ServerPublishes

DeckSpec == DeckInit /\ [][DeckNext]_deckVars

----------------------------------------------------------------------------
(* Properties                                                              *)

\* The client has one way to make progress and no leftovers of an earlier
\* one: a request waits only on a socket that is there to answer or to close
\* (#rejectPending), a socket, a retry timer and a pairing exclude each other,
\* and a Mouse Clutch hold exists only while its key is down and the
\* connection stands, and has an answer or a renewal still to come (a hold
\* nobody renews would be revoked by Stonemite under the user's finger).
DeckSound ==
  /\ deck.pending # {} => HasSocket(deck)
  /\ HasSocket(deck) => ~deck.reconnectTimer /\ ~deck.pairing
  /\ ~(deck.reconnectTimer /\ deck.pairing)
  /\ deck.heartbeat # "off" => HasSocket(deck)
  /\ deck.hold # Nothing =>
       /\ deck.keyDown /\ deck.status = "connected"
       /\ \/ deck.hold.renewTimer
          \/ \E p \in deck.pending : p.hold = deck.hold.id /\ p.kind # "end"

\* Whatever is lost, refused, stalled or restarted, the plugin ends up
\* connected and showing Stonemite's newest state, unless the connection was
\* rejected for good, spoke another protocol or ended with a failed pairing
\* (socket.on("close"), #scheduleHeartbeat, setSnapshot).
DeckRecovers ==
  []<>(\/ deck.status = "connected" /\ deck.snapshot = srv.revision
       \/ deck.status \in {"rejected", "incompatible", "unpaired"})

\* Stonemite does not keep a hold whose key was released or whose hold the
\* plugin forgot: an end is sent or the connection goes away with it
\* (#releaseClutch, #forgetClutchHolds).
HoldsLetGo ==
  []<>(\A h \in srv.holds : Holding(deck, h[2]))

\* The plugin comes back, and what it lost on the way is let go.
DeckSettles == DeckRecovers /\ HoldsLetGo
============================================================================
