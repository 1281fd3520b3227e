------------------------------ MODULE DeckProofs ------------------------------
(***************************************************************************)
(* DeckSound for any number of commands, presses, failures and revisions:  *)
(* whatever order the plugin's callbacks, its promises, the user and       *)
(* Stonemite come in, requests wait only on a socket, a socket, a retry    *)
(* timer and a pairing exclude each other, and a hold always has an answer *)
(* or a renewal to come.  What Stonemite does matters to this only through *)
(* the frames it sends, so nothing is assumed of it.  The strengthening:   *)
(* a socket that ended for good is closing and not shown as connected.     *)
(*                                                                         *)
(* And of the dial for the Extended Target box (XTargetDial): the state a  *)
(* Consider is asked for is the one the dial's selection led to.  The      *)
(* strengthening follows the requests (DialInv): at most one selection and *)
(* one Consider are under way, each in one place, no selection waits       *)
(* behind a Consider, and what is answered last has what is selected.      *)
(***************************************************************************)
EXTENDS DeckClient, XTargetDial, SequenceTheorems, TLAPS

FrameTypes == {"state", "result", "error", "nonsense"}

\* The plugin, a socket and a hold have their fields, and a socket's frames are frames.
Shape(d) ==
  d = [credentials |-> d.credentials, saved |-> d.saved, socket |-> d.socket,
       heartbeat |-> d.heartbeat, reconnectTimer |-> d.reconnectTimer,
       pending |-> d.pending, status |-> d.status, snapshot |-> d.snapshot,
       pairing |-> d.pairing, epoch |-> d.epoch, tasks |-> d.tasks,
       hold |-> d.hold, keyDown |-> d.keyDown]

Frames(f) ==
  LET S == {f[i] : i \in DOMAIN f} IN f \in Seq(S) /\ \A m \in S : m.type \in FrameTypes

SocketShape(s) ==
  /\ s = [id |-> s.id, state |-> s.state, terminal |-> s.terminal, frames |-> s.frames]
  /\ s.terminal \in BOOLEAN /\ Frames(s.frames)

HoldShape(h) ==
  /\ h = [id |-> h.id, accepted |-> h.accepted, renewTimer |-> h.renewTimer]
  /\ h.renewTimer \in BOOLEAN

\* The clauses of DeckSound, of any plugin state d.
WaysExclude(d) ==
  /\ d.pending # {} => HasSocket(d)
  /\ HasSocket(d) => ~d.reconnectTimer /\ ~d.pairing
  /\ ~(d.reconnectTimer /\ d.pairing)
  /\ d.heartbeat # "off" => HasSocket(d)

\* What the hold of d waits for.
HoldAwaits(d) ==
  \/ d.hold.renewTimer
  \/ \E p \in d.pending : p.hold = d.hold.id /\ p.kind # "end"

HoldSound(d) ==
  d.hold # Nothing => HoldShape(d.hold) /\ d.keyDown = TRUE /\ d.status = "connected" /\ HoldAwaits(d)

SocketSound(d) ==
  HasSocket(d) =>
    /\ SocketShape(d.socket)
    /\ d.socket.terminal => d.socket.state = "closing" /\ d.status # "connected"

Typed(d) ==
  /\ Shape(d)
  /\ d.reconnectTimer \in BOOLEAN /\ d.pairing \in BOOLEAN /\ d.keyDown \in BOOLEAN

Sound(d) == Typed(d) /\ WaysExclude(d) /\ HoldSound(d) /\ SocketSound(d)

----------------------------------------------------------------------------
(* Frames *)

LEMMA FramesIn ==
  ASSUME NEW f, NEW S, f \in Seq(S), \A m \in S : m.type \in FrameTypes
  PROVE  Frames(f)
<1> DEFINE T == {f[i] : i \in DOMAIN f}
<1>1. \A i \in 1 .. Len(f) : f[i] \in T
  OBVIOUS
<1>2. f \in Seq(T)
  BY <1>1 
<1>3. \A m \in T : m \in S
  OBVIOUS
<1> QED BY <1>2, <1>3 DEF Frames

LEMMA NoFrames == Frames(<<>>)
<1> DEFINE f == <<>>
<1>1. f \in Seq({})
  OBVIOUS
<1> HIDE DEF f
<1>2. Frames(f)
  BY <1>1, FramesIn
<1> QED BY <1>2 DEF f

LEMMA FramesAppend ==
  ASSUME NEW f, Frames(f), NEW m, m.type \in FrameTypes
  PROVE  Frames(Append(f, m))
<1> DEFINE S == {f[i] : i \in DOMAIN f} \cup {m}
<1>1. f \in Seq(S)
  BY SeqMonotonic DEF Frames
<1>2. Append(f, m) \in Seq(S) /\ \A x \in S : x.type \in FrameTypes
  BY <1>1 DEF Frames
<1> QED BY <1>2, FramesIn

LEMMA FramesTail ==
  ASSUME NEW f, Frames(f), f # <<>>
  PROVE  Frames(Tail(f)) /\ Head(f).type \in FrameTypes
<1> DEFINE S == {f[i] : i \in DOMAIN f}
<1>1. f \in Seq(S) /\ \A x \in S : x.type \in FrameTypes
  BY DEF Frames
<1> HIDE DEF S
<1>2. Tail(f) \in Seq(S) /\ Head(f) \in S
  BY <1>1, HeadTailProperties
<1> QED BY <1>1, <1>2, FramesIn

----------------------------------------------------------------------------
(* Parts of the callbacks *)

LEMMA Initially == DeckInit => Sound(deck)
<1> SUFFICES ASSUME DeckInit PROVE Sound(deck)
  OBVIOUS
<1>1. Typed(deck)
  BY DEF DeckInit, Typed, Shape
<1>3. SocketSound(deck)
  BY NoFrames DEF DeckInit, SocketSound, SocketShape
<1>4. WaysExclude(deck) /\ HoldSound(deck)
  BY DEF DeckInit, WaysExclude, HoldSound, HasSocket, Nothing
<1> QED BY <1>1, <1>3, <1>4 DEF Sound

\* Fields that say nothing of the connection or the hold.
LEMMA OtherFields ==
  ASSUME NEW d, Sound(d), NEW s, Shape(s),
         s.socket = d.socket, s.pending = d.pending, s.heartbeat = d.heartbeat,
         s.reconnectTimer = d.reconnectTimer, s.pairing = d.pairing, s.status = d.status,
         s.hold = d.hold, s.keyDown = d.keyDown
  PROVE  Sound(s)
BY DEF Sound, Typed, WaysExclude, HoldSound, HoldAwaits, SocketSound, HasSocket

\* The hold is replaced, and nothing else.
WithHold(d, h) == [d EXCEPT !.hold = h]

LEMMA HoldSet ==
  ASSUME NEW d, Shape(d), NEW h
  PROVE  /\ Shape(WithHold(d, h))
         /\ WithHold(d, h).socket = d.socket /\ WithHold(d, h).pending = d.pending
         /\ WithHold(d, h).heartbeat = d.heartbeat
         /\ WithHold(d, h).reconnectTimer = d.reconnectTimer
         /\ WithHold(d, h).pairing = d.pairing /\ WithHold(d, h).status = d.status
         /\ WithHold(d, h).hold = h /\ WithHold(d, h).keyDown = d.keyDown
<1> DEFINE s == WithHold(d, h)
<1>1. Shape(s)
  BY DEF Shape, WithHold
<1>2. /\ s.socket = d.socket /\ s.pending = d.pending /\ s.heartbeat = d.heartbeat
      /\ s.reconnectTimer = d.reconnectTimer /\ s.pairing = d.pairing
      /\ s.status = d.status /\ s.hold = h /\ s.keyDown = d.keyDown
  BY DEF Shape, WithHold
<1> HIDE DEF s
<1> QED BY <1>1, <1>2 DEF s

\* A status other than "connected" forgets the hold.
LEMMA Disconnected ==
  ASSUME NEW d, Sound(d), NEW status, status # "connected",
         NEW s, s = SetConnection(d, status)
  PROVE  /\ Sound(s)
         /\ s.socket = d.socket /\ s.pending = d.pending /\ s.heartbeat = d.heartbeat
         /\ s.reconnectTimer = d.reconnectTimer /\ s.pairing = d.pairing
         /\ s.status = status /\ s.hold = Nothing
<1>1. Shape(d)
  BY DEF Sound, Typed
<1>2. /\ s.socket = d.socket /\ s.pending = d.pending /\ s.heartbeat = d.heartbeat
      /\ s.reconnectTimer = d.reconnectTimer /\ s.pairing = d.pairing
      /\ s.status = status /\ s.hold = Nothing /\ s.keyDown = d.keyDown
  BY <1>1 DEF SetConnection, Shape
<1>3. Shape(s)
  BY <1>1 DEF SetConnection, Shape
<1>4. Sound(s)
  BY <1>2, <1>3 DEF Sound, Typed, WaysExclude, HoldSound, SocketSound, HasSocket
<1> QED BY <1>2, <1>4

LEMMA Revised ==
  ASSUME NEW d, Sound(d), NEW revision, NEW s, s = SetSnapshot(d, revision)
  PROVE  Sound(s) /\ s.pending = d.pending
<1>1. Shape(d)
  BY DEF Sound, Typed
<1>2. /\ s.socket = d.socket /\ s.pending = d.pending /\ s.heartbeat = d.heartbeat
      /\ s.reconnectTimer = d.reconnectTimer /\ s.pairing = d.pairing
      /\ s.status = d.status /\ s.hold = d.hold /\ s.keyDown = d.keyDown
  BY <1>1 DEF SetSnapshot, Shape
<1>3. Shape(s)
  BY <1>1 DEF SetSnapshot, Shape
<1> QED BY <1>2, <1>3, OtherFields

\* The heartbeat runs only on a socket.
LEMMA HeartbeatSet ==
  ASSUME NEW d, Sound(d), NEW h, h # "off" => HasSocket(d),
         NEW s, s = [d EXCEPT !.heartbeat = h]
  PROVE  Sound(s) /\ s.socket = d.socket /\ s.status = d.status
<1>1. Shape(d)
  BY DEF Sound, Typed
<1>2. /\ s.socket = d.socket /\ s.pending = d.pending /\ s.heartbeat = h
      /\ s.reconnectTimer = d.reconnectTimer /\ s.pairing = d.pairing
      /\ s.status = d.status /\ s.hold = d.hold /\ s.keyDown = d.keyDown
  BY <1>1 DEF Shape
<1>3. Shape(s)
  BY <1>1 DEF Shape
<1> QED BY <1>2, <1>3
        DEF Sound, Typed, WaysExclude, HoldSound, HoldAwaits, SocketSound, HasSocket

\* The socket changes, but stays there.
LEMMA SocketSet ==
  ASSUME NEW d, Sound(d), HasSocket(d), NEW k, SocketShape(k),
         k.terminal => k.state = "closing" /\ d.status # "connected",
         NEW s, s = [d EXCEPT !.socket = k]
  PROVE  Sound(s) /\ s.socket = k
<1>1. Shape(d)
  BY DEF Sound, Typed
<1>2. /\ s.socket = k /\ s.pending = d.pending /\ s.heartbeat = d.heartbeat
      /\ s.reconnectTimer = d.reconnectTimer /\ s.pairing = d.pairing
      /\ s.status = d.status /\ s.hold = d.hold /\ s.keyDown = d.keyDown
  BY <1>1 DEF Shape
<1>3. Shape(s)
  BY <1>1 DEF Shape
<1>4. k # Nothing
  <2>1. "id" \in DOMAIN k /\ "id" \notin DOMAIN Nothing
    BY DEF SocketShape, Nothing
  <2> QED BY <2>1
<1> QED BY <1>2, <1>3, <1>4
        DEF Sound, Typed, WaysExclude, HoldSound, HoldAwaits, SocketSound, HasSocket

LEMMA TerminatedSound ==
  ASSUME NEW d, Sound(d), HasSocket(d)
  PROVE  Sound(Terminated(d))
<1> DEFINE k == [d.socket EXCEPT !.state = "closing"]
<1>1. SocketShape(d.socket) /\ (d.socket.terminal => d.status # "connected")
  BY DEF Sound, SocketSound
<1>2. /\ k = [id |-> d.socket.id, state |-> "closing", terminal |-> d.socket.terminal,
              frames |-> d.socket.frames]
  BY <1>1 DEF SocketShape
<1>3. SocketShape(k) /\ k.terminal = d.socket.terminal /\ k.state = "closing"
  BY <1>1, <1>2 DEF SocketShape
<1>4. Terminated(d) = [d EXCEPT !.socket = k]
  BY DEF Terminated
<1> HIDE DEF k
<1> QED BY <1>1, <1>3, <1>4, SocketSet

\* Requests that will not be answered any more are rejected, and so is a hold that
\* waits for one.
LEMMA PendingRejected ==
  ASSUME NEW d, Sound(d), NEW s, s = RejectPending(d)
  PROVE  /\ Sound(s)
         /\ s.socket = d.socket /\ s.pending = {} /\ s.heartbeat = d.heartbeat
         /\ s.reconnectTimer = d.reconnectTimer /\ s.pairing = d.pairing
         /\ s.status = d.status /\ s.hold \in {d.hold, Nothing} /\ s.keyDown = d.keyDown
<1>1. Shape(d)
  BY DEF Sound, Typed
<1>2. /\ s.socket = d.socket /\ s.pending = {} /\ s.heartbeat = d.heartbeat
      /\ s.reconnectTimer = d.reconnectTimer /\ s.pairing = d.pairing
      /\ s.status = d.status /\ s.keyDown = d.keyDown
      /\ s.hold = IF \E p \in d.pending : p.kind # "end" /\ Holding(d, p.hold)
                  THEN Nothing ELSE d.hold
  BY <1>1 DEF RejectPending, Shape
<1>3. Shape(s)
  BY <1>1 DEF RejectPending, Shape
<1>4. HoldSound(s)
  <2>1. CASE s.hold # Nothing
    <3>1. s.hold = d.hold /\ ~ \E p \in d.pending : p.kind # "end" /\ p.hold = d.hold.id
      BY <1>2, <2>1 DEF Holding
    <3>2. d.hold.renewTimer
      BY <2>1, <3>1 DEF Sound, HoldSound, HoldAwaits
    <3> QED BY <1>2, <2>1, <3>1, <3>2 DEF Sound, HoldSound, HoldAwaits
  <2> QED BY <2>1 DEF HoldSound
<1>5. Typed(s) /\ WaysExclude(s) /\ SocketSound(s)
  BY <1>2, <1>3 DEF Sound, Typed, WaysExclude, SocketSound, HasSocket
<1>6. s.hold \in {d.hold, Nothing}
  BY <1>2
<1> QED BY <1>2, <1>4, <1>5, <1>6 DEF Sound

\* The connection is cut: its socket, heartbeat and requests go together.
Cut(d) == RejectPending(CloseSocket(StopHeartbeat(d)))

LEMMA CutSound ==
  ASSUME NEW d, Sound(d), NEW s, s = Cut(d)
  PROVE  /\ Sound(s) /\ ~HasSocket(s) /\ s.pending = {} /\ s.heartbeat = "off"
         /\ s.reconnectTimer = d.reconnectTimer /\ s.pairing = d.pairing
<1> DEFINE r == RejectPending(d)
<1>1. Shape(d)
  BY DEF Sound, Typed
<1>2. /\ Sound(r) /\ r.pending = {} /\ r.reconnectTimer = d.reconnectTimer
      /\ r.pairing = d.pairing
  BY PendingRejected
<1>3. s = [r EXCEPT !.heartbeat = "off", !.socket = Nothing]
  BY <1>1 DEF Cut, RejectPending, CloseSocket, StopHeartbeat, Shape, Holding
<1> HIDE DEF r
<1>4. Shape(r)
  BY <1>2 DEF Sound, Typed
<1>5. /\ s.socket = Nothing /\ s.pending = {} /\ s.heartbeat = "off"
      /\ s.reconnectTimer = r.reconnectTimer /\ s.pairing = r.pairing
      /\ s.status = r.status /\ s.hold = r.hold /\ s.keyDown = r.keyDown
  BY <1>2, <1>3, <1>4 DEF Shape
<1>6. Shape(s)
  BY <1>3, <1>4 DEF Shape
<1>7. Sound(s)
  BY <1>2, <1>5, <1>6
  DEF Sound, Typed, WaysExclude, HoldSound, HoldAwaits, SocketSound, HasSocket
<1> QED BY <1>2, <1>5, <1>7 DEF HasSocket

\* Neither a socket, a retry nor a pairing is left, and nothing waits.
Idle(d) == ~HasSocket(d) /\ ~d.reconnectTimer /\ ~d.pairing /\ d.pending = {}

LEMMA DroppedSound ==
  ASSUME NEW d, Sound(d)
  PROVE  Sound(Dropped(d)) /\ Idle(Dropped(d))
<1> DEFINE left == {t \in d.tasks : t.stage # "pairing"}
           c == [CancelPair(d) EXCEPT !.reconnectTimer = FALSE]
<1>1. Shape(d)
  BY DEF Sound, Typed
<1>2. /\ c.socket = d.socket /\ c.pending = d.pending /\ c.heartbeat = d.heartbeat
      /\ c.reconnectTimer = FALSE /\ c.pairing = FALSE
      /\ c.status = d.status /\ c.hold = d.hold /\ c.keyDown = d.keyDown
  BY <1>1 DEF CancelPair, Shape
<1>3. Shape(c)
  <2>1. CancelPair(d) = [d EXCEPT !.pairing = FALSE, !.tasks = left]
    BY DEF CancelPair
  <2> HIDE DEF left
  <2> DEFINE q == CancelPair(d)
  <2>2. Shape(q)
    BY <1>1, <2>1 DEF Shape
  <2> HIDE DEF q
  <2> DEFINE v == FALSE
  <2> HIDE DEF v
  <2>3. Shape([q EXCEPT !.reconnectTimer = v])
    BY <2>2 DEF Shape
  <2> QED BY <2>3 DEF q, v
<1>4. Dropped(d) = Cut(c)
  BY DEF Dropped, Cut
<1> HIDE DEF c
<1>5. Sound(c)
  BY <1>2, <1>3 DEF Sound, Typed, WaysExclude, HoldSound, HoldAwaits, SocketSound, HasSocket
<1> QED BY <1>2, <1>4, <1>5, CutSound DEF Idle

LEMMA ConnectSound ==
  ASSUME NEW d, Sound(d), Idle(d), NEW status, status # "connected"
  PROVE  Sound(Connect(d, status))
<1> DEFINE r == SetConnection(d, status)
           k == [id |-> NewSocket, state |-> "connecting", terminal |-> FALSE, frames |-> <<>>]
           s == [r EXCEPT !.socket = k]
<1>1. /\ Sound(r) /\ ~r.reconnectTimer /\ ~r.pairing /\ r.pending = {}
      /\ r.hold = Nothing
  BY Disconnected DEF Idle
<1>2. SocketShape(k) /\ ~k.terminal
  BY NoFrames DEF SocketShape
<1>3. k # Nothing
  <2>1. "id" \in DOMAIN k /\ "id" \notin DOMAIN Nothing
    BY DEF Nothing
  <2> QED BY <2>1
<1>4. Connect(d, status) = s
  BY DEF Connect
<1>5. Shape(r)
  BY <1>1 DEF Sound, Typed
<1> HIDE DEF r, k
<1>6. /\ s.socket = k /\ s.pending = {} /\ s.heartbeat = r.heartbeat
      /\ s.reconnectTimer = r.reconnectTimer /\ s.pairing = r.pairing
      /\ s.status = r.status /\ s.hold = Nothing /\ s.keyDown = r.keyDown /\ Shape(s)
  BY <1>1, <1>5 DEF Shape
<1> HIDE DEF s
<1>7. Sound(s)
  BY <1>1, <1>2, <1>3, <1>6
  DEF Sound, Typed, WaysExclude, HoldSound, HoldAwaits, SocketSound, HasSocket
<1> QED BY <1>4, <1>7

LEMMA ReconnectSound ==
  ASSUME NEW d, Sound(d)
  PROVE  Sound(Reconnect(d))
BY DroppedSound, ConnectSound DEF Reconnect

LEMMA ConfigureSound ==
  ASSUME NEW d, Sound(d), NEW credentials
  PROVE  Sound(Configure(d, credentials))
<1> DEFINE e == [Dropped(d) EXCEPT !.credentials = credentials]
<1>1. Sound(Dropped(d)) /\ Idle(Dropped(d)) /\ Shape(Dropped(d))
  BY DroppedSound DEF Sound, Typed
<1>2. Shape(e)
  BY <1>1 DEF Shape
<1>3. /\ e.socket = Dropped(d).socket /\ e.pending = Dropped(d).pending
      /\ e.heartbeat = Dropped(d).heartbeat /\ e.reconnectTimer = Dropped(d).reconnectTimer
      /\ e.pairing = Dropped(d).pairing /\ e.status = Dropped(d).status
      /\ e.hold = Dropped(d).hold /\ e.keyDown = Dropped(d).keyDown
  BY <1>1 DEF Shape
<1>4. Configure(d, credentials) = IF d.credentials = credentials THEN d
                                  ELSE Connect(e, "connecting")
  BY DEF Configure
<1> HIDE DEF e
<1>5. Sound(e) /\ Idle(e)
  BY <1>1, <1>2, <1>3, OtherFields DEF Idle, HasSocket
<1> QED BY <1>4, <1>5, ConnectSound

----------------------------------------------------------------------------
(* Requests and their answers *)

\* A begin or a renewal is asked for the hold: the hold waits for the answer, or is
\* forgotten at once.
LEMMA HoldAsked ==
  ASSUME NEW d, Typed(d), WaysExclude(d), SocketSound(d),
         HoldShape(d.hold), d.keyDown = TRUE, d.status = "connected",
         NEW p, p.kind # "end", p.hold = d.hold.id
  PROVE  Sound(Requested(d, p))
<1>1. Shape(d)
  BY DEF Typed
<1>2. CASE SocketOpen(d)
  <2> DEFINE s == [d EXCEPT !.pending = @ \cup {p}]
  <2>1. Requested(d, p) = s
    BY <1>2 DEF Requested
  <2>2. /\ s.socket = d.socket /\ s.pending = d.pending \cup {p} /\ s.heartbeat = d.heartbeat
        /\ s.reconnectTimer = d.reconnectTimer /\ s.pairing = d.pairing
        /\ s.status = d.status /\ s.hold = d.hold /\ s.keyDown = d.keyDown
    BY <1>1 DEF Shape
  <2>3. Shape(s)
    BY <1>1 DEF Shape
  <2> HIDE DEF s
  <2>4. HoldSound(s)
    BY <2>2 DEF HoldSound, HoldAwaits
  <2>5. WaysExclude(s) /\ SocketSound(s) /\ Typed(s)
    BY <1>2, <2>2, <2>3 DEF WaysExclude, SocketSound, Typed, HasSocket, SocketOpen
  <2> QED BY <2>1, <2>4, <2>5 DEF Sound
<1>3. CASE ~SocketOpen(d)
  <2> DEFINE s == WithHold(d, Nothing)
  <2>1. Requested(d, p) = s \/ (d.hold = Nothing /\ Requested(d, p) = [d EXCEPT !.hold = @])
    BY <1>3 DEF Requested, Rejected, Holding, WithHold
  <2>2. Requested(d, p) = s
    BY <2>1 DEF WithHold
  <2>3. /\ s.socket = d.socket /\ s.pending = d.pending /\ s.heartbeat = d.heartbeat
        /\ s.reconnectTimer = d.reconnectTimer /\ s.pairing = d.pairing
        /\ s.status = d.status /\ s.hold = Nothing /\ s.keyDown = d.keyDown /\ Shape(s)
    BY <1>1, HoldSet
  <2> HIDE DEF s
  <2>5. HoldSound(s) /\ WaysExclude(s) /\ SocketSound(s) /\ Typed(s)
    BY <2>3 DEF HoldSound, WaysExclude, SocketSound, Typed, HasSocket
  <2> QED BY <2>2, <2>5 DEF Sound
<1> QED BY <1>2, <1>3

\* An end is asked: nobody waits for its answer.
LEMMA EndAsked ==
  ASSUME NEW d, Sound(d), NEW p, p.kind = "end"
  PROVE  Sound(Requested(d, p))
<1>1. Shape(d)
  BY DEF Sound, Typed
<1>2. CASE SocketOpen(d)
  <2> DEFINE s == [d EXCEPT !.pending = @ \cup {p}]
  <2>1. Requested(d, p) = s
    BY <1>2 DEF Requested
  <2>2. /\ s.socket = d.socket /\ s.pending = d.pending \cup {p} /\ s.heartbeat = d.heartbeat
        /\ s.reconnectTimer = d.reconnectTimer /\ s.pairing = d.pairing
        /\ s.status = d.status /\ s.hold = d.hold /\ s.keyDown = d.keyDown
    BY <1>1 DEF Shape
  <2>3. Shape(s)
    BY <1>1 DEF Shape
  <2> HIDE DEF s
  <2>4. HoldSound(s)
    BY <2>2 DEF Sound, HoldSound, HoldAwaits
  <2>5. WaysExclude(s) /\ SocketSound(s) /\ Typed(s)
    BY <1>2, <2>2, <2>3 DEF Sound, WaysExclude, SocketSound, Typed, HasSocket, SocketOpen
  <2> QED BY <2>1, <2>4, <2>5 DEF Sound
<1>3. CASE ~SocketOpen(d)
  <2>1. Requested(d, p) = [d EXCEPT !.hold = @]
    BY <1>3 DEF Requested, Rejected
  <2>2. [d EXCEPT !.hold = @] = d
    BY <1>1 DEF Shape
  <2> QED BY <2>1, <2>2
<1> QED BY <1>2, <1>3

\* e is d without the request p.
Without(e, d, p) == e = [d EXCEPT !.pending = @ \ {p}]

\* A request is taken out of those that wait; its hold may lose what it waits for.
LEMMA Taken ==
  ASSUME NEW d, Sound(d), NEW p, p \in d.pending,
         NEW e, Without(e, d, p)
  PROVE  /\ Typed(e) /\ WaysExclude(e) /\ SocketSound(e) /\ HasSocket(e)
         /\ e.hold = d.hold /\ e.status = d.status /\ e.keyDown = d.keyDown
         /\ e.pending = d.pending \ {p}
         /\ (p.kind = "end" \/ ~Holding(d, p.hold)) => HoldSound(e)
<1>1. Shape(d)
  BY DEF Sound, Typed
<1>2. /\ e.socket = d.socket /\ e.pending = d.pending \ {p} /\ e.heartbeat = d.heartbeat
      /\ e.reconnectTimer = d.reconnectTimer /\ e.pairing = d.pairing
      /\ e.status = d.status /\ e.hold = d.hold /\ e.keyDown = d.keyDown
  BY <1>1 DEF Shape, Without
<1>3. Shape(e)
  BY <1>1 DEF Shape, Without
<1>4. Typed(e) /\ WaysExclude(e) /\ SocketSound(e) /\ HasSocket(e)
  BY <1>2, <1>3 DEF Sound, Typed, WaysExclude, SocketSound, HasSocket
<1>5. (p.kind = "end" \/ ~Holding(d, p.hold)) => HoldSound(e)
  BY <1>2 DEF Sound, HoldSound, HoldAwaits, Holding
<1> QED BY <1>2, <1>4, <1>5

\* An accepted begin or renewal schedules the next renewal.
LEMMA ResolvedSound ==
  ASSUME NEW d, Sound(d), NEW p, p \in d.pending,
         NEW e, Without(e, d, p)
  PROVE  Sound(Resolved(e, p))
<1>1. /\ Typed(e) /\ WaysExclude(e) /\ SocketSound(e) /\ e.hold = d.hold
      /\ e.status = d.status /\ e.keyDown = d.keyDown
      /\ (p.kind = "end" \/ ~Holding(e, p.hold)) => HoldSound(e)
  <2>1. e.hold = d.hold => (Holding(e, p.hold) <=> Holding(d, p.hold))
    BY DEF Holding
  <2> QED BY <2>1, Taken
<1>2. CASE ~(p.kind # "end" /\ Holding(e, p.hold))
  BY <1>1, <1>2 DEF Resolved, Sound
<1>3. CASE p.kind # "end" /\ Holding(e, p.hold)
  <2> DEFINE h == [e.hold EXCEPT !.accepted = TRUE, !.renewTimer = MaySchedule(e)]
             s == WithHold(e, h)
  <2>1. /\ HoldShape(e.hold) /\ e.keyDown = TRUE /\ e.status = "connected"
    BY <1>1, <1>3 DEF Sound, HoldSound, Holding
  <2>4. Resolved(e, p) = s
    BY <1>3 DEF Resolved, WithHold
  <2>3. HoldShape(h) /\ h.renewTimer
    <3> DEFINE may == MaySchedule(e)
               yes == TRUE
    <3>1. may \in BOOLEAN /\ may
      BY <2>1 DEF MaySchedule
    <3>2. h = [e.hold EXCEPT !.accepted = yes, !.renewTimer = may]
      OBVIOUS
    <3> HIDE DEF may, yes, h
    <3>3. h = [id |-> e.hold.id, accepted |-> yes, renewTimer |-> may]
      BY <2>1, <3>2 DEF HoldShape
    <3> QED BY <3>1, <3>3 DEF HoldShape
  <2>5. Shape(e)
    BY <1>1 DEF Typed
  <2> HIDE DEF h
  <2>6. /\ s.socket = e.socket /\ s.pending = e.pending /\ s.heartbeat = e.heartbeat
        /\ s.reconnectTimer = e.reconnectTimer /\ s.pairing = e.pairing
        /\ s.status = e.status /\ s.hold = h /\ s.keyDown = e.keyDown /\ Shape(s)
    BY <2>5, HoldSet
  <2> HIDE DEF s
  <2>7. Typed(s) /\ WaysExclude(s) /\ SocketSound(s)
    BY <1>1, <2>6 DEF Typed, WaysExclude, SocketSound, HasSocket
  <2>8. HoldSound(s)
    BY <2>1, <2>3, <2>6 DEF HoldSound, HoldAwaits
  <2> QED BY <2>4, <2>7, <2>8 DEF Sound
<1> QED BY <1>2, <1>3

\* A rejected begin or renewal forgets its hold.
LEMMA RejectedSound ==
  ASSUME NEW d, Sound(d), NEW p, p \in d.pending,
         NEW e, Without(e, d, p)
  PROVE  Sound(Rejected(e, p)) /\ HasSocket(Rejected(e, p))
<1>1. /\ Typed(e) /\ WaysExclude(e) /\ SocketSound(e) /\ e.hold = d.hold /\ HasSocket(e)
      /\ (p.kind = "end" \/ ~Holding(e, p.hold)) => HoldSound(e)
  <2>1. e.hold = d.hold => (Holding(e, p.hold) <=> Holding(d, p.hold))
    BY DEF Holding
  <2> QED BY <2>1, Taken
<1>2. Shape(e)
  BY <1>1 DEF Typed
<1>3. CASE ~(p.kind # "end" /\ Holding(e, p.hold))
  <2>1. Rejected(e, p) = [e EXCEPT !.hold = e.hold]
    BY <1>3 DEF Rejected
  <2>2. [e EXCEPT !.hold = e.hold] = e
    BY <1>2 DEF Shape
  <2> QED BY <1>1, <1>3, <2>1, <2>2 DEF Sound
<1>4. CASE p.kind # "end" /\ Holding(e, p.hold)
  <2> DEFINE s == WithHold(e, Nothing)
  <2>1. Rejected(e, p) = s
    BY <1>4 DEF Rejected, WithHold
  <2>2. /\ s.socket = e.socket /\ s.pending = e.pending /\ s.heartbeat = e.heartbeat
        /\ s.reconnectTimer = e.reconnectTimer /\ s.pairing = e.pairing
        /\ s.status = e.status /\ s.hold = Nothing /\ s.keyDown = e.keyDown /\ Shape(s)
    BY <1>2, HoldSet
  <2> HIDE DEF s
  <2>3. Sound(s) /\ HasSocket(s)
    BY <1>1, <2>2 DEF Sound, Typed, WaysExclude, HoldSound, SocketSound, HasSocket
  <2> QED BY <2>1, <2>3
<1> QED BY <1>3, <1>4

\* A frame nobody understands ends the connection for good.
LEMMA NonsenseSound ==
  ASSUME NEW d, Sound(d), HasSocket(d), NEW m, m.type = "nonsense"
  PROVE  Sound(HandleMessage(d, m))
<1> DEFINE r == SetConnection(RejectPending(StopHeartbeat(d)), "incompatible")
           k == [r.socket EXCEPT !.state = "closing", !.terminal = TRUE]
<1>1. Sound(StopHeartbeat(d)) /\ StopHeartbeat(d).socket = d.socket
  BY HeartbeatSet DEF StopHeartbeat
<1>2. Sound(RejectPending(StopHeartbeat(d))) /\ RejectPending(StopHeartbeat(d)).socket = d.socket
  BY <1>1, PendingRejected
<1>3. Sound(r) /\ r.socket = d.socket /\ r.status = "incompatible"
  BY <1>2, Disconnected
<1>4. HandleMessage(d, m) = [r EXCEPT !.socket = k]
  BY DEF HandleMessage
<1> HIDE DEF r
<1>5. SocketShape(k) /\ k.state = "closing"
  <2> DEFINE yes == TRUE
  <2>1. SocketShape(r.socket)
    BY <1>3 DEF Sound, SocketSound, HasSocket
  <2>2. k = [r.socket EXCEPT !.state = "closing", !.terminal = yes] /\ yes \in BOOLEAN
    OBVIOUS
  <2> HIDE DEF yes, k
  <2>3. k = [id |-> r.socket.id, state |-> "closing", terminal |-> yes,
             frames |-> r.socket.frames]
    BY <2>1, <2>2 DEF SocketShape
  <2> QED BY <2>1, <2>2, <2>3 DEF SocketShape
<1> HIDE DEF k
<1> QED BY <1>3, <1>4, <1>5, SocketSet DEF HasSocket

LEMMA HandleSound ==
  ASSUME NEW d, Sound(d), HasSocket(d), NEW m, m.type \in FrameTypes
  PROVE  Sound(HandleMessage(d, m))
<1>1. CASE m.type = "state"
  BY <1>1, Revised DEF HandleMessage
<1>2. CASE m.type = "result"
  <2> DEFINE r == SetSnapshot(d, m.revision)
             e == [r EXCEPT !.pending = @ \ {m.request}]
  <2>1. Sound(r) /\ r.pending = d.pending
    BY Revised
  <2>2. HandleMessage(d, m) = IF m.request \in d.pending THEN Resolved(e, m.request) ELSE d
    BY <1>2 DEF HandleMessage
  <2>3. Without(e, r, m.request)
    BY DEF Without
  <2> HIDE DEF r, e
  <2> QED BY <2>1, <2>2, <2>3, ResolvedSound
<1>3. CASE m.type = "error"
  <2> DEFINE e == [d EXCEPT !.pending = @ \ {m.request}]
  <2>1. HandleMessage(d, m) = IF m.request \in d.pending THEN Rejected(e, m.request) ELSE d
    BY <1>3 DEF HandleMessage
  <2>2. Without(e, d, m.request)
    BY DEF Without
  <2> HIDE DEF e
  <2> QED BY <2>1, <2>2, RejectedSound
<1>4. CASE m.type = "nonsense"
  BY <1>4, NonsenseSound
<1> QED BY <1>1, <1>2, <1>3, <1>4 DEF FrameTypes

\* A socket gets or gives a frame.
WithFrames(d, f) == [d EXCEPT !.socket.frames = f]

LEMMA FramesSet ==
  ASSUME NEW d, Sound(d), HasSocket(d), NEW f, Frames(f)
  PROVE  Sound(WithFrames(d, f)) /\ HasSocket(WithFrames(d, f))
<1> DEFINE k == [d.socket EXCEPT !.frames = f]
<1>1. SocketShape(d.socket)
      /\ (d.socket.terminal => d.socket.state = "closing" /\ d.status # "connected")
  BY DEF Sound, SocketSound
<1>2. k = [id |-> d.socket.id, state |-> d.socket.state, terminal |-> d.socket.terminal,
           frames |-> f]
  BY <1>1 DEF SocketShape
<1>3. SocketShape(k) /\ k.terminal = d.socket.terminal /\ k.state = d.socket.state
  BY <1>1, <1>2 DEF SocketShape
<1>4. WithFrames(d, f) = [d EXCEPT !.socket = k]
  BY DEF WithFrames
<1>5. k # Nothing
  <2>1. "id" \in DOMAIN k /\ "id" \notin DOMAIN Nothing
    BY <1>2 DEF Nothing
  <2> QED BY <2>1
<1> HIDE DEF k
<1> QED BY <1>1, <1>3, <1>4, <1>5, SocketSet DEF HasSocket

----------------------------------------------------------------------------
(* The actions *)

LEMMA OpenKeeps ==
  ASSUME Sound(deck), OnOpen
  PROVE  Sound(deck')
<1> DEFINE r == SetConnection(deck, "connected")
           k == [deck.socket EXCEPT !.state = "open"]
<1>1. HasSocket(deck) /\ deck.socket.state = "connecting"
  BY DEF OnOpen, Linked
<1>2. SocketShape(deck.socket) /\ ~deck.socket.terminal
  BY <1>1 DEF Sound, SocketSound, SocketShape
<1>3. k = [id |-> deck.socket.id, state |-> "open", terminal |-> deck.socket.terminal,
           frames |-> deck.socket.frames]
  BY <1>2 DEF SocketShape
<1>4. SocketShape(k) /\ ~k.terminal
  BY <1>2, <1>3 DEF SocketShape
<1>5. Shape(deck)
  BY DEF Sound, Typed
<1>6. Shape(r)
  <2> DEFINE x == deck.snapshot
             h == deck.hold
             c == "connected"
  <2>1. r = [deck EXCEPT !.status = c, !.snapshot = x, !.hold = h]
    BY DEF SetConnection
  <2> HIDE DEF x, h, c, r
  <2> QED BY <1>5, <2>1 DEF Shape
<1>7. /\ r.socket = deck.socket /\ r.pending = deck.pending
      /\ r.reconnectTimer = deck.reconnectTimer /\ r.pairing = deck.pairing
      /\ r.status = "connected" /\ r.hold = deck.hold /\ r.keyDown = deck.keyDown
  BY <1>5 DEF SetConnection, Shape
<1>8. deck' = [r EXCEPT !.socket = k, !.heartbeat = "armed"]
  BY <1>7 DEF OnOpen
<1> HIDE DEF r, k
<1>9. /\ deck'.socket = k /\ deck'.pending = r.pending /\ deck'.heartbeat = "armed"
      /\ deck'.reconnectTimer = r.reconnectTimer /\ deck'.pairing = r.pairing
      /\ deck'.status = r.status /\ deck'.hold = r.hold /\ deck'.keyDown = r.keyDown
  BY <1>6, <1>8 DEF Shape
<1>10. Shape(deck')
  BY <1>6, <1>8 DEF Shape
<1>11. k # Nothing
  <2>1. "id" \in DOMAIN k /\ "id" \notin DOMAIN Nothing
    BY <1>3 DEF Nothing
  <2> QED BY <2>1
<1>12. Typed(deck') /\ WaysExclude(deck') /\ SocketSound(deck')
  BY <1>1, <1>4, <1>7, <1>9, <1>10, <1>11
  DEF Sound, Typed, WaysExclude, SocketSound, HasSocket
<1>13. HoldSound(deck')
  BY <1>7, <1>9 DEF Sound, HoldSound, HoldAwaits
<1> QED BY <1>12, <1>13 DEF Sound

LEMMA HeartbeatKeeps ==
  ASSUME Sound(deck), HeartbeatFires \/ OnPong
  PROVE  Sound(deck')
<1>1. CASE HeartbeatFires
  <2> DEFINE h == IF SocketOpen(deck) THEN "waiting" ELSE "off"
  <2>1. h # "off" => HasSocket(deck)
    BY DEF SocketOpen
  <2>2. deck' = [deck EXCEPT !.heartbeat = h]
    BY <1>1 DEF HeartbeatFires
  <2> HIDE DEF h
  <2> QED BY <2>1, <2>2, HeartbeatSet
<1>2. CASE OnPong
  BY <1>2, HeartbeatSet DEF OnPong, Linked
<1> QED BY <1>1, <1>2

LEMMA PongTimeoutKeeps ==
  ASSUME Sound(deck), PongTimeout
  PROVE  Sound(deck')
<1> DEFINE r == SetConnection(deck, "reconnecting")
<1>1. HasSocket(deck) /\ deck' = Terminated([r EXCEPT !.heartbeat = "off"])
  BY DEF PongTimeout
<1>2. Sound(r) /\ r.socket = deck.socket
  BY Disconnected
<1> HIDE DEF r
<1>3. /\ Sound([r EXCEPT !.heartbeat = "off"])
      /\ [r EXCEPT !.heartbeat = "off"].socket = deck.socket
  BY <1>2, HeartbeatSet
<1> QED BY <1>1, <1>3, TerminatedSound DEF HasSocket

LEMMA CommandTimeoutKeeps ==
  ASSUME Sound(deck), NEW p, CommandTimeout(p)
  PROVE  Sound(deck')
<1> DEFINE e == [deck EXCEPT !.pending = @ \ {p}]
<1>1. p \in deck.pending /\ deck' = Terminated(SetConnection(Rejected(e, p), "reconnecting"))
  BY DEF CommandTimeout
<1>2. Without(e, deck, p)
  BY DEF Without
<1> HIDE DEF e
<1>3. Sound(Rejected(e, p)) /\ HasSocket(Rejected(e, p))
  BY <1>1, <1>2, RejectedSound
<1>4. /\ Sound(SetConnection(Rejected(e, p), "reconnecting"))
      /\ HasSocket(SetConnection(Rejected(e, p), "reconnecting"))
  BY <1>3, Disconnected DEF HasSocket
<1> QED BY <1>1, <1>4, TerminatedSound

LEMMA MessageKeeps ==
  ASSUME Sound(deck), OnMessage
  PROVE  Sound(deck')
<1> DEFINE f == deck.socket.frames
           m == Head(f)
<1>1. /\ HasSocket(deck) /\ f # <<>>
      /\ deck' = HandleMessage(WithFrames(deck, Tail(f)), m)
  BY DEF OnMessage, Linked, WithFrames
<1>2. Frames(f)
  BY <1>1 DEF Sound, SocketSound, SocketShape
<1> HIDE DEF f
<1>3. Frames(Tail(f)) /\ m.type \in FrameTypes
  BY <1>1, <1>2, FramesTail
<1> HIDE DEF m
<1>4. Sound(WithFrames(deck, Tail(f))) /\ HasSocket(WithFrames(deck, Tail(f)))
  BY <1>1, <1>3, FramesSet
<1> QED BY <1>1, <1>3, <1>4, HandleSound

\* A retry is scheduled where no socket, no retry and no pairing is.
LEMMA RetryScheduled ==
  ASSUME NEW d, Sound(d), ~HasSocket(d), ~d.pairing
  PROVE  Sound(ScheduleReconnect(d))
<1> DEFINE r == SetConnection(d, "reconnecting")
           yes == TRUE
           s == [r EXCEPT !.reconnectTimer = yes]
<1>1. Sound(r) /\ r.socket = d.socket /\ r.pairing = d.pairing /\ r.hold = Nothing
  BY Disconnected
<1>2. ScheduleReconnect(d) = s /\ yes \in BOOLEAN
  BY DEF ScheduleReconnect
<1>3. Shape(r)
  BY <1>1 DEF Sound, Typed
<1> HIDE DEF r, yes
<1>4. /\ s.socket = r.socket /\ s.pending = r.pending /\ s.heartbeat = r.heartbeat
      /\ s.reconnectTimer = yes /\ s.pairing = r.pairing
      /\ s.status = r.status /\ s.hold = r.hold /\ s.keyDown = r.keyDown
  BY <1>3 DEF Shape
<1>5. Shape(s)
  BY <1>3 DEF Shape
<1> HIDE DEF s
<1>6. Sound(s)
  BY <1>1, <1>2, <1>4, <1>5
  DEF Sound, Typed, WaysExclude, HoldSound, SocketSound, HasSocket
<1> QED BY <1>2, <1>6

LEMMA CloseKeeps ==
  ASSUME Sound(deck), OnClose
  PROVE  Sound(deck')
<1> DEFINE d == Cut(deck)
<1>1. HasSocket(deck)
      /\ deck' = IF deck.socket.terminal THEN d ELSE ScheduleReconnect(d)
  BY DEF OnClose, Cut
<1>2. Sound(d) /\ ~HasSocket(d) /\ d.pairing = deck.pairing
  BY CutSound
<1>3. ~deck.pairing
  BY <1>1 DEF Sound, WaysExclude
<1> HIDE DEF d
<1> QED BY <1>1, <1>2, <1>3, RetryScheduled

LEMMA RetryKeeps ==
  ASSUME Sound(deck), ReconnectFires
  PROVE  Sound(deck')
<1> DEFINE no == FALSE
           s == [deck EXCEPT !.reconnectTimer = no]
<1>1. deck.reconnectTimer /\ deck' = Connect(s, "reconnecting") /\ no \in BOOLEAN /\ ~no
  BY DEF ReconnectFires
<1>2. Shape(deck)
  BY DEF Sound, Typed
<1> HIDE DEF no
<1>3. /\ s.socket = deck.socket /\ s.pending = deck.pending /\ s.heartbeat = deck.heartbeat
      /\ s.reconnectTimer = no /\ s.pairing = deck.pairing
      /\ s.status = deck.status /\ s.hold = deck.hold /\ s.keyDown = deck.keyDown
  BY <1>2 DEF Shape
<1>4. Shape(s)
  BY <1>2 DEF Shape
<1> HIDE DEF s
<1>5. Sound(s)
  BY <1>1, <1>3, <1>4
  DEF Sound, Typed, WaysExclude, HoldSound, HoldAwaits, SocketSound, HasSocket
<1>6. Idle(s)
  BY <1>1, <1>3 DEF Sound, WaysExclude, Idle, HasSocket
<1> QED BY <1>1, <1>5, <1>6, ConnectSound

LEMMA SavedKeeps ==
  ASSUME Sound(deck), SettingsSaved
  PROVE  Sound(deck')
<1>1. PICK t \in deck.tasks :
        LET d == [deck EXCEPT !.tasks = @ \ {t}]
        IN deck' = IF ~StillCurrent(t) THEN d
                   ELSE IF t.stage = "saving" THEN Configure(d, t.epoch)
                   ELSE [Configure(d, Local) EXCEPT !.snapshot = 0]
  BY DEF SettingsSaved
<1> DEFINE d == [deck EXCEPT !.tasks = @ \ {t}]
           c == Configure(d, Local)
<1>2. Shape(deck)
  BY DEF Sound, Typed
<1>3. /\ d.socket = deck.socket /\ d.pending = deck.pending /\ d.heartbeat = deck.heartbeat
      /\ d.reconnectTimer = deck.reconnectTimer /\ d.pairing = deck.pairing
      /\ d.status = deck.status /\ d.hold = deck.hold /\ d.keyDown = deck.keyDown
  BY <1>2 DEF Shape
<1>4. Shape(d)
  BY <1>2 DEF Shape
<1>5. deck' = d \/ deck' = Configure(d, t.epoch) \/ deck' = [c EXCEPT !.snapshot = 0]
  BY <1>1
<1> HIDE DEF d
<1>6. Sound(d)
  BY <1>3, <1>4, OtherFields
<1>7. Sound(c) /\ Sound(Configure(d, t.epoch))
  BY <1>6, ConfigureSound
<1> HIDE DEF c
<1>8. CASE deck' = [c EXCEPT !.snapshot = 0]
  <2>1. Shape(c)
    BY <1>7 DEF Sound, Typed
  <2>2. /\ deck'.socket = c.socket /\ deck'.pending = c.pending
        /\ deck'.heartbeat = c.heartbeat /\ deck'.reconnectTimer = c.reconnectTimer
        /\ deck'.pairing = c.pairing /\ deck'.status = c.status /\ deck'.hold = c.hold
        /\ deck'.keyDown = c.keyDown
    BY <1>8, <2>1 DEF Shape
  <2>3. Shape(deck')
    BY <1>8, <2>1 DEF Shape
  <2> QED BY <1>7, <2>2, <2>3, OtherFields
<1> QED BY <1>5, <1>6, <1>7, <1>8

\* The plugin after a command has begun: only its epoch and its tasks differ.
LEMMA Begun ==
  ASSUME NEW d, Sound(d), NEW epoch, NEW saved, NEW tasks,
         NEW s, s = [d EXCEPT !.epoch = epoch, !.saved = saved, !.tasks = tasks]
  PROVE  Sound(s)
<1>1. Shape(d)
  BY DEF Sound, Typed
<1>2. /\ s.socket = d.socket /\ s.pending = d.pending /\ s.heartbeat = d.heartbeat
      /\ s.reconnectTimer = d.reconnectTimer /\ s.pairing = d.pairing
      /\ s.status = d.status /\ s.hold = d.hold /\ s.keyDown = d.keyDown
  BY <1>1 DEF Shape
<1>3. Shape(s)
  BY <1>1 DEF Shape
<1> QED BY <1>2, <1>3, OtherFields

LEMMA CommandReconnectKeeps ==
  ASSUME Sound(deck), CommandReconnect
  PROVE  Sound(deck')
<1> DEFINE d == [deck EXCEPT !.epoch = @ + 1]
<1>1. deck' = Reconnect(d)
  BY DEF CommandReconnect
<1>2. d = [deck EXCEPT !.epoch = deck.epoch + 1, !.saved = deck.saved, !.tasks = deck.tasks]
  BY DEF Sound, Typed, Shape
<1> HIDE DEF d
<1>3. Sound(d)
  BY <1>2, Begun
<1> QED BY <1>1, <1>3, ReconnectSound

LEMMA WakeUpKeeps ==
  ASSUME Sound(deck), OnSystemDidWakeUp
  PROVE  Sound(deck')
<1>1. deck' = Reconnect(deck) \/ deck' = SetConnection(Reconnect(deck), "unpaired")
  BY DEF OnSystemDidWakeUp
<1>2. Sound(Reconnect(deck))
  BY ReconnectSound
<1>3. Sound(SetConnection(Reconnect(deck), "unpaired"))
  BY <1>2, Disconnected
<1> QED BY <1>1, <1>2, <1>3

LEMMA CommandPairKeeps ==
  ASSUME Sound(deck), CommandPair
  PROVE  Sound(deck')
<1> DEFINE r == SetConnection(Dropped(deck), "pairing")
           yes == TRUE
           epoch == r.epoch + 1
           tasks == r.tasks \cup {[stage |-> "pairing", epoch |-> deck.epoch + 1]}
<1>1. deck' = [r EXCEPT !.pairing = yes, !.epoch = epoch, !.tasks = tasks] /\ yes \in BOOLEAN
  BY DEF CommandPair
<1>2. Sound(Dropped(deck)) /\ Idle(Dropped(deck))
  BY DroppedSound
<1>3. Sound(r) /\ ~HasSocket(r) /\ ~r.reconnectTimer /\ r.hold = Nothing
  BY <1>2, Disconnected DEF Idle, HasSocket
<1>4. Shape(r)
  BY <1>3 DEF Sound, Typed
<1> HIDE DEF r, yes, epoch, tasks
<1>5. /\ deck'.socket = r.socket /\ deck'.pending = r.pending
      /\ deck'.heartbeat = r.heartbeat /\ deck'.reconnectTimer = r.reconnectTimer
      /\ deck'.pairing = yes /\ deck'.status = r.status /\ deck'.hold = r.hold
      /\ deck'.keyDown = r.keyDown
  BY <1>1, <1>4 DEF Shape
<1>6. Shape(deck')
  BY <1>1, <1>4 DEF Shape
<1> QED BY <1>1, <1>3, <1>5, <1>6
        DEF Sound, Typed, WaysExclude, HoldSound, SocketSound, HasSocket

LEMMA CommandForgetKeeps ==
  ASSUME Sound(deck), CommandForget
  PROVE  Sound(deck')
<1> DEFINE tasks == deck.tasks \cup {[stage |-> "forgetting", epoch |-> deck.epoch + 1]}
           epoch == deck.epoch + 1
<1>1. deck' = [deck EXCEPT !.epoch = epoch, !.saved = Local, !.tasks = tasks]
  BY DEF CommandForget
<1> HIDE DEF tasks, epoch
<1> QED BY <1>1, Begun

\* A pairing that is over leaves nothing but the status.
LEMMA PairingOver ==
  ASSUME NEW d, Sound(d), NEW no \in BOOLEAN, ~no, NEW saved, NEW tasks,
         NEW s, s = [d EXCEPT !.pairing = no, !.saved = saved, !.tasks = tasks]
  PROVE  Sound(s)
<1>1. Shape(d)
  BY DEF Sound, Typed
<1>2. /\ s.socket = d.socket /\ s.pending = d.pending /\ s.heartbeat = d.heartbeat
      /\ s.reconnectTimer = d.reconnectTimer /\ s.pairing = no
      /\ s.status = d.status /\ s.hold = d.hold /\ s.keyDown = d.keyDown
  BY <1>1 DEF Shape
<1>3. Shape(s)
  BY <1>1 DEF Shape
<1> QED BY <1>2, <1>3
        DEF Sound, Typed, WaysExclude, HoldSound, HoldAwaits, SocketSound, HasSocket

LEMMA PairKeeps ==
  ASSUME Sound(deck), PairSucceeds \/ PairFails
  PROVE  Sound(deck')
<1> DEFINE no == FALSE
<1>1. Shape(deck) /\ no \in BOOLEAN /\ ~no
  BY DEF Sound, Typed
<1>2. CASE PairSucceeds
  <2>1. PICK t \in deck.tasks :
          deck' = IF t.epoch = deck.epoch
                  THEN [deck EXCEPT !.pairing = no, !.saved = t.epoch,
                          !.tasks = (@ \ {t}) \cup {[t EXCEPT !.stage = "saving"]}]
                  ELSE [deck EXCEPT !.pairing = no, !.tasks = @ \ {t}]
    BY <1>2 DEF PairSucceeds
  <2> DEFINE stored == (deck.tasks \ {t}) \cup {[t EXCEPT !.stage = "saving"]}
             left == deck.tasks \ {t}
  <2> HIDE DEF no
  <2>2. \/ deck' = [deck EXCEPT !.pairing = no, !.saved = t.epoch, !.tasks = stored]
        \/ deck' = [deck EXCEPT !.pairing = no, !.tasks = left]
    BY <2>1
  <2> HIDE DEF stored, left
  <2>3. [deck EXCEPT !.pairing = no, !.tasks = left]
          = [deck EXCEPT !.pairing = no, !.saved = deck.saved, !.tasks = left]
    BY <1>1 DEF Shape
  <2>4. CASE deck' = [deck EXCEPT !.pairing = no, !.saved = t.epoch, !.tasks = stored]
    BY <1>1, <2>4, PairingOver
  <2>5. CASE deck' = [deck EXCEPT !.pairing = no, !.saved = deck.saved, !.tasks = left]
    BY <1>1, <2>5, PairingOver
  <2> QED BY <2>2, <2>3, <2>4, <2>5
<1>3. CASE PairFails
  <2>1. PICK t \in deck.tasks :
          LET d == [deck EXCEPT !.pairing = no, !.tasks = @ \ {t}]
          IN deck' = IF t.epoch = deck.epoch THEN SetConnection(d, "unpaired") ELSE d
    BY <1>3 DEF PairFails
  <2> DEFINE left == deck.tasks \ {t}
             d == [deck EXCEPT !.pairing = no, !.tasks = left]
  <2>2. deck' = d \/ deck' = SetConnection(d, "unpaired")
    BY <2>1
  <2> HIDE DEF no, left
  <2>3. d = [deck EXCEPT !.pairing = no, !.saved = deck.saved, !.tasks = left]
    BY <1>1 DEF Shape
  <2> HIDE DEF d
  <2>4. Sound(d)
    BY <1>1, <2>3, PairingOver
  <2> QED BY <2>2, <2>4, Disconnected
<1> QED BY <1>2, <1>3

\* The key goes up or down while nothing is held, and may begin a hold.
WithKey(d, down, h) == [d EXCEPT !.keyDown = down, !.hold = h]

LEMMA KeySet ==
  ASSUME NEW d, Sound(d), NEW down, down \in BOOLEAN, NEW h, NEW s, s = WithKey(d, down, h)
  PROVE  /\ Typed(s) /\ WaysExclude(s) /\ SocketSound(s)
         /\ s.keyDown = down /\ s.hold = h /\ s.status = d.status
<1>1. Shape(d)
  BY DEF Sound, Typed
<1>2. /\ s.socket = d.socket /\ s.pending = d.pending /\ s.heartbeat = d.heartbeat
      /\ s.reconnectTimer = d.reconnectTimer /\ s.pairing = d.pairing
      /\ s.status = d.status /\ s.hold = h /\ s.keyDown = down
  BY <1>1 DEF Shape, WithKey
<1>3. Shape(s)
  BY <1>1 DEF Shape, WithKey
<1>4. Typed(s) /\ WaysExclude(s) /\ SocketSound(s)
  BY <1>2, <1>3 DEF Sound, Typed, WaysExclude, SocketSound, HasSocket
<1> QED BY <1>2, <1>4

LEMMA KeyDownKeeps ==
  ASSUME Sound(deck), OnKeyDown
  PROVE  Sound(deck')
<1> DEFINE id == spent.presses + 1
           p == [kind |-> "begin", hold |-> id]
           no == FALSE
           yes == TRUE
           h == [id |-> id, accepted |-> no, renewTimer |-> no]
           s == WithKey(deck, yes, h)
           u == [deck EXCEPT !.keyDown = yes]
<1>1. \/ deck.status = "connected" /\ deck' = Requested(s, p)
      \/ deck' = u
  BY DEF OnKeyDown, WithKey
<1>2. deck.hold = Nothing
  BY DEF OnKeyDown, Sound, HoldSound
<1>3. HoldShape(h) /\ h.id = id /\ p.kind # "end" /\ p.hold = id
  BY DEF HoldShape
<1>4. yes = TRUE
  OBVIOUS
<1>8. yes \in BOOLEAN
  OBVIOUS
<1>5. u = WithKey(deck, yes, Nothing)
  BY <1>2 DEF Sound, Typed, Shape, WithKey
<1> HIDE DEF h, p, yes, s, u, no, id
<1>6. CASE deck' = u
  <2>1. Typed(u) /\ WaysExclude(u) /\ SocketSound(u) /\ u.hold = Nothing
    BY <1>5, <1>8, KeySet
  <2> QED BY <1>6, <2>1 DEF Sound, HoldSound
<1>7. CASE deck.status = "connected" /\ deck' = Requested(s, p)
  <2>1. /\ Typed(s) /\ WaysExclude(s) /\ SocketSound(s)
        /\ s.keyDown = yes /\ s.hold = h /\ s.status = deck.status
    BY <1>8, KeySet DEF s
  <2> QED BY <1>3, <1>4, <1>7, <2>1, HoldAsked
<1> QED BY <1>1, <1>6, <1>7

LEMMA KeyUpKeeps ==
  ASSUME Sound(deck), OnKeyUp
  PROVE  Sound(deck')
<1> DEFINE no == FALSE
           u == WithKey(deck, no, Nothing)
           p == [kind |-> "end", hold |-> deck.hold.id]
<1>1. deck' = Requested(u, p) \/ deck' = u
  BY DEF OnKeyUp, WithKey
<1>2. p.kind = "end" /\ no \in BOOLEAN
  OBVIOUS
<1> HIDE DEF no, p, u
<1>3. Typed(u) /\ WaysExclude(u) /\ SocketSound(u) /\ u.hold = Nothing
  BY <1>2, KeySet DEF u
<1>4. Sound(u)
  BY <1>3 DEF Sound, HoldSound
<1> QED BY <1>1, <1>2, <1>4, EndAsked

LEMMA RenewKeeps ==
  ASSUME Sound(deck), RenewTimerFires
  PROVE  Sound(deck')
<1> DEFINE no == FALSE
           h == [deck.hold EXCEPT !.renewTimer = no]
           s == WithHold(deck, h)
           p == [kind |-> "renew", hold |-> deck.hold.id]
<1>1. deck.hold # Nothing /\ deck' = Requested(s, p)
  BY DEF RenewTimerFires, WithHold
<1>2. HoldShape(deck.hold) /\ deck.keyDown = TRUE /\ deck.status = "connected" /\ Shape(deck)
  BY <1>1 DEF Sound, Typed, HoldSound
<1>3. no \in BOOLEAN /\ p.kind # "end" /\ p.hold = deck.hold.id
  OBVIOUS
<1> HIDE DEF no, p
<1>4. h = [id |-> deck.hold.id, accepted |-> deck.hold.accepted, renewTimer |-> no]
  BY <1>2 DEF HoldShape
<1>5. HoldShape(h) /\ h.id = deck.hold.id
  BY <1>3, <1>4 DEF HoldShape
<1> HIDE DEF h
<1>6. /\ Shape(s)
      /\ s.socket = deck.socket /\ s.pending = deck.pending /\ s.heartbeat = deck.heartbeat
      /\ s.reconnectTimer = deck.reconnectTimer /\ s.pairing = deck.pairing
      /\ s.status = deck.status /\ s.hold = h /\ s.keyDown = deck.keyDown
  BY <1>2, HoldSet
<1> HIDE DEF s
<1>7. Typed(s) /\ WaysExclude(s) /\ SocketSound(s)
  BY <1>6 DEF Sound, Typed, WaysExclude, SocketSound, HasSocket
<1> QED BY <1>1, <1>2, <1>3, <1>5, <1>6, <1>7, HoldAsked

----------------------------------------------------------------------------
(* Stonemite and the link *)

LEMMA DeliveryKeeps ==
  ASSUME Sound(deck), NEW id, NEW m, m.type \in FrameTypes, Deliver(id, m)
  PROVE  Sound(deck')
<1>1. CASE HasSocket(deck) /\ deck.socket.id = id
  <2> DEFINE f == Append(deck.socket.frames, m)
  <2>1. deck' = WithFrames(deck, f)
    BY <1>1 DEF Deliver, WithFrames
  <2>2. Frames(f)
    BY <1>1, FramesAppend DEF Sound, SocketSound, SocketShape
  <2> HIDE DEF f
  <2> QED BY <1>1, <2>1, <2>2, FramesSet
<1>2. CASE ~(HasSocket(deck) /\ deck.socket.id = id)
  BY <1>2 DEF Deliver
<1> QED BY <1>1, <1>2

LEMMA AcceptKeeps ==
  ASSUME Sound(deck), ServerAccepts
  PROVE  Sound(deck')
<1> DEFINE m == [type |-> "state", revision |-> srv.revision]
<1>1. Deliver(deck.socket.id, m) /\ m.type \in FrameTypes
  BY DEF ServerAccepts, FrameTypes
<1> HIDE DEF m
<1> QED BY <1>1, DeliveryKeeps

LEMMA AnswerKeeps ==
  ASSUME Sound(deck), ServerAnswers
  PROVE  Sound(deck')
<1> DEFINE r == Head(srv.inbox)
           p == [kind |-> r.kind, hold |-> r.hold]
           yes == [type |-> "result", request |-> p, revision |-> srv.revision]
           no == [type |-> "error", request |-> p]
<1>1. Deliver(r.session, yes) \/ Deliver(r.session, no) \/ UNCHANGED deck
  BY DEF ServerAnswers
<1>2. yes.type \in FrameTypes /\ no.type \in FrameTypes
  BY DEF FrameTypes
<1> HIDE DEF r, yes, no
<1> QED BY <1>1, <1>2, DeliveryKeeps

LEMMA PublicationKeeps ==
  ASSUME Sound(deck), ServerPublishes
  PROVE  Sound(deck')
<1> DEFINE m == [type |-> "state", revision |-> srv.revision + 1]
<1>1. (Deliver(deck.socket.id, m) \/ UNCHANGED deck) /\ m.type \in FrameTypes
  BY DEF ServerPublishes, FrameTypes
<1> HIDE DEF m
<1> QED BY <1>1, DeliveryKeeps

LEMMA NonsenseKeeps ==
  ASSUME Sound(deck), ServerSendsNonsense
  PROVE  Sound(deck')
<1> DEFINE m == [type |-> "nonsense"]
<1>1. Deliver(deck.socket.id, m) /\ m.type \in FrameTypes
  BY DEF ServerSendsNonsense, FrameTypes
<1> HIDE DEF m
<1> QED BY <1>1, DeliveryKeeps

\* The handshake is answered with a status: the socket closes, for good or not.
LEMMA RefusalKeeps ==
  ASSUME Sound(deck), NEW final \in BOOLEAN, UnexpectedResponse(final)
  PROVE  Sound(deck')
<1> DEFINE status == IF final THEN "rejected" ELSE "unavailable"
           r == SetConnection(deck, status)
           last == final
           k == [r.socket EXCEPT !.state = "closing", !.terminal = last]
<1>1. /\ HasSocket(deck) /\ deck' = [r EXCEPT !.socket = k] /\ status # "connected"
      /\ last \in BOOLEAN
  BY DEF UnexpectedResponse
<1> HIDE DEF status, last
<1>2. Sound(r) /\ r.socket = deck.socket /\ r.status = status
  BY <1>1, Disconnected
<1>3. HasSocket(r) /\ SocketShape(r.socket)
  BY <1>1, <1>2 DEF Sound, SocketSound, HasSocket
<1> HIDE DEF r
<1>4. k = [id |-> r.socket.id, state |-> "closing", terminal |-> last,
           frames |-> r.socket.frames]
  <2>1. SocketShape(r.socket)
    BY <1>3
  <2>2. k = [r.socket EXCEPT !.state = "closing", !.terminal = last]
    OBVIOUS
  <2> HIDE DEF k
  <2> QED BY <2>1, <2>2 DEF SocketShape
<1>5. SocketShape(k) /\ k.state = "closing"
  BY <1>1, <1>3, <1>4 DEF SocketShape
<1> HIDE DEF k
<1> QED BY <1>1, <1>2, <1>3, <1>5, SocketSet

LEMMA NextKeeps ==
  ASSUME Sound(deck), [DeckNext]_deckVars
  PROVE  Sound(deck')
<1>1. CASE UNCHANGED deckVars
  BY <1>1 DEF deckVars
<1>2. CASE DeckStep
  <2>1. CASE HandshakeTimeout
    BY <2>1, TerminatedSound DEF HandshakeTimeout
  <2> QED BY <1>2, <2>1, OpenKeeps, HeartbeatKeeps, PongTimeoutKeeps, MessageKeeps, CloseKeeps,
             RetryKeeps, SavedKeeps, RenewKeeps, CommandTimeoutKeeps DEF DeckStep
<1>3. CASE StonemiteStep
  <2>1. CASE StonemiteStarts \/ \E id \in srv.sessions : ServerNotices(id)
    BY <2>1 DEF StonemiteStarts, ServerNotices
  <2> QED BY <1>3, <2>1, AcceptKeeps, AnswerKeeps DEF StonemiteStep
<1>4. CASE UserStep
  BY <1>4, CommandReconnectKeeps, WakeUpKeeps, CommandPairKeeps, CommandForgetKeeps,
     KeyDownKeeps, KeyUpKeeps DEF UserStep
<1>5. CASE UpsetStep
  <2>1. CASE StonemiteStops
    BY <2>1, TerminatedSound DEF StonemiteStops, Linked
  <2>2. CASE LinkStalls \/ ServerCancelsHold
    BY <2>2 DEF LinkStalls, ServerCancelsHold
  <2> QED BY <1>5, <2>1, <2>2, NonsenseKeeps, RefusalKeeps DEF UpsetStep
<1>6. CASE PairSucceeds \/ PairFails \/ ServerPublishes
  BY <1>6, PairKeeps, PublicationKeeps
<1> QED BY <1>1, <1>2, <1>3, <1>4, <1>5, <1>6 DEF DeckNext

----------------------------------------------------------------------------

\* Whatever is lost, refused, cancelled, stalled or pressed, the plugin has one way to
\* make progress, no leftovers of an earlier connection, and no hold that nobody
\* renews or answers (#rejectPending, #scheduleReconnect, #forgetClutchHolds).
THEOREM DeckAlwaysSound == DeckSpec => []DeckSound
<1>1. Sound(deck) /\ [DeckNext]_deckVars => Sound(deck)'
  BY NextKeeps
<1>2. Sound(deck) => DeckSound
  BY DEF Sound, WaysExclude, HoldSound, HoldAwaits, DeckSound
<1> QED BY <1>1, <1>2, Initially, PTL DEF DeckSpec

(***************************************************************************)
(* XTargetDial                                                             *)
(***************************************************************************)

Asked    == [kind : {"target", "consider"}, slot : Nat]
BoxState == [ready : BOOLEAN, bound : SUBSET Slots, selected : Nat]
Reply    == [kind : {"target", "consider"}, ok : BOOLEAN, state : BoxState]
Dial     == [here : BOOLEAN, selected : Nat, queued : Nat, timer : BOOLEAN, epoch : Nat,
             selecting : BOOLEAN, alerting : BOOLEAN, sending : Nat, sentAt : Nat,
             considering : BOOLEAN, considerAlert : BOOLEAN, pendingConsider : BOOLEAN,
             error : BOOLEAN]
Box      == [ready : BOOLEAN, bound : SUBSET Slots, selected : Nat, active : Seq(Asked),
             pending : BOOLEAN, result : Seq(Nat)]

\* The dial waits for the answer to a selection, to a Consider.
AwaitsTarget(d)   == d.selecting = TRUE /\ d.alerting = FALSE
AwaitsConsider(d) == d.considering = TRUE /\ d.considerAlert = FALSE

DialIs(d) ==
  /\ d \in Dial
  /\ d.alerting = TRUE => d.selecting = TRUE
  /\ d.considerAlert = TRUE => d.considering = TRUE

\* s holds a request or an answer of this kind, and no kind twice.
Has(s, kind) == \E i \in DOMAIN s : s[i].kind = kind
Once(s)      == \A i, j \in DOMAIN s : s[i].kind = s[j].kind => i = j

\* A request of this kind is somewhere on its way, in one place only.
InOnePlace(kind, ans, act, w) ==
  /\ ~(Has(ans, kind) /\ Has(act, kind))
  /\ ~(Has(ans, kind) /\ Has(w, kind))
  /\ ~(Has(act, kind) /\ Has(w, kind))
Flying(kind, ans, act, w) == Has(ans, kind) \/ Has(act, kind) \/ Has(w, kind)

\* No selection before a Consider among the requests.
InTurn(act, w) ==
  /\ \A i, j \in DOMAIN w : w[i].kind = "target" /\ w[j].kind = "consider" => j < i
  /\ Has(act, "target") => ~Has(w, "consider")

\* What is under way when a selection (sel) and a Consider (con) are waited for.
UnderWay(ans, act, w, sel, con) ==
  /\ ans \in Seq(Reply) /\ act \in Seq(Asked) /\ w \in Seq(Asked)
  /\ Once(ans) /\ Once(w) /\ Len(act) <= 1
  /\ InOnePlace("target", ans, act, w) /\ InOnePlace("consider", ans, act, w)
  /\ sel <=> Flying("target", ans, act, w)
  /\ con <=> Flying("consider", ans, act, w)
  /\ InTurn(act, w)

\* Every Consider on its way is for slot.
ForSlot(act, w, slot) ==
  /\ \A i \in DOMAIN act : act[i].kind = "consider" => act[i].slot = slot
  /\ \A i \in DOMAIN w : w[i].kind = "consider" => w[i].slot = slot

\* The selected slot the dial has seen, or will have seen once every answer is in.
Newest(ans, v) == IF ans = <<>> THEN v.selected ELSE ans[Len(ans)].state.selected

DialInv ==
  /\ DialIs(dial) /\ view \in BoxState /\ box \in Box
  /\ game \in [target : Nat, read : BOOLEAN, replies : Seq(Nat)]
  /\ UnderWay(answers, box.active, wire, AwaitsTarget(dial), AwaitsConsider(dial))
  /\ ForSlot(box.active, wire, box.selected)
  /\ Newest(answers, view) = box.selected

USE DialBounds

----------------------------------------------------------------------------
(* Requests and answers under way *)

LEMMA RestIs ==
  ASSUME NEW T, NEW s \in Seq(T), s # <<>>
  PROVE  /\ Head(s) \in T /\ Head(s) = s[1] /\ 1 \in DOMAIN s
         /\ Tail(s) \in Seq(T) /\ Len(Tail(s)) = Len(s) - 1 /\ Len(s) \in Nat \ {0}
         /\ DOMAIN s = 1 .. Len(s) /\ DOMAIN Tail(s) = 1 .. (Len(s) - 1)
         /\ \A i \in 1 .. (Len(s) - 1) : Tail(s)[i] = s[i + 1]
OBVIOUS

LEMMA ExtendedIs ==
  ASSUME NEW T, NEW s \in Seq(T), NEW r \in T
  PROVE  /\ Append(s, r) \in Seq(T) /\ Len(Append(s, r)) = Len(s) + 1 /\ Len(s) \in Nat
         /\ DOMAIN s = 1 .. Len(s) /\ DOMAIN Append(s, r) = 1 .. (Len(s) + 1)
         /\ \A i \in 1 .. Len(s) : Append(s, r)[i] = s[i]
         /\ Append(s, r)[Len(s) + 1] = r
OBVIOUS

LEMMA TailHas ==
  ASSUME NEW T, NEW s \in Seq(T), s # <<>>, Once(s)
  PROVE  /\ Once(Tail(s)) /\ Has(s, Head(s).kind) /\ ~Has(Tail(s), Head(s).kind)
         /\ \A kind : kind # Head(s).kind => (Has(Tail(s), kind) <=> Has(s, kind))
<1> DEFINE t == Tail(s)
<1>1. PICK n \in Nat : n = Len(s) - 1
  BY RestIs
<1>2. /\ DOMAIN s = 1 .. (n + 1) /\ DOMAIN t = 1 .. n
      /\ \A i \in 1 .. n : t[i] = s[i + 1] /\ i + 1 \in 1 .. (n + 1)
      /\ Head(s) = s[1] /\ 1 \in 1 .. (n + 1)
  BY <1>1, RestIs
<1> HIDE DEF t
<1>3. Once(t)
  <2>1. ASSUME NEW i \in 1 .. n, NEW j \in 1 .. n, t[i].kind = t[j].kind PROVE i = j
    <3>1. s[i + 1].kind = s[j + 1].kind /\ i + 1 \in DOMAIN s /\ j + 1 \in DOMAIN s
      BY <1>2, <2>1
    <3>2. i + 1 = j + 1
      BY <3>1 DEF Once
    <3> QED BY <3>2
  <2> QED BY <1>2, <2>1 DEF Once
<1>4. Has(s, Head(s).kind)
  BY <1>2 DEF Has
<1>5. ~Has(t, Head(s).kind)
  <2>1. \A i \in 1 .. n : i + 1 # 1
    BY <1>1
  <2> QED BY <1>2, <2>1 DEF Has, Once
<1>6. ASSUME NEW kind, kind # Head(s).kind PROVE Has(t, kind) <=> Has(s, kind)
  <2>1. Has(t, kind) => Has(s, kind)
    BY <1>2 DEF Has
  <2>2. ASSUME NEW i \in 1 .. (n + 1), s[i].kind = kind PROVE Has(t, kind)
    <3>1. i # 1
      BY <1>2, <1>6, <2>2
    <3>2. PICK j \in 1 .. n : i = j + 1
      BY <1>1, <3>1
    <3> QED BY <1>2, <2>2, <3>2 DEF Has
  <2> QED BY <1>2, <2>1, <2>2 DEF Has
<1> QED BY <1>3, <1>4, <1>5, <1>6 DEF t

LEMMA AppendHas ==
  ASSUME NEW T, NEW s \in Seq(T), NEW r \in T
  PROVE  /\ \A kind : Has(Append(s, r), kind) <=> Has(s, kind) \/ r.kind = kind
         /\ Once(s) /\ ~Has(s, r.kind) => Once(Append(s, r))
<1> DEFINE t == Append(s, r)
<1>1. PICK n \in Nat : n = Len(s)
  BY ExtendedIs
<1>2. /\ DOMAIN s = 1 .. n /\ DOMAIN t = 1 .. (n + 1)
      /\ \A i \in 1 .. n : t[i] = s[i]
      /\ t[n + 1] = r /\ n + 1 \in 1 .. (n + 1)
  BY <1>1, ExtendedIs
<1>3. /\ \A i \in 1 .. (n + 1) : i \in 1 .. n \/ i = n + 1
      /\ \A i \in 1 .. n : i \in 1 .. (n + 1)
  BY <1>1
<1> HIDE DEF t
<1>4. ASSUME NEW kind PROVE Has(t, kind) <=> Has(s, kind) \/ r.kind = kind
  BY <1>2, <1>3 DEF Has
<1>5. Once(s) /\ ~Has(s, r.kind) => Once(t)
  BY <1>2, <1>3 DEF Has, Once
<1> QED BY <1>4, <1>5 DEF t

LEMMA NothingHas == \A kind : ~Has(<<>>, kind)
<1>1. DOMAIN <<>> = {}
  OBVIOUS
<1> QED BY <1>1 DEF Has

\* An answer is received.
LEMMA AnswerLeaves ==
  ASSUME NEW ans, NEW act, NEW w, NEW sel, NEW con, UnderWay(ans, act, w, sel, con), ans # <<>>
  PROVE  /\ Head(ans) \in Reply /\ Tail(ans) \in Seq(Reply)
         /\ Head(ans).kind = "target" => sel /\ UnderWay(Tail(ans), act, w, FALSE, con)
         /\ Head(ans).kind = "consider" => con /\ UnderWay(Tail(ans), act, w, sel, FALSE)
<1>1. /\ ans \in Seq(Reply) /\ act \in Seq(Asked) /\ w \in Seq(Asked)
      /\ Once(ans) /\ Once(w) /\ Len(act) <= 1
      /\ InOnePlace("target", ans, act, w) /\ InOnePlace("consider", ans, act, w)
      /\ sel <=> Flying("target", ans, act, w)
      /\ con <=> Flying("consider", ans, act, w)
      /\ InTurn(act, w)
  BY DEF UnderWay
<1>2. Head(ans) \in Reply /\ Tail(ans) \in Seq(Reply)
  BY <1>1, RestIs
<1>3. /\ Once(Tail(ans)) /\ Has(ans, Head(ans).kind) /\ ~Has(Tail(ans), Head(ans).kind)
      /\ \A kind : kind # Head(ans).kind => (Has(Tail(ans), kind) <=> Has(ans, kind))
  BY <1>1, TailHas
<1>4. CASE Head(ans).kind = "target"
  <2>1. Has(ans, "target") /\ ~Has(Tail(ans), "target") /\ (Has(Tail(ans), "consider") <=> Has(ans, "consider"))
    BY <1>3, <1>4
  <2>2. UnderWay(Tail(ans), act, w, FALSE, con)
    BY <1>1, <1>2, <1>3, <2>1 DEF UnderWay, InOnePlace, Flying
  <2> QED BY <1>1, <1>2, <1>4, <2>1, <2>2 DEF Flying
<1>5. CASE Head(ans).kind = "consider"
  <2>1. Has(ans, "consider") /\ ~Has(Tail(ans), "consider") /\ (Has(Tail(ans), "target") <=> Has(ans, "target"))
    BY <1>3, <1>5
  <2>2. UnderWay(Tail(ans), act, w, sel, FALSE)
    BY <1>1, <1>2, <1>3, <2>1 DEF UnderWay, InOnePlace, Flying
  <2> QED BY <1>1, <1>2, <1>5, <2>1, <2>2 DEF Flying
<1> QED BY <1>2, <1>4, <1>5 DEF Reply

\* The dial sends a selection while none is under way, and a Consider while nothing is.
LEMMA RequestGoes ==
  ASSUME NEW ans, NEW act, NEW w, NEW sel, NEW con, UnderWay(ans, act, w, sel, con), ~sel,
         NEW r \in Asked
  PROVE  /\ r.kind = "target" => UnderWay(ans, act, Append(w, r), TRUE, con)
         /\ r.kind = "consider" /\ ~con => UnderWay(ans, act, Append(w, r), FALSE, TRUE)
<1> DEFINE v == Append(w, r)
<1>1. /\ ans \in Seq(Reply) /\ act \in Seq(Asked) /\ w \in Seq(Asked)
      /\ Once(ans) /\ Once(w) /\ Len(act) <= 1
      /\ InOnePlace("target", ans, act, w) /\ InOnePlace("consider", ans, act, w)
      /\ ~Has(ans, "target") /\ ~Has(act, "target") /\ ~Has(w, "target")
      /\ con <=> Flying("consider", ans, act, w)
      /\ InTurn(act, w)
  BY DEF UnderWay, Flying
<1>2. /\ v \in Seq(Asked)
      /\ \A kind : Has(v, kind) <=> Has(w, kind) \/ r.kind = kind
      /\ ~Has(w, r.kind) => Once(v)
  BY <1>1, AppendHas, ExtendedIs
<1>3. CASE r.kind = "target"
  <2>1. InTurn(act, v)
    <3>1. PICK n \in Nat : n = Len(w)
      BY <1>1, ExtendedIs
    <3>2. /\ DOMAIN w = 1 .. n /\ DOMAIN v = 1 .. (n + 1) /\ v[n + 1] = r
          /\ \A i \in 1 .. n : v[i] = w[i]
      BY <1>1, <3>1, ExtendedIs
    <3> HIDE DEF v
    <3>3. \A i \in 1 .. (n + 1) : v[i].kind = "target" => i = n + 1
      <4>1. \A i \in 1 .. n : w[i].kind # "target"
        BY <1>1, <3>2 DEF Has
      <4>2. \A i \in 1 .. (n + 1) : i \in 1 .. n \/ i = n + 1
        BY <3>1
      <4> QED BY <3>2, <4>1, <4>2
    <3>4. \A j \in 1 .. (n + 1) : v[j].kind = "consider" => j < n + 1
      <4>1. \A j \in 1 .. (n + 1) : j < n + 1 \/ j = n + 1
        BY <3>1
      <4> QED BY <1>3, <3>2, <4>1
    <3> QED BY <1>1, <3>2, <3>3, <3>4 DEF InTurn
  <2> HIDE DEF v
  <2>2. UnderWay(ans, act, v, TRUE, con)
    BY <1>1, <1>2, <1>3, <2>1 DEF UnderWay, InOnePlace, Flying
  <2> QED BY <1>3, <2>2 DEF v
<1>4. CASE r.kind = "consider" /\ ~con
  <2> HIDE DEF v
  <2>1. ~Has(v, "target") /\ ~Has(w, "consider") /\ ~Has(ans, "consider") /\ ~Has(act, "consider")
    BY <1>1, <1>2, <1>4 DEF Flying
  <2>2. InTurn(act, v)
    BY <1>1, <2>1 DEF InTurn, Has
  <2>3. UnderWay(ans, act, v, FALSE, TRUE)
    BY <1>1, <1>2, <1>4, <2>1, <2>2 DEF UnderWay, InOnePlace, Flying
  <2> QED BY <1>4, <2>3 DEF v
<1> QED BY <1>3, <1>4

LEMMA AloneHas ==
  ASSUME NEW r \in Asked
  PROVE  /\ <<r>> \in Seq(Asked) /\ Len(<<r>>) = 1 /\ DOMAIN <<r>> = {1} /\ <<r>>[1] = r
         /\ \A kind : Has(<<r>>, kind) <=> r.kind = kind
<1>1. <<r>> \in Seq(Asked) /\ Len(<<r>>) = 1 /\ DOMAIN <<r>> = {1} /\ <<r>>[1] = r
  OBVIOUS
<1> QED BY <1>1 DEF Has

LEMMA NothingIs ==
  <<>> \in Seq(Asked) /\ Len(<<>>) = 0 /\ <<>> \in Seq(Reply) /\ DOMAIN <<>> = {} /\ Once(<<>>)
<1>1. <<>> \in Seq(Asked) /\ Len(<<>>) = 0 /\ <<>> \in Seq(Reply) /\ DOMAIN <<>> = {}
  OBVIOUS
<1> QED BY <1>1 DEF Once

\* The first request is taken from the wire.
LEMMA FirstTaken ==
  ASSUME NEW act, NEW w \in Seq(Asked), w # <<>>, Once(w), InTurn(act, w)
  PROVE  /\ InTurn(act, Tail(w)) /\ InTurn(<<Head(w)>>, Tail(w))
         /\ Head(w).kind = "consider" => ~Has(act, "target")
<1> DEFINE v == Tail(w)
           r == Head(w)
<1>1. PICK n \in Nat : n = Len(w) - 1
  BY RestIs
<1>2. /\ DOMAIN w = 1 .. (n + 1) /\ DOMAIN v = 1 .. n
      /\ \A i \in 1 .. n : v[i] = w[i + 1] /\ i + 1 \in 1 .. (n + 1)
      /\ r = w[1] /\ 1 \in 1 .. (n + 1) /\ r \in Asked
  BY <1>1, RestIs
<1>3. /\ \A kind : kind # r.kind => (Has(v, kind) <=> Has(w, kind))
      /\ Has(w, r.kind) /\ ~Has(v, r.kind)
  BY TailHas
<1> HIDE DEF v, r
<1>4. \A i, j \in 1 .. n : v[i].kind = "target" /\ v[j].kind = "consider" => j < i
  <2>1. ASSUME NEW i \in 1 .. n, NEW j \in 1 .. n, v[i].kind = "target", v[j].kind = "consider"
        PROVE  j < i
    <3>1. j + 1 < i + 1
      BY <1>2, <2>1 DEF InTurn
    <3> QED BY <1>1, <3>1
  <2> QED BY <2>1
<1>5. Has(act, "target") => ~Has(v, "consider")
  BY <1>3 DEF InTurn
<1>6. r.kind = "target" => ~Has(v, "consider")
  <2>1. ASSUME r.kind = "target", NEW i \in 1 .. n, v[i].kind = "consider" PROVE FALSE
    <3>1. i + 1 < 1
      BY <1>2, <2>1 DEF InTurn
    <3> QED BY <1>1, <3>1
  <2> QED BY <1>2, <2>1 DEF Has
<1>7. r.kind = "consider" => ~Has(act, "target")
  BY <1>3 DEF InTurn
<1>8. Has(<<r>>, "target") => r.kind = "target"
  BY <1>2, AloneHas
<1> QED BY <1>2, <1>4, <1>5, <1>6, <1>7, <1>8 DEF InTurn, v, r

\* The controller begins what was asked for.
LEMMA RequestBegins ==
  ASSUME NEW ans, NEW act, NEW w, NEW sel, NEW con, UnderWay(ans, act, w, sel, con),
         w # <<>>, act = <<>>
  PROVE  UnderWay(ans, <<Head(w)>>, Tail(w), sel, con)
<1> DEFINE r == Head(w)
           v == Tail(w)
<1>1. /\ ans \in Seq(Reply) /\ act \in Seq(Asked) /\ w \in Seq(Asked)
      /\ Once(ans) /\ Once(w) /\ Len(act) <= 1
      /\ InOnePlace("target", ans, act, w) /\ InOnePlace("consider", ans, act, w)
      /\ sel <=> Flying("target", ans, act, w)
      /\ con <=> Flying("consider", ans, act, w)
      /\ InTurn(act, w)
  BY DEF UnderWay
<1>2. r \in Asked /\ v \in Seq(Asked) /\ r.kind \in {"target", "consider"}
  <2>1. r \in Asked /\ v \in Seq(Asked)
    BY <1>1, RestIs
  <2> HIDE DEF r, v
  <2> QED BY <2>1 DEF Asked
<1>3. /\ Once(v) /\ Has(w, r.kind) /\ ~Has(v, r.kind)
      /\ \A kind : kind # r.kind => (Has(v, kind) <=> Has(w, kind))
  BY <1>1, TailHas
<1>4. <<r>> \in Seq(Asked) /\ Len(<<r>>) <= 1 /\ \A kind : Has(<<r>>, kind) <=> r.kind = kind
  BY <1>2, AloneHas
<1>5. InTurn(<<r>>, v)
  BY <1>1, FirstTaken
<1>6. \A kind : ~Has(act, kind)
  BY NothingHas
<1> HIDE DEF r, v
<1> DEFINE one == <<r>>
<1>7. \A kind \in {"target", "consider"} :
        /\ InOnePlace(kind, ans, one, v)
        /\ Flying(kind, ans, one, v) <=> Flying(kind, ans, act, w)
  <2> HIDE DEF one
  <2>1. ASSUME NEW kind \in {"target", "consider"}
        PROVE  /\ InOnePlace(kind, ans, one, v)
               /\ Flying(kind, ans, one, v) <=> Flying(kind, ans, act, w)
    <3>1. InOnePlace(kind, ans, act, w)
      BY <1>1
    <3>2. Has(one, kind) <=> r.kind = kind
      BY <1>4 DEF one
    <3>3. CASE kind = r.kind
      BY <1>3, <1>6, <3>1, <3>2, <3>3 DEF InOnePlace, Flying
    <3>4. CASE kind # r.kind
      BY <1>3, <1>6, <3>1, <3>2, <3>4 DEF InOnePlace, Flying
    <3> QED BY <3>3, <3>4
  <2> QED BY <2>1
<1> QED BY <1>1, <1>2, <1>3, <1>4, <1>5, <1>7 DEF UnderWay, r, v, one

\* The controller refuses what was asked for.
LEMMA RequestRefused ==
  ASSUME NEW ans, NEW act, NEW w, NEW sel, NEW con, UnderWay(ans, act, w, sel, con),
         w # <<>>, NEW a \in Reply, a.kind = Head(w).kind
  PROVE  UnderWay(Append(ans, a), act, Tail(w), sel, con)
<1> DEFINE r == Head(w)
           v == Tail(w)
           all == Append(ans, a)
<1>1. /\ ans \in Seq(Reply) /\ act \in Seq(Asked) /\ w \in Seq(Asked)
      /\ Once(ans) /\ Once(w) /\ Len(act) <= 1
      /\ InOnePlace("target", ans, act, w) /\ InOnePlace("consider", ans, act, w)
      /\ sel <=> Flying("target", ans, act, w)
      /\ con <=> Flying("consider", ans, act, w)
      /\ InTurn(act, w)
  BY DEF UnderWay
<1>2. r \in Asked /\ v \in Seq(Asked) /\ r.kind \in {"target", "consider"}
  <2>1. r \in Asked /\ v \in Seq(Asked)
    BY <1>1, RestIs
  <2> HIDE DEF r, v
  <2> QED BY <2>1 DEF Asked
<1>3. /\ Once(v) /\ Has(w, r.kind) /\ ~Has(v, r.kind)
      /\ \A kind : kind # r.kind => (Has(v, kind) <=> Has(w, kind))
  BY <1>1, TailHas
<1>4. /\ all \in Seq(Reply) /\ \A kind : Has(all, kind) <=> Has(ans, kind) \/ a.kind = kind
      /\ Once(ans) /\ ~Has(ans, a.kind) => Once(all)
  BY <1>1, AppendHas, ExtendedIs
<1>5. InTurn(act, v)
  BY <1>1, FirstTaken
<1>6. a.kind = r.kind
  OBVIOUS
<1> HIDE DEF r, v, all
<1>7. \A kind \in {"target", "consider"} :
        /\ InOnePlace(kind, all, act, v)
        /\ Flying(kind, all, act, v) <=> Flying(kind, ans, act, w)
  <2>1. ASSUME NEW kind \in {"target", "consider"}
        PROVE  /\ InOnePlace(kind, all, act, v)
               /\ Flying(kind, all, act, v) <=> Flying(kind, ans, act, w)
    <3>1. InOnePlace(kind, ans, act, w)
      BY <1>1
    <3>2. Has(all, kind) <=> Has(ans, kind) \/ r.kind = kind
      BY <1>4, <1>6
    <3>3. CASE kind = r.kind
      BY <1>3, <3>1, <3>2, <3>3 DEF InOnePlace, Flying
    <3>4. CASE kind # r.kind
      BY <1>3, <3>1, <3>2, <3>4 DEF InOnePlace, Flying
    <3> QED BY <3>3, <3>4
  <2> QED BY <2>1
<1>8. Once(all)
  BY <1>1, <1>2, <1>3, <1>4, <1>6 DEF InOnePlace
<1> QED BY <1>1, <1>2, <1>3, <1>4, <1>5, <1>7, <1>8 DEF UnderWay, v, all

\* The controller is done with what it began.
LEMMA RequestEnds ==
  ASSUME NEW ans, NEW act, NEW w, NEW sel, NEW con, UnderWay(ans, act, w, sel, con),
         act # <<>>, NEW a \in Reply, a.kind = act[1].kind
  PROVE  UnderWay(Append(ans, a), <<>>, w, sel, con)
<1> DEFINE all  == Append(ans, a)
           none == <<>>
<1>1. /\ ans \in Seq(Reply) /\ act \in Seq(Asked) /\ w \in Seq(Asked)
      /\ Once(ans) /\ Once(w) /\ Len(act) <= 1
      /\ InOnePlace("target", ans, act, w) /\ InOnePlace("consider", ans, act, w)
      /\ sel <=> Flying("target", ans, act, w)
      /\ con <=> Flying("consider", ans, act, w)
      /\ InTurn(act, w)
  BY DEF UnderWay
<1>2. /\ DOMAIN act = {1} /\ act[1] \in Asked
  <2>1. Head(act) \in Asked /\ Head(act) = act[1] /\ DOMAIN act = 1 .. Len(act) /\ Len(act) \in Nat \ {0}
    BY <1>1, RestIs
  <2>2. Len(act) = 1
    BY <1>1, <2>1
  <2> QED BY <2>1, <2>2
<1>3. \A kind : Has(act, kind) <=> a.kind = kind
  BY <1>2 DEF Has
<1>4. /\ all \in Seq(Reply) /\ \A kind : Has(all, kind) <=> Has(ans, kind) \/ a.kind = kind
      /\ Once(ans) /\ ~Has(ans, a.kind) => Once(all)
  BY <1>1, AppendHas, ExtendedIs
<1>5. none \in Seq(Asked) /\ Len(none) <= 1 /\ \A kind : ~Has(none, kind)
  BY NothingHas, NothingIs
<1>6. a.kind \in {"target", "consider"}
  BY DEF Reply
<1> HIDE DEF all, none
<1>7. \A kind \in {"target", "consider"} :
        /\ InOnePlace(kind, all, none, w)
        /\ Flying(kind, all, none, w) <=> Flying(kind, ans, act, w)
  <2>1. ASSUME NEW kind \in {"target", "consider"}
        PROVE  /\ InOnePlace(kind, all, none, w)
               /\ Flying(kind, all, none, w) <=> Flying(kind, ans, act, w)
    <3>1. InOnePlace(kind, ans, act, w)
      BY <1>1
    <3> QED BY <1>3, <1>4, <1>5, <3>1 DEF InOnePlace, Flying
  <2> QED BY <2>1
<1>8. Once(all)
  BY <1>1, <1>3, <1>4, <1>6 DEF InOnePlace
<1>9. InTurn(none, w)
  BY <1>1, <1>5 DEF InTurn
<1> QED BY <1>1, <1>4, <1>5, <1>7, <1>8, <1>9 DEF UnderWay, all, none

----------------------------------------------------------------------------
(* The dial's callbacks *)

\* What a callback makes of the dial e and the wire w, when the newest snapshot is v.
DialMoves(e, d, w, w2, v) ==
  /\ DialIs(d)
  /\ \/ /\ w2 = w
        /\ AwaitsTarget(d) <=> AwaitsTarget(e)
        /\ AwaitsConsider(d) <=> AwaitsConsider(e)
     \/ /\ e.selecting = FALSE /\ AwaitsTarget(d)
        /\ AwaitsConsider(d) <=> AwaitsConsider(e)
        /\ \E slot \in Nat : w2 = Append(w, [kind |-> "target", slot |-> slot])
     \/ /\ e.selecting = FALSE /\ e.considering = FALSE /\ ~AwaitsTarget(d) /\ AwaitsConsider(d)
        /\ w2 = Append(w, [kind |-> "consider", slot |-> v.selected])

\* d differs from e in nothing that requests under way depend on.
Alike(d, e) ==
  /\ DialIs(d)
  /\ d.selecting = e.selecting /\ d.alerting = e.alerting
  /\ d.considering = e.considering /\ d.considerAlert = e.considerAlert

LEMMA SetErrorAlike == ASSUME NEW d, DialIs(d) PROVE Alike(SetError(d), d)
BY DEF DialIs, Alike, SetError, Dial

LEMMA ClearErrorAlike == ASSUME NEW d, DialIs(d) PROVE Alike(ClearError(d), d)
BY DEF DialIs, Alike, ClearError, Dial

LEMMA ReconcileAlike ==
  ASSUME NEW d, DialIs(d), NEW v \in BoxState
  PROVE  Alike(ReconcileSelection(d, v), d)
<1>1. v.selected \in Nat /\ d.selected \in Nat
  BY DEF DialIs, Dial, BoxState
<1>2. \A n \in Nat : Alike([d EXCEPT !.selected = n], d)
  BY DEF DialIs, Alike, Dial
<1>3. ReconcileSelection(d, v) =
        [d EXCEPT !.selected = IF d.selected \in Slots THEN d.selected ELSE v.selected]
  BY DEF ReconcileSelection
<1> QED BY <1>1, <1>2, <1>3

LEMMA TurnedAlike ==
  ASSUME NEW d, DialIs(d), NEW s \in Nat, NEW e \in BOOLEAN
  PROVE  Alike([d EXCEPT !.selected = s, !.queued = s, !.timer = TRUE, !.error = e], d)
BY DEF Alike, DialIs, Dial

LEMMA ConfiguredAlike ==
  ASSUME NEW d, DialIs(d), NEW here \in BOOLEAN, NEW epoch \in Nat
  PROVE  Alike([d EXCEPT !.here = here, !.selected = 0, !.queued = 0, !.timer = FALSE,
                         !.epoch = epoch, !.pendingConsider = FALSE, !.error = FALSE], d)
BY DEF Alike, DialIs, Dial

LEMMA AlikeMoves ==
  ASSUME NEW d, NEW e, Alike(d, e), NEW w, NEW v
  PROVE  DialMoves(e, d, w, w, v)
BY DEF Alike, DialMoves, AwaitsTarget, AwaitsConsider

LEMMA SendConsiderMoves ==
  ASSUME NEW d, DialIs(d), NEW v \in BoxState, d.selecting = FALSE, SendConsider(d, v)
  PROVE  DialMoves(d, dial', wire, wire', v)
<1> DEFINE c == ReconcileSelection(d, v)
<1>1. Alike(c, d)
  BY ReconcileAlike
<1>2. CASE Considers(d, v)
  <2>1. d.considering = FALSE /\ d.error = FALSE /\ d.here = TRUE /\ c.selected = v.selected
    BY <1>2 DEF Considers, MayConsider, DialIs, Dial
  <2>2. dial' = [c EXCEPT !.considering = TRUE]
    BY <1>2, <2>1 DEF SendConsider, AfterConsider
  <2>3. wire' = Append(wire, [kind |-> "consider", slot |-> dial'.selected])
    BY <1>2 DEF SendConsider, SendRequest
  <2> HIDE DEF c
  <2>4. /\ DialIs(dial') /\ dial'.selected = c.selected /\ dial'.selecting = FALSE
        /\ dial'.considering = TRUE /\ dial'.considerAlert = FALSE
    BY <1>1, <2>1, <2>2 DEF Alike, DialIs, Dial
  <2> QED BY <2>1, <2>3, <2>4 DEF DialMoves, AwaitsTarget, AwaitsConsider
<1>3. CASE ~Considers(d, v)
  <2>1. wire' = wire
    BY <1>3 DEF SendConsider
  <2>2. dial' = d \/ dial' = SetError(d) \/ dial' = SetError(c)
    BY <1>3 DEF SendConsider, AfterConsider
  <2> HIDE DEF c
  <2>3. Alike(d, d)
    BY DEF Alike
  <2>4. Alike(SetError(d), d) /\ Alike(SetError(c), d)
    <3>1. Alike(SetError(c), c)
      BY <1>1, SetErrorAlike DEF Alike
    <3> QED BY <1>1, <3>1, SetErrorAlike DEF Alike
  <2>5. Alike(dial', d)
    BY <2>2, <2>3, <2>4
  <2> QED BY <2>1, <2>5, AlikeMoves
<1> QED BY <1>2, <1>3

LEMMA DrainMoves ==
  ASSUME NEW d, DialIs(d), NEW v, Drain(d)
  PROVE  DialMoves(d, dial', wire, wire', v)
<1>1. CASE ~d.selecting /\ d.queued # None /\ d.here
  <2>1. /\ dial' = [[d EXCEPT !.queued = None, !.selecting = TRUE]
                      EXCEPT !.sending = d.queued, !.sentAt = d.epoch]
        /\ wire' = Append(wire, [kind |-> "target", slot |-> d.queued])
    BY <1>1 DEF Drain, Drained, SendRequest
  <2>2. /\ DialIs(dial') /\ dial'.selecting = TRUE /\ dial'.alerting = FALSE
        /\ dial'.considering = d.considering /\ dial'.considerAlert = d.considerAlert
        /\ d.queued \in Nat /\ d.selecting = FALSE
    BY <1>1, <2>1 DEF DialIs, Dial, None
  <2> QED BY <2>1, <2>2 DEF DialMoves, AwaitsTarget, AwaitsConsider
<1>2. CASE ~d.selecting /\ d.queued # None /\ ~d.here
  <2> DEFINE t == [d EXCEPT !.queued = None, !.selecting = TRUE]
             u == [t EXCEPT !.alerting = TRUE, !.pendingConsider = FALSE]
  <2>1. dial' = SetError(u) /\ wire' = wire
    BY <1>2 DEF Drain, Drained
  <2>2. /\ DialIs(u) /\ u.selecting = TRUE /\ u.alerting = TRUE
        /\ u.considering = d.considering /\ u.considerAlert = d.considerAlert
        /\ d.selecting = FALSE
    BY <1>2 DEF DialIs, Dial, None
  <2> HIDE DEF u, t
  <2>3. Alike(dial', u)
    BY <2>1, <2>2, SetErrorAlike
  <2> QED BY <2>1, <2>2, <2>3 DEF DialMoves, Alike, AwaitsTarget, AwaitsConsider
<1>3. CASE d.selecting \/ d.queued = None
  <2>1. dial' = d /\ wire' = wire
    BY <1>3 DEF Drain
  <2> QED BY <2>1 DEF DialMoves
<1> QED BY <1>1, <1>2, <1>3

LEMMA AfterSelectionMoves ==
  ASSUME NEW d, DialIs(d), NEW v \in BoxState, d.selecting = FALSE, AfterSelection(d, v)
  PROVE  DialMoves(d, dial', wire, wire', v)
<1> DEFINE asked == [d EXCEPT !.pendingConsider = FALSE]
<1>1. Alike(asked, d)
  BY DEF DialIs, Alike, Dial
<1>2. \/ dial' = d /\ wire' = wire
      \/ dial' = asked /\ wire' = wire
      \/ SendConsider(asked, v)
  BY DEF AfterSelection
<1> HIDE DEF asked
<1>3. CASE dial' = d /\ wire' = wire
  BY <1>3 DEF DialMoves
<1>4. CASE dial' = asked /\ wire' = wire
  BY <1>1, <1>4, AlikeMoves
<1>5. CASE SendConsider(asked, v)
  <2>1. DialMoves(asked, dial', wire, wire', v)
    BY <1>1, <1>5, SendConsiderMoves DEF Alike
  <2> QED BY <1>1, <2>1 DEF DialMoves, Alike, AwaitsTarget, AwaitsConsider
<1> QED BY <1>2, <1>3, <1>4, <1>5

LEMMA NotSelectingIs ==
  ASSUME NEW d, DialIs(d)
  PROVE  /\ DialIs(NotSelecting(d)) /\ NotSelecting(d).selecting = FALSE
         /\ NotSelecting(d).considering = d.considering
         /\ NotSelecting(d).considerAlert = d.considerAlert
BY DEF DialIs, Dial, NotSelecting, None

LEMMA FinishSelectionMoves ==
  ASSUME NEW d, DialIs(d), NEW v \in BoxState, FinishSelection(d, v)
  PROVE  DialMoves(NotSelecting(d), dial', wire, wire', v)
<1>1. DialIs(NotSelecting(d)) /\ NotSelecting(d).selecting = FALSE
  BY NotSelectingIs
<1>2. Drain(NotSelecting(d)) \/ AfterSelection(NotSelecting(d), v)
  BY DEF FinishSelection
<1> QED BY <1>1, <1>2, DrainMoves, AfterSelectionMoves

----------------------------------------------------------------------------
(* The steps *)

\* Nothing is under way when neither a selection nor a Consider is waited for.
LEMMA NothingUnderWay ==
  ASSUME NEW ans, NEW act, NEW w, UnderWay(ans, act, w, FALSE, FALSE)
  PROVE  ans = <<>>
<1>1. ans \in Seq(Reply) /\ ~Has(ans, "target") /\ ~Has(ans, "consider")
  BY DEF UnderWay, Flying
<1>2. ASSUME ans # <<>> PROVE FALSE
  <2>1. Head(ans) \in Reply /\ Head(ans) = ans[1] /\ 1 \in DOMAIN ans
    BY <1>1, <1>2, RestIs
  <2>2. ans[1].kind \in {"target", "consider"}
    BY <2>1 DEF Reply
  <2> QED BY <1>1, <2>1, <2>2 DEF Has
<1> QED BY <1>2

\* A callback of the dial keeps what is under way accounted for.
LEMMA MovesKeep ==
  ASSUME NEW ans, NEW act, NEW w, NEW w2, NEW e, NEW d, NEW v \in BoxState, NEW slot \in Nat,
         UnderWay(ans, act, w, AwaitsTarget(e), AwaitsConsider(e)),
         ForSlot(act, w, slot), ans = <<>> => v.selected = slot,
         DialMoves(e, d, w, w2, v)
  PROVE  /\ DialIs(d) /\ UnderWay(ans, act, w2, AwaitsTarget(d), AwaitsConsider(d))
         /\ ForSlot(act, w2, slot)
<1>1. DialIs(d)
  BY DEF DialMoves
<1>2. CASE /\ w2 = w
           /\ AwaitsTarget(d) <=> AwaitsTarget(e)
           /\ AwaitsConsider(d) <=> AwaitsConsider(e)
  <2>1. UnderWay(ans, act, w2, AwaitsTarget(d), AwaitsConsider(d))
    BY <1>2 DEF UnderWay
  <2> QED BY <1>1, <1>2, <2>1
<1>3. CASE /\ e.selecting = FALSE /\ AwaitsTarget(d)
           /\ AwaitsConsider(d) <=> AwaitsConsider(e)
           /\ \E n \in Nat : w2 = Append(w, [kind |-> "target", slot |-> n])
  <2>1. PICK n \in Nat : w2 = Append(w, [kind |-> "target", slot |-> n])
    BY <1>3
  <2>2. PICK r \in Asked : w2 = Append(w, r) /\ r.kind = "target"
    <3>1. [kind |-> "target", slot |-> n] \in Asked
      BY DEF Asked
    <3> QED BY <2>1, <3>1
  <2>3. ~AwaitsTarget(e)
    BY <1>3 DEF AwaitsTarget
  <2>4. UnderWay(ans, act, w2, TRUE, AwaitsConsider(e))
    <3>1. PICK con : con = AwaitsConsider(e)
      OBVIOUS
    <3>2. UnderWay(ans, act, w, FALSE, con)
      BY <2>3, <3>1 DEF UnderWay
    <3>3. UnderWay(ans, act, w2, TRUE, con)
      BY <2>2, <3>2, RequestGoes
    <3> QED BY <3>1, <3>3
  <2>5. UnderWay(ans, act, w2, AwaitsTarget(d), AwaitsConsider(d))
    BY <1>3, <2>4 DEF UnderWay
  <2>6. ForSlot(act, w2, slot)
    <3>1. w \in Seq(Asked)
      BY DEF UnderWay
    <3>2. PICK m \in Nat : m = Len(w)
      BY <3>1
    <3>3. /\ DOMAIN w = 1 .. m /\ DOMAIN w2 = 1 .. (m + 1) /\ w2[m + 1] = r
          /\ \A i \in 1 .. m : w2[i] = w[i]
      BY <2>2, <3>1, <3>2, ExtendedIs
    <3>4. \A i \in 1 .. (m + 1) : i \in 1 .. m \/ i = m + 1
      BY <3>2
    <3> QED BY <2>2, <3>3, <3>4 DEF ForSlot
  <2> QED BY <1>1, <2>5, <2>6
<1>4. CASE /\ e.selecting = FALSE /\ e.considering = FALSE /\ ~AwaitsTarget(d) /\ AwaitsConsider(d)
           /\ w2 = Append(w, [kind |-> "consider", slot |-> v.selected])
  <2>1. ~AwaitsTarget(e) /\ ~AwaitsConsider(e)
    BY <1>4 DEF AwaitsTarget, AwaitsConsider
  <2>2. UnderWay(ans, act, w, FALSE, FALSE)
    BY <2>1 DEF UnderWay
  <2>3. v.selected = slot
    BY <2>2, NothingUnderWay
  <2>4. PICK r \in Asked : w2 = Append(w, r) /\ r.kind = "consider" /\ r.slot = slot
    <3>1. [kind |-> "consider", slot |-> slot] \in Asked
      BY DEF Asked
    <3> QED BY <1>4, <2>3, <3>1
  <2>5. UnderWay(ans, act, w2, FALSE, TRUE)
    BY <2>2, <2>4, RequestGoes
  <2>6. UnderWay(ans, act, w2, AwaitsTarget(d), AwaitsConsider(d))
    BY <1>4, <2>5 DEF UnderWay
  <2>7. ForSlot(act, w2, slot)
    <3>1. w \in Seq(Asked)
      BY DEF UnderWay
    <3>2. PICK m \in Nat : m = Len(w)
      BY <3>1
    <3>3. /\ DOMAIN w = 1 .. m /\ DOMAIN w2 = 1 .. (m + 1) /\ w2[m + 1] = r
          /\ \A i \in 1 .. m : w2[i] = w[i]
      BY <2>4, <3>1, <3>2, ExtendedIs
    <3>4. \A i \in 1 .. (m + 1) : i \in 1 .. m \/ i = m + 1
      BY <3>2
    <3> QED BY <2>4, <3>3, <3>4 DEF ForSlot
  <2> QED BY <1>1, <2>6, <2>7
<1> QED BY <1>2, <1>3, <1>4 DEF DialMoves

\* A step of the dial that neither sends nor receives.
LEMMA QuietStep ==
  ASSUME DialInv, Alike(dial', dial), UNCHANGED <<view, box, game, wire, answers>>
  PROVE  DialInv'
<1>1. /\ AwaitsTarget(dial') <=> AwaitsTarget(dial)
      /\ AwaitsConsider(dial') <=> AwaitsConsider(dial)
      /\ DialIs(dial')
  BY DEF Alike, AwaitsTarget, AwaitsConsider
<1>2. UnderWay(answers, box.active, wire, AwaitsTarget(dial'), AwaitsConsider(dial'))
  BY <1>1 DEF DialInv, UnderWay
<1>3. UnderWay(answers, box.active, wire, AwaitsTarget(dial), AwaitsConsider(dial))'
  BY <1>2 DEF UnderWay, Once, InOnePlace, Flying, InTurn, Has, AwaitsTarget, AwaitsConsider
<1>4. /\ ForSlot(box.active, wire, box.selected)'
      /\ (Newest(answers, view) = box.selected)'
  BY DEF DialInv, ForSlot, Newest
<1> QED BY <1>1, <1>3, <1>4 DEF DialInv, DialIs

\* A step of the dial that may send, with the newest snapshot as it was.
LEMMA SendingStep ==
  ASSUME DialInv, NEW e, AwaitsTarget(e) <=> AwaitsTarget(dial),
         AwaitsConsider(e) <=> AwaitsConsider(dial),
         DialMoves(e, dial', wire, wire', view), UNCHANGED <<view, box, game, answers>>
  PROVE  DialInv'
<1>1. /\ view \in BoxState /\ box.selected \in Nat
      /\ ForSlot(box.active, wire, box.selected)
      /\ answers = <<>> => view.selected = box.selected
  BY DEF DialInv, Newest, Box
<1>2. UnderWay(answers, box.active, wire, AwaitsTarget(e), AwaitsConsider(e))
  BY DEF DialInv, UnderWay
<1>3. /\ DialIs(dial')
      /\ UnderWay(answers, box.active, wire', AwaitsTarget(dial'), AwaitsConsider(dial'))
      /\ ForSlot(box.active, wire', box.selected)
  BY <1>1, <1>2, MovesKeep
<1>4. UnderWay(answers, box.active, wire, AwaitsTarget(dial), AwaitsConsider(dial))'
  BY <1>3 DEF UnderWay, Once, InOnePlace, Flying, InTurn, Has, AwaitsTarget, AwaitsConsider
<1>5. /\ ForSlot(box.active, wire, box.selected)'
      /\ (Newest(answers, view) = box.selected)'
  BY <1>3 DEF DialInv, ForSlot, Newest
<1> QED BY <1>3, <1>4, <1>5 DEF DialInv, DialIs

LEMMA ReceivedKeeps ==
  ASSUME DialInv, AnswerArrives
  PROVE  DialInv'
<1> DEFINE a    == Head(answers)
           rest == Tail(answers)
           v    == a.state
<1>1. /\ answers # <<>> /\ view' = v /\ answers' = rest /\ Received(dial, a)
      /\ UNCHANGED <<box, game, used>>
  BY DEF AnswerArrives
<1>2. /\ UnderWay(answers, box.active, wire, AwaitsTarget(dial), AwaitsConsider(dial))
      /\ answers \in Seq(Reply) /\ DialIs(dial) /\ box \in Box /\ box.selected \in Nat
      /\ ForSlot(box.active, wire, box.selected) /\ Newest(answers, view) = box.selected
  BY DEF DialInv, UnderWay, Box
<1>3. /\ a \in Reply /\ rest \in Seq(Reply)
      /\ a.kind = "target" => /\ AwaitsTarget(dial)
                              /\ UnderWay(rest, box.active, wire, FALSE, AwaitsConsider(dial))
      /\ a.kind = "consider" => /\ AwaitsConsider(dial)
                                /\ UnderWay(rest, box.active, wire, AwaitsTarget(dial), FALSE)
  BY <1>1, <1>2, AnswerLeaves
<1>4. v \in BoxState /\ a.ok \in BOOLEAN /\ a.kind \in {"target", "consider"}
  <2> HIDE DEF a
  <2> QED BY <1>3 DEF Reply
\* The last answer, or the snapshot of the one received, has what is selected.
<1>5. Newest(rest, v) = box.selected
  <2>1. /\ a = answers[1] /\ Len(rest) = Len(answers) - 1 /\ Len(answers) \in Nat \ {0}
        /\ \A i \in 1 .. (Len(answers) - 1) : rest[i] = answers[i + 1]
    BY <1>1, <1>2, RestIs
  <2>2. answers[Len(answers)].state.selected = box.selected
    BY <1>1, <1>2 DEF Newest
  <2>3. rest = <<>> <=> Len(rest) = 0
    <3>1. rest \in Seq(Reply)
      BY <1>3
    <3> HIDE DEF rest
    <3> QED BY ONLY <3>1
  <2>4. PICK n \in Nat : n = Len(answers) - 1
    BY <2>1
  <2> HIDE DEF a, rest
  <2>5. CASE n = 0
    BY <2>1, <2>2, <2>3, <2>4, <2>5 DEF Newest
  <2>6. CASE n # 0
    <3>1. n \in 1 .. n /\ n + 1 = Len(answers)
      BY <2>1, <2>4, <2>6
    <3>2. rest[n] = answers[n + 1]
      BY <2>1, <2>4, <3>1
    <3> QED BY <2>1, <2>2, <2>3, <2>4, <2>6, <3>1, <3>2 DEF Newest
  <2> QED BY <2>5, <2>6
<1> HIDE DEF a, rest
<1>6. SUFFICES /\ DialIs(dial')
               /\ UnderWay(rest, box.active, wire', AwaitsTarget(dial'), AwaitsConsider(dial'))
               /\ ForSlot(box.active, wire', box.selected)
  <2>1. ASSUME DialIs(dial'), ForSlot(box.active, wire', box.selected),
               UnderWay(rest, box.active, wire', AwaitsTarget(dial'), AwaitsConsider(dial'))
        PROVE  DialInv'
    <3>1. UnderWay(answers, box.active, wire, AwaitsTarget(dial), AwaitsConsider(dial))'
      BY <1>1, <2>1
         DEF UnderWay, Once, InOnePlace, Flying, InTurn, Has, AwaitsTarget, AwaitsConsider
    <3>2. /\ ForSlot(box.active, wire, box.selected)'
          /\ (Newest(answers, view) = box.selected)'
      BY <1>1, <1>5, <2>1 DEF ForSlot, Newest
    <3> QED BY <1>1, <1>4, <2>1, <3>1, <3>2 DEF DialInv, DialIs
  <2> QED BY <2>1
<1>7. CASE a.kind = "consider"
  <2>1. /\ wire' = wire
        /\ \/ dial' = [dial EXCEPT !.considering = FALSE]
           \/ dial' = SetError([dial EXCEPT !.considerAlert = TRUE])
    BY <1>1, <1>7 DEF Received
  <2>2. AwaitsConsider(dial)
    BY <1>3, <1>7
  <2>3. DialIs(dial') /\ ~AwaitsConsider(dial') /\ (AwaitsTarget(dial') <=> AwaitsTarget(dial))
    <3>1. CASE dial' = [dial EXCEPT !.considering = FALSE]
      BY <1>2, <2>2, <3>1 DEF DialIs, Dial, AwaitsConsider, AwaitsTarget
    <3>2. CASE dial' = SetError([dial EXCEPT !.considerAlert = TRUE])
      <4> DEFINE d == [dial EXCEPT !.considerAlert = TRUE]
      <4>1. /\ DialIs(d) /\ d.considerAlert = TRUE
            /\ d.selecting = dial.selecting /\ d.alerting = dial.alerting
        BY <1>2, <2>2 DEF DialIs, Dial, AwaitsConsider
      <4> HIDE DEF d
      <4>2. Alike(dial', d)
        BY <3>2, <4>1, SetErrorAlike DEF d
      <4> QED BY <4>1, <4>2 DEF Alike, AwaitsConsider, AwaitsTarget
    <3> QED BY <2>1, <3>1, <3>2
  <2>4. UnderWay(rest, box.active, wire, AwaitsTarget(dial), FALSE)
    BY <1>3, <1>7
  <2>5. UnderWay(rest, box.active, wire', AwaitsTarget(dial'), AwaitsConsider(dial'))
    BY <2>1, <2>3, <2>4 DEF UnderWay
  <2> QED BY <1>2, <2>1, <2>3, <2>5
<1>8. CASE a.kind = "target"
  <2>1. AwaitsTarget(dial) /\ UnderWay(rest, box.active, wire, FALSE, AwaitsConsider(dial))
    BY <1>3, <1>8
  <2>2. \/ dial' = Failed(dial) /\ wire' = wire
        \/ FinishSelection(ClearError(dial), v)
        \/ FinishSelection(dial, v)
    BY <1>1, <1>8 DEF Received
  <2>3. CASE dial' = Failed(dial) /\ wire' = wire
    <3> DEFINE d == [dial EXCEPT !.alerting = TRUE, !.pendingConsider = FALSE]
    <3>1. /\ DialIs(d) /\ d.alerting = TRUE
          /\ d.considering = dial.considering /\ d.considerAlert = dial.considerAlert
      BY <1>2, <2>1 DEF DialIs, Dial, AwaitsTarget
    <3>2. dial' = SetError(d)
      BY <2>3 DEF Failed
    <3> HIDE DEF d
    <3>3. Alike(dial', d)
      BY <3>1, <3>2, SetErrorAlike
    <3>4. /\ DialIs(dial') /\ ~AwaitsTarget(dial')
          /\ AwaitsConsider(dial') <=> AwaitsConsider(dial)
      BY <3>1, <3>3 DEF Alike, AwaitsTarget, AwaitsConsider
    <3>5. UnderWay(rest, box.active, wire', AwaitsTarget(dial'), AwaitsConsider(dial'))
      BY <2>1, <2>3, <3>4 DEF UnderWay
    <3> QED BY <1>2, <2>3, <3>4, <3>5
  <2>4. ASSUME NEW d, Alike(d, dial), FinishSelection(d, v)
        PROVE  /\ DialIs(dial')
               /\ UnderWay(rest, box.active, wire', AwaitsTarget(dial'), AwaitsConsider(dial'))
               /\ ForSlot(box.active, wire', box.selected)
    <3>1. PICK e : e = NotSelecting(d)
      OBVIOUS
    <3>2. ~AwaitsTarget(e) /\ (AwaitsConsider(e) <=> AwaitsConsider(dial))
      BY <2>4, <3>1, NotSelectingIs DEF Alike, AwaitsTarget, AwaitsConsider
    <3>3. DialMoves(e, dial', wire, wire', v)
      BY <1>4, <2>4, <3>1, FinishSelectionMoves DEF Alike
    <3>4. UnderWay(rest, box.active, wire, AwaitsTarget(e), AwaitsConsider(e))
      BY <2>1, <3>2 DEF UnderWay
    <3>5. rest = <<>> => v.selected = box.selected
      BY <1>5 DEF Newest
    <3> HIDE DEF v
    <3> QED BY ONLY <1>2, <1>4, <3>3, <3>4, <3>5, MovesKeep
  <2>5. Alike(dial, dial) /\ Alike(ClearError(dial), dial)
    BY <1>2, ClearErrorAlike DEF Alike
  <2> QED BY <2>2, <2>3, <2>4, <2>5
<1> QED BY <1>4, <1>7, <1>8

\* A state of the box in which the same request is in progress and the same slot selected.
SameWork(b, c) == b \in Box /\ b.active = c.active /\ b.selected = c.selected

\* A step of the controller or the game that moves no request.
LEMMA IdleStep ==
  ASSUME DialInv, SameWork(box', box), UNCHANGED <<dial, view, wire, answers>>,
         game' \in [target : Nat, read : BOOLEAN, replies : Seq(Nat)]
  PROVE  DialInv'
<1>1. box' \in Box /\ box'.active = box.active /\ box'.selected = box.selected
  BY DEF SameWork
<1>2. UnderWay(answers, box.active, wire, AwaitsTarget(dial), AwaitsConsider(dial))'
  BY <1>1 DEF DialInv, UnderWay, Once, InOnePlace, Flying, InTurn, Has, AwaitsTarget, AwaitsConsider
<1>3. /\ ForSlot(box.active, wire, box.selected)'
      /\ (Newest(answers, view) = box.selected)'
  BY <1>1 DEF DialInv, ForSlot, Newest
<1> QED BY <1>1, <1>2, <1>3 DEF DialInv, DialIs

\* What is under way, and what it is for, after a step of the controller.
LEMMA WorkStep ==
  ASSUME DialInv, dial' = dial, view' = view, box' \in Box,
         game' \in [target : Nat, read : BOOLEAN, replies : Seq(Nat)],
         UnderWay(answers', box'.active, wire', AwaitsTarget(dial), AwaitsConsider(dial)),
         ForSlot(box'.active, wire', box'.selected),
         Newest(answers', view) = box'.selected
  PROVE  DialInv'
<1>1. UnderWay(answers, box.active, wire, AwaitsTarget(dial), AwaitsConsider(dial))'
  BY DEF UnderWay, Once, InOnePlace, Flying, InTurn, Has, AwaitsTarget, AwaitsConsider
<1>2. /\ ForSlot(box.active, wire, box.selected)'
      /\ (Newest(answers, view) = box.selected)'
  BY DEF ForSlot, Newest
<1> QED BY <1>1, <1>2 DEF DialInv, DialIs

\* An answer that is given has what is selected.
LEMMA NewestAnswer ==
  ASSUME NEW ans \in Seq(Reply), NEW a \in Reply, NEW v
  PROVE  Newest(Append(ans, a), v) = a.state.selected
<1> DEFINE all == Append(ans, a)
<1>1. PICK n \in Nat : n = Len(ans)
  OBVIOUS
<1>2. all \in Seq(Reply) /\ Len(all) = n + 1 /\ all[n + 1] = a /\ all # <<>>
  BY <1>1
<1> HIDE DEF all
<1>3. Newest(all, v) = a.state.selected
  BY <1>2 DEF Newest
<1> QED BY <1>3 DEF all

\* The Considers on the wire are for the slot, without the first as well.
LEMMA TailForSlot ==
  ASSUME NEW act, NEW w \in Seq(Asked), w # <<>>, NEW slot, ForSlot(act, w, slot)
  PROVE  /\ ForSlot(act, Tail(w), slot)
         /\ Head(w).kind = "consider" => Head(w).slot = slot
<1> DEFINE t == Tail(w)
<1>1. PICK n \in Nat : n = Len(w) - 1
  BY RestIs
<1>2. /\ DOMAIN w = 1 .. (n + 1) /\ DOMAIN t = 1 .. n /\ Head(w) = w[1] /\ 1 \in 1 .. (n + 1)
      /\ \A i \in 1 .. n : t[i] = w[i + 1] /\ i + 1 \in 1 .. (n + 1)
  BY <1>1, RestIs
<1> HIDE DEF t
<1>3. ForSlot(act, t, slot) /\ (Head(w).kind = "consider" => Head(w).slot = slot)
  BY <1>2 DEF ForSlot
<1> QED BY <1>3 DEF t

LEMMA TypesKept ==
  ASSUME DialInv
  PROVE  /\ answers \in Seq(Reply) /\ wire \in Seq(Asked) /\ box.active \in Seq(Asked)
         /\ UnderWay(answers, box.active, wire, AwaitsTarget(dial), AwaitsConsider(dial))
         /\ ForSlot(box.active, wire, box.selected) /\ Newest(answers, view) = box.selected
         /\ box \in Box /\ box.selected \in Nat /\ box.ready \in BOOLEAN /\ box.bound \in SUBSET Slots
         /\ game \in [target : Nat, read : BOOLEAN, replies : Seq(Nat)]
BY DEF DialInv, UnderWay, Box

LEMMA ReplyIs ==
  ASSUME NEW b \in Box, NEW kind \in {"target", "consider"}, NEW ok \in BOOLEAN
  PROVE  [kind |-> kind, ok |-> ok,
          state |-> [ready |-> b.ready, bound |-> b.bound, selected |-> b.selected]] \in Reply
<1>1. b.ready \in BOOLEAN /\ b.bound \in SUBSET Slots /\ b.selected \in Nat
  BY DEF Box
<1> QED BY <1>1 DEF Reply, BoxState

LEMMA StartKeeps ==
  ASSUME DialInv, StartEqAction
  PROVE  DialInv'
<1> DEFINE r == Head(wire)
           b == IF r.kind = "target" THEN NoteXtargetRotation(box) ELSE box
           rest == Tail(wire)
<1>1. /\ wire # <<>> /\ wire' = rest /\ UNCHANGED <<dial, view, game, used>>
      /\ \/ /\ b.active = <<>> /\ answers' = answers
            /\ box' = [NoteEqActionStarted(b, r.kind) EXCEPT !.active = <<r>>]
         \/ box' = b /\ Answered(b, r.kind, FALSE)
  BY DEF StartEqAction
<1>2. /\ answers \in Seq(Reply) /\ wire \in Seq(Asked) /\ box.active \in Seq(Asked)
      /\ UnderWay(answers, box.active, wire, AwaitsTarget(dial), AwaitsConsider(dial))
      /\ ForSlot(box.active, wire, box.selected) /\ Newest(answers, view) = box.selected
      /\ box \in Box /\ box.selected \in Nat
      /\ game \in [target : Nat, read : BOOLEAN, replies : Seq(Nat)]
  BY TypesKept
<1>3. r \in Asked /\ r.kind \in {"target", "consider"}
  <2>1. r \in Asked
    BY <1>1, <1>2, RestIs
  <2> HIDE DEF r
  <2> QED BY <2>1 DEF Asked
<1>4. SameWork(b, box)
  <2>1. SameWork(NoteXtargetRotation(box), box)
    <3>1. <<>> \in Seq(Nat)
      OBVIOUS
    <3> QED BY <1>2, <3>1 DEF SameWork, NoteXtargetRotation, Box
  <2>2. SameWork(box, box)
    BY <1>2 DEF SameWork
  <2> QED BY <2>1, <2>2
<1>5. ForSlot(box.active, rest, box.selected) /\ (r.kind = "consider" => r.slot = box.selected)
  BY <1>1, <1>2, TailForSlot
<1> HIDE DEF b
<1>6. CASE /\ b.active = <<>> /\ answers' = answers
           /\ box' = [NoteEqActionStarted(b, r.kind) EXCEPT !.active = <<r>>]
  <2>1. <<r>> \in Seq(Asked) /\ DOMAIN <<r>> = {1} /\ <<r>>[1] = r
    BY <1>3, AloneHas
  <2>2. box' \in Box /\ box'.active = <<r>> /\ box'.selected = box.selected
    <3> HIDE DEF r
    <3> DEFINE c == NoteEqActionStarted(b, r.kind)
    <3>1. c \in Box /\ c.selected = b.selected
      <4>1. <<>> \in Seq(Nat)
        OBVIOUS
      <4> QED BY <1>4, <4>1 DEF SameWork, NoteEqActionStarted, Box
    <3> HIDE DEF c
    <3>2. box' = [c EXCEPT !.active = <<r>>]
      BY <1>6 DEF c
    <3> QED BY <1>4, <2>1, <3>1, <3>2 DEF SameWork, Box
  <2>3. box.active = <<>>
    BY <1>4, <1>6 DEF SameWork
  <2>4. UnderWay(answers', box'.active, wire', AwaitsTarget(dial), AwaitsConsider(dial))
    BY <1>1, <1>2, <1>6, <2>2, <2>3, RequestBegins
  <2>5. ForSlot(box'.active, wire', box'.selected)
    BY <1>1, <1>5, <2>1, <2>2 DEF ForSlot
  <2>6. Newest(answers', view) = box'.selected
    BY <1>2, <1>6, <2>2
  <2> QED BY <1>1, <1>2, <2>2, <2>4, <2>5, <2>6, WorkStep
<1>7. CASE box' = b /\ Answered(b, r.kind, FALSE)
  <2>1. PICK a \in Reply : a.kind = r.kind /\ a.state.selected = box.selected
                           /\ answers' = Append(answers, a)
    <3> HIDE DEF r
    <3> DEFINE a == [kind |-> r.kind, ok |-> FALSE,
                     state |-> [ready |-> b.ready, bound |-> b.bound, selected |-> b.selected]]
    <3>1. a \in Reply
      BY <1>3, <1>4, ReplyIs DEF SameWork
    <3>2. answers' = Append(answers, a)
      BY <1>7 DEF Answered
    <3>3. a.kind = r.kind /\ a.state.selected = box.selected
      BY <1>4 DEF SameWork
    <3> HIDE DEF a
    <3> QED BY <3>1, <3>2, <3>3
  <2>2. UnderWay(answers', box'.active, wire', AwaitsTarget(dial), AwaitsConsider(dial))
    <3>1. UnderWay(Append(answers, a), box.active, rest, AwaitsTarget(dial), AwaitsConsider(dial))
      BY <1>1, <1>2, <2>1, RequestRefused
    <3>2. box'.active = box.active
      BY <1>4, <1>7 DEF SameWork
    <3> QED BY <1>1, <2>1, <3>1, <3>2
  <2>3. ForSlot(box'.active, wire', box'.selected)
    BY <1>1, <1>4, <1>5, <1>7 DEF SameWork
  <2>4. Newest(answers', view) = box'.selected
    BY <1>2, <1>4, <1>7, <2>1, NewestAnswer DEF SameWork
  <2> QED BY <1>1, <1>2, <1>4, <1>7, <2>2, <2>3, <2>4, WorkStep DEF SameWork
<1> QED BY <1>1, <1>6, <1>7

LEMMA FinishKeeps ==
  ASSUME DialInv, NEW ok \in BOOLEAN, FinishEqAction(ok)
  PROVE  DialInv'
<1> DEFINE r == box.active[1]
           c == IF ok THEN NoteEqActionDelivered(box, r) ELSE box
           b == [c EXCEPT !.active = <<>>]
<1>1. /\ box.active # <<>> /\ box' = b /\ Answered(b, r.kind, ok)
      /\ game' = [game EXCEPT !.read = FALSE] /\ UNCHANGED <<dial, view, wire>>
  BY DEF FinishEqAction
<1>2. /\ answers \in Seq(Reply) /\ wire \in Seq(Asked) /\ box.active \in Seq(Asked)
      /\ UnderWay(answers, box.active, wire, AwaitsTarget(dial), AwaitsConsider(dial))
      /\ ForSlot(box.active, wire, box.selected) /\ Newest(answers, view) = box.selected
      /\ box \in Box /\ box.selected \in Nat
      /\ game \in [target : Nat, read : BOOLEAN, replies : Seq(Nat)]
  BY TypesKept
<1>3. r \in Asked /\ r.kind \in {"target", "consider"} /\ 1 \in DOMAIN box.active
  <2>1. Head(box.active) \in Asked /\ Head(box.active) = r /\ 1 \in DOMAIN box.active
    BY <1>1, <1>2, RestIs
  <2>2. r \in Asked
    BY <2>1
  <2> HIDE DEF r
  <2> QED BY <2>1, <2>2 DEF Asked
<1>4. /\ c \in Box
      /\ \/ c.selected = box.selected
         \/ r.kind = "target"
  <2> HIDE DEF r
  <2> QED BY <1>2, <1>3 DEF NoteEqActionDelivered, Box, Asked
<1> HIDE DEF c
<1>5. b \in Box /\ b.active = <<>> /\ b.selected = c.selected
  <2>1. <<>> \in Seq(Asked)
    BY NothingIs
  <2> QED BY <1>4, <2>1 DEF Box
<1> HIDE DEF b
<1>6. PICK a \in Reply : a.kind = r.kind /\ a.state.selected = b.selected
                         /\ answers' = Append(answers, a)
  <2> HIDE DEF r
  <2> DEFINE a == [kind |-> r.kind, ok |-> ok,
                   state |-> [ready |-> b.ready, bound |-> b.bound, selected |-> b.selected]]
  <2>1. a \in Reply
    BY <1>3, <1>5, ReplyIs
  <2>2. answers' = Append(answers, a)
    BY <1>1 DEF Answered
  <2>3. a.kind = r.kind /\ a.state.selected = b.selected
    OBVIOUS
  <2> HIDE DEF a
  <2> QED BY <2>1, <2>2, <2>3
<1>7. UnderWay(answers', box'.active, wire', AwaitsTarget(dial), AwaitsConsider(dial))
  <2>1. UnderWay(Append(answers, a), <<>>, wire, AwaitsTarget(dial), AwaitsConsider(dial))
    BY <1>1, <1>2, <1>6, RequestEnds
  <2> QED BY <1>1, <1>5, <1>6, <2>1
<1>8. ForSlot(box'.active, wire', box'.selected)
  <2>1. DOMAIN <<>> = {}
    BY NothingIs
  <2>2. CASE c.selected = box.selected
    BY <1>1, <1>2, <1>5, <2>1, <2>2 DEF ForSlot
  <2>3. CASE r.kind = "target"
    <3>1. Has(box.active, "target")
      BY <1>3, <2>3 DEF Has
    <3>2. ~Has(wire, "consider")
      BY <1>2, <3>1 DEF UnderWay, InTurn
    <3> QED BY <1>1, <1>5, <2>1, <3>2 DEF ForSlot, Has
  <2> QED BY <1>4, <2>2, <2>3
<1>9. Newest(answers', view) = box'.selected
  BY <1>1, <1>2, <1>6, NewestAnswer
<1>10. game' \in [target : Nat, read : BOOLEAN, replies : Seq(Nat)]
  BY <1>1, <1>2
<1> QED BY <1>1, <1>5, <1>7, <1>8, <1>9, <1>10, WorkStep

LEMMA DialInitInv == DialInit => DialInv
<1> SUFFICES ASSUME DialInit PROVE DialInv
  OBVIOUS
<1>1. DialIs(dial) /\ ~AwaitsTarget(dial) /\ ~AwaitsConsider(dial)
  BY DEF DialInit, DialIs, Dial, None, AwaitsTarget, AwaitsConsider
<1>2. view \in BoxState /\ view.selected = 1
  BY DEF DialInit, BoxState
<1>3. box \in Box /\ box.active = <<>> /\ box.selected = 1
  <2>1. <<>> \in Seq(Asked) /\ <<>> \in Seq(Nat)
    OBVIOUS
  <2> QED BY <2>1 DEF DialInit, Box
<1>4. game \in [target : Nat, read : BOOLEAN, replies : Seq(Nat)]
  <2>1. <<>> \in Seq(Nat)
    OBVIOUS
  <2> QED BY <2>1 DEF DialInit, None
<1>5. UnderWay(<<>>, <<>>, <<>>, FALSE, FALSE)
  BY NothingIs, NothingHas DEF UnderWay, InOnePlace, Flying, InTurn
<1>6. UnderWay(answers, box.active, wire, AwaitsTarget(dial), AwaitsConsider(dial))
  BY <1>1, <1>3, <1>5 DEF DialInit, UnderWay
<1>7. ForSlot(box.active, wire, box.selected) /\ Newest(answers, view) = box.selected
  BY <1>2, <1>3, NothingIs DEF DialInit, ForSlot, Newest
<1> QED BY <1>1, <1>2, <1>3, <1>4, <1>6, <1>7 DEF DialInv

LEMMA DialNextInv == DialInv /\ [DialNext]_dialVars => DialInv'
<1> SUFFICES ASSUME DialInv, [DialNext]_dialVars PROVE DialInv'
  OBVIOUS
<1>1. DialIs(dial) /\ view \in BoxState /\ Alike(dial, dial)
  BY DEF DialInv, Alike
<1>2. /\ answers \in Seq(Reply) /\ wire \in Seq(Asked) /\ box.active \in Seq(Asked)
      /\ UnderWay(answers, box.active, wire, AwaitsTarget(dial), AwaitsConsider(dial))
      /\ ForSlot(box.active, wire, box.selected) /\ Newest(answers, view) = box.selected
      /\ box \in Box /\ box.selected \in Nat /\ box.ready \in BOOLEAN /\ box.bound \in SUBSET Slots
      /\ game \in [target : Nat, read : BOOLEAN, replies : Seq(Nat)]
  BY TypesKept
<1>3. CASE UNCHANGED dialVars
  BY <1>1, <1>3, QuietStep DEF dialVars
<1>4. ASSUME NEW s \in Slots, OnDialRotate(s) PROVE DialInv'
  <2> DEFINE d == ReconcileSelection(dial, view)
  <2>1. Alike(d, dial) /\ Alike(SetError(dial), dial)
    BY <1>1, ReconcileAlike, SetErrorAlike
  <2>2. UNCHANGED <<view, box, game, wire, answers>>
    BY <1>4 DEF OnDialRotate
  <2>3. \/ dial' = SetError(dial) \/ dial' = d
        \/ dial' = [d EXCEPT !.selected = s, !.queued = s, !.timer = TRUE,
                             !.error = ~(view.ready /\ s \in view.bound)]
    BY <1>4 DEF OnDialRotate
  <2> HIDE DEF d
  <2>4. Alike(dial', dial)
    <3>1. CASE dial' = [d EXCEPT !.selected = s, !.queued = s, !.timer = TRUE,
                                 !.error = ~(view.ready /\ s \in view.bound)]
      <4>1. PICK e \in BOOLEAN : e = ~(view.ready /\ s \in view.bound)
        OBVIOUS
      <4>2. dial' = [d EXCEPT !.selected = s, !.queued = s, !.timer = TRUE, !.error = e]
        BY <3>1, <4>1
      <4>3. s \in Nat
        OBVIOUS
      <4>4. Alike(dial', d)
        <5>1. DialIs(d)
          BY <2>1 DEF Alike
        <5>2. Alike([d EXCEPT !.selected = s, !.queued = s, !.timer = TRUE, !.error = e], d)
          BY ONLY <4>1, <4>3, <5>1, TurnedAlike
        <5> QED BY ONLY <4>2, <5>2
      <4> QED BY <2>1, <4>4 DEF Alike
    <3> QED BY <2>1, <2>3, <3>1
  <2> QED BY <2>2, <2>4, QuietStep
<1>5. CASE OnDialDown
  <2>1. UNCHANGED <<view, box, game, answers>>
    BY <1>5 DEF OnDialDown
  <2>2. CASE UNCHANGED <<dial, wire>>
    BY <1>1, <2>1, <2>2, QuietStep
  <2>3. CASE dial' = [dial EXCEPT !.pendingConsider = TRUE] /\ wire' = wire
    <3>1. Alike(dial', dial)
      BY <1>1, <2>3 DEF Alike, DialIs, Dial
    <3> QED BY <2>1, <2>3, <3>1, QuietStep
  <2>4. CASE ~WaitsForSelection(dial) /\ SendConsider(dial, view)
    <3>1. dial.selecting = FALSE
      BY <1>1, <2>4 DEF WaitsForSelection, DialIs, Dial
    <3>2. DialMoves(dial, dial', wire, wire', view)
      BY <1>1, <2>4, <3>1, SendConsiderMoves
    <3> QED BY <2>1, <3>2, SendingStep
  <2> QED BY <1>5, <2>2, <2>3, <2>4 DEF OnDialDown
<1>6. CASE SelectionSettles
  <2> DEFINE e == [dial EXCEPT !.timer = FALSE]
  <2>1. Alike(e, dial)
    BY <1>1 DEF Alike, DialIs, Dial
  <2>2. Drain(e) /\ UNCHANGED <<view, box, game, answers>>
    BY <1>6 DEF SelectionSettles
  <2> HIDE DEF e
  <2>3. DialMoves(e, dial', wire, wire', view)
    BY <2>1, <2>2, DrainMoves DEF Alike
  <2> QED BY <2>1, <2>2, <2>3, SendingStep DEF Alike, AwaitsTarget, AwaitsConsider
<1>7. CASE ErrorTimerFires
  <2>1. Alike(ClearError(dial), dial)
    BY <1>1, ClearErrorAlike
  <2>2. Alike(ReconcileSelection(ClearError(dial), view), dial)
    <3>1. Alike(ReconcileSelection(ClearError(dial), view), ClearError(dial))
      BY <1>1, <2>1, ReconcileAlike DEF Alike
    <3> QED BY <2>1, <3>1 DEF Alike
  <2>3. Alike(dial', dial) /\ UNCHANGED <<view, box, game, wire, answers>>
    BY <1>7, <2>1, <2>2 DEF ErrorTimerFires
  <2> QED BY <2>3, QuietStep
<1>8. CASE OnDidReceiveSettings
  <2>1. dial' = [dial EXCEPT !.here = ~@, !.selected = None, !.queued = None,
                   !.timer = FALSE, !.epoch = @ + 1, !.pendingConsider = FALSE, !.error = FALSE]
    BY <1>8 DEF OnDidReceiveSettings
  <2>2. Alike(dial', dial)
    <3>1. PICK here \in BOOLEAN : here = ~dial.here
      OBVIOUS
    <3>2. PICK epoch \in Nat : epoch = dial.epoch + 1
      BY <1>1 DEF DialIs, Dial
    <3>3. dial' = [dial EXCEPT !.here = here, !.selected = 0, !.queued = 0, !.timer = FALSE,
                     !.epoch = epoch, !.pendingConsider = FALSE, !.error = FALSE]
      BY <2>1, <3>1, <3>2 DEF None
    <3> QED BY <1>1, <3>3, ConfiguredAlike
  <2>3. UNCHANGED <<view, box, game, wire, answers>>
    BY <1>8 DEF OnDidReceiveSettings
  <2> QED BY <2>2, <2>3, QuietStep
<1>9. CASE AnswerArrives
  BY <1>9, ReceivedKeeps
<1>10. CASE AlertShown
  <2>1. dial.alerting = TRUE /\ FinishSelection(dial, view) /\ UNCHANGED <<view, box, game, answers>>
    BY <1>1, <1>10 DEF AlertShown, DialIs, Dial
  <2>2. PICK e : e = NotSelecting(dial)
    OBVIOUS
  <2>3. /\ AwaitsTarget(e) <=> AwaitsTarget(dial)
        /\ AwaitsConsider(e) <=> AwaitsConsider(dial)
    BY <1>1, <2>1, <2>2, NotSelectingIs DEF AwaitsTarget, AwaitsConsider
  <2>4. DialMoves(e, dial', wire, wire', view)
    BY <1>1, <2>1, <2>2, FinishSelectionMoves
  <2> QED BY <2>1, <2>3, <2>4, SendingStep
<1>11. CASE ConsiderAlertShown
  <2>1. /\ dial.considerAlert = TRUE /\ UNCHANGED <<view, box, game, wire, answers>>
        /\ dial' = [dial EXCEPT !.considerAlert = FALSE, !.considering = FALSE]
    BY <1>1, <1>11 DEF ConsiderAlertShown, DialIs, Dial
  <2>2. /\ DialIs(dial')
        /\ AwaitsTarget(dial') <=> AwaitsTarget(dial)
        /\ AwaitsConsider(dial') <=> AwaitsConsider(dial)
    BY <1>1, <2>1 DEF DialIs, Dial, AwaitsTarget, AwaitsConsider
  <2>3. DialMoves(dial, dial', wire, wire', view)
    BY <2>1, <2>2 DEF DialMoves
  <2> QED BY <2>1, <2>3, SendingStep
<1>12. CASE StatePushed
  <2>1. answers = <<>> /\ view' = Snapshot /\ UNCHANGED <<dial, box, game, wire, answers>>
    BY <1>12 DEF StatePushed
  <2>2. view' \in BoxState /\ view'.selected = box.selected
    BY <1>2, <2>1 DEF Snapshot, BoxState
  <2>3. UnderWay(answers, box.active, wire, AwaitsTarget(dial), AwaitsConsider(dial))'
    BY <1>2, <2>1
       DEF UnderWay, Once, InOnePlace, Flying, InTurn, Has, AwaitsTarget, AwaitsConsider
  <2>4. /\ ForSlot(box.active, wire, box.selected)'
        /\ (Newest(answers, view) = box.selected)'
    BY <1>2, <2>1, <2>2 DEF ForSlot, Newest
  <2> QED BY <1>1, <1>2, <2>1, <2>2, <2>3, <2>4 DEF DialInv, DialIs
<1>13. CASE StartEqAction
  BY <1>13, StartKeeps
<1>14. CASE GameReads
  <2>1. /\ box.active # <<>> /\ UNCHANGED <<dial, view, box, wire, answers>>
        /\ game' = [game EXCEPT
             !.read = TRUE,
             !.target = IF box.active[1].kind = "target" THEN box.active[1].slot ELSE @,
             !.replies = IF box.active[1].kind = "consider" THEN Append(@, game.target) ELSE @]
    BY <1>14 DEF GameReads
  <2>2. PICK r \in Asked : r = box.active[1]
    <3>1. Head(box.active) \in Asked /\ Head(box.active) = box.active[1]
      BY <1>2, <2>1, RestIs
    <3> QED BY <3>1
  <2>3. r.slot \in Nat /\ Append(game.replies, game.target) \in Seq(Nat)
    BY <1>2, <2>2 DEF Asked
  <2>4. game' \in [target : Nat, read : BOOLEAN, replies : Seq(Nat)]
    BY <1>2, <2>1, <2>2, <2>3
  <2>5. SameWork(box', box)
    BY <1>2, <2>1 DEF SameWork
  <2> QED BY <2>1, <2>4, <2>5, IdleStep
<1>15. ASSUME NEW ok \in BOOLEAN, FinishEqAction(ok) PROVE DialInv'
  BY <1>15, FinishKeeps
<1>16. CASE RecordConsider
  <2>1. /\ game.replies # <<>> /\ game' = [game EXCEPT !.replies = Tail(@)]
        /\ \/ box' = [box EXCEPT !.pending = FALSE, !.result = <<Head(game.replies)>>]
           \/ box' = box
        /\ UNCHANGED <<dial, view, wire, answers>>
    BY <1>16 DEF RecordConsider
  <2>2. Tail(game.replies) \in Seq(Nat) /\ <<Head(game.replies)>> \in Seq(Nat)
    <3>1. game.replies \in Seq(Nat)
      BY <1>2
    <3>2. Tail(game.replies) \in Seq(Nat) /\ Head(game.replies) \in Nat
      BY <2>1, <3>1, RestIs
    <3> QED BY <3>2
  <2>3. SameWork(box', box)
    BY <1>2, <2>1, <2>2 DEF SameWork, Box
  <2>4. game' \in [target : Nat, read : BOOLEAN, replies : Seq(Nat)]
    BY <1>2, <2>1, <2>2
  <2> QED BY <2>1, <2>3, <2>4, IdleStep
<1>17. CASE ConsiderExpires
  <2>1. <<>> \in Seq(Nat)
    OBVIOUS
  <2>2. SameWork(box', box)
    BY <1>2, <1>17, <2>1 DEF ConsiderExpires, SameWork, Box
  <2> QED BY <1>2, <1>17, <2>2, IdleStep DEF ConsiderExpires
<1>18. CASE BoxChanges
  <2>1. SameWork(box', box)
    <3>1. CASE box' = [box EXCEPT !.ready = ~@]
      BY <1>2, <3>1 DEF SameWork, Box
    <3>2. ASSUME NEW s \in Slots,
                 box' = [box EXCEPT !.bound = IF s \in @ THEN @ \ {s} ELSE @ \cup {s}]
          PROVE  SameWork(box', box)
      <4>1. PICK bound \in SUBSET Slots : box' = [box EXCEPT !.bound = bound]
        BY <1>2, <3>2
      <4> QED BY <1>2, <4>1 DEF SameWork, Box
    <3> QED BY <1>18, <3>1, <3>2 DEF BoxChanges
  <2> QED BY <1>2, <1>18, <2>1, IdleStep DEF BoxChanges
<1> QED BY <1>3, <1>4, <1>5, <1>6, <1>7, <1>8, <1>9, <1>10, <1>11, <1>12, <1>13, <1>14, <1>15,
           <1>16, <1>17, <1>18 DEF DialNext

\* Whatever is turned, pressed, refused, alerted, configured or answered late, a Consider on
\* its way considers the slot that the dial showed and that is selected still.
THEOREM DialAlwaysConsiders == DialSpec => []ConsidersTheSelection
<1>1. DialInv => ConsidersTheSelection
  <2> SUFFICES ASSUME DialInv PROVE ConsidersTheSelection
    OBVIOUS
  <2> DEFINE act == box.active
             all == act \o wire
  <2>1. /\ act \in Seq(Asked) /\ wire \in Seq(Asked) /\ Len(act) <= 1
        /\ InTurn(act, wire) /\ ForSlot(act, wire, box.selected)
    BY DEF DialInv, UnderWay
  <2>2. PICK m \in Nat, n \in Nat : m = Len(act) /\ n = Len(wire)
    BY <2>1
  <2>3. /\ DOMAIN act = 1 .. m /\ DOMAIN wire = 1 .. n /\ DOMAIN all = 1 .. (m + n)
        /\ \A i \in 1 .. m : all[i] = act[i]
        /\ \A i \in 1 .. n : all[m + i] = wire[i]
    BY <2>1, <2>2
  <2> HIDE DEF act, all
  <2>4. \A i \in 1 .. (m + n) : i \in 1 .. m \/ \E k \in 1 .. n : i = m + k
    <3>1. ASSUME NEW i \in 1 .. (m + n), i \notin 1 .. m PROVE \E k \in 1 .. n : i = m + k
      <4>1. i - m \in 1 .. n /\ i = m + (i - m)
        BY <2>2, <3>1
      <4> QED BY <4>1
    <3> QED BY <3>1
  <2>5. \A i \in 1 .. (m + n) : all[i].kind = "consider" => all[i].slot = box.selected
    <3>1. ASSUME NEW i \in 1 .. (m + n), all[i].kind = "consider" PROVE all[i].slot = box.selected
      <4>1. CASE i \in 1 .. m
        BY <2>1, <2>3, <3>1, <4>1 DEF ForSlot
      <4>2. ASSUME NEW k \in 1 .. n, i = m + k PROVE all[i].slot = box.selected
        BY <2>1, <2>3, <3>1, <4>2 DEF ForSlot
      <4> QED BY <2>4, <4>1, <4>2
    <3> QED BY <3>1
  <2>6. ASSUME NEW i \in 1 .. (m + n), all[i].kind = "consider", NEW j \in 1 .. (i - 1),
               all[j].kind = "target"
        PROVE  FALSE
    <3>1. j \in 1 .. (m + n) /\ j < i
      BY <2>2
    <3>2. CASE i \in 1 .. m
      BY <2>1, <2>2, <3>1, <3>2
    <3>3. CASE i \notin 1 .. m
      <4>1. PICK k \in 1 .. n : i = m + k
        BY <2>4, <3>3
      <4>2. CASE j \in 1 .. m
        BY <2>1, <2>3, <2>6, <4>1, <4>2 DEF InTurn, Has
      <4>3. CASE j \notin 1 .. m
        <5>1. PICK l \in 1 .. n : j = m + l
          BY <2>4, <3>1, <4>3
        <5>2. k < l
          BY <2>1, <2>3, <2>6, <4>1, <5>1 DEF InTurn
        <5> QED BY <2>2, <3>1, <4>1, <5>1, <5>2
      <4> QED BY <4>2, <4>3
    <3> QED BY <3>2, <3>3
  <2> QED BY <2>3, <2>5, <2>6 DEF ConsidersTheSelection, all, act
<1> QED BY <1>1, DialInitInv, DialNextInv, PTL DEF DialSpec
==============================================================================
