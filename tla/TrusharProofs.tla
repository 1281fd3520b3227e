---------------------------- MODULE TrusharProofs ---------------------------
(***************************************************************************)
(* What the library behind the control API promises for every value of     *)
(* the constants: its server (ControlServer), pairing (Pairing) and the    *)
(* in-memory controller (MemoryController), one part each.                 *)
(***************************************************************************)
EXTENDS ControlServer, Pairing, MemoryController, FiniteSetTheorems, SequenceTheorems,
        TLAPS

-----------------------------------------------------------------------------
(***************************************************************************)
(* ControlServer.                                                          *)
(*                                                                         *)
(* For any number of connections, requests and states: every request is    *)
(* answered once at most and none is forgotten, a success tells a state    *)
(* that includes what its command did, and what a connection is told never *)
(* goes back and never runs ahead: the server implements StateFeed.  The   *)
(* argument: a task builds its next message only after the one before was  *)
(* written, from the state of that moment, and a request leaves the queue  *)
(* of the tray thread before its future can be done.                       *)
(***************************************************************************)
Status == {"waiting", "done", "failed"}

\* The futures of a connection: the state of each by its request.
Flight == UNION {[S -> Status] : S \in SUBSET Request}

\* Messages that tell no state newer than rev.
Message(rev) ==
  [kind : {"none", "state", "success", "error"}, request : 0 .. MaxRequests,
   revision : 0 .. rev]

\* SrvTypeOK, and the types of what is being written, of the futures and of effects.
Types ==
  /\ hub \in [revision : 0 .. MaxRevision, data : StateData]
  /\ phase \in [Conn -> {"absent", "subscribed", "writing", "loop", "closing",
                         "returned", "ending", "gone"}]
  /\ seen \in [Conn -> 0 .. hub.revision]
  /\ lastPushed \in [Conn -> 0 .. hub.revision]
  /\ delivered \in [Conn -> 0 .. hub.revision]
  /\ received \in [Conn -> 0 .. MaxRequests]
  /\ answered \in [Conn -> SUBSET Request]
  /\ uiQueue \subseteq (Conn \X (Request \cup {Cleanup}))
  /\ serverThread \in {"starting", "running", "draining", "done"}
  /\ uiThread \in {"starting", "abandoning", "looping", "joining", "stopped"}
  /\ outgoing \in [Conn -> Message(hub.revision)]
  /\ inFlight \in [Conn -> Flight]
  /\ effectOf \in [Conn -> [Request -> 0 .. hub.revision]]

\* A message is being written exactly in the phase for it, and no message that
\* tells a state is older than what the connection was told before.
OneMessage(c) ==
  /\ phase[c] # "writing" => outgoing[c] = Idle
  /\ phase[c] = "writing" => outgoing[c].kind # "none"
  /\ outgoing[c].kind \in {"state", "success"} => delivered[c] <= outgoing[c].revision
  /\ outgoing[c].kind = "success" =>
       /\ outgoing[c].request \in Request
       /\ outgoing[c].revision >= effectOf[c][outgoing[c].request]

\* The futures live no longer than the loop that polls them, and nothing was
\* received before the connection was made.
FuturesLocal(c) ==
  /\ DOMAIN inFlight[c] \subseteq 1 .. received[c]
  /\ phase[c] \notin Connected => DOMAIN inFlight[c] = {}
  /\ phase[c] = "absent" => received[c] = 0 /\ answered[c] = {}

\* A request is queued only once it was received, and no longer when its future is
\* done or its success is being written.
QueuedBefore(c) ==
  \A r \in Request : <<c, r>> \in uiQueue =>
    /\ r <= received[c]
    /\ r \in DOMAIN inFlight[c] => inFlight[c][r] # "done"
    /\ ~(outgoing[c].kind = "success" /\ outgoing[c].request = r)

\* RequestsAccounted, of one connection.
Accounted(c) ==
  phase[c] \in Connected =>
    /\ DOMAIN inFlight[c] \cap answered[c] = {}
    /\ outgoing[c].request \notin DOMAIN inFlight[c] \cup answered[c]
    /\ 1 .. received[c] =
         (DOMAIN inFlight[c] \cup answered[c] \cup {outgoing[c].request}) \ {NoRequest}

ConnOK(c) == OneMessage(c) /\ FuturesLocal(c) /\ QueuedBefore(c) /\ Accounted(c)

SrvInv == Types /\ \A c \in Conn : ConnOK(c)

USE ControlServerBounds

-----------------------------------------------------------------------------
(* The operators of the model *)

LEMMA FlightParts ==
  ASSUME NEW f \in Flight
  PROVE  /\ DOMAIN f \subseteq Request
         /\ f = [x \in DOMAIN f |-> f[x]]
         /\ \A x \in DOMAIN f : f[x] \in Status
<1>1. PICK S \in SUBSET Request : f \in [S -> Status]
  BY DEF Flight
<1> QED BY <1>1

LEMMA FlightMade ==
  ASSUME NEW f, NEW S \in SUBSET Request, f \in [S -> Status]
  PROVE  f \in Flight
BY DEF Flight

LEMMA NoFlight ==
  /\ [r \in {} |-> "waiting"] \in Flight
  /\ DOMAIN [r \in {} |-> "waiting"] = {}
<1>1. [r \in {} |-> "waiting"] \in [{} -> Status]
  BY DEF Status
<1> QED BY <1>1, FlightMade

LEMMA WithoutInFlight ==
  ASSUME NEW f \in Flight, NEW r
  PROVE  /\ Without(f, r) \in Flight
         /\ DOMAIN Without(f, r) = DOMAIN f \ {r}
         /\ \A x \in DOMAIN f \ {r} : Without(f, r)[x] = f[x]
<1>1. Without(f, r) \in [DOMAIN f \ {r} -> Status]
  BY FlightParts DEF Without
<1>2. DOMAIN f \ {r} \in SUBSET Request
  BY FlightParts
<1>3. Without(f, r) \in Flight
  BY <1>1, <1>2, FlightMade
<1> QED BY <1>3 DEF Without

\* What each kind of message tells, and to which request.
LEMMA Messages ==
  ASSUME NEW rev \in Nat
  PROVE  /\ Idle \in Message(rev) /\ Idle.kind = "none" /\ Idle.request = 0
         /\ State(rev) \in Message(rev) /\ State(rev).kind = "state"
         /\ State(rev).request = 0 /\ State(rev).revision = rev
         /\ \A r \in 0 .. MaxRequests :
              /\ Success(r, rev) \in Message(rev) /\ Success(r, rev).kind = "success"
              /\ Success(r, rev).request = r /\ Success(r, rev).revision = rev
              /\ Failure(r) \in Message(rev) /\ Failure(r).kind = "error"
              /\ Failure(r).request = r
BY DEF Message, Idle, State, Success, Failure, NoRequest

LEMMA MessageParts ==
  ASSUME NEW rev \in Nat, NEW m \in Message(rev)
  PROVE  /\ m.kind \in {"none", "state", "success", "error"}
         /\ m.request \in 0 .. MaxRequests /\ m.revision \in 0 .. rev
         /\ \A later \in Nat : rev <= later => m \in Message(later)
BY DEF Message

\* One more request is received: the numbers up to it are the old ones and itself.
LEMMA OneMoreRequest ==
  ASSUME NEW n \in Nat
  PROVE  1 .. (n + 1) = 1 .. n \cup {n + 1}
OBVIOUS

\* A publication takes one revision or none.
LEMMA PublishedNext ==
  ASSUME hub \in [revision : 0 .. MaxRevision, data : StateData], NEW d \in StateData,
         hub.revision < MaxRevision \/ d = hub.data
  PROVE  /\ Published(d) \in [revision : 0 .. MaxRevision, data : StateData]
         /\ Published(d).revision \in {hub.revision, hub.revision + 1}
BY DEF Published

-----------------------------------------------------------------------------

\* What a step of another connection or of a thread leaves alone.
Untouched(c) ==
  /\ phase'[c] = phase[c] /\ outgoing'[c] = outgoing[c] /\ inFlight'[c] = inFlight[c]
  /\ received'[c] = received[c] /\ answered'[c] = answered[c]
  /\ delivered'[c] = delivered[c] /\ effectOf'[c] = effectOf[c]
  /\ \A r \in Request : <<c, r>> \in uiQueue' => <<c, r>> \in uiQueue

LEMMA UntouchedOK ==
  ASSUME NEW c \in Conn, ConnOK(c), Untouched(c)
  PROVE  ConnOK(c)'
<1>1. OneMessage(c)'
  BY DEF ConnOK, Untouched, OneMessage
<1>2. FuturesLocal(c)' /\ Accounted(c)'
  BY DEF ConnOK, Untouched, FuturesLocal, Accounted
<1>3. QueuedBefore(c)'
  BY DEF ConnOK, Untouched, QueuedBefore
<1> QED BY <1>1, <1>2, <1>3 DEF ConnOK

\* A step of one connection preserves the invariant when it does for that connection.
LEMMA OneConnection ==
  ASSUME SrvInv, NEW c \in Conn, Types', ConnOK(c)', \A d \in Conn \ {c} : Untouched(d)
  PROVE  SrvInv'
<1>1. ASSUME NEW d \in Conn \ {c} PROVE ConnOK(d)'
  BY UntouchedOK DEF SrvInv
<1> QED BY <1>1 DEF SrvInv

LEMMA AllUntouched ==
  ASSUME SrvInv, Types', \A c \in Conn : Untouched(c)
  PROVE  SrvInv'
<1>1. ASSUME NEW c \in Conn PROVE ConnOK(c)'
  BY UntouchedOK DEF SrvInv
<1> QED BY <1>1 DEF SrvInv

LEMMA SrvInvSound == SrvInv => SrvSound
<1> SUFFICES ASSUME SrvInv PROVE SrvSound
  OBVIOUS
<1>1. SrvTypeOK
  BY DEF SrvInv, Types, SrvTypeOK, ConnOK, FuturesLocal
<1>2. AnswersReflectCommand
  BY DEF SrvInv, ConnOK, OneMessage, AnswersReflectCommand
<1>3. RequestsAccounted
  BY DEF SrvInv, ConnOK, Accounted, RequestsAccounted
<1> QED BY <1>1, <1>2, <1>3 DEF SrvSound

-----------------------------------------------------------------------------

LEMMA InitSrvInv == SrvInit => SrvInv
<1> SUFFICES ASSUME SrvInit PROVE SrvInv
  OBVIOUS
<1>1. PICK d \in StateData : hub = [revision |-> 0, data |-> d]
  BY DEF SrvInit
<1>2. inFlight \in [Conn -> Flight] /\ \A c \in Conn : DOMAIN inFlight[c] = {}
  BY NoFlight DEF SrvInit
<1>3. Types
  BY <1>1, <1>2, Messages DEF SrvInit, Types
<1>4. ASSUME NEW c \in Conn PROVE ConnOK(c)
  <2>1. OneMessage(c) /\ QueuedBefore(c)
    BY Messages DEF SrvInit, OneMessage, QueuedBefore
  <2>2. FuturesLocal(c) /\ Accounted(c)
    BY <1>2 DEF SrvInit, FuturesLocal, Accounted, Connected
  <2> QED BY <2>1, <2>2 DEF ConnOK
<1> QED BY <1>3, <1>4 DEF SrvInv

\* The connection is made: nothing was received yet.
LEMMA SubscribeSrvInv ==
  ASSUME SrvInv, NEW c \in Conn, Subscribe(c)
  PROVE  SrvInv'
<1>1. Types'
  BY DEF Subscribe, SrvInv, Types
<1>2. \A d \in Conn \ {c} : Untouched(d)
  BY DEF Subscribe, SrvInv, Types, Untouched
<1>3. /\ phase[c] = "absent" /\ phase'[c] = "subscribed"
      /\ UNCHANGED <<outgoing, inFlight, received, answered, delivered, effectOf, uiQueue>>
  BY DEF Subscribe, SrvInv, Types
<1>4. OneMessage(c)' /\ QueuedBefore(c)'
  BY <1>3 DEF SrvInv, ConnOK, OneMessage, QueuedBefore
<1>5. FuturesLocal(c)' /\ Accounted(c)'
  BY <1>3, Messages DEF SrvInv, ConnOK, OneMessage, FuturesLocal, Accounted, Connected, NoRequest
<1>6. ConnOK(c)'
  BY <1>4, <1>5 DEF ConnOK
<1> QED BY <1>1, <1>2, <1>6, OneConnection

\* The first message tells the state taken after the subscription.
LEMMA SendInitialSrvInv ==
  ASSUME SrvInv, NEW c \in Conn, SendInitial(c)
  PROVE  SrvInv'
<1>1. Types'
  BY Messages DEF SendInitial, Write, SrvInv, Types
<1>2. \A d \in Conn \ {c} : Untouched(d)
  BY DEF SendInitial, Write, SrvInv, Types, Untouched
<1>3. /\ phase[c] = "subscribed" /\ phase'[c] = "writing" /\ outgoing'[c] = State(hub.revision)
      /\ UNCHANGED <<inFlight, received, answered, delivered, effectOf, uiQueue>>
      /\ delivered[c] <= hub.revision /\ hub.revision \in Nat
  BY DEF SendInitial, Write, SrvInv, Types
<1>4. OneMessage(c)' /\ QueuedBefore(c)'
  BY <1>3, Messages DEF SrvInv, ConnOK, OneMessage, QueuedBefore
<1>5. FuturesLocal(c)' /\ Accounted(c)'
  BY <1>3, Messages DEF SrvInv, ConnOK, OneMessage, FuturesLocal, Accounted, Connected, NoRequest
<1>6. ConnOK(c)'
  BY <1>4, <1>5 DEF ConnOK
<1> QED BY <1>1, <1>2, <1>6, OneConnection

\* A message is written: its request is answered, its state was told.
LEMMA WriteDoneSrvInv ==
  ASSUME SrvInv, NEW c \in Conn, WriteDone(c)
  PROVE  /\ SrvInv'
         /\ \E v \in delivered[c] .. hub.revision : delivered' = [delivered EXCEPT ![c] = v]
<1>1. /\ outgoing[c].kind \in {"state", "success", "error"}
      /\ outgoing[c].request \in 0 .. MaxRequests
      /\ outgoing[c].revision \in 0 .. hub.revision
  BY MessageParts DEF WriteDone, SrvInv, Types, ConnOK, OneMessage
<1>2. PICK v \in delivered[c] .. hub.revision : delivered' = [delivered EXCEPT ![c] = v]
  <2>1. delivered[c] \in 0 .. hub.revision /\ hub.revision \in Nat
    BY DEF SrvInv, Types
  <2>2. CASE outgoing[c].kind = "error"
    <3>1. delivered' = [delivered EXCEPT ![c] = delivered[c]]
      BY <2>2 DEF WriteDone
    <3>2. delivered[c] \in delivered[c] .. hub.revision
      BY <2>1
    <3> QED BY <3>1, <3>2
  <2>3. CASE outgoing[c].kind # "error"
    <3>1. delivered' = [delivered EXCEPT ![c] = outgoing[c].revision]
      BY <2>3 DEF WriteDone
    <3>2. outgoing[c].revision \in delivered[c] .. hub.revision
      BY <1>1, <2>1, <2>3 DEF SrvInv, ConnOK, OneMessage
    <3> QED BY <3>1, <3>2
  <2> QED BY <2>2, <2>3
<1>3. /\ phase[c] = "writing" /\ phase'[c] = "loop" /\ outgoing'[c] = Idle
      /\ answered'[c] = answered[c] \cup ({outgoing[c].request} \ {NoRequest})
      /\ UNCHANGED <<inFlight, received, effectOf, uiQueue>>
  BY DEF WriteDone, SrvInv, Types
<1>4. Types'
  <2>1. {outgoing[c].request} \ {NoRequest} \subseteq Request
    BY <1>1 DEF NoRequest, Request
  <2> QED BY <1>2, <2>1, Messages DEF WriteDone, SrvInv, Types
<1>5. \A d \in Conn \ {c} : Untouched(d)
  BY <1>2 DEF WriteDone, SrvInv, Types, Untouched
<1>6. OneMessage(c)' /\ QueuedBefore(c)'
  BY <1>3, Messages DEF SrvInv, ConnOK, OneMessage, QueuedBefore
<1>7. FuturesLocal(c)'
  BY <1>3 DEF SrvInv, ConnOK, FuturesLocal, Connected
<1>9. Accounted(c)'
  <2>1. Accounted(c) /\ phase[c] \in Connected /\ outgoing'[c].request = NoRequest
    BY <1>3, Messages DEF SrvInv, ConnOK, Connected, Idle
  <2>2. NoRequest \notin DOMAIN inFlight[c]
    BY DEF SrvInv, ConnOK, FuturesLocal, NoRequest
  <2>3. NoRequest \notin answered[c]
    BY DEF SrvInv, Types, Request, NoRequest
  <2> QED BY <1>3, <2>1, <2>2, <2>3 DEF Accounted
<1>8. ConnOK(c)'
  BY <1>6, <1>7, <1>9 DEF ConnOK
<1> QED BY <1>2, <1>4, <1>5, <1>8, OneConnection

\* The loop is left: what it polled is dropped.
LEMMA LeaveLoopSrvInv ==
  ASSUME SrvInv, NEW c \in Conn, NEW next \in {"closing", "returned"}, LeaveLoop(c, next)
  PROVE  SrvInv'
<1>1. /\ phase'[c] = next /\ outgoing'[c] = Idle /\ DOMAIN inFlight'[c] = {}
      /\ UNCHANGED <<received, answered, delivered, effectOf, uiQueue>>
  BY NoFlight DEF LeaveLoop, SrvInv, Types
<1>2. Types'
  BY NoFlight, Messages DEF LeaveLoop, SrvInv, Types
<1>3. \A d \in Conn \ {c} : Untouched(d)
  BY DEF LeaveLoop, SrvInv, Types, Untouched
<1>4. OneMessage(c)' /\ QueuedBefore(c)'
  BY <1>1, Messages DEF SrvInv, ConnOK, OneMessage, QueuedBefore
<1>5. FuturesLocal(c)' /\ Accounted(c)'
  BY <1>1 DEF SrvInv, ConnOK, FuturesLocal, Accounted, Connected
<1>6. ConnOK(c)'
  BY <1>4, <1>5 DEF ConnOK
<1> QED BY <1>2, <1>3, <1>6, OneConnection

\* A finished future leaves the set while its answer is written.
LEMMA AnswerCommandSrvInv ==
  ASSUME SrvInv, NEW c \in Conn, AnswerCommand(c)
  PROVE  SrvInv'
<1>1. PICK r \in Finished(c) :
        /\ outgoing' = [outgoing EXCEPT ![c] = Answer(c, r)]
        /\ inFlight' = [inFlight EXCEPT ![c] = Without(inFlight[c], r)]
  BY DEF AnswerCommand, Write, SrvInv, Types
<1>2. /\ inFlight[c] \in Flight /\ r \in DOMAIN inFlight[c] /\ r \in Request
      /\ hub.revision \in Nat
  BY FlightParts DEF Finished, SrvInv, Types
<1>3. /\ phase[c] = "loop" /\ phase'[c] = "writing"
      /\ UNCHANGED <<received, answered, delivered, effectOf, uiQueue>>
  BY DEF AnswerCommand, Write, SrvInv, Types
<1>4. /\ DOMAIN inFlight'[c] = DOMAIN inFlight[c] \ {r}
      /\ \A x \in DOMAIN inFlight[c] \ {r} : inFlight'[c][x] = inFlight[c][x]
  <2>1. inFlight'[c] = Without(inFlight[c], r)
    BY <1>1 DEF SrvInv, Types
  <2>2. /\ DOMAIN Without(inFlight[c], r) = DOMAIN inFlight[c] \ {r}
        /\ \A x \in DOMAIN inFlight[c] \ {r} : Without(inFlight[c], r)[x] = inFlight[c][x]
    BY <1>2, WithoutInFlight
  <2> QED BY <2>1, <2>2
<1>5. \/ outgoing'[c] = Success(r, hub.revision) /\ inFlight[c][r] = "done"
      \/ outgoing'[c] = Failure(r)
  BY <1>1 DEF Answer, SrvInv, Types
<1>6. /\ outgoing'[c] \in Message(hub.revision) /\ outgoing'[c].request = r
      /\ outgoing'[c].kind \in {"success", "error"}
      /\ outgoing'[c].kind = "success" =>
           outgoing'[c].revision = hub.revision /\ inFlight[c][r] = "done"
  BY <1>2, <1>5, Messages DEF Request
<1>7. Types'
  <2>1. inFlight' \in [Conn -> Flight]
    BY <1>1, <1>2, WithoutInFlight DEF SrvInv, Types
  <2>2. outgoing' \in [Conn -> Message(hub.revision)]
    BY <1>1, <1>6 DEF SrvInv, Types
  <2> QED BY <2>1, <2>2 DEF AnswerCommand, Write, SrvInv, Types
<1>8. \A d \in Conn \ {c} : Untouched(d)
  BY <1>1 DEF AnswerCommand, Write, SrvInv, Types, Untouched
<1>9. OneMessage(c)'
  <2>1. delivered[c] <= hub.revision /\ effectOf[c][r] <= hub.revision
    BY <1>2 DEF SrvInv, Types
  <2> QED BY <1>2, <1>3, <1>6, <2>1 DEF OneMessage
<1>10. QueuedBefore(c)'
  BY <1>2, <1>3, <1>4, <1>6 DEF SrvInv, ConnOK, QueuedBefore
<1>11. FuturesLocal(c)'
  BY <1>3, <1>4 DEF SrvInv, ConnOK, FuturesLocal, Connected
<1>12. Accounted(c)'
  <2>1. r # NoRequest
    BY <1>2 DEF NoRequest, Request
  <2> QED BY <1>2, <1>3, <1>4, <1>6, <2>1, Messages
          DEF SrvInv, ConnOK, OneMessage, Accounted, Connected, NoRequest
<1>13. ConnOK(c)'
  BY <1>9, <1>10, <1>11, <1>12 DEF ConnOK
<1> QED BY <1>7, <1>8, <1>13, OneConnection

\* A version of the watch channel is pushed, or passed over when it was told already.
LEMMA PushStateSrvInv ==
  ASSUME SrvInv, NEW c \in Conn, PushState(c)
  PROVE  SrvInv'
<1>1. /\ phase[c] = "loop" /\ hub.revision \in Nat /\ delivered[c] <= hub.revision
      /\ \/ phase'[c] = "writing" /\ outgoing'[c] = State(hub.revision)
         \/ phase'[c] = "loop" /\ outgoing'[c] = outgoing[c]
      /\ UNCHANGED <<inFlight, received, answered, delivered, effectOf, uiQueue>>
  BY DEF PushState, Write, SrvInv, Types
<1>2. Types'
  <2>1. outgoing' \in [Conn -> Message(hub.revision)]
    <3>1. State(hub.revision) \in Message(hub.revision)
      BY <1>1, Messages
    <3>2. \/ outgoing' = outgoing
          \/ outgoing' = [outgoing EXCEPT ![c] = State(hub.revision)]
      BY DEF PushState, Write
    <3> QED BY <3>1, <3>2 DEF SrvInv, Types
  <2>3. seen' \in [Conn -> 0 .. hub.revision]
    BY <1>1 DEF PushState, SrvInv, Types
  <2>4. lastPushed' \in [Conn -> 0 .. hub.revision]
    <3>1. \/ lastPushed' = lastPushed
          \/ lastPushed' = [lastPushed EXCEPT ![c] = hub.revision]
      BY DEF PushState
    <3>2. lastPushed \in [Conn -> 0 .. hub.revision] /\ hub.revision \in 0 .. hub.revision
      BY <1>1 DEF SrvInv, Types
    <3> QED BY <3>1, <3>2
  <2>2. phase' \in [Conn -> {"absent", "subscribed", "writing", "loop", "closing",
                             "returned", "ending", "gone"}]
    BY DEF PushState, Write, SrvInv, Types
  <2> QED BY <2>1, <2>2, <2>3, <2>4 DEF PushState, SrvInv, Types
<1>3. \A d \in Conn \ {c} : Untouched(d)
  BY DEF PushState, Write, SrvInv, Types, Untouched
<1>4. OneMessage(c)' /\ QueuedBefore(c)'
  BY <1>1, Messages DEF SrvInv, ConnOK, OneMessage, QueuedBefore
<1>5. FuturesLocal(c)' /\ Accounted(c)'
  BY <1>1, Messages DEF SrvInv, ConnOK, OneMessage, FuturesLocal, Accounted, Connected, NoRequest
<1>6. ConnOK(c)'
  BY <1>4, <1>5 DEF ConnOK
<1> QED BY <1>2, <1>3, <1>6, OneConnection

\* A request read by the loop is new: its number was never used on the connection.
LEMMA NewRequest ==
  ASSUME SrvInv, NEW c \in Conn, phase[c] = "loop", received[c] < MaxRequests
  PROVE  LET r == received[c] + 1 IN
         /\ r \in Request /\ r # NoRequest
         /\ r \notin DOMAIN inFlight[c] /\ r \notin answered[c] /\ <<c, r>> \notin uiQueue
         /\ 1 .. r = 1 .. received[c] \cup {r}
         /\ outgoing[c] = Idle /\ 1 .. received[c] = DOMAIN inFlight[c] \cup answered[c]
<1> DEFINE r == received[c] + 1
<1>1. received[c] \in 0 .. MaxRequests
  BY DEF SrvInv, Types
<1>2. r \in Request /\ r # NoRequest /\ r \notin 1 .. received[c] /\ NoRequest \notin 1 .. received[c]
  BY <1>1 DEF Request, NoRequest
<1>3. 1 .. r = 1 .. received[c] \cup {r}
  BY <1>1, OneMoreRequest
<1>4. outgoing[c] = Idle /\ Accounted(c) /\ phase[c] \in Connected
  BY DEF SrvInv, ConnOK, OneMessage, Connected
<1>5. NoRequest \notin DOMAIN inFlight[c] /\ NoRequest \notin answered[c]
  BY DEF SrvInv, Types, ConnOK, FuturesLocal, Request, NoRequest
<1>6. 1 .. received[c] = DOMAIN inFlight[c] \cup answered[c]
  BY <1>4, <1>5, Messages DEF Accounted, Idle
<1>7. <<c, r>> \notin uiQueue
  BY <1>1, <1>2 DEF SrvInv, ConnOK, QueuedBefore
<1> QED BY <1>2, <1>3, <1>4, <1>6, <1>7

\* get_state and rejected commands are answered at once, with a message m.
LEMMA AnswerAtOnceSrvInv ==
  ASSUME SrvInv, NEW c \in Conn, ReceiveRequest(c), UNCHANGED <<inFlight, uiQueue>>,
         NEW m \in {Success(received[c] + 1, hub.revision), Failure(received[c] + 1)},
         Write(c, m)
  PROVE  SrvInv'
<1> DEFINE r == received[c] + 1
<1>1. /\ phase[c] = "loop" /\ received[c] < MaxRequests /\ received'[c] = r
      /\ phase'[c] = "writing" /\ outgoing'[c] = m
      /\ UNCHANGED <<inFlight, answered, delivered, effectOf, uiQueue>>
  BY DEF ReceiveRequest, MayRead, Write, SrvInv, Types
<1>2. /\ r \in Request /\ r # NoRequest
      /\ r \notin DOMAIN inFlight[c] /\ r \notin answered[c] /\ <<c, r>> \notin uiQueue
      /\ 1 .. r = 1 .. received[c] \cup {r}
      /\ outgoing[c] = Idle /\ 1 .. received[c] = DOMAIN inFlight[c] \cup answered[c]
  BY <1>1, NewRequest
<1>3. /\ m \in Message(hub.revision) /\ m.request = r /\ m.kind \in {"success", "error"}
      /\ m.kind = "success" => m.revision = hub.revision
  <2>1. hub.revision \in Nat /\ r \in 0 .. MaxRequests
    BY <1>2 DEF SrvInv, Types, Request
  <2> HIDE DEF r
  <2>2. m \in {Success(r, hub.revision), Failure(r)}
    BY DEF r
  <2> QED BY <2>1, <2>2, Messages
<1>4. Types'
  <2>1. outgoing' \in [Conn -> Message(hub.revision)]
    BY <1>3 DEF Write, SrvInv, Types
  <2>2. received' \in [Conn -> 0 .. MaxRequests]
    BY <1>1 DEF ReceiveRequest, SrvInv, Types
  <2> QED BY <2>1, <2>2 DEF ReceiveRequest, Write, SrvInv, Types
<1>5. \A d \in Conn \ {c} : Untouched(d)
  BY DEF ReceiveRequest, Write, SrvInv, Types, Untouched
<1>6. OneMessage(c)'
  <2>1. delivered[c] <= hub.revision /\ effectOf[c][r] <= hub.revision
    BY <1>2 DEF SrvInv, Types
  <2> QED BY <1>1, <1>2, <1>3, <2>1 DEF OneMessage
<1>7. QueuedBefore(c)'
  <2>1. received[c] <= r
    BY DEF SrvInv, Types
  <2>2. QueuedBefore(c) /\ received[c] \in Nat
    BY DEF SrvInv, Types, ConnOK
  <2> HIDE DEF r
  <2> QED BY <1>1, <1>2, <1>3, <2>1, <2>2 DEF QueuedBefore, Request
<1>8. FuturesLocal(c)'
  <2>1. DOMAIN inFlight[c] \subseteq 1 .. r
    BY <1>2
  <2> HIDE DEF r
  <2> QED BY <1>1, <2>1 DEF FuturesLocal, Connected
<1>9. Accounted(c)'
  <2> HIDE DEF r
  <2>1. DOMAIN inFlight[c] \cap answered[c] = {} /\ NoRequest \notin 1 .. received[c]
    BY <1>1 DEF SrvInv, ConnOK, Accounted, Connected, NoRequest
  <2> QED BY <1>1, <1>2, <1>3, <2>1 DEF Accounted
<1>10. ConnOK(c)'
  BY <1>6, <1>7, <1>8, <1>9 DEF ConnOK
<1> QED BY <1>4, <1>5, <1>10, OneConnection

\* An undecodable frame is answered by an error to no request.
LEMMA RejectFrameSrvInv ==
  ASSUME SrvInv, NEW c \in Conn, RejectFrame(c)
  PROVE  SrvInv'
<1>1. /\ phase[c] = "loop" /\ phase'[c] = "writing" /\ outgoing'[c] = Failure(NoRequest)
      /\ UNCHANGED <<inFlight, received, answered, delivered, effectOf, uiQueue>>
  BY DEF RejectFrame, MayRead, Write, SrvInv, Types
<1>2. /\ Failure(NoRequest) \in Message(hub.revision) /\ Failure(NoRequest).request = NoRequest
      /\ Failure(NoRequest).kind = "error"
  BY DEF SrvInv, Types, Message, Failure, NoRequest
<1>3. Types'
  BY <1>2 DEF RejectFrame, Write, SrvInv, Types
<1>4. \A d \in Conn \ {c} : Untouched(d)
  BY DEF RejectFrame, Write, SrvInv, Types, Untouched
<1>5. OneMessage(c)' /\ QueuedBefore(c)'
  BY <1>1, <1>2 DEF SrvInv, ConnOK, OneMessage, QueuedBefore
<1>6. FuturesLocal(c)'
  BY <1>1 DEF SrvInv, ConnOK, FuturesLocal, Connected
<1>7. Accounted(c)'
  <2>1. outgoing[c] = Idle /\ Idle.request = NoRequest
    BY <1>1 DEF SrvInv, ConnOK, OneMessage, Idle
  <2> QED BY <1>1, <1>2, <2>1 DEF SrvInv, ConnOK, Accounted, Connected
<1>8. ConnOK(c)'
  BY <1>5, <1>6, <1>7 DEF ConnOK
<1> QED BY <1>3, <1>4, <1>8, OneConnection

\* A command is queued, or refused by a full queue; its future is new.
LEMMA StartCommandSrvInv ==
  ASSUME SrvInv, NEW c \in Conn, StartCommand(c)
  PROVE  SrvInv'
<1> DEFINE r == received[c] + 1
<1>1. PICK result \in {"waiting", "failed"} :
        /\ Enqueue(c, r, result)
        /\ inFlight' = [inFlight EXCEPT ![c] =
             [x \in DOMAIN inFlight[c] \cup {r} |-> IF x = r THEN result ELSE inFlight[c][x]]]
  BY DEF StartCommand, SrvInv, Types
<1>2. /\ phase[c] = "loop" /\ received[c] < MaxRequests /\ received'[c] = r
      /\ UNCHANGED <<phase, outgoing, answered, delivered, effectOf>>
  BY DEF StartCommand, ReceiveRequest, MayRead, SrvInv, Types
<1>3. /\ r \in Request /\ r # NoRequest
      /\ r \notin DOMAIN inFlight[c] /\ r \notin answered[c] /\ <<c, r>> \notin uiQueue
      /\ 1 .. r = 1 .. received[c] \cup {r}
      /\ outgoing[c] = Idle /\ 1 .. received[c] = DOMAIN inFlight[c] \cup answered[c]
  BY <1>2, NewRequest
<1>4. uiQueue' \in {uiQueue, uiQueue \cup {<<c, r>>}}
  BY <1>1 DEF Enqueue
<1>5. received[c] \in Nat /\ received[c] <= r
  BY DEF SrvInv, Types
<1>6. \A d \in Conn \ {c} : Untouched(d)
  BY <1>1, <1>4 DEF StartCommand, ReceiveRequest, SrvInv, Types, Untouched
<1>7. received' \in [Conn -> 0 .. MaxRequests]
  BY <1>2 DEF StartCommand, ReceiveRequest, SrvInv, Types
<1> HIDE DEF r
<1>8. /\ inFlight[c] \in Flight /\ DOMAIN inFlight[c] \subseteq Request
      /\ \A x \in DOMAIN inFlight[c] : inFlight[c][x] \in Status
  BY FlightParts DEF SrvInv, Types
<1>9. /\ inFlight'[c] \in Flight /\ DOMAIN inFlight'[c] = DOMAIN inFlight[c] \cup {r}
      /\ \A x \in DOMAIN inFlight[c] : inFlight'[c][x] = inFlight[c][x]
      /\ inFlight'[c][r] \in {"waiting", "failed"}
  <2>1. inFlight'[c] =
          [x \in DOMAIN inFlight[c] \cup {r} |-> IF x = r THEN result ELSE inFlight[c][x]]
    BY <1>1 DEF SrvInv, Types
  <2>2. inFlight'[c] \in [DOMAIN inFlight[c] \cup {r} -> Status]
    BY <1>8, <2>1 DEF Status
  <2>3. DOMAIN inFlight[c] \cup {r} \in SUBSET Request
    BY <1>3, <1>8
  <2>4. inFlight'[c] \in Flight
    BY <2>2, <2>3, FlightMade
  <2> QED BY <1>3, <2>1, <2>4
<1>10. Types'
  <2>1. inFlight' \in [Conn -> Flight]
    BY <1>1, <1>9 DEF SrvInv, Types
  <2>2. uiQueue' \subseteq (Conn \X (Request \cup {Cleanup}))
    BY <1>3, <1>4 DEF SrvInv, Types
  <2> QED BY <1>2, <1>7, <2>1, <2>2 DEF StartCommand, ReceiveRequest, SrvInv, Types
<1>11. OneMessage(c)'
  BY <1>2 DEF SrvInv, ConnOK, OneMessage
<1>12. QueuedBefore(c)'
  <2>1. outgoing'[c].kind = "none"
    BY <1>2, <1>3 DEF Idle
  <2> SUFFICES ASSUME NEW x \in Request, <<c, x>> \in uiQueue'
               PROVE  /\ x <= received'[c]
                      /\ x \in DOMAIN inFlight'[c] => inFlight'[c][x] # "done"
    BY <2>1 DEF QueuedBefore
  <2>2. CASE x = r
    BY <1>2, <1>5, <1>9, <2>2 DEF Request
  <2>3. CASE x # r
    <3>1. <<c, x>> \in uiQueue
      BY <1>4, <2>3
    <3>2. x <= received[c] /\ (x \in DOMAIN inFlight[c] => inFlight[c][x] # "done")
      BY <3>1 DEF SrvInv, ConnOK, QueuedBefore
    <3>3. x <= r
      BY <1>5, <3>2 DEF Request, r
    <3> QED BY <1>2, <1>9, <2>3, <3>2, <3>3
  <2> QED BY <2>2, <2>3
<1>13. FuturesLocal(c)'
  BY <1>2, <1>3, <1>9 DEF FuturesLocal, Connected
<1>14. Accounted(c)'
  <2>1. DOMAIN inFlight[c] \cap answered[c] = {} /\ NoRequest \notin 1 .. received[c]
    BY <1>2 DEF SrvInv, ConnOK, Accounted, Connected, NoRequest
  <2>2. outgoing'[c].request = NoRequest
    BY <1>2, <1>3 DEF Idle
  <2> QED BY <1>2, <1>3, <1>9, <2>1, <2>2 DEF Accounted
<1>15. ConnOK(c)'
  BY <1>11, <1>12, <1>13, <1>14 DEF ConnOK
<1> QED BY <1>6, <1>10, <1>15, OneConnection

\* A future gives up: its command stays in the queue.
LEMMA CommandTimesOutSrvInv ==
  ASSUME SrvInv, NEW c \in Conn, CommandTimesOut(c)
  PROVE  SrvInv'
<1>1. PICK r \in DOMAIN inFlight[c] : inFlight' = [inFlight EXCEPT ![c][r] = "failed"]
  BY DEF CommandTimesOut
<1>2. /\ inFlight[c] \in Flight /\ DOMAIN inFlight[c] \subseteq Request
      /\ inFlight[c] \in [DOMAIN inFlight[c] -> Status]
  BY FlightParts DEF SrvInv, Types
<1>3. inFlight'[c] = [inFlight[c] EXCEPT ![r] = "failed"]
  BY <1>1 DEF SrvInv, Types
<1>4. /\ inFlight'[c] \in Flight /\ DOMAIN inFlight'[c] = DOMAIN inFlight[c]
      /\ \A x \in DOMAIN inFlight[c] : inFlight'[c][x] \in {inFlight[c][x], "failed"}
  <2>1. "failed" \in Status
    BY DEF Status
  <2>2. inFlight'[c] \in [DOMAIN inFlight[c] -> Status]
    BY <1>2, <1>3, <2>1
  <2> QED BY <1>2, <1>3, <2>2, FlightMade
<1>5. inFlight' \in [Conn -> Flight]
  BY <1>1, <1>3, <1>4 DEF SrvInv, Types
<1>6. Types'
  BY <1>5 DEF CommandTimesOut, SrvInv, Types
<1>7. \A d \in Conn \ {c} : Untouched(d)
  BY <1>1 DEF CommandTimesOut, SrvInv, Types, Untouched
<1>8. UNCHANGED <<phase, outgoing, received, answered, delivered, effectOf, uiQueue>>
  BY DEF CommandTimesOut
<1>9. OneMessage(c)'
  BY <1>8 DEF SrvInv, ConnOK, OneMessage
<1>10. QueuedBefore(c)'
  BY <1>4, <1>8 DEF SrvInv, ConnOK, QueuedBefore
<1>11. FuturesLocal(c)' /\ Accounted(c)'
  BY <1>4, <1>8 DEF SrvInv, ConnOK, FuturesLocal, Accounted
<1>12. ConnOK(c)'
  BY <1>9, <1>10, <1>11 DEF ConnOK
<1> QED BY <1>6, <1>7, <1>12, OneConnection

\* The end of the session is queued and awaited: no request of the client.
LEMMA EndSessionSrvInv ==
  ASSUME SrvInv, NEW c \in Conn, EndSession(c) \/ EndSessionOver(c)
  PROVE  SrvInv'
<1>1. /\ phase[c] \in {"returned", "ending"} /\ phase'[c] \in {"ending", "gone"}
      /\ phase' = [phase EXCEPT ![c] = phase'[c]]
      /\ UNCHANGED <<outgoing, inFlight, received, answered, delivered, effectOf>>
  BY DEF EndSession, EndSessionOver, connVars, SrvInv, Types
<1>2. uiQueue' \in {uiQueue, uiQueue \cup {<<c, Cleanup>>}}
  BY DEF EndSession, EndSessionOver, Enqueue
<1>3. Cleanup \notin Request
  BY DEF Cleanup, Request
<1>4. \A d \in Conn, r \in Request : <<d, r>> \in uiQueue' => <<d, r>> \in uiQueue
  BY <1>2, <1>3
<1>5. Types'
  <2>1. uiQueue' \subseteq (Conn \X (Request \cup {Cleanup}))
    BY <1>2 DEF SrvInv, Types
  <2>2. phase' \in [Conn -> {"absent", "subscribed", "writing", "loop", "closing",
                             "returned", "ending", "gone"}]
    BY <1>1 DEF SrvInv, Types
  <2> QED BY <2>1, <2>2 DEF EndSession, EndSessionOver, connVars, SrvInv, Types
<1>6. \A d \in Conn \ {c} : Untouched(d)
  BY <1>1, <1>4 DEF SrvInv, Types, Untouched
<1>7. OneMessage(c)' /\ QueuedBefore(c)'
  BY <1>1, <1>4 DEF SrvInv, ConnOK, OneMessage, QueuedBefore
<1>8. FuturesLocal(c)' /\ Accounted(c)'
  BY <1>1 DEF SrvInv, ConnOK, FuturesLocal, Accounted, Connected
<1>9. ConnOK(c)'
  BY <1>7, <1>8 DEF ConnOK
<1> QED BY <1>5, <1>6, <1>9, OneConnection

LEMMA ConnStepSrvInv ==
  ASSUME SrvInv, NEW c \in Conn, ConnStep(c)
  PROVE  SrvInv'
<1>1. CASE WriteFails(c) \/ CloseForShutdown(c) \/ CloseEnds(c) \/ PeerLeaves(c)
  BY <1>1, LeaveLoopSrvInv DEF WriteFails, CloseForShutdown, CloseEnds, PeerLeaves
<1>2. CASE GetState(c)
  BY <1>2, AnswerAtOnceSrvInv DEF GetState
<1>3. CASE RejectCommand(c)
  BY <1>3, AnswerAtOnceSrvInv DEF RejectCommand
<1> QED BY <1>1, <1>2, <1>3, SubscribeSrvInv, SendInitialSrvInv, WriteDoneSrvInv,
           AnswerCommandSrvInv, PushStateSrvInv, RejectFrameSrvInv, StartCommandSrvInv,
           CommandTimesOutSrvInv, EndSessionSrvInv DEF ConnStep

-----------------------------------------------------------------------------
(* The tray thread and the server thread *)

\* What depends on the revision stays typed when the revision grows.
LEMMA LaterRevision ==
  ASSUME SrvInv, hub' \in [revision : 0 .. MaxRevision, data : StateData],
         hub.revision <= hub'.revision
  PROVE  /\ seen \in [Conn -> 0 .. hub'.revision] /\ lastPushed \in [Conn -> 0 .. hub'.revision]
         /\ delivered \in [Conn -> 0 .. hub'.revision]
         /\ outgoing \in [Conn -> Message(hub'.revision)]
         /\ effectOf \in [Conn -> [Request -> 0 .. hub'.revision]]
<1>1. hub.revision \in Nat /\ hub'.revision \in Nat
  BY DEF SrvInv, Types
<1>2. 0 .. hub.revision \subseteq 0 .. hub'.revision
  BY <1>1
<1>3. Message(hub.revision) \subseteq Message(hub'.revision)
  BY <1>1, MessageParts
<1>4. /\ seen \in [Conn -> 0 .. hub'.revision] /\ lastPushed \in [Conn -> 0 .. hub'.revision]
      /\ delivered \in [Conn -> 0 .. hub'.revision]
  BY <1>2 DEF SrvInv, Types
<1>5. outgoing \in [Conn -> Message(hub'.revision)]
  BY <1>3 DEF SrvInv, Types
<1>6. effectOf \in [Conn -> [Request -> 0 .. hub'.revision]]
  BY <1>2 DEF SrvInv, Types
<1> QED BY <1>4, <1>5, <1>6

LEMMA PublishStateSrvInv ==
  ASSUME SrvInv, NEW d \in StateData, PublishState(d)
  PROVE  SrvInv' /\ hub'.revision \in {hub.revision, hub.revision + 1} /\ UNCHANGED delivered
<1>1. /\ hub' \in [revision : 0 .. MaxRevision, data : StateData]
      /\ hub'.revision \in {hub.revision, hub.revision + 1} /\ hub.revision \in Nat
  BY PublishedNext DEF PublishState, SrvInv, Types
<1>2. UNCHANGED <<phase, seen, lastPushed, outgoing, inFlight, received, answered, delivered,
                  uiQueue, effectOf, serverThread, uiThread>>
  BY DEF PublishState, connVars
<1>3. Types'
  <2>1. hub.revision <= hub'.revision
    BY <1>1
  <2>2. /\ seen' \in [Conn -> 0 .. hub'.revision] /\ lastPushed' \in [Conn -> 0 .. hub'.revision]
        /\ delivered' \in [Conn -> 0 .. hub'.revision]
        /\ outgoing' \in [Conn -> Message(hub'.revision)]
        /\ effectOf' \in [Conn -> [Request -> 0 .. hub'.revision]]
    BY <1>1, <1>2, <2>1, LaterRevision
  <2> QED BY <1>1, <1>2, <2>2 DEF SrvInv, Types
<1>4. \A c \in Conn : Untouched(c)
  BY <1>2 DEF Untouched
<1> QED BY <1>1, <1>2, <1>3, <1>4, AllUntouched

\* The tray thread runs a command: its future is done and its effect is in the hub
\* before anybody can answer it.
LEMMA ExecuteCommandSrvInv ==
  ASSUME SrvInv, NEW c \in Conn, NEW r \in Request \cup {Cleanup}, NEW d \in StateData,
         ExecuteCommand(c, r, d)
  PROVE  SrvInv' /\ hub'.revision \in {hub.revision, hub.revision + 1} /\ UNCHANGED delivered
<1>1. /\ hub' \in [revision : 0 .. MaxRevision, data : StateData]
      /\ hub'.revision \in {hub.revision, hub.revision + 1} /\ hub.revision \in Nat
      /\ hub' = Published(d)
  BY PublishedNext DEF ExecuteCommand, SrvInv, Types
<1>2. /\ <<c, r>> \in uiQueue /\ uiQueue' = uiQueue \ {<<c, r>>}
      /\ UNCHANGED <<phase, seen, lastPushed, outgoing, received, answered, delivered,
                     serverThread, uiThread>>
  BY DEF ExecuteCommand
<1>3. /\ seen \in [Conn -> 0 .. hub'.revision] /\ lastPushed \in [Conn -> 0 .. hub'.revision]
      /\ delivered \in [Conn -> 0 .. hub'.revision]
      /\ outgoing \in [Conn -> Message(hub'.revision)]
      /\ effectOf \in [Conn -> [Request -> 0 .. hub'.revision]]
  <2>1. hub.revision <= hub'.revision
    BY <1>1
  <2> QED BY <1>1, <2>1, LaterRevision
<1>4. /\ effectOf' \in [Conn -> [Request -> 0 .. hub'.revision]]
      /\ \A b \in Conn, x \in Request : <<b, x>> # <<c, r>> => effectOf'[b][x] = effectOf[b][x]
      /\ \A b \in Conn \ {c} : effectOf'[b] = effectOf[b]
  <2>1. CASE r = Cleanup
    BY <1>3, <2>1 DEF ExecuteCommand
  <2>2. CASE r # Cleanup
    <3>1. effectOf' = [effectOf EXCEPT ![c][r] = hub'.revision] /\ r \in Request
      BY <1>1, <2>2 DEF ExecuteCommand
    <3>2. hub'.revision \in 0 .. hub'.revision
      BY <1>1
    <3> QED BY <1>3, <3>1, <3>2
  <2> QED BY <2>1, <2>2
<1>5. /\ inFlight' \in [Conn -> Flight]
      /\ DOMAIN inFlight'[c] = DOMAIN inFlight[c]
      /\ \A x \in DOMAIN inFlight[c] \ {r} : inFlight'[c][x] = inFlight[c][x]
      /\ \A b \in Conn \ {c} : inFlight'[b] = inFlight[b]
  <2>1. inFlight \in [Conn -> Flight] /\ inFlight[c] \in Flight
    BY DEF SrvInv, Types
  <2>2. CASE r \in DOMAIN inFlight[c] /\ inFlight[c][r] = "waiting"
    <3>1. PICK result \in {"done", "failed"} :
            inFlight' = [inFlight EXCEPT ![c] = [inFlight[c] EXCEPT ![r] = result]]
      BY <2>2 DEF ExecuteCommand
    <3>2. result \in Status
      BY DEF Status
    <3>3. /\ inFlight[c] \in [DOMAIN inFlight[c] -> Status]
          /\ DOMAIN inFlight[c] \in SUBSET Request
      BY <2>1, FlightParts
    <3>4. [inFlight[c] EXCEPT ![r] = result] \in [DOMAIN inFlight[c] -> Status]
      BY <2>2, <3>2, <3>3
    <3>5. [inFlight[c] EXCEPT ![r] = result] \in Flight
      BY <3>3, <3>4, FlightMade
    <3> QED BY <2>1, <3>1, <3>3, <3>5
  <2>3. CASE ~(r \in DOMAIN inFlight[c] /\ inFlight[c][r] = "waiting")
    BY <2>1, <2>3 DEF ExecuteCommand
  <2> QED BY <2>2, <2>3
<1>6. Types'
  <2>1. uiQueue' \subseteq (Conn \X (Request \cup {Cleanup}))
    BY <1>2 DEF SrvInv, Types
  <2> QED BY <1>1, <1>2, <1>3, <1>4, <1>5, <2>1 DEF SrvInv, Types
<1>7. \A b \in Conn \ {c} : Untouched(b)
  BY <1>2, <1>4, <1>5 DEF Untouched
<1>8. OneMessage(c)'
  <2>1. OneMessage(c)
    BY DEF SrvInv, ConnOK
  <2>2. outgoing[c].kind = "success" => outgoing[c].request \in Request \ {r}
    BY <1>2, <2>1 DEF SrvInv, ConnOK, OneMessage, QueuedBefore
  <2>3. outgoing[c].kind = "success" =>
          effectOf'[c][outgoing[c].request] = effectOf[c][outgoing[c].request]
    BY <1>4, <2>2
  <2> QED BY <1>2, <2>1, <2>2, <2>3 DEF OneMessage
<1>9. QueuedBefore(c)'
  <2> SUFFICES ASSUME NEW x \in Request, <<c, x>> \in uiQueue'
               PROVE  /\ x <= received[c]
                      /\ x \in DOMAIN inFlight[c] => inFlight'[c][x] # "done"
                      /\ ~(outgoing[c].kind = "success" /\ outgoing[c].request = x)
    BY <1>2, <1>5 DEF QueuedBefore
  <2>1. x # r /\ <<c, x>> \in uiQueue
    BY <1>2
  <2> QED BY <1>5, <2>1 DEF SrvInv, ConnOK, QueuedBefore
<1>10. FuturesLocal(c)' /\ Accounted(c)'
  BY <1>2, <1>5 DEF SrvInv, ConnOK, FuturesLocal, Accounted
<1>11. ConnOK(c)'
  BY <1>8, <1>9, <1>10 DEF ConnOK
<1>12. SrvInv'
  BY <1>6, <1>7, <1>11, OneConnection
<1> QED BY <1>1, <1>2, <1>12

\* Starting and stopping move no connection.
ThreadStep ==
  \/ Started \/ StartReported \/ StartTimesOut \/ Abandoned
  \/ Quit \/ Joined \/ StopAccepting \/ HandlersDrained

LEMMA ThreadStepSrvInv ==
  ASSUME SrvInv, ThreadStep
  PROVE  SrvInv' /\ UNCHANGED <<hub, delivered>>
<1>1. /\ UNCHANGED <<hub, phase, seen, lastPushed, outgoing, inFlight, received, answered,
                     delivered, effectOf>>
      /\ uiQueue' \in {uiQueue, {}}
  BY DEF ThreadStep, Started, StartReported, StartTimesOut, Abandoned, Quit, Joined,
         StopAccepting, HandlersDrained, connVars
<1>2. /\ serverThread' \in {"starting", "running", "draining", "done"}
      /\ uiThread' \in {"starting", "abandoning", "looping", "joining", "stopped"}
  BY DEF SrvInv, Types, ThreadStep, Started, StartReported, StartTimesOut, Abandoned, Quit,
         Joined, StopAccepting, HandlersDrained
<1>3. Types'
  BY <1>1, <1>2 DEF SrvInv, Types
<1>4. \A c \in Conn : Untouched(c)
  BY <1>1 DEF Untouched
<1> QED BY <1>1, <1>3, <1>4, AllUntouched

\* The tasks that are left are aborted with what they polled and wrote.
LEMMA AbortAllSrvInv ==
  ASSUME SrvInv, AbortAll
  PROVE  SrvInv' /\ UNCHANGED <<hub, delivered>>
<1>1. /\ UNCHANGED <<hub, seen, lastPushed, received, answered, delivered, uiQueue, effectOf,
                     uiThread>>
      /\ phase' = [c \in Conn |-> IF phase[c] = "absent" THEN "absent" ELSE "gone"]
      /\ inFlight' = [c \in Conn |-> [r \in {} |-> "waiting"]]
      /\ outgoing' = [c \in Conn |-> Idle] /\ serverThread' = "done"
  BY DEF AbortAll
<1>2. /\ inFlight' \in [Conn -> Flight] /\ \A c \in Conn : DOMAIN inFlight'[c] = {}
  BY <1>1, NoFlight
<1>3. Types'
  <2>1. outgoing' \in [Conn -> Message(hub.revision)]
    BY <1>1, Messages DEF SrvInv, Types
  <2> QED BY <1>1, <1>2, <2>1 DEF SrvInv, Types
<1>4. ASSUME NEW c \in Conn PROVE ConnOK(c)'
  <2>1. /\ outgoing'[c] = Idle /\ DOMAIN inFlight'[c] = {}
        /\ phase'[c] \in {"absent", "gone"} /\ (phase'[c] = "absent" => phase[c] = "absent")
    BY <1>1, <1>2
  <2>2. OneMessage(c)' /\ QueuedBefore(c)'
    BY <1>1, <2>1, Messages DEF SrvInv, ConnOK, OneMessage, QueuedBefore, Idle
  <2>3. FuturesLocal(c)' /\ Accounted(c)'
    BY <1>1, <2>1 DEF SrvInv, ConnOK, FuturesLocal, Accounted, Connected
  <2> QED BY <2>2, <2>3 DEF ConnOK
<1> QED BY <1>1, <1>3, <1>4 DEF SrvInv

LEMMA NextSrvInv == SrvInv /\ [SrvNext]_srvVars => SrvInv'
<1> SUFFICES ASSUME SrvInv, [SrvNext]_srvVars PROVE SrvInv'
  OBVIOUS
<1>1. CASE \E c \in Conn : ConnStep(c)
  BY <1>1, ConnStepSrvInv
<1>2. CASE \E d \in StateData : PublishState(d)
  BY <1>2, PublishStateSrvInv
<1>3. CASE \E c \in Conn, r \in Request \cup {Cleanup}, d \in StateData : ExecuteCommand(c, r, d)
  BY <1>3, ExecuteCommandSrvInv
<1>4. CASE ThreadStep
  BY <1>4, ThreadStepSrvInv
<1>5. CASE AbortAll
  BY <1>5, AbortAllSrvInv
<1>6. CASE UNCHANGED srvVars
  <2>1. Types' /\ \A c \in Conn : Untouched(c)
    BY <1>6 DEF srvVars, SrvInv, Types, Untouched
  <2> QED BY <2>1, AllUntouched
<1> QED BY <1>1, <1>2, <1>3, <1>4, <1>5, <1>6 DEF SrvNext, ThreadStep

-----------------------------------------------------------------------------
(* The refinement of StateFeed *)

LEMMA FeedInitial == SrvInit => Feed!FeedInit
<1> SUFFICES ASSUME SrvInit PROVE hub.revision = 0 /\ delivered = [c \in Conn |-> 0]
  BY DEF Feed!FeedInit
<1> QED BY DEF SrvInit

\* Only the end of a write tells a connection something, and only publications
\* move the register.
LEMMA ConnStepFeed ==
  ASSUME SrvInv, NEW c \in Conn, ConnStep(c)
  PROVE  [Feed!FeedNext]_(Feed!feedVars)
<1>1. UNCHANGED hub
  BY DEF ConnStep, Subscribe, SendInitial, WriteDone, WriteFails, CloseForShutdown, CloseEnds,
         AnswerCommand, PushState, GetState, RejectCommand, RejectFrame, StartCommand,
         PeerLeaves, CommandTimesOut, EndSession, EndSessionOver, LeaveLoop, ReceiveRequest
<1>2. CASE WriteDone(c)
  <2>1. \E v \in delivered[c] .. hub.revision : delivered' = [delivered EXCEPT ![c] = v]
    BY <1>2, WriteDoneSrvInv
  <2> QED BY <1>1, <2>1 DEF Feed!FeedNext, Feed!Tell
<1>3. CASE ~WriteDone(c)
  <2>1. UNCHANGED delivered
    BY <1>3 DEF ConnStep, Subscribe, SendInitial, WriteFails, CloseForShutdown, CloseEnds,
         AnswerCommand, PushState, GetState, RejectCommand, RejectFrame, StartCommand,
         PeerLeaves, CommandTimesOut, EndSession, EndSessionOver, LeaveLoop, ReceiveRequest,
         connVars
  <2> QED BY <1>1, <2>1 DEF Feed!feedVars
<1> QED BY <1>2, <1>3

LEMMA FeedStep == SrvInv /\ [SrvNext]_srvVars => [Feed!FeedNext]_(Feed!feedVars)
<1> SUFFICES ASSUME SrvInv, [SrvNext]_srvVars PROVE [Feed!FeedNext]_(Feed!feedVars)
  OBVIOUS
<1>1. CASE \E c \in Conn : ConnStep(c)
  BY <1>1, ConnStepFeed
<1>2. CASE \/ \E d \in StateData : PublishState(d)
           \/ \E c \in Conn, r \in Request \cup {Cleanup}, d \in StateData :
                ExecuteCommand(c, r, d)
  <2>1. hub'.revision \in {hub.revision, hub.revision + 1} /\ UNCHANGED delivered
    BY <1>2, PublishStateSrvInv, ExecuteCommandSrvInv
  <2> QED BY <2>1 DEF Feed!FeedNext, Feed!Advance, Feed!feedVars
<1>3. CASE ThreadStep \/ AbortAll
  BY <1>3, ThreadStepSrvInv, AbortAllSrvInv DEF Feed!feedVars
<1>4. CASE UNCHANGED srvVars
  BY <1>4 DEF srvVars, Feed!feedVars
<1> QED BY <1>1, <1>2, <1>3, <1>4 DEF SrvNext, ThreadStep

-----------------------------------------------------------------------------

\* However requests, pushes, timeouts and the shutdown interleave: no request is
\* answered twice or forgotten while its connection lives, and a success tells a
\* state that includes what its command did.
THEOREM ServerSound == SrvSpec => []SrvSound
<1> QED BY InitSrvInv, NextSrvInv, SrvInvSound, PTL DEF SrvSpec

\* What a connection is told never goes back and never runs ahead of the hub: the
\* server is a StateFeed.
THEOREM ServerImplementsFeed == SrvSpec => FeedImplemented
<1> QED BY InitSrvInv, NextSrvInv, FeedInitial, FeedStep, PTL
        DEF SrvSpec, FeedImplemented, Feed!FeedSpec

HIDE ControlServerBounds

-----------------------------------------------------------------------------
(***************************************************************************)
(* Pairing.                                                                *)
(*                                                                         *)
(* A pairing code opens at most one credential, counts its own wrong       *)
(* guesses only and fewer of them than the limit, and opens nothing once   *)
(* it was cancelled, replaced or has expired, for any number of devices,   *)
(* connections and codes.  The argument: ids are never used twice, so the  *)
(* counters of a code not yet opened are zero, and the open session's own  *)
(* counter is the one kept with its id.                                    *)
(***************************************************************************)
Code == 1 .. MaxSessions

Counted == given \in [Code -> Nat] /\ guesses \in [Code -> Nat]

\* A new code can be asked for only while none is shown, and there is an id for it.
RoomForCode == asked => nextId < MaxSessions /\ shown = 0

\* A cancellation is posted at most once for each code that was shown.
PostedOnce == posted + (IF shown # 0 THEN 1 ELSE 0) <= nextId

\* The open session is one that was opened, and has neither been cancelled nor replaced.
SessionOpened ==
  /\ session.id <= nextId
  /\ session.id = 0 => session = NoSession
  /\ session.id \notin voided

\* Nothing was counted for codes to come.
FreshCodes == \A i \in Code : i > nextId => given[i] = 0 /\ guesses[i] = 0

PairInv ==
  /\ PairTypeOK /\ Counted /\ RoomForCode /\ PostedOnce /\ SessionOpened /\ FreshCodes
  /\ CodesUsedUp /\ GuessesChargedRight

USE PairingBounds

-----------------------------------------------------------------------------

LEMMA InitPairInv == PairInit => PairInv
<1> SUFFICES ASSUME PairInit PROVE PairInv
  OBVIOUS
<1>1. /\ session \in [id : 0 .. MaxSessions, failed : 0 .. MaxAttempts]
      /\ nextId \in 0 .. MaxSessions
      /\ posted \in 0 .. MaxSessions /\ shown \in 0 .. nextId
  BY DEF PairInit, NoSession
<1>2. /\ link \in [Device -> {"none", "waiting"}] /\ upgradedFor \in [Device -> 0 .. nextId]
      /\ tries \in [Device -> 0 .. MaxTries]
  BY DEF PairInit
<1>8. asked \in BOOLEAN
  BY DEF PairInit
<1>3. /\ admitted \subseteq knows /\ knows \subseteq Device
      /\ voided \cup lapsed \subseteq 1 .. nextId
  BY DEF PairInit
<1>4. Counted
  BY DEF PairInit, Counted, Code
<1>5. PairTypeOK
  BY <1>1, <1>2, <1>3, <1>8 DEF PairTypeOK
<1>6. RoomForCode /\ PostedOnce /\ SessionOpened
  BY DEF PairInit, RoomForCode, PostedOnce, SessionOpened, NoSession
<1>7. FreshCodes /\ CodesUsedUp /\ GuessesChargedRight
  BY DEF PairInit, FreshCodes, CodesUsedUp, GuessesChargedRight, NoSession, Code
<1> QED BY <1>4, <1>5, <1>6, <1>7 DEF PairInv

\* An expired session counts as closed wherever the session is looked at.
LEMMA LiveSession ==
  ASSUME PairInv
  PROVE  /\ Live \in {session, NoSession}
         /\ Live # NoSession => /\ Live = session /\ session.id \in 1 .. nextId
                                /\ session.id \in Code
                                /\ session.id \notin voided \cup lapsed
BY DEF Live, PairInv, PairTypeOK, SessionOpened, NoSession, Code

\* Closing the session and counting nothing keeps everything.
LEMMA SessionKeptOrClosed ==
  ASSUME PairInv, session' \in {session, NoSession},
         UNCHANGED <<nextId, asked, posted, shown, voided, lapsed, given, guesses>>,
         link' \in [Device -> {"none", "waiting"}],
         upgradedFor' \in [Device -> 0 .. nextId],
         tries' \in [Device -> 0 .. MaxTries],
         admitted' \subseteq knows', knows' \subseteq Device
  PROVE  PairInv'
<1>1. session' = session \/ session' = NoSession
  OBVIOUS
<1>2. PairTypeOK'
  BY <1>1 DEF PairInv, PairTypeOK, NoSession
<1>3. (Counted /\ RoomForCode /\ PostedOnce /\ FreshCodes)'
  BY DEF PairInv, Counted, RoomForCode, PostedOnce, FreshCodes
<1>4. SessionOpened'
  BY <1>1 DEF PairInv, PairTypeOK, SessionOpened, NoSession
<1>5. (CodesUsedUp /\ GuessesChargedRight)'
  BY <1>1 DEF PairInv, CodesUsedUp, GuessesChargedRight, NoSession, Code
<1> QED BY <1>2, <1>3, <1>4, <1>5 DEF PairInv

\* begin_until() takes an id that was never used.
LEMMA OpenSessionKeeps ==
  ASSUME PairInv, OpenSession, nextId < MaxSessions, asked' = FALSE, posted' = posted,
         shown' = nextId + 1 \/ shown' = shown, shown = 0,
         UNCHANGED <<deviceVars, given, guesses, lapsed>>
  PROVE  PairInv'
<1>1. /\ nextId \in Nat /\ nextId' = nextId + 1 /\ nextId + 1 \in Code
      /\ session' = [id |-> nextId + 1, failed |-> 0]
      /\ session'.id = nextId + 1 /\ session'.failed = 0
      /\ given[nextId + 1] = 0 /\ guesses[nextId + 1] = 0
  BY DEF PairInv, PairTypeOK, FreshCodes, OpenSession, Code
<1>2. PairTypeOK'
  <2>1. upgradedFor' \in [Device -> 0 .. nextId']
    BY <1>1 DEF PairInv, PairTypeOK, deviceVars
  <2>2. session' \in [id : 0 .. MaxSessions, failed : 0 .. MaxAttempts]
        /\ nextId' \in 0 .. MaxSessions
    BY <1>1 DEF PairInv, PairTypeOK
  <2>3. shown' \in 0 .. nextId' /\ voided' \cup lapsed' \subseteq 1 .. nextId'
    BY <1>1 DEF PairInv, PairTypeOK, OpenSession
  <2> QED BY <1>1, <2>1, <2>2, <2>3 DEF PairInv, PairTypeOK, deviceVars
<1>3. (Counted /\ RoomForCode /\ FreshCodes)'
  BY <1>1 DEF PairInv, PairTypeOK, Counted, RoomForCode, FreshCodes, Code
<1>4. PostedOnce'
  BY <1>1 DEF PairInv, PairTypeOK, PostedOnce
<1>5. SessionOpened'
  BY <1>1 DEF PairInv, PairTypeOK, SessionOpened, NoSession, OpenSession
<1>6. (CodesUsedUp /\ GuessesChargedRight)'
  BY <1>1 DEF PairInv, CodesUsedUp, GuessesChargedRight, NoSession, Code
<1> QED BY <1>2, <1>3, <1>4, <1>5, <1>6 DEF PairInv

-----------------------------------------------------------------------------
(* The settings window and the tray thread *)

LEMMA WindowPairInv ==
  ASSUME PairInv, AskForCode \/ AskTimesOut \/ CancelCode \/ BeginPairing
  PROVE  PairInv'
<1>1. CASE AskForCode
  BY <1>1 DEF AskForCode, deviceVars, PairInv, PairTypeOK, Counted, RoomForCode, PostedOnce,
              SessionOpened, FreshCodes, CodesUsedUp, GuessesChargedRight
<1>2. CASE AskTimesOut /\ OpenSession
  BY <1>2, OpenSessionKeeps DEF AskTimesOut, PairInv, RoomForCode
<1>3. CASE AskTimesOut /\ UNCHANGED <<session, nextId, voided>>
  BY <1>3 DEF AskTimesOut, deviceVars, PairInv, PairTypeOK, Counted, RoomForCode, PostedOnce,
              SessionOpened, FreshCodes, CodesUsedUp, GuessesChargedRight
<1>4. CASE CancelCode
  BY <1>4 DEF CancelCode, deviceVars, PairInv, PairTypeOK, Counted, RoomForCode, PostedOnce,
              SessionOpened, FreshCodes, CodesUsedUp, GuessesChargedRight
<1>5. CASE BeginPairing
  BY <1>5, OpenSessionKeeps DEF BeginPairing, PairInv, RoomForCode
<1> QED BY <1>1, <1>2, <1>3, <1>4, <1>5 DEF AskTimesOut

LEMMA TrayPairInv ==
  ASSUME PairInv, CancelPairing \/ CodeExpires \/ AskStatus
  PROVE  PairInv'
<1>1. CASE CancelPairing
  <2>1. PairTypeOK' /\ SessionOpened'
    BY <1>1 DEF CancelPairing, deviceVars, PairInv, PairTypeOK, SessionOpened, NoSession
  <2>2. (Counted /\ RoomForCode /\ PostedOnce /\ FreshCodes)'
    BY <1>1 DEF CancelPairing, PairInv, PairTypeOK, Counted, RoomForCode, PostedOnce,
                FreshCodes
  <2>3. (CodesUsedUp /\ GuessesChargedRight)'
    BY <1>1 DEF CancelPairing, PairInv, CodesUsedUp, GuessesChargedRight, NoSession, Code
  <2> QED BY <2>1, <2>2, <2>3 DEF PairInv
<1>2. CASE CodeExpires
  <2>1. session.id \in 1 .. nextId
    BY <1>2 DEF CodeExpires, PairInv, PairTypeOK, SessionOpened
  <2>2. PairTypeOK'
    BY <1>2, <2>1 DEF CodeExpires, deviceVars, PairInv, PairTypeOK
  <2>3. (Counted /\ RoomForCode /\ PostedOnce /\ FreshCodes /\ SessionOpened)'
    BY <1>2 DEF CodeExpires, PairInv, Counted, RoomForCode, PostedOnce, FreshCodes,
                SessionOpened
  <2>4. (CodesUsedUp /\ GuessesChargedRight)'
    BY <1>2 DEF CodeExpires, PairInv, CodesUsedUp, GuessesChargedRight
  <2> QED BY <2>2, <2>3, <2>4 DEF PairInv
<1>3. CASE AskStatus
  <2>1. session' \in {session, NoSession}
    BY <1>3, LiveSession DEF AskStatus
  <2>2. CASE Live = NoSession
    <3>1. shown' = 0 /\ posted' = posted + 1 /\ session' = NoSession
      BY <1>3, <2>2 DEF AskStatus
    <3>2. PairTypeOK'
      BY <1>3, <3>1 DEF AskStatus, deviceVars, PairInv, PairTypeOK, PostedOnce, NoSession
    <3>3. (Counted /\ RoomForCode /\ FreshCodes)'
      BY <1>3, <3>1 DEF AskStatus, PairInv, Counted, RoomForCode, FreshCodes
    <3>4. PostedOnce' /\ SessionOpened'
      BY <1>3, <3>1 DEF AskStatus, PairInv, PairTypeOK, PostedOnce, SessionOpened, NoSession
    <3>5. (CodesUsedUp /\ GuessesChargedRight)'
      BY <1>3, <3>1 DEF AskStatus, PairInv, CodesUsedUp, GuessesChargedRight, NoSession, Code
    <3> QED BY <3>2, <3>3, <3>4, <3>5 DEF PairInv
  <2>3. CASE Live # NoSession
    BY <1>3, <2>1, <2>3, SessionKeptOrClosed DEF AskStatus, deviceVars, PairInv, PairTypeOK
  <2> QED BY <2>2, <2>3
<1> QED BY <1>1, <1>2, <1>3

-----------------------------------------------------------------------------
(* The server thread *)

LEMMA ConnectionPairInv ==
  ASSUME PairInv, NEW d \in Device, UpgradeToPair(d) \/ PairingEnds(d) \/ UpgradeToControl(d)
  PROVE  PairInv'
<1>1. CASE UpgradeToPair(d)
  <2>1. session' \in {session, NoSession} /\ tries' \in [Device -> 0 .. MaxTries]
    BY <1>1, LiveSession DEF UpgradeToPair, PairInv, PairTypeOK
  <2>2. link' \in [Device -> {"none", "waiting"}] /\ upgradedFor' \in [Device -> 0 .. nextId]
    BY <1>1, LiveSession DEF UpgradeToPair, PairInv, PairTypeOK
  <2> QED BY <1>1, <2>1, <2>2, SessionKeptOrClosed DEF UpgradeToPair, PairInv, PairTypeOK
<1>2. CASE PairingEnds(d)
  <2>1. link' \in [Device -> {"none", "waiting"}]
    BY <1>2 DEF PairingEnds, PairInv, PairTypeOK
  <2> QED BY <1>2, <2>1, SessionKeptOrClosed DEF PairingEnds, PairInv, PairTypeOK
<1>3. CASE UpgradeToControl(d)
  <2>1. admitted' \subseteq knows'
    BY <1>3 DEF UpgradeToControl, Authenticated, PairInv, PairTypeOK
  <2> QED BY <1>3, <2>1, SessionKeptOrClosed DEF UpgradeToControl, PairInv, PairTypeOK
<1> QED BY <1>1, <1>2, <1>3

\* A wrong code costs the session it is meant for one attempt, and nothing else.
LEMMA WrongCodePairInv ==
  ASSUME PairInv, NEW d \in Device, WrongCode(d)
  PROVE  PairInv'
<1> DEFINE i == upgradedFor[d]
<1>1. link' \in [Device -> {"none", "waiting"}]
  BY DEF WrongCode, PairInv, PairTypeOK
<1>2. CASE ~Addressed(d)
  BY <1>1, <1>2, LiveSession, SessionKeptOrClosed DEF WrongCode, PairInv, PairTypeOK
<1>3. CASE Addressed(d)
  <2>1. /\ session.id = i /\ i \in Code /\ i \in 1 .. nextId /\ Live = session
        /\ session # NoSession /\ session.failed = guesses[i] /\ guesses[i] < MaxAttempts
        /\ guesses[i] \in Nat /\ given[i] = 0
    BY <1>3, LiveSession DEF Addressed, PairInv, CodesUsedUp, GuessesChargedRight, Code, Counted
  <2>2. guesses' = [guesses EXCEPT ![i] = @ + 1] /\ session' = AfterWrongCode(session)
        /\ UNCHANGED <<nextId, asked, posted, shown, upgradedFor, tries, knows, admitted,
                       given, voided, lapsed>>
    BY <1>3, <2>1 DEF WrongCode
  <2>3. \/ session' = NoSession /\ guesses[i] + 1 >= MaxAttempts
        \/ /\ session' = [session EXCEPT !.failed = guesses[i] + 1]
           /\ guesses[i] + 1 < MaxAttempts
    BY <2>1, <2>2 DEF AfterWrongCode
  <2>4. /\ session' = NoSession \/ (session'.id = i /\ session'.failed = guesses[i] + 1
                                    /\ guesses[i] + 1 < MaxAttempts)
        /\ session' \in [id : 0 .. MaxSessions, failed : 0 .. MaxAttempts]
    BY <2>1, <2>3 DEF PairInv, PairTypeOK, NoSession
  <2>5. /\ guesses' \in [Code -> Nat] /\ guesses'[i] = guesses[i] + 1
        /\ \A j \in Code : j # i => guesses'[j] = guesses[j]
    BY <2>1, <2>2 DEF PairInv, Counted
  <2>6. PairTypeOK'
    BY <1>1, <2>2, <2>4 DEF PairInv, PairTypeOK
  <2>7. (Counted /\ RoomForCode /\ PostedOnce)'
    BY <2>2, <2>5 DEF PairInv, Counted, RoomForCode, PostedOnce
  <2>8. FreshCodes'
    BY <2>1, <2>2, <2>5 DEF PairInv, PairTypeOK, FreshCodes, Code
  <2>9. SessionOpened'
    BY <2>1, <2>2, <2>4 DEF PairInv, PairTypeOK, SessionOpened, NoSession
  <2>10. CodesUsedUp'
    BY <2>1, <2>2, <2>4, <2>5 DEF PairInv, CodesUsedUp, NoSession, Code
  <2>11. GuessesChargedRight'
    BY <2>1, <2>4, <2>5 DEF GuessesChargedRight
  <2> QED BY <2>6, <2>7, <2>8, <2>9, <2>10, <2>11 DEF PairInv
<1> QED BY <1>2, <1>3

\* The right code closes the session, so its credential has left the lock once.
LEMMA RightCodePairInv ==
  ASSUME PairInv, NEW d \in Device, RightCode(d)
  PROVE  PairInv'
<1> DEFINE i == upgradedFor[d]
<1>1. link' \in [Device -> {"none", "waiting"}]
  BY DEF RightCode, PairInv, PairTypeOK
<1>2. CASE ~Addressed(d)
  BY <1>1, <1>2, LiveSession, SessionKeptOrClosed DEF RightCode, PairInv, PairTypeOK
<1>3. CASE Addressed(d)
  <2>1. i \in Code /\ i \in 1 .. nextId /\ given[i] = 0
    BY <1>3, LiveSession DEF Addressed, PairInv, CodesUsedUp, Code
  <2>2. /\ given' = [given EXCEPT ![i] = @ + 1] /\ session' = NoSession
        /\ knows \subseteq knows' /\ knows' \subseteq Device
        /\ UNCHANGED <<nextId, asked, posted, shown, upgradedFor, tries, admitted,
                       guesses, voided, lapsed>>
    BY <1>3 DEF RightCode, AfterRightCode, PairInv, PairTypeOK
  <2>3. /\ given' \in [Code -> Nat] /\ given'[i] = 1
        /\ \A j \in Code : j # i => given'[j] = given[j]
    BY <2>1, <2>2 DEF PairInv, Counted
  <2>4. PairTypeOK'
    BY <1>1, <2>2 DEF PairInv, PairTypeOK, NoSession
  <2>5. (Counted /\ RoomForCode /\ PostedOnce)'
    BY <2>2, <2>3 DEF PairInv, Counted, RoomForCode, PostedOnce
  <2>6. FreshCodes'
    BY <2>1, <2>2, <2>3 DEF PairInv, PairTypeOK, FreshCodes, Code
  <2>7. SessionOpened' /\ GuessesChargedRight'
    BY <2>2 DEF PairInv, PairTypeOK, SessionOpened, NoSession, GuessesChargedRight
  <2>8. CodesUsedUp'
    BY <2>1, <2>2, <2>3 DEF PairInv, CodesUsedUp, NoSession, Code
  <2> QED BY <2>4, <2>5, <2>6, <2>7, <2>8 DEF PairInv
<1> QED BY <1>2, <1>3

LEMMA NextPairInv == PairInv /\ [PairNext]_pairVars => PairInv'
<1> SUFFICES ASSUME PairInv, [PairNext]_pairVars PROVE PairInv'
  OBVIOUS
<1>1. CASE AskForCode \/ AskTimesOut \/ CancelCode \/ BeginPairing
  BY <1>1, WindowPairInv
<1>2. CASE CancelPairing \/ CodeExpires \/ AskStatus
  BY <1>2, TrayPairInv
<1>3. CASE \E d \in Device : UpgradeToPair(d) \/ PairingEnds(d) \/ UpgradeToControl(d)
  BY <1>3, ConnectionPairInv
<1>4. CASE \E d \in Device : WrongCode(d)
  BY <1>4, WrongCodePairInv
<1>5. CASE \E d \in Device : RightCode(d)
  BY <1>5, RightCodePairInv
<1>6. CASE UNCHANGED pairVars
  BY <1>6 DEF pairVars, PairInv, PairTypeOK, Counted, RoomForCode, PostedOnce, SessionOpened,
              FreshCodes, CodesUsedUp, GuessesChargedRight
<1> QED BY <1>1, <1>2, <1>3, <1>4, <1>5, <1>6 DEF PairNext

-----------------------------------------------------------------------------

\* However many devices try however many codes on connections that outlive them, each
\* code is good for one credential and its own guesses only (PairingHandle::attempt).
THEOREM PairingAlwaysSound == PairSpec => []PairingSound
<1>1. PairInv => PairingSound
  BY DEF PairInv, PairingSound
<1> QED BY <1>1, InitPairInv, NextPairInv, PTL DEF PairSpec

\* The credential leaves the lock only for the code of a session that is open at that
\* moment: neither cancelled nor replaced nor expired (begin_until, cancel, attempt).
THEOREM DeadCodesOpenNothing == PairSpec => NoCredentialForDeadCode
<1> DEFINE Allowed == \A i \in 1 .. MaxSessions :
                        given'[i] # given[i] => i \notin voided \cup lapsed
<1>1. ASSUME PairInv, [PairNext]_pairVars PROVE [Allowed]_pairVars
  <2>1. CASE \E d \in Device : RightCode(d) /\ Addressed(d)
    <3>1. PICK d \in Device : RightCode(d) /\ Addressed(d)
      BY <2>1
    <3>2. upgradedFor[d] \notin voided \cup lapsed
      BY <1>1, <3>1, LiveSession DEF Addressed
    <3>3. given' = [given EXCEPT ![upgradedFor[d]] = @ + 1]
      BY <3>1 DEF RightCode
    <3> QED BY <1>1, <3>2, <3>3 DEF PairInv, Counted, Code
  <2>2. CASE given' = given
    BY <2>2
  <2>3. (\E d \in Device : RightCode(d) /\ Addressed(d)) \/ given' = given
    BY <1>1 DEF PairNext, AskForCode, AskTimesOut, CancelCode, BeginPairing, CancelPairing,
                CodesUsedUp, CodeExpires, AskStatus, UpgradeToPair, PairingEnds, WrongCode,
                RightCode, UpgradeToControl, pairVars
  <2> QED BY <2>1, <2>2, <2>3
<1> QED BY <1>1, InitPairInv, NextPairInv, PTL DEF PairSpec, NoCredentialForDeadCode

HIDE PairingBounds

-----------------------------------------------------------------------------
(***************************************************************************)
(* MemoryController.                                                       *)
(*                                                                         *)
(* For any number of callers, clients, owners and sessions, the in-memory  *)
(* controller keeps its clients and holds sound in the middle of failures, *)
(* and the hub falls behind only when a call is overtaken between its lock *)
(* and its publication; with one caller it never does.  The state falls    *)
(* into three parts that no operation relates: clients, broadcasting and   *)
(* Mouse Clutch sessions; an operation preserves each by itself.           *)
(***************************************************************************)
Box == [number : Number, active : BOOLEAN, ready : BOOLEAN]

\* At most one active client, as a fact about members.
OneActive(b) == \A i, j \in DOMAIN b : b[i].active /\ b[j].active => i = j

\* Every id is a loaded client's or a retired one's, and never both.
ClientPart ==
  /\ idsIssued \in 0 .. MaxId
  /\ boxes \in [LoadedIds -> Box]
  /\ LoadedIds \cap retiredIds = {}
  /\ LoadedIds \cup retiredIds = 1 .. idsIssued
  /\ OneActive(boxes)
  /\ mapped \subseteq 1 .. idsIssued

BroadcastPart == available \in BOOLEAN /\ enabled \in BOOLEAN /\ (enabled => available)

\* A session remembered as closed holds nothing.
SessionPart ==
  /\ clutch \subseteq Owner /\ sequence \in [Owner -> 0 .. MaxSequence]
  /\ closed \in Seq(Owner) /\ Len(closed) <= MaxClosed
  /\ NoHoldAfterEnd

MemInv == ClientPart /\ BroadcastPart /\ SessionPart /\ DOMAIN publishing = Thread

USE MemoryBounds

-----------------------------------------------------------------------------
(* Initially, and what the invariant implies *)

LEMMA InitMemInv == MemInit => MemInv
<1> SUFFICES ASSUME MemInit PROVE MemInv
  OBVIOUS
<1>1. DOMAIN boxes = {}
  BY DEF MemInit
<1>2. boxes \in [{} -> Box]
  BY DEF MemInit
<1>3. ClientPart
  BY <1>1, <1>2 DEF MemInit, ClientPart, LoadedIds, OneActive
<1>4. SessionPart
  BY DEF MemInit, SessionPart, NoHoldAfterEnd
<1> QED BY <1>3, <1>4 DEF MemInit, MemInv, BroadcastPart

\* A set whose members are all the same has at most one.
LEMMA AtMostOneMember ==
  ASSUME NEW S, \A i, j \in S : i = j
  PROVE  Cardinality(S) <= 1
<1>1. CASE S = {}
  BY <1>1, FS_EmptySet
<1>2. CASE S # {}
  <2>1. PICK x \in S : TRUE
    BY <1>2
  <2>2. S = {x}
    BY <2>1
  <2> QED BY <2>2, FS_Singleton
<1> QED BY <1>1, <1>2

LEMMA MemInvSound == MemInv => MemTypeOK /\ ClientsSound /\ NoHoldAfterEnd
<1> SUFFICES ASSUME MemInv PROVE MemTypeOK /\ ClientsSound /\ NoHoldAfterEnd
  OBVIOUS
<1>1. MemTypeOK
  BY DEF MemInv, ClientPart, BroadcastPart, SessionPart, MemTypeOK, Box
<1>2. \A i, j \in ActiveOf(boxes) : i = j
  BY DEF MemInv, ClientPart, OneActive, ActiveOf
<1>3. Cardinality(ActiveOf(boxes)) <= 1
  BY <1>2, AtMostOneMember
<1>4. ClientsSound
  BY <1>3 DEF MemInv, ClientPart, BroadcastPart, ClientsSound
<1> QED BY <1>1, <1>4 DEF MemInv, SessionPart

-----------------------------------------------------------------------------
(* What keeps each part *)

LEMMA ClientsUntouched ==
  ASSUME ClientPart, UNCHANGED <<boxes, idsIssued, retiredIds>>, mapped' \subseteq mapped
  PROVE  ClientPart'
BY DEF ClientPart, LoadedIds, OneActive

\* The loaded clients stay the same ones; the number of active ones does not grow past one.
LEMMA ClientsChanged ==
  ASSUME ClientPart, UNCHANGED <<idsIssued, retiredIds, mapped>>,
         boxes' \in [LoadedIds -> Box], OneActive(boxes')
  PROVE  ClientPart'
<1>1. LoadedIds' = LoadedIds
  BY DEF LoadedIds
<1>2. OneActive(boxes)'
  BY DEF OneActive
<1> QED BY <1>1, <1>2 DEF ClientPart

\* A client that is removed is retired.
LEMMA ClientRetired ==
  ASSUME ClientPart, NEW i \in LoadedIds, boxes' = Removed(i),
         retiredIds' = retiredIds \cup {i}, mapped' \subseteq mapped, UNCHANGED idsIssued
  PROVE  ClientPart'
<1>1. LoadedIds' = LoadedIds \ {i}
  BY DEF LoadedIds, Removed
<1>2. \A j \in LoadedIds' : boxes'[j] = boxes[j] /\ boxes[j] \in Box
  BY <1>1 DEF ClientPart, Removed
<1>3. boxes' \in [LoadedIds' -> Box]
  BY <1>1, <1>2 DEF Removed
<1>4. OneActive(boxes)'
  BY <1>1, <1>2 DEF ClientPart, OneActive, LoadedIds
<1>5. /\ LoadedIds' \cap retiredIds' = {}
      /\ LoadedIds' \cup retiredIds' = 1 .. idsIssued'
      /\ mapped' \subseteq 1 .. idsIssued'
  BY <1>1 DEF ClientPart
<1> QED BY <1>3, <1>4, <1>5 DEF ClientPart

LEMMA ClientAdded ==
  ASSUME ClientPart, BroadcastPart,
         NEW t \in Thread, NEW n \in Number, NEW active \in BOOLEAN, AddClient(t, n, active)
  PROVE  ClientPart'
<1> DEFINE new == idsIssued + 1
<1>1. new \in 1 .. MaxId /\ new \notin LoadedIds /\ new \notin retiredIds
  BY DEF ClientPart, AddClient
<1>2. LoadedIds' = LoadedIds \cup {new}
  BY DEF LoadedIds, AddClient
<1>3. boxes'[new] = [number |-> n, active |-> active, ready |-> available]
  BY DEF AddClient
<1>4. \A j \in LoadedIds :
        /\ boxes'[j] = [boxes[j] EXCEPT !.active = boxes[j].active /\ ~active]
        /\ boxes[j] \in Box
  BY <1>1 DEF AddClient, ClientPart
<1>5. boxes'[new] \in Box
  BY <1>3 DEF Box, BroadcastPart
<1>6. \A j \in LoadedIds : /\ boxes'[j] \in Box
                           /\ boxes'[j].active => boxes[j].active /\ ~active
  BY <1>4 DEF Box
<1>7. boxes' \in [LoadedIds' -> Box]
  <2>1. \A j \in LoadedIds' : boxes'[j] \in Box
    BY <1>2, <1>5, <1>6
  <2> QED BY <2>1, <1>2 DEF AddClient
<1>8. OneActive(boxes)'
  <2>1. boxes'[new].active = active
    BY <1>3
  <2> QED BY <1>2, <1>6, <2>1 DEF ClientPart, OneActive, LoadedIds
<1>9. idsIssued' = new /\ retiredIds' = retiredIds /\ mapped' = mapped \cup {new}
  BY DEF AddClient
<1>10. 1 .. idsIssued' = (1 .. idsIssued) \cup {new} /\ idsIssued' \in 0 .. MaxId
  BY <1>1, <1>9 DEF ClientPart
<1>11. /\ LoadedIds' \cap retiredIds' = {}
       /\ LoadedIds' \cup retiredIds' = 1 .. idsIssued'
       /\ mapped' \subseteq 1 .. idsIssued'
  <2> HIDE DEF new
  <2> QED BY <1>1, <1>2, <1>9, <1>10 DEF ClientPart
<1> QED BY <1>7, <1>8, <1>10, <1>11 DEF ClientPart

\* One client becomes the active one.
LEMMA ClientActivated ==
  ASSUME ClientPart, UNCHANGED <<idsIssued, retiredIds, mapped>>, NEW i,
         boxes' = [j \in LoadedIds |-> [boxes[j] EXCEPT !.active = (j = i)]]
  PROVE  ClientPart'
<1>1. ASSUME NEW j \in LoadedIds
      PROVE  boxes'[j] \in Box /\ (boxes'[j].active <=> j = i)
  <2> DEFINE now == (j = i)
  <2>1. now \in BOOLEAN
    OBVIOUS
  <2>2. boxes[j] \in Box
    BY DEF ClientPart
  <2>3. boxes'[j] = [boxes[j] EXCEPT !.active = now]
    OBVIOUS
  <2> HIDE DEF now
  <2>4. boxes'[j] \in Box /\ boxes'[j].active = now
    BY <2>1, <2>2, <2>3 DEF Box
  <2> QED BY <2>4 DEF now
<1>2. boxes' \in [LoadedIds -> Box] /\ OneActive(boxes')
  BY <1>1 DEF OneActive
<1> QED BY <1>2, ClientsChanged

LEMMA BroadcastUntouched ==
  ASSUME BroadcastPart, UNCHANGED <<available, enabled>>
  PROVE  BroadcastPart'
BY DEF BroadcastPart

LEMMA SessionsUntouched ==
  ASSUME SessionPart, UNCHANGED <<clutch, sequence, closed>>
  PROVE  SessionPart'
BY DEF SessionPart, NoHoldAfterEnd

-----------------------------------------------------------------------------
(* The operations *)

LEMMA HostKeeps ==
  ASSUME MemInv, NEW t \in Thread, HostNext(t)
  PROVE  ClientPart' /\ BroadcastPart' /\ SessionPart'
<1> USE DEF MemInv
<1>1. CASE \E n \in Number, a \in BOOLEAN : AddClient(t, n, a)
  BY <1>1, ClientAdded, BroadcastUntouched, SessionsUntouched DEF AddClient
<1>2. ASSUME NEW i \in Id, RemoveLoaded(t, i)
      PROVE  ClientPart' /\ BroadcastPart' /\ SessionPart'
  BY <1>2, ClientRetired, BroadcastUntouched, SessionsUntouched DEF RemoveLoaded
<1>3. ASSUME NEW i \in Id, ChangeClient(t, i)
      PROVE  ClientPart' /\ BroadcastPart' /\ SessionPart'
  <2>1. CASE boxes' = [j \in LoadedIds |-> [boxes[j] EXCEPT !.active = (j = i)]]
    BY <1>3, <2>1, ClientActivated, BroadcastUntouched, SessionsUntouched DEF ChangeClient
  <2>2. ASSUME NEW r \in BOOLEAN, boxes' = [boxes EXCEPT ![i].ready = r]
        PROVE  boxes' \in [LoadedIds -> Box] /\ OneActive(boxes')
    <3>1. boxes \in [LoadedIds -> Box] /\ OneActive(boxes)
      BY DEF ClientPart
    <3>2. boxes' \in [LoadedIds -> Box] /\ \A j \in LoadedIds : boxes'[j].active = boxes[j].active
      BY <2>2, <3>1 DEF Box
    <3> QED BY <3>1, <3>2 DEF OneActive, LoadedIds
  <2> QED BY <1>3, <2>1, <2>2, ClientsChanged, BroadcastUntouched, SessionsUntouched
          DEF ChangeClient
<1>4. CASE ChangeBroadcast(t)
  <2>1. BroadcastPart'
    BY <1>4 DEF ChangeBroadcast, BroadcastPart
  <2> QED BY <1>4, <2>1, ClientsUntouched, SessionsUntouched DEF ChangeBroadcast
<1>5. CASE Prepare(t)
  <2>1. mapped' \subseteq mapped
    BY <1>5 DEF Prepare
  <2> QED BY <1>5, <2>1, ClientsUntouched, BroadcastUntouched, SessionsUntouched
          DEF Prepare, NoChange
<1> QED BY <1>1, <1>2, <1>3, <1>4, <1>5 DEF HostNext

LEMMA FailureKeeps ==
  ASSUME MemInv, NEW f, FailPrepared(f)
  PROVE  ClientPart' /\ BroadcastPart' /\ SessionPart'
BY ClientsUntouched, BroadcastUntouched, SessionsUntouched DEF MemInv, FailPrepared, NoChange

LEMMA ActivateKeeps ==
  ASSUME MemInv, NEW t \in Thread, NEW target \in Target, MemActivate(t, target)
  PROVE  ClientPart' /\ BroadcastPart' /\ SessionPart'
<1>1. PICK i \in Matches(target) :
        ActivateVanishing(t, i) \/ FailPrepared("activation") \/ ActivateMatched(t, i)
  BY DEF MemActivate
<1>2. i \in LoadedIds
  BY DEF Matches
<1>3. CASE ActivateVanishing(t, i)
  BY <1>2, <1>3, ClientRetired, BroadcastUntouched, SessionsUntouched
  DEF MemInv, ActivateVanishing
<1>4. CASE ActivateMatched(t, i)
  BY <1>4, ClientActivated, BroadcastUntouched, SessionsUntouched DEF MemInv, ActivateMatched
<1> QED BY <1>1, <1>3, <1>4, FailureKeeps

LEMMA SwapKeeps ==
  ASSUME MemInv, NEW t \in Thread, NEW target \in Target, MemSwapNumbers(t, target)
  PROVE  ClientPart' /\ BroadcastPart' /\ SessionPart'
<1>1. PICK a \in ActiveOf(boxes), i \in Matches(target) :
        boxes' = [boxes EXCEPT ![a].number = boxes[i].number, ![i].number = boxes[a].number]
  BY DEF MemSwapNumbers
<1>2. a \in LoadedIds /\ i \in LoadedIds
  BY DEF ActiveOf, Matches, LoadedIds
<1>3. boxes \in [LoadedIds -> Box]
  BY DEF MemInv, ClientPart
<1>4. boxes' \in [LoadedIds -> Box]
  BY <1>1, <1>2, <1>3 DEF Box
<1>5. \A j \in LoadedIds : boxes'[j].active = boxes[j].active
  BY <1>1, <1>2, <1>3 DEF Box
<1>6. OneActive(boxes')
  BY <1>4, <1>5 DEF MemInv, ClientPart, OneActive, LoadedIds
<1> QED BY <1>4, <1>6, ClientsChanged, BroadcastUntouched, SessionsUntouched
        DEF MemInv, MemSwapNumbers

LEMMA SetBroadcastKeeps ==
  ASSUME MemInv, NEW t \in Thread, NEW on \in BOOLEAN, MemSetBroadcast(t, on)
  PROVE  ClientPart' /\ BroadcastPart' /\ SessionPart'
<1>1. CASE FailPrepared("broadcast")
  BY <1>1, FailureKeeps
<1>2. CASE ~FailPrepared("broadcast")
  <2>1. BroadcastPart'
    BY <1>2 DEF MemInv, MemSetBroadcast, BroadcastPart
  <2> QED BY <1>2, <2>1, ClientsUntouched, SessionsUntouched DEF MemInv, MemSetBroadcast
<1> QED BY <1>1, <1>2

\* A closed session begins nothing.
LEMMA UpdateHoldKeeps ==
  ASSUME MemInv, NEW t \in Thread, NEW o \in Owner, NEW op \in {"begin", "renew", "end"},
         NEW s \in 1 .. MaxSequence, MemUpdateHold(t, o, op, s)
  PROVE  ClientPart' /\ BroadcastPart' /\ SessionPart'
<1>1. sequence' \in [Owner -> 0 .. MaxSequence]
  BY DEF MemInv, SessionPart, MemUpdateHold
<1>2. clutch' \subseteq clutch \cup {o} /\ o \notin ToSet(closed) /\ UNCHANGED closed
  BY DEF MemUpdateHold, MayUpdate, HoldsAfter
<1>3. SessionPart'
  BY <1>1, <1>2 DEF MemInv, SessionPart, NoHoldAfterEnd
<1> QED BY <1>3, ClientsUntouched, BroadcastUntouched DEF MemInv, MemUpdateHold

\* What is remembered was remembered before, or is the session that ends.
LEMMA RememberedTyped ==
  ASSUME SessionPart, NEW o \in Owner
  PROVE  /\ Remembered(o) \in Seq(Owner) /\ Len(Remembered(o)) <= MaxClosed
         /\ ToSet(Remembered(o)) \subseteq ToSet(closed) \cup {o}
<1> DEFINE order == IF o \in ToSet(closed) THEN closed ELSE Append(closed, o)
<1>1. closed \in Seq(Owner) /\ Len(closed) <= MaxClosed /\ Len(closed) \in Nat
  BY DEF SessionPart
<1>2. /\ order \in Seq(Owner) /\ Len(order) <= MaxClosed + 1
      /\ ToSet(order) \subseteq ToSet(closed) \cup {o}
  BY <1>1 DEF ToSet
<1>3. Remembered(o) = IF Len(order) > MaxClosed THEN Tail(order) ELSE order
  BY DEF Remembered
<1> HIDE DEF order
<1>4. CASE Len(order) > MaxClosed
  <2>1. order # <<>> /\ Len(order) \in Nat
    BY <1>2, <1>4
  <2>2. /\ Tail(order) \in Seq(Owner) /\ Len(Tail(order)) = Len(order) - 1
        /\ \A k \in 1 .. Len(Tail(order)) : Tail(order)[k] = order[k + 1]
    BY <1>2, <2>1, HeadTailProperties
  <2>3. ToSet(Tail(order)) \subseteq ToSet(order)
    BY <1>2, <2>1, <2>2 DEF ToSet
  <2> QED BY <1>2, <1>3, <1>4, <2>1, <2>2, <2>3
<1>5. CASE ~(Len(order) > MaxClosed)
  BY <1>2, <1>3, <1>5
<1> QED BY <1>4, <1>5

LEMMA EndSessionKeeps ==
  ASSUME MemInv, NEW t \in Thread, NEW o \in Owner, MemEndSession(t, o)
  PROVE  ClientPart' /\ BroadcastPart' /\ SessionPart'
<1>1. closed' = Remembered(o) /\ clutch' = clutch \ {o} /\ sequence' = [sequence EXCEPT ![o] = 0]
  BY DEF MemEndSession
<1>2. /\ closed' \in Seq(Owner) /\ Len(closed') <= MaxClosed
      /\ ToSet(closed') \subseteq ToSet(closed) \cup {o}
  BY <1>1, RememberedTyped DEF MemInv
<1>3. sequence' \in [Owner -> 0 .. MaxSequence]
  BY <1>1 DEF MemInv, SessionPart
<1>4. SessionPart'
  BY <1>1, <1>2, <1>3 DEF MemInv, SessionPart, NoHoldAfterEnd
<1> QED BY <1>4, ClientsUntouched, BroadcastUntouched DEF MemInv, MemEndSession

LEMMA InputVanishingKeeps ==
  ASSUME MemInv, NEW i \in LoadedIds, InputVanishing(i)
  PROVE  ClientPart' /\ BroadcastPart' /\ SessionPart'
BY ClientRetired, BroadcastUntouched, SessionsUntouched DEF MemInv, InputVanishing

LEMMA InputKeeps ==
  ASSUME MemInv, NEW t \in Thread,
         \/ \E i \in Id : MemSendInput(t, i)
         \/ \E which \in {"all_loaded", "active", "background_loaded"} : MemSendBatch(t, which)
  PROVE  ClientPart' /\ BroadcastPart' /\ SessionPart'
<1>1. ASSUME NEW i \in Id, MemSendInput(t, i)
      PROVE  ClientPart' /\ BroadcastPart' /\ SessionPart'
  BY <1>1, InputVanishingKeeps, FailureKeeps DEF MemSendInput
<1>2. ASSUME NEW which \in {"all_loaded", "active", "background_loaded"}, MemSendBatch(t, which)
      PROVE  ClientPart' /\ BroadcastPart' /\ SessionPart'
  <2>1. Selected(which) \subseteq LoadedIds
    BY <1>2 DEF Selected, ActiveOf, LoadedIds
  <2> QED BY <1>2, <2>1, InputVanishingKeeps, FailureKeeps DEF MemSendBatch
<1> QED BY <1>1, <1>2

LEMMA CommandKeeps ==
  ASSUME MemInv, NEW t \in Thread, CommandNext(t)
  PROVE  ClientPart' /\ BroadcastPart' /\ SessionPart'
BY ActivateKeeps, SwapKeeps, SetBroadcastKeeps, UpdateHoldKeeps, EndSessionKeeps, InputKeeps
DEF CommandNext

-----------------------------------------------------------------------------
(* The hub *)

Tells(t) == PublishLater(t) \/ PublishNow \/ NoChange

\* Every operation publishes what it changed, now or later, or changes nothing that
\* is public.
LEMMA HostTells ==
  ASSUME NEW t \in Thread, HostNext(t)
  PROVE  Tells(t)
BY DEF HostNext, AddClient, RemoveLoaded, ChangeClient, ChangeBroadcast, Prepare, Tells

LEMMA CommandTells ==
  ASSUME NEW t \in Thread, CommandNext(t)
  PROVE  Tells(t)
<1>1. ASSUME NEW target \in Target, MemActivate(t, target) \/ MemSwapNumbers(t, target)
      PROVE  Tells(t)
  BY <1>1 DEF MemActivate, ActivateVanishing, FailPrepared, ActivateMatched, MemSwapNumbers, Tells
<1>2. ASSUME NEW on \in BOOLEAN, MemSetBroadcast(t, on)
      PROVE  Tells(t)
  BY <1>2 DEF MemSetBroadcast, FailPrepared, Tells
<1>3. ASSUME NEW o \in Owner, NEW op \in {"begin", "renew", "end"}, NEW s \in 1 .. MaxSequence,
             MemUpdateHold(t, o, op, s)
      PROVE  Tells(t)
  BY <1>3 DEF MemUpdateHold, Tells, NoChange
<1>4. ASSUME NEW o \in Owner, MemEndSession(t, o)
      PROVE  Tells(t)
  BY <1>4 DEF MemEndSession, Tells
<1>5. ASSUME NEW i \in Id, MemSendInput(t, i)
      PROVE  Tells(t)
  BY <1>5 DEF MemSendInput, InputVanishing, FailPrepared, Tells
<1>6. ASSUME NEW which \in {"all_loaded", "active", "background_loaded"}, MemSendBatch(t, which)
      PROVE  Tells(t)
  BY <1>6 DEF MemSendBatch, InputVanishing, FailPrepared, Tells
<1> QED BY <1>1, <1>2, <1>3, <1>4, <1>5, <1>6 DEF CommandNext

LEMMA TellingKeepsCurrent ==
  ASSUME MemInv, NEW t \in Thread, Tells(t)
  PROVE  DOMAIN publishing' = Thread /\ (HubCurrent => HubCurrent')
<1>1. CASE PublishLater(t)
  <2>1. DOMAIN publishing' = Thread /\ publishing'[t] = Data'
    BY <1>1 DEF PublishLater, MemInv
  <2> QED BY <2>1 DEF HubCurrent
<1>2. CASE PublishNow
  BY <1>2 DEF PublishNow, MemInv, HubCurrent
<1>3. CASE NoChange
  <2>1. Data' = Data
    BY <1>3 DEF NoChange, Data
  <2> QED BY <1>3, <2>1 DEF NoChange, MemInv, HubCurrent
<1> QED BY <1>1, <1>2, <1>3 DEF Tells

\* A publication makes the hub current, or it was overtaken.
LEMMA PublishKeeps ==
  ASSUME MemInv, NEW t \in Thread, Publish(t)
  PROVE  MemInv' /\ (HubCurrent => HubCurrent' \/ Overtaken)
<1>1. ClientPart' /\ BroadcastPart' /\ SessionPart'
  BY ClientsUntouched, BroadcastUntouched, SessionsUntouched DEF MemInv, Publish
<1>2. DOMAIN publishing' = Thread
  BY DEF MemInv, Publish
<1>3. CASE publishing[t] = Data
  <2>1. Data' = Data
    BY DEF Publish, Data
  <2> QED BY <1>1, <1>2, <1>3, <2>1 DEF MemInv, Publish, HubCurrent
<1>4. CASE publishing[t] # Data
  BY <1>1, <1>2, <1>4 DEF MemInv, Overtaken
<1> QED BY <1>3, <1>4

LEMMA NextMemInv ==
  ASSUME MemInv, [MemNext]_memVars
  PROVE  MemInv' /\ (HubCurrent => HubCurrent' \/ Overtaken \/ UNCHANGED memVars)
<1>1. CASE UNCHANGED memVars
  <2>1. ClientPart' /\ BroadcastPart' /\ SessionPart' /\ DOMAIN publishing' = Thread
    BY <1>1, ClientsUntouched, BroadcastUntouched, SessionsUntouched DEF MemInv, memVars
  <2> QED BY <1>1, <2>1 DEF MemInv
<1>2. ASSUME NEW t \in Thread, HostNext(t) \/ CommandNext(t)
      PROVE  MemInv' /\ (HubCurrent => HubCurrent')
  BY <1>2, HostKeeps, CommandKeeps, HostTells, CommandTells, TellingKeepsCurrent DEF MemInv
<1>3. ASSUME NEW t \in Thread, Publish(t)
      PROVE  MemInv' /\ (HubCurrent => HubCurrent' \/ Overtaken)
  BY <1>3, PublishKeeps
<1> QED BY <1>1, <1>2, <1>3 DEF MemNext

-----------------------------------------------------------------------------

\* However failures and callers interleave, ids tell clients apart for good, at most
\* one is active, no hold outlives its session, and the hub is left with an older
\* state only by a publication that was overtaken after its lock.
THEOREM ControllerAlwaysHolds == MemSpec => ControllerHolds
<1>1. MemInv /\ [MemNext]_memVars => MemInv'
  BY NextMemInv
<1>2. MemInv /\ [MemNext]_memVars => [HubCurrent => HubCurrent' \/ Overtaken]_memVars
  BY NextMemInv
<1> QED BY <1>1, <1>2, InitMemInv, MemInvSound, PTL DEF MemSpec, ControllerHolds

\* What the only caller has yet to publish is the state the controller is in.
OnlyCallerCurrent(t) == IF Free(t) THEN published = Data ELSE publishing[t] = Data

\* With one caller no publication is ever overtaken: whenever it is not between its
\* lock and its publication, the hub holds the state the controller is in.
THEOREM OneCallerStaysCurrent ==
  ASSUME NEW t, Thread = {t}
  PROVE  MemSpec => [](Free(t) => published = Data)
<1>1. MemInit => OnlyCallerCurrent(t)
  BY DEF MemInit, Free, OnlyCallerCurrent
<1>2. ASSUME MemInv, OnlyCallerCurrent(t), [MemNext]_memVars PROVE OnlyCallerCurrent(t)'
  <2>1. CASE UNCHANGED memVars
    BY <1>2, <2>1 DEF memVars, OnlyCallerCurrent, Free, Data
  <2>2. CASE HostNext(t) \/ CommandNext(t)
    <3>1. Tells(t)
      BY <2>2, HostTells, CommandTells
    <3>2. Free(t)
      BY <2>2 DEF HostNext, CommandNext, AddClient, RemoveLoaded, ChangeClient, ChangeBroadcast,
             Prepare, MemActivate, MemSwapNumbers, MemSetBroadcast, MemUpdateHold,
             MemEndSession, MemSendInput, MemSendBatch
    <3>3. CASE PublishLater(t)
      <4>1. publishing'[t] = Data'
        BY <1>2, <3>3 DEF PublishLater, MemInv
      <4>2. Data' # NoUpdate
        <5>1. "clients" \in DOMAIN Data' /\ "clients" \notin DOMAIN NoUpdate
          BY DEF Data, MemoryData, NoUpdate
        <5> QED BY <5>1
      <4> QED BY <4>1, <4>2 DEF OnlyCallerCurrent, Free
    <3>4. CASE PublishNow
      BY <3>2, <3>4 DEF PublishNow, OnlyCallerCurrent, Free
    <3>5. CASE NoChange
      <4>1. Data' = Data
        BY <3>5 DEF NoChange, Data
      <4> QED BY <1>2, <3>5, <4>1 DEF NoChange, OnlyCallerCurrent, Free
    <3> QED BY <3>1, <3>3, <3>4, <3>5 DEF Tells
  <2>3. CASE Publish(t)
    <3>1. Data' = Data /\ publishing[t] = Data
      BY <1>2, <2>3 DEF Publish, OnlyCallerCurrent, Free, Data
    <3>2. publishing'[t] = NoUpdate /\ published' = Data'
      BY <1>2, <2>3, <3>1 DEF Publish, MemInv
    <3> QED BY <3>2 DEF OnlyCallerCurrent, Free
  <2> QED BY <1>2, <2>1, <2>2, <2>3 DEF MemNext
<1>3. OnlyCallerCurrent(t) => (Free(t) => published = Data)
  BY DEF OnlyCallerCurrent
<1> QED BY <1>1, <1>2, <1>3, InitMemInv, NextMemInv, PTL DEF MemSpec
=============================================================================
