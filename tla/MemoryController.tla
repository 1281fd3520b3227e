-------------------------- MODULE MemoryController --------------------------
(***************************************************************************)
(* The in-memory controller of trushar (crates/trushar/src/control.rs),    *)
(* with which the real server runs in development and in the network       *)
(* tests.  Threads of the host and of the server call it at the same time. *)
(* An operation changes the state under a lock and computes the public     *)
(* data there; most operations publish that data to the hub only after     *)
(* they have released the lock.                                            *)
(***************************************************************************)
EXTENDS Naturals, Sequences, FiniteSets, FiniteSetsExt, SequencesExt

CONSTANTS
  Thread,       \* callers
  MaxId,        \* bound on the clients ever added
  Number,       \* window numbers
  Owner,        \* holders of the Mouse Clutch, one per session
  MaxSequence,  \* bound on the sequence numbers of a session
  MaxClosed,    \* closed sessions remembered (256)
  MaxPrepared   \* bound on the failures prepared at a time

ASSUME MemoryBounds ==
  /\ MaxId \in Nat /\ MaxSequence \in Nat
  /\ MaxClosed \in Nat /\ MaxPrepared \in Nat

VARIABLES
  boxes,      \* the loaded clients by id: [number, active, ready]
  available,  \* broadcast.available
  enabled,    \* broadcast.enabled
  clutch,     \* mouse_clutch_holds
  sequence,   \* mouse_clutch_sequences
  closed,     \* closed_mouse_clutch_session_order
  idsIssued,  \* next_id
  retiredIds, \* retired_ids
  failing,    \* the operations told to fail next
  vanishing,  \* clients told to disappear on activation or on input
  mapped,     \* clients whose key map has the action
  publishing, \* for each thread, the data it has yet to publish
  published   \* the data in the hub

memVars == <<boxes, available, enabled, clutch, sequence, closed, idsIssued,
             retiredIds, failing, vanishing, mapped, publishing,
             published>>

Id == 1 .. MaxId
LoadedIds == DOMAIN boxes
NoUpdate == [none |-> TRUE]

ActiveOf(b) == {i \in DOMAIN b : b[i].active}

\* memory_data: the public state that follows from the controller's own.
MemoryData(b, av, en, cl) ==
  [clients |-> b,
   broadcast |-> [available |-> av, enabled |-> en],
   clutchActive |-> cl # {},
   clutchReady |-> /\ av /\ ActiveOf(b) # {}
                   /\ \E i \in DOMAIN b : i \notin ActiveOf(b) /\ b[i].ready,
   input |-> av /\ \E i \in DOMAIN b : b[i].ready]

Data == MemoryData(boxes, available, enabled, clutch)

MemInit ==
  /\ boxes = [i \in {} |-> NoUpdate]
  /\ available = TRUE /\ enabled = FALSE
  /\ clutch = {} /\ sequence = [o \in Owner |-> 0] /\ closed = <<>>
  /\ idsIssued = 0 /\ retiredIds = {}
  /\ failing = {} /\ vanishing = {} /\ mapped = {}
  /\ publishing = [t \in Thread |-> NoUpdate]
  /\ published = Data

-----------------------------------------------------------------------------
Free(t) == publishing[t] = NoUpdate

\* The lock is released with the data still to be published.
PublishLater(t) == publishing' = [publishing EXCEPT ![t] = Data'] /\ UNCHANGED published

\* Input operations publish before they release the lock.
PublishNow == published' = Data' /\ UNCHANGED publishing

NoChange == UNCHANGED <<boxes, available, enabled, clutch, publishing, published>>

\* hub.publish, after the lock.
Publish(t) ==
  /\ publishing[t] # NoUpdate
  /\ published' = publishing[t]
  /\ publishing' = [publishing EXCEPT ![t] = NoUpdate]
  /\ UNCHANGED <<boxes, available, enabled, clutch, sequence, closed, idsIssued,
                 retiredIds, failing, vanishing, mapped>>

-----------------------------------------------------------------------------
(* What the host does *)

AddClient(t, n, active) ==
  /\ Free(t) /\ idsIssued < MaxId
  /\ idsIssued' = idsIssued + 1
  /\ boxes' = [i \in LoadedIds \cup {idsIssued + 1} |->
       IF i = idsIssued + 1 THEN [number |-> n, active |-> active, ready |-> available]
       ELSE [boxes[i] EXCEPT !.active = @ /\ ~active]]
  /\ mapped' = mapped \cup {idsIssued + 1}
  /\ UNCHANGED <<available, enabled, clutch>>
  /\ PublishLater(t)
  /\ UNCHANGED <<sequence, closed, retiredIds, failing, vanishing>>

Removed(i) == [j \in LoadedIds \ {i} |-> boxes[j]]

RemoveLoaded(t, i) ==
  /\ Free(t) /\ i \in LoadedIds
  /\ boxes' = Removed(i)
  /\ retiredIds' = retiredIds \cup {i}
  /\ mapped' = mapped \ {i}
  /\ UNCHANGED <<available, enabled, clutch>>
  /\ PublishLater(t)
  /\ UNCHANGED <<sequence, closed, idsIssued, failing, vanishing>>

\* set_active_locally and set_input_ready.
ChangeClient(t, i) ==
  /\ Free(t) /\ i \in LoadedIds
  /\ \/ boxes' = [j \in LoadedIds |-> [boxes[j] EXCEPT !.active = (j = i)]]
     \/ \E r \in BOOLEAN : boxes' = [boxes EXCEPT ![i].ready = r]
  /\ UNCHANGED <<available, enabled, clutch>>
  /\ PublishLater(t)
  /\ UNCHANGED <<sequence, closed, idsIssued, retiredIds, failing, vanishing, mapped>>

\* set_broadcast_availability and set_broadcast_locally.
ChangeBroadcast(t) ==
  /\ Free(t)
  /\ \/ \E a \in BOOLEAN : available' = a /\ enabled' = (enabled /\ a)
     \/ \E e \in BOOLEAN : enabled' = (IF available THEN e ELSE enabled) /\ UNCHANGED available
  /\ UNCHANGED <<boxes, clutch>>
  /\ PublishLater(t)
  /\ UNCHANGED <<sequence, closed, idsIssued, retiredIds, failing, vanishing, mapped>>

\* fail_next_*, disappear_on_next_* and set_mapped_actions prepare a failure.
Prepare(t) ==
  /\ Free(t) /\ Cardinality(failing) + Cardinality(vanishing) < MaxPrepared
  /\ \/ \E f \in {"activation", "broadcast", "input"} :
          failing' = failing \cup {f} /\ UNCHANGED <<vanishing, mapped>>
     \/ \E i \in LoadedIds, on \in {"activation", "input"} :
          vanishing' = vanishing \cup {<<i, on>>} /\ UNCHANGED <<failing, mapped>>
     \/ \E i \in LoadedIds :
          mapped' = mapped \ {i} /\ UNCHANGED <<failing, vanishing>>
  /\ NoChange
  /\ UNCHANGED <<sequence, closed, idsIssued, retiredIds>>

-----------------------------------------------------------------------------
(* What a server connection asks for.  A command that is refused changes       *)
(* nothing and is no step; a prepared failure is used up by the command.       *)

\* A target by id or by window number, and the clients it matches.
Target == [kind : {"id"}, of : Id] \cup [kind : {"number"}, of : Number]
Matches(target) ==
  {i \in LoadedIds : IF target.kind = "id" THEN i = target.of ELSE boxes[i].number = target.of}

\* The command meets the failure prepared for it.
FailPrepared(f) ==
  /\ f \in failing
  /\ failing' = failing \ {f}
  /\ NoChange
  /\ UNCHANGED <<sequence, closed, idsIssued, retiredIds, vanishing, mapped>>

\* Mutant: a client that disappears is not remembered as retired.
ActivateVanishingForgotten(t, i) ==
  /\ <<i, "activation">> \in vanishing
  /\ vanishing' = vanishing \ {<<i, "activation">>}
  /\ boxes' = Removed(i)
  /\ UNCHANGED <<available, enabled, clutch>>
  /\ PublishLater(t)
  /\ UNCHANGED <<sequence, closed, idsIssued, retiredIds, failing, mapped>>

\* The client disappears before it is activated.
ActivateVanishing(t, i) ==
  /\ <<i, "activation">> \in vanishing
  /\ vanishing' = vanishing \ {<<i, "activation">>}
  /\ boxes' = Removed(i)
  /\ retiredIds' = retiredIds \cup {i}
  /\ UNCHANGED <<available, enabled, clutch>>
  /\ PublishLater(t)
  /\ UNCHANGED <<sequence, closed, idsIssued, failing, mapped>>

ActivateMatched(t, i) ==
  /\ failing \cap {"activation"} = {} /\ <<i, "activation">> \notin vanishing
  /\ boxes' = [j \in LoadedIds |-> [boxes[j] EXCEPT !.active = (j = i)]]
  /\ UNCHANGED <<available, enabled, clutch>>
  /\ PublishLater(t)
  /\ UNCHANGED <<sequence, closed, idsIssued, retiredIds, failing, vanishing, mapped>>

MemActivate(t, target) ==
  /\ Free(t) /\ Cardinality(Matches(target)) = 1
  /\ \E i \in Matches(target) :
       \/ ActivateVanishing(t, i)
       \/ <<i, "activation">> \notin vanishing /\ FailPrepared("activation")
       \/ ActivateMatched(t, i)

\* The numbers of the active client and of the target are exchanged.
MemSwapNumbers(t, target) ==
  /\ Free(t) /\ Cardinality(Matches(target)) = 1
  /\ \E a \in ActiveOf(boxes), i \in Matches(target) :
       boxes' = [boxes EXCEPT ![a].number = boxes[i].number, ![i].number = boxes[a].number]
  /\ UNCHANGED <<available, enabled, clutch>>
  /\ PublishLater(t)
  /\ UNCHANGED <<sequence, closed, idsIssued, retiredIds, failing, vanishing, mapped>>

MemSetBroadcast(t, on) ==
  /\ Free(t) /\ available
  /\ \/ FailPrepared("broadcast")
     \/ /\ "broadcast" \notin failing
        /\ enabled' = on
        /\ UNCHANGED <<boxes, available, clutch>>
        /\ PublishLater(t)
        /\ UNCHANGED <<sequence, closed, idsIssued, retiredIds, failing, vanishing, mapped>>

\* The holds after an operation that is not refused.
HoldsAfter(o, op) ==
  CASE op = "begin" -> clutch \cup {o}
    [] op = "renew" -> clutch
    [] op = "end" -> clutch \ {o}

\* A begin needs an active client and a ready background client; a renewal never
\* re-arms a hold.
Refused(o, op) ==
  \/ op = "begin" /\ ~Data.clutchReady
  \/ op = "renew" /\ o \notin clutch

\* A closed session is refused; a late sequence number changes nothing.
MayUpdate(o) == o \notin ToSet(closed)

MemUpdateHold(t, o, op, s) ==
  /\ Free(t) /\ MayUpdate(o)
  /\ s > sequence[o]
  /\ sequence' = [sequence EXCEPT ![o] = s]
  /\ UNCHANGED <<boxes, available, enabled>>
  /\ IF Refused(o, op) THEN UNCHANGED <<clutch, publishing, published>>
     ELSE clutch' = HoldsAfter(o, op) /\ PublishLater(t)
  /\ UNCHANGED <<closed, idsIssued, retiredIds, failing, vanishing, mapped>>

\* The sessions remembered as closed once o is one of them, the oldest forgotten.
Remembered(o) ==
  LET order == IF o \in ToSet(closed) THEN closed ELSE Append(closed, o) IN
  IF Len(order) > MaxClosed THEN Tail(order) ELSE order

\* end_mouse_clutch_session.
MemEndSession(t, o) ==
  /\ Free(t)
  /\ closed' = Remembered(o)
  /\ clutch' = clutch \ {o}
  /\ sequence' = [sequence EXCEPT ![o] = 0]
  /\ UNCHANGED <<boxes, available, enabled>>
  /\ PublishLater(t)
  /\ UNCHANGED <<idsIssued, retiredIds, failing, vanishing, mapped>>

\* A client that disappears on input is removed, and published, under the lock.
InputVanishing(i) ==
  /\ <<i, "input">> \in vanishing
  /\ vanishing' = vanishing \ {<<i, "input">>}
  /\ boxes' = Removed(i)
  /\ retiredIds' = retiredIds \cup {i}
  /\ mapped' = mapped \ {i}
  /\ UNCHANGED <<available, enabled, clutch>>
  /\ PublishNow
  /\ UNCHANGED <<sequence, closed, idsIssued, failing>>

\* prepare_memory_input, for send_text, send_keys and send_eq_action; a delivery
\* itself only records the input.
MemSendInput(t, i) ==
  /\ Free(t) /\ available /\ i \in LoadedIds /\ boxes[i].ready
  /\ \/ InputVanishing(i)
     \/ <<i, "input">> \notin vanishing /\ FailPrepared("input")

\* memory_clients_for_listing.
Selected(which) ==
  CASE which = "all_loaded" -> LoadedIds
    [] which = "active" -> ActiveOf(boxes)
    [] which = "background_loaded" -> IF ActiveOf(boxes) = {} THEN {} ELSE LoadedIds \ ActiveOf(boxes)

\* send_eq_action_batch: every target is checked before any is sent to.
MemSendBatch(t, which) ==
  LET S == Selected(which) IN
  /\ Free(t) /\ available /\ S # {}
  /\ \A i \in S : boxes[i].ready /\ i \in mapped
  /\ IF \E i \in S : <<i, "input">> \in vanishing
       THEN \E i \in S : InputVanishing(i)
       ELSE FailPrepared("input")

-----------------------------------------------------------------------------
HostNext(t) ==
  \/ \E n \in Number, a \in BOOLEAN : AddClient(t, n, a)
  \/ \E i \in Id : RemoveLoaded(t, i) \/ ChangeClient(t, i)
  \/ ChangeBroadcast(t) \/ Prepare(t)

CommandNext(t) ==
  \/ \E target \in Target : MemActivate(t, target) \/ MemSwapNumbers(t, target)
  \/ \E on \in BOOLEAN : MemSetBroadcast(t, on)
  \/ \E o \in Owner, op \in {"begin", "renew", "end"}, s \in 1 .. MaxSequence :
       MemUpdateHold(t, o, op, s)
  \/ \E o \in Owner : MemEndSession(t, o)
  \/ \E i \in Id : MemSendInput(t, i)
  \/ \E which \in {"all_loaded", "active", "background_loaded"} : MemSendBatch(t, which)

MemNext == \E t \in Thread : HostNext(t) \/ CommandNext(t) \/ Publish(t)

MemSpec == MemInit /\ [][MemNext]_memVars

-----------------------------------------------------------------------------
(* Properties *)

MemTypeOK ==
  /\ LoadedIds \subseteq 1 .. idsIssued /\ idsIssued \in 0 .. MaxId
  /\ \A i \in LoadedIds :
       boxes[i] \in [number : Number, active : BOOLEAN, ready : BOOLEAN]
  /\ available \in BOOLEAN /\ enabled \in BOOLEAN
  /\ clutch \subseteq Owner /\ sequence \in [Owner -> 0 .. MaxSequence]
  /\ Len(closed) <= MaxClosed
  /\ retiredIds \subseteq 1 .. idsIssued /\ mapped \subseteq 1 .. idsIssued

\* Ids tell clients apart for good: every id issued is loaded or retired and never
\* both, at most one client is active, and broadcasting is never on while it is
\* unavailable, whatever disappears in the middle of a command.
ClientsSound ==
  /\ LoadedIds \cap retiredIds = {}
  /\ LoadedIds \cup retiredIds = 1 .. idsIssued
  /\ Cardinality(ActiveOf(boxes)) <= 1
  /\ enabled => available

\* A hold never outlives the end of its session.
NoHoldAfterEnd == clutch \cap ToSet(closed) = {}

\* The hub holds the state the controller is in, or a call is about to tell it.
HubCurrent == published = Data \/ \E t \in Thread : publishing[t] = Data

\* A call that was overtaken between its lock and its publication tells the hub a
\* state that is no longer the controller's.
Overtaken == \E t \in Thread : publishing[t] # Data /\ Publish(t)

\* Whatever vanishes, ends or is retired in the middle of a command, clients and
\* holds stay sound, and every change is on its way to the hub; only a publication
\* that was overtaken after its lock makes the hub tell an older state
\* (hub.publish after the lock of activate and the other operations).
ControllerHolds ==
  /\ [](MemTypeOK /\ ClientsSound /\ NoHoldAfterEnd)
  /\ [][HubCurrent => HubCurrent' \/ Overtaken]_memVars
=============================================================================
