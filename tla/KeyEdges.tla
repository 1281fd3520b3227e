------------------------------ MODULE KeyEdges ------------------------------
(***************************************************************************)
(* How key strokes written by Stonemite reach a game that polls at its own *)
(* pace: the controller half of the shared mapping, with its sequence lock *)
(* and its ring of key events (crates/trusik-protocol/src/lib.rs), and the *)
(* proxy's buffered keyboard, which replays the ring and then reconciles   *)
(* with the key levels (crates/trusik/src/device_proxy.rs, GetDeviceData). *)
(*                                                                         *)
(* Every access to the mapping is one step.  The auto-typed keys are those *)
(* module AutoType makes visible; here they change freely.                 *)
(***************************************************************************)
EXTENDS Integers, Sequences, FiniteSets, FiniteSetsExt

CONSTANTS
  Scan,        \* scan codes, numbers read in ascending order
  AutoScan,    \* those the auto-typer may touch in this instance
  Cap,         \* CONTROLLER_EVENT_CAPACITY
  Wrap,        \* 2^32: the event counter's modulus
  Tries,       \* attempts of read_consistent() before it settles for less
  MaxEdges,    \* bound on the number of key changes written
  MaxSeq,      \* bound on the sequence, below the 2^32 at which it wraps
  MaxFaults    \* bound on the times Stonemite stalls, dies or restarts

ASSUME ScanAssumption == Scan \subseteq Nat \ {0} /\ IsFiniteSet(Scan) /\ AutoScan \subseteq Scan
ASSUME RingAssumption ==
  /\ Cap \in Nat \ {0} /\ Wrap \in Nat /\ Wrap > Cap + 1 /\ Wrap % Cap = 0
  /\ Tries \in Nat \ {0}
ASSUME BoundsAssumption == MaxEdges \in Nat /\ MaxSeq \in Nat /\ MaxFaults \in Nat

VARIABLES
  \* The mapping.
  seq,         \* controller_sequence
  ckeys,       \* controller_keys
  head, ring,  \* controller_event_head, controller_events
  sources,     \* controller_keyboard_active # 0
  fresh,       \* is the controller's heartbeat fresh?
  auto,        \* visible auto-typed keys
  \* The threads.
  wr,          \* Stonemite's tray thread
  rd,          \* a GetDeviceData() call
  cursor,      \* controller_event_cursor
  observed,    \* observed_keys
  \* Histories.
  edges,       \* changes made to each key
  delivered,   \* events queued for the game
  quiet,       \* nothing changed since the call in progress or last ended began
  lost,        \* why strokes may be lost or doubled: the ring overflowed
               \* ("ring"); an owner went, was silent or shares a key ("owner");
               \* levels were read that no sequence vouched for ("mixed")
  faults       \* how often Stonemite stalled, died or restarted

shmVars  == <<seq, ckeys, head, ring, sources, fresh, auto>>
pollVars == <<rd, cursor, observed, delivered>>
vars == <<shmVars, wr, pollVars, edges, quiet, lost, faults>>

NoCursor == Wrap
WriterIdle == [pc |-> "idle", key |-> 0, down |-> FALSE]
Idle == [pc |-> "idle", next |-> 0, end |-> 0, over |-> FALSE, events |-> <<>>,
         auto |-> {}, tries |-> 0, before |-> 0, left |-> {}, keys |-> {}]

\* controller_keyboard_is_active()
ControllerActive == sources /\ fresh

Init ==
  /\ seq = 0
  /\ ckeys = {}
  /\ head = 0
  /\ ring = [n \in 0..(Cap - 1) |-> [stamp |-> 0, key |-> 0, down |-> FALSE]]
  /\ sources = FALSE
  /\ fresh = TRUE
  /\ auto = {}
  /\ wr = WriterIdle
  /\ rd = Idle
  /\ cursor \in {0, NoCursor}
  /\ observed = {}
  /\ edges = [k \in Scan |-> 0]
  /\ delivered = [k \in Scan |-> 0]
  /\ quiet = FALSE
  /\ lost = IF cursor = NoCursor THEN {"ring"} ELSE {}
  /\ faults = 0

----------------------------------------------------------------------------
(* Stonemite writes.                                                       *)

Total == MapThenSumSet(LAMBDA k : edges[k], Scan)

\* How many events the reader is behind; one without a cursor begins at the head.
Lag == LET from == IF cursor # NoCursor THEN cursor ELSE IF rd.pc = "drain" THEN rd.end ELSE head
       IN (head - from) % Wrap

Fault ==
  /\ faults < MaxFaults
  /\ faults' = faults + 1

GoTo(pc) == wr' = [wr EXCEPT !.pc = pc]

\* set_controller_key(): lock_sequence() spins while the sequence is odd.
\* Keys are written while a source is on (module KeyDelivery); the reader is
\* never 2^32 events behind.
LockSequence(k, down) ==
  /\ wr.pc = "idle"
  /\ sources
  /\ seq % 2 = 0
  /\ Lag < Wrap - 1 /\ Total < MaxEdges /\ seq < MaxSeq
  /\ seq' = seq + 1
  /\ wr' = [pc |-> "level", key |-> k, down |-> down]
  /\ quiet' = FALSE
  /\ UNCHANGED <<ckeys, head, ring, sources, fresh, auto, pollVars, edges, lost, faults>>

StoreLevel ==
  /\ wr.pc = "level"
  /\ quiet' = FALSE
  /\ IF (wr.key \in ckeys) = wr.down
     THEN GoTo("unlock") /\ UNCHANGED <<ckeys, edges>>
     ELSE /\ ckeys' = IF wr.down THEN ckeys \cup {wr.key} ELSE ckeys \ {wr.key}
          /\ edges' = [edges EXCEPT ![wr.key] = @ + 1]
          /\ GoTo("record")
  /\ UNCHANGED <<seq, head, ring, sources, fresh, auto, pollVars, lost, faults>>

\* publish_controller_event(): the record before the head that uncovers it.
StoreRecord ==
  /\ wr.pc = "record"
  /\ ring' = [ring EXCEPT ![head % Cap] = [stamp |-> head, key |-> wr.key, down |-> wr.down]]
  /\ GoTo("head")
  /\ quiet' = FALSE
  /\ UNCHANGED <<seq, ckeys, head, sources, fresh, auto, pollVars, edges, lost, faults>>

\* Mutant: the event counter does not wrap.
HeadPlusOne == head + 1

\* wrapping_add(1)
NextHead == (head + 1) % Wrap

StoreHead ==
  /\ wr.pc = "head"
  /\ head' = NextHead
  /\ GoTo("unlock")
  /\ quiet' = FALSE
  /\ UNCHANGED <<seq, ckeys, ring, sources, fresh, auto, pollVars, edges, lost, faults>>

UnlockSequence ==
  /\ wr.pc = "unlock"
  /\ seq' = seq + 1
  /\ wr' = WriterIdle
  /\ quiet' = FALSE
  /\ UNCHANGED <<ckeys, head, ring, sources, fresh, auto, pollVars, edges, lost, faults>>

\* set_keyboard_source(): on before the first key is pressed, off after the
\* last one is released.
SetSource(on) ==
  /\ wr.pc = "idle"
  /\ sources # on
  /\ on \/ ckeys = {}
  /\ sources' = on
  /\ quiet' = FALSE
  /\ lost' = IF on \/ (Lag = 0 /\ rd.events = <<>>) THEN lost ELSE lost \cup {"owner"}
  /\ UNCHANGED <<seq, ckeys, head, ring, fresh, auto, wr, pollVars, edges, faults>>

\* The heartbeat grows stale, and is refreshed by the next tick.
Lapse ==
  /\ fresh
  /\ IF wr.pc = "dead" THEN UNCHANGED faults ELSE Fault
  /\ fresh' = FALSE
  /\ quiet' = FALSE /\ lost' = lost \cup {"owner"}
  /\ UNCHANGED <<seq, ckeys, head, ring, sources, auto, wr, pollVars, edges>>

RefreshHeartbeat ==
  /\ wr.pc = "idle"
  /\ ~fresh
  /\ fresh' = TRUE
  /\ quiet' = FALSE
  /\ UNCHANGED <<seq, ckeys, head, ring, sources, auto, wr, pollVars, edges, lost, faults>>

\* Stonemite dies wherever it is; the mapping stays as it was.
Kill ==
  /\ Fault
  /\ wr.pc # "dead"
  /\ GoTo("dead")
  /\ quiet' = FALSE
  /\ UNCHANGED <<shmVars, pollVars, edges, lost>>

\* retire_controller(), when a mapping is dropped or taken over: the flags,
\* the heartbeat, then reset_keys(), which forces the sequence.
RetireFlags ==
  /\ Fault
  /\ wr.pc \in {"idle", "dead"}
  /\ sources' = FALSE
  /\ fresh' = FALSE
  /\ wr' = [WriterIdle EXCEPT !.pc = "reset"]
  /\ quiet' = FALSE /\ lost' = lost \cup {"owner"}
  /\ UNCHANGED <<seq, ckeys, head, ring, auto, pollVars, edges>>

\* The sequence is odd during the reset and even after it.
ResetSequence == 1
EndOfReset == 2

ResetBegin ==
  /\ wr.pc = "reset"
  /\ seq' = ResetSequence
  /\ GoTo("clear")
  /\ quiet' = FALSE
  /\ UNCHANGED <<ckeys, head, ring, sources, fresh, auto, pollVars, edges, lost, faults>>

ResetKey ==
  /\ wr.pc = "clear"
  /\ ckeys # {}
  /\ ckeys' = ckeys \ {Min(ckeys)}
  /\ quiet' = FALSE
  /\ UNCHANGED <<seq, head, ring, sources, fresh, auto, wr, pollVars, edges, lost, faults>>

\* The new owner's first heartbeat follows.
ResetEnd ==
  /\ wr.pc = "clear"
  /\ ckeys = {}
  /\ seq' = EndOfReset
  /\ fresh' = TRUE
  /\ wr' = WriterIdle
  /\ quiet' = FALSE
  /\ UNCHANGED <<ckeys, head, ring, sources, auto, pollVars, edges, lost, faults>>

AutoType(k) ==
  /\ Total < MaxEdges
  /\ auto' = IF k \in auto THEN auto \ {k} ELSE auto \cup {k}
  /\ edges' = [edges EXCEPT ![k] = @ + 1]
  /\ quiet' = FALSE /\ lost' = lost \cup {"owner"}
  /\ UNCHANGED <<seq, ckeys, head, ring, sources, fresh, wr, pollVars, faults>>

----------------------------------------------------------------------------
(* GetDeviceData(): drain the ring, replay it, reconcile with the levels.  *)

unread == <<shmVars, wr, edges, faults>>

Goes(pc) == rd' = [rd EXCEPT !.pc = pc]

\* drain_controller_events(): a reader more than a ring behind skips to the
\* oldest record still there.
IsBehind(next) == (head - next) % Wrap > Cap

DrainBegin ==
  LET over == cursor # NoCursor /\ IsBehind(cursor)
      next == IF cursor = NoCursor THEN head ELSE IF over THEN (head - Cap) % Wrap ELSE cursor
  IN  /\ rd.pc = "idle"
      /\ rd' = [Idle EXCEPT !.pc = "drain", !.next = next, !.end = head, !.over = over]
      /\ quiet' = TRUE
      /\ UNCHANGED <<unread, cursor, observed, delivered, lost>>

\* A record that was overwritten meanwhile does not carry the expected stamp.
StampMatches(r) == r.stamp = rd.next

DrainRecord ==
  LET r == ring[rd.next % Cap]
  IN  /\ rd.pc = "drain"
      /\ rd.next # rd.end
      /\ rd' = [rd EXCEPT !.next = (@ + 1) % Wrap,
                          !.over = @ \/ ~StampMatches(r),
                          !.events = IF StampMatches(r) THEN Append(@, r) ELSE @]
      /\ UNCHANGED <<unread, cursor, observed, delivered, quiet, lost>>

\* The next call goes on where this one's head was.
CursorAfter == rd.end

DrainEnd ==
  /\ rd.pc = "drain"
  /\ rd.next = rd.end
  /\ cursor' = CursorAfter
  /\ Goes("auto")
  /\ lost' = IF rd.over THEN lost \cup {"ring"} ELSE lost
  /\ UNCHANGED <<unread, observed, delivered, quiet>>

ReadAutoTypeKeys ==
  /\ rd.pc = "auto"
  /\ rd' = [rd EXCEPT !.pc = "replay", !.auto = auto]
  /\ UNCHANGED <<unread, cursor, observed, delivered, quiet, lost>>

\* observe_controller_events(): what one event makes of the observed keys.
\* A key another owner holds stays down.
Effective(e) == e.down \/ e.key \in rd.auto

\* Mutant: an event counts although the levels told it before.
ObserveTwice(e) ==
  /\ observed' = IF Effective(e) THEN observed \cup {e.key} ELSE observed \ {e.key}
  /\ delivered' = [delivered EXCEPT ![e.key] = @ + 1]

ObserveEvent(e) ==
  IF (e.key \in observed) = Effective(e)
  THEN UNCHANGED <<observed, delivered>>
  ELSE /\ observed' = IF Effective(e) THEN observed \cup {e.key} ELSE observed \ {e.key}
       /\ delivered' = [delivered EXCEPT ![e.key] = @ + 1]

\* Events of a controller that is not active are dropped.
Replay ==
  /\ rd.pc = "replay"
  /\ rd.events # <<>>
  /\ ControllerActive
  /\ ObserveEvent(Head(rd.events))
  /\ rd' = [rd EXCEPT !.pc = "replaying", !.events = Tail(@)]
  /\ UNCHANGED <<unread, cursor, quiet, lost>>

Replaying ==
  /\ rd.pc = "replaying"
  /\ rd.events # <<>>
  /\ ObserveEvent(Head(rd.events))
  /\ rd' = [rd EXCEPT !.events = Tail(@)]
  /\ UNCHANGED <<unread, cursor, quiet, lost>>

ReplayEnd ==
  /\ \/ rd.pc = "replay" /\ (rd.events = <<>> \/ ~ControllerActive)
     \/ rd.pc = "replaying" /\ rd.events = <<>>
  /\ rd' = [rd EXCEPT !.pc = "levels", !.events = <<>>]
  /\ UNCHANGED <<unread, cursor, observed, delivered, quiet, lost>>

\* read_effective_keys(): nothing of an inactive controller is read.
ReadLevels ==
  /\ rd.pc = "levels"
  /\ Goes(IF ControllerActive THEN "try" ELSE "observe")
  /\ UNCHANGED <<unread, cursor, observed, delivered, quiet, lost>>

\* read_consistent(): before, keys, after; at last any levels will do.
LoadBefore ==
  /\ rd.pc = "try"
  /\ IF rd.tries = Tries
     THEN rd' = [rd EXCEPT !.pc = "settle", !.left = Scan, !.keys = {}]
     ELSE IF seq % 2 = 1
     THEN rd' = [rd EXCEPT !.tries = @ + 1]
     ELSE rd' = [rd EXCEPT !.pc = "read", !.before = seq, !.left = Scan, !.keys = {}]
  /\ UNCHANGED <<unread, cursor, observed, delivered, quiet, lost>>

LoadKey ==
  LET k == Min(rd.left)
  IN  /\ rd.pc \in {"read", "settle"}
      /\ rd.left # {}
      /\ rd' = [rd EXCEPT !.left = @ \ {k}, !.keys = IF k \in ckeys THEN @ \cup {k} ELSE @]
      /\ UNCHANGED <<unread, cursor, observed, delivered, quiet, lost>>

\* Mutant: a snapshot of the levels is taken as whole without the sequence lock.
SequenceIgnored == TRUE

SequenceUnchanged == seq = rd.before

LoadAfter ==
  /\ rd.pc = "read"
  /\ rd.left = {}
  /\ rd' = IF SequenceUnchanged THEN [rd EXCEPT !.pc = "observe"]
           ELSE [rd EXCEPT !.pc = "try", !.tries = @ + 1]
  /\ UNCHANGED <<unread, cursor, observed, delivered, quiet, lost>>

Settle ==
  /\ rd.pc = "settle"
  /\ rd.left = {}
  /\ Goes("observe")
  /\ lost' = lost \cup {"mixed"}
  /\ UNCHANGED <<unread, cursor, observed, delivered, quiet>>

\* observe(): an event for every key whose level differs.
LevelsRead == rd.keys \cup auto

Observe ==
  /\ rd.pc = "observe"
  /\ LET levels == LevelsRead
     IN  /\ observed' = levels
         /\ delivered' = [k \in Scan |-> IF (k \in levels) = (k \in observed) THEN delivered[k]
                                         ELSE delivered[k] + 1]
  /\ rd' = Idle
  /\ UNCHANGED <<unread, cursor, quiet, lost>>

----------------------------------------------------------------------------

Write ==
  \/ \E k \in Scan, down \in BOOLEAN : LockSequence(k, down)
  \/ StoreLevel \/ StoreRecord \/ StoreHead \/ UnlockSequence
  \/ \E on \in BOOLEAN : SetSource(on)
  \/ RefreshHeartbeat

Retire == RetireFlags \/ ResetBegin \/ ResetKey \/ ResetEnd

Poll ==
  \/ DrainBegin \/ DrainRecord \/ DrainEnd
  \/ ReadAutoTypeKeys \/ Replay \/ Replaying \/ ReplayEnd
  \/ ReadLevels \/ LoadBefore \/ LoadKey \/ LoadAfter \/ Settle \/ Observe

Next ==
  \/ Write \/ Retire \/ Poll
  \/ Lapse \/ Kill
  \/ \E k \in AutoScan : AutoType(k)

Spec == Init /\ [][Next]_vars

----------------------------------------------------------------------------
(* Properties.                                                             *)

Event == [stamp : 0..(Wrap - 1), key : Scan \cup {0}, down : BOOLEAN]

\* Every variable has its type.
TypeOK ==
  /\ seq \in Nat /\ ckeys \subseteq Scan
  /\ head \in 0..(Wrap - 1) /\ ring \in [0..(Cap - 1) -> Event]
  /\ sources \in BOOLEAN /\ fresh \in BOOLEAN /\ auto \subseteq Scan
  /\ wr \in [pc : {"idle", "level", "record", "head", "unlock", "dead", "reset", "clear"},
             key : Scan \cup {0}, down : BOOLEAN]
  /\ rd.pc \in {"idle", "drain", "auto", "replay", "replaying", "levels", "try", "read",
               "settle", "observe"}
  /\ rd.next \in 0..(Wrap - 1) /\ rd.end \in 0..(Wrap - 1) /\ rd.over \in BOOLEAN
  /\ rd.events \in Seq(Event) /\ Len(rd.events) <= Cap
  /\ rd.auto \subseteq Scan /\ rd.keys \subseteq Scan /\ rd.left \subseteq Scan
  /\ rd.tries \in 0..Tries /\ rd.before \in Nat
  /\ cursor \in 0..Wrap /\ observed \subseteq Scan
  /\ edges \in [Scan -> Nat] /\ delivered \in [Scan -> Nat]
  /\ quiet \in BOOLEAN /\ lost \subseteq {"ring", "owner", "mixed"} /\ faults \in Nat

\* Levels and ring tell of the same strokes twice, and never in step: the game
\* is still told of no stroke that was not made, not even after an overflow.
NoInventedStrokes == lost \subseteq {"ring"} => \A k \in Scan : delivered[k] <= edges[k]

\* Every stroke made between two polls reaches the game, however short, unless
\* the ring overflowed, its owner went away, or the writer was caught at it.
NoLostStrokes == rd.pc = "idle" /\ quiet /\ lost = {} => delivered = edges

\* "Reconciled current key levels": a poll during which nothing changed leaves
\* the game with exactly the keys that are down, whatever was lost before.
LevelsReconciled ==
  rd.pc = "idle" /\ quiet => observed = (IF sources /\ fresh THEN ckeys ELSE {}) \cup auto

\* A snapshot of the levels that the sequence lock vouches for is one the
\* writer had published, not a mixture of two.
SnapshotsWhole ==
  [][rd.pc = "read" /\ rd'.pc = "observe" /\ "owner" \notin lost => rd.keys = ckeys]_vars

\* reset_keys() "deliberately recovers a sequence left odd by an owner process
\* that terminated during a write": an owner that is not writing finds the lock
\* free.
LockNeverStuck == wr.pc = "idle" => seq % 2 = 0

\* Strokes are neither invented nor lost on their way to the game.
StrokesExact == NoInventedStrokes /\ NoLostStrokes

\* What the game takes for the keys that are down is what they are.
LevelsSound == [](LevelsReconciled /\ LockNeverStuck) /\ SnapshotsWhole

\* Once its owner is dead, a game lets go of the controller's keys.
DeadOwnerReleased == <>[](wr.pc = "dead") => <>[](observed = auto)
=============================================================================
