-------------------------- MODULE GameInputProofs --------------------------
(***************************************************************************)
(* What module KeyEdges promises, for every set of scan codes, ring size,  *)
(* modulus of the event counter and number of attempts, and InputProxy,    *)
(* for every modulus of the tick count and every timeout.                  *)
(*                                                                         *)
(* The ring and the counters are read as windows on an unbounded history:  *)
(* E[i] is how often each key had changed before the i-th event, K[i] the  *)
(* key of the i-th event, and head, cursor and the reader's position are   *)
(* the remainders of absolute positions in it.  No such history is kept by *)
(* the program; the invariant says that there is one.                      *)
(*                                                                         *)
(* The proxy's heartbeats use the same remainders: HeartbeatExpires says   *)
(* when one is fresh, and the invariant that the mapping holds the last.   *)
(***************************************************************************)
EXTENDS KeyEdges, InputProxy, TLAPS

----------------------------------------------------------------------------
(* Remainders                                                              *)

LEMMA Division ==
  ASSUME NEW a \in Int, NEW m \in Nat \ {0}
  PROVE  (a % m) \in 0..(m - 1) /\ a \div m \in Int /\ a = m * (a \div m) + (a % m)
BY SMT

LEMMA DivisionUnique ==
  ASSUME NEW m \in Nat \ {0}, NEW q \in Int, NEW p \in Int,
         NEW r \in 0..(m - 1), NEW s \in 0..(m - 1), m * q + r = m * p + s
  PROVE  q = p /\ r = s
BY SMT

LEMMA Remainder ==
  ASSUME NEW m \in Nat \ {0}, NEW q \in Int, NEW r \in 0..(m - 1), NEW a \in Int, a = m * q + r
  PROVE  a % m = r
BY Division, DivisionUnique

LEMMA SmallRemainder ==
  ASSUME NEW m \in Nat \ {0}, NEW x \in 0..(m - 1)
  PROVE  x % m = x
BY SMT

LEMMA RemainderInjective ==
  ASSUME NEW m \in Nat \ {0}, NEW x \in Int, NEW y \in Int, x <= y, y - x < m, x % m = y % m
  PROVE  x = y
<1> DEFINE q == x \div m  p == y \div m
<1>1. q \in Int /\ p \in Int /\ x = m * q + (x % m) /\ y = m * p + (y % m) /\ (x % m) \in Int
  BY Division
<1> HIDE DEF q, p
<1>2. y - x = m * (p - q)
  BY <1>1, SMT
<1>3. p - q \in 0..0
  <2>1. ~(p - q >= 1)
    BY <1>1, <1>2, SMT
  <2>2. ~(p - q <= -1)
    BY <1>1, <1>2, SMT
  <2> QED BY <1>1, <2>1, <2>2
<1> QED BY <1>1, <1>2, <1>3

LEMMA MultipleAdded ==
  ASSUME NEW m \in Nat \ {0}, NEW x \in Int, NEW k \in Int
  PROVE  (x + m * k) % m = x % m
<1> DEFINE q == x \div m  r == x % m
<1>1. q \in Int /\ r \in 0..(m - 1) /\ x = m * q + r
  BY Division
<1> HIDE DEF q, r
<1>2. x + m * k = m * (q + k) + r
  BY <1>1, SMT
<1>3. m * k \in Int
  BY SMT
<1>4. (x + m * k) % m = r
  BY <1>1, <1>2, <1>3, Remainder
<1> QED BY <1>4 DEF r

LEMMA NestedRemainder ==
  ASSUME NEW m \in Nat \ {0}, NEW c \in Nat \ {0}, m % c = 0, NEW x \in Int
  PROVE  (x % m) % c = x % c
<1> DEFINE q == x \div m  r == x % m  d == m \div c  e == d * q
<1>1. q \in Int /\ r \in 0..(m - 1) /\ x = m * q + r
  BY Division
<1>2. d \in Int /\ m = c * d + (m % c)
  BY Division
<1> HIDE DEF q, r, d
<1>3. m = c * d
  BY <1>2, m % c = 0
<1>4. x = r + c * e
  BY <1>1, <1>2, <1>3, SMT
<1>5. r \in Int /\ e \in Int
  BY <1>1, <1>2, SMT
<1> HIDE DEF e
<1>6. (r + c * e) % c = r % c
  BY <1>5, MultipleAdded
<1> QED BY <1>4, <1>6 DEF r

LEMMA RemainderLeft ==
  ASSUME NEW m \in Nat \ {0}, NEW x \in Int, NEW y \in Int
  PROVE  ((y % m) - x) % m = (y - x) % m
<1> DEFINE q == y \div m  r == y % m
<1>1. q \in Int /\ r \in 0..(m - 1) /\ y = m * q + r
  BY Division
<1> HIDE DEF q, r
<1>2. y - x = (r - x) + m * q
  BY <1>1, SMT
<1>3. r - x \in Int
  BY <1>1
<1>4. ((r - x) + m * q) % m = (r - x) % m
  BY <1>1, <1>3, MultipleAdded
<1> QED BY <1>2, <1>4 DEF r

LEMMA RemainderRight ==
  ASSUME NEW m \in Nat \ {0}, NEW x \in Int, NEW y \in Int
  PROVE  (y - (x % m)) % m = (y - x) % m
<1> DEFINE q == x \div m  r == x % m
<1>1. q \in Int /\ r \in 0..(m - 1) /\ x = m * q + r
  BY Division
<1> HIDE DEF q, r
<1>2. y - r = (y - x) + m * q
  BY <1>1, SMT
<1>3. y - x \in Int
  OBVIOUS
<1>4. ((y - x) + m * q) % m = (y - x) % m
  BY <1>1, <1>3, MultipleAdded
<1> QED BY <1>2, <1>4 DEF r

LEMMA WrapRange ==
  \A a \in Int : (a % Wrap) \in 0..(Wrap - 1) /\ (a % Cap) \in 0..(Cap - 1)
<1>1. Wrap \in Nat \ {0} /\ Cap \in Nat \ {0}
  BY RingAssumption
<1> QED BY <1>1, Division

----------------------------------------------------------------------------
(* The threads                                                             *)

Busy == {"level", "record", "head", "unlock"}

WriterType == [pc : {"idle", "level", "record", "head", "unlock", "dead", "reset", "clear"},
               key : Scan \cup {0}, down : BOOLEAN]

ReaderType == [pc : {"idle", "drain", "auto", "replay", "replaying", "levels", "try", "read",
                     "settle", "observe"},
               next : 0..(Wrap - 1), end : 0..(Wrap - 1), over : BOOLEAN,
               events : Seq(Event), auto : SUBSET Scan, tries : 0..Tries, before : Nat,
               left : SUBSET Scan, keys : SUBSET Scan]

Mapping ==
  /\ seq \in Nat /\ ckeys \in SUBSET Scan
  /\ head \in 0..(Wrap - 1) /\ ring \in [0..(Cap - 1) -> Event]
  /\ sources \in BOOLEAN /\ fresh \in BOOLEAN /\ auto \in SUBSET Scan

Threads ==
  /\ wr \in WriterType /\ rd \in ReaderType
  /\ cursor \in 0..Wrap
  /\ quiet \in BOOLEAN /\ lost \in SUBSET {"ring", "owner", "mixed"} /\ faults \in Nat

Counts ==
  /\ observed \in SUBSET Scan
  /\ edges \in [Scan -> Nat] /\ delivered \in [Scan -> Nat]

\* The sequence is odd exactly while the writer is at it.
WriterSound ==
  /\ wr.pc = "idle" => seq % 2 = 0
  /\ wr.pc \in Busy => seq % 2 = 1 /\ wr.key \in Scan /\ sources

\* An owner that never failed.
OwnerSound ==
  "owner" \notin lost =>
    /\ fresh /\ auto = {} /\ rd.auto = {} /\ wr.pc \notin {"reset", "clear"}
    /\ ~sources => ckeys = {} /\ seq % 2 = 0

ReaderSound ==
  /\ rd.pc \in {"idle", "drain", "auto", "replay", "replaying", "levels"} => rd.keys = {}
  /\ rd.pc \notin {"drain", "auto", "replay", "replaying"} => rd.events = <<>>
  /\ rd.pc # "drain" /\ rd.over => "ring" \in lost
  /\ rd.pc = "read" => rd.tries < Tries /\ rd.before % 2 = 0

\* What the sequence vouches for.
SnapshotSound ==
  rd.pc = "read" /\ "owner" \notin lost =>
    rd.before <= seq /\ (seq = rd.before => rd.keys = ckeys \ rd.left)

\* A call during which nothing changes sees everything there is.
QuietSound ==
  quiet =>
    /\ rd.pc = "drain" => rd.end = head
    /\ rd.pc # "drain" => cursor = head
    /\ rd.pc \in {"try", "read", "settle"} => ControllerActive
    /\ rd.pc \in {"read", "settle"} => rd.keys = ckeys \ rd.left
    /\ rd.pc = "observe" => rd.keys = IF ControllerActive THEN ckeys ELSE {}
    /\ rd.pc = "idle" => observed = (IF ControllerActive THEN ckeys ELSE {}) \cup auto
    /\ rd.pc \in {"observe", "idle"} /\ lost \subseteq {"ring"} => seq % 2 = 0

StateSound ==
  Mapping /\ Threads /\ Counts /\ WriterSound /\ OwnerSound /\ ReaderSound
    /\ SnapshotSound /\ QuietSound

----------------------------------------------------------------------------
(* Who changes what                                                        *)

Outside == Write \/ Retire \/ Lapse \/ Kill \/ (\E k \in AutoScan : AutoType(k))

LEMMA OutsideFrame == Outside => UNCHANGED pollVars /\ quiet' = FALSE /\ lost \subseteq lost'
BY DEF Outside, Write, Retire, LockSequence, StoreLevel, StoreRecord, StoreHead, UnlockSequence,
       SetSource, RefreshHeartbeat, RetireFlags, ResetBegin, ResetKey, ResetEnd, Lapse, Kill,
       AutoType, pollVars, shmVars

LEMMA PollFrame == Poll => UNCHANGED <<shmVars, wr, edges, faults>> /\ lost \subseteq lost'
BY DEF Poll, DrainBegin, DrainRecord, DrainEnd, ReadAutoTypeKeys, Replay, Replaying, ReplayEnd,
       ReadLevels, LoadBefore, LoadKey, LoadAfter, Settle, Observe, unread

\* What Stonemite does to the sequence and the levels.
LEMMA WriterKept ==
  ASSUME StateSound, Outside
  PROVE  WriterSound'
<1> USE DEF StateSound, Mapping, Threads, WriterSound, WriterType, Busy
<1>1. CASE \E k \in Scan, down \in BOOLEAN : LockSequence(k, down)
  BY <1>1 DEF LockSequence
<1>2. CASE StoreLevel \/ StoreRecord \/ StoreHead \/ UnlockSequence
  BY <1>2 DEF StoreLevel, StoreRecord, StoreHead, UnlockSequence, WriterIdle, GoTo
<1>3. CASE (\E on \in BOOLEAN : SetSource(on)) \/ RefreshHeartbeat
  BY <1>3 DEF SetSource, RefreshHeartbeat
<1>4. CASE Retire
  BY <1>4 DEF Retire, RetireFlags, ResetBegin, ResetKey, ResetEnd, WriterIdle, GoTo,
     ResetSequence, EndOfReset
<1>5. CASE Lapse \/ Kill \/ \E k \in AutoScan : AutoType(k)
  BY <1>5 DEF Lapse, Kill, AutoType, Fault, GoTo, shmVars
<1> QED BY <1>1, <1>2, <1>3, <1>4, <1>5 DEF Outside, Write

LEMMA OwnerKept ==
  ASSUME StateSound, Outside
  PROVE  OwnerSound'
<1> USE DEF StateSound, Mapping, Threads, WriterSound, OwnerSound, WriterType, Busy
<1>0. lost \subseteq lost' /\ UNCHANGED rd
  BY OutsideFrame DEF pollVars
<1>1. CASE \E k \in Scan, down \in BOOLEAN : LockSequence(k, down)
  BY <1>1 DEF LockSequence, pollVars
<1>2. CASE StoreLevel \/ StoreRecord \/ StoreHead \/ UnlockSequence
  BY <1>2 DEF StoreLevel, StoreRecord, StoreHead, UnlockSequence, WriterIdle, GoTo, pollVars
<1>3. CASE (\E on \in BOOLEAN : SetSource(on)) \/ RefreshHeartbeat
  BY <1>0, <1>3 DEF SetSource, RefreshHeartbeat, pollVars
<1>4. CASE Retire
  BY <1>0, <1>4 DEF Retire, RetireFlags, ResetBegin, ResetKey, ResetEnd, WriterIdle, GoTo, pollVars
<1>5. CASE Lapse \/ Kill \/ \E k \in AutoScan : AutoType(k)
  BY <1>0, <1>5 DEF Lapse, Kill, AutoType, Fault, GoTo, shmVars, pollVars
<1> QED BY <1>1, <1>2, <1>3, <1>4, <1>5 DEF Outside, Write

\* The writer never touches the levels while the sequence is even.
LEMMA SnapshotKept ==
  ASSUME StateSound, Outside
  PROVE  SnapshotSound'
<1> USE DEF StateSound, Mapping, Threads, WriterSound, OwnerSound, ReaderSound, SnapshotSound,
            WriterType, ReaderType, Busy
<1>0. lost \subseteq lost' /\ UNCHANGED rd
  BY OutsideFrame DEF pollVars
<1>1. CASE \E k \in Scan, down \in BOOLEAN : LockSequence(k, down)
  BY <1>0, <1>1 DEF LockSequence
<1>2. CASE StoreLevel
  BY <1>0, <1>2 DEF StoreLevel, GoTo
<1>3. CASE StoreRecord \/ StoreHead \/ UnlockSequence
  BY <1>0, <1>3 DEF StoreRecord, StoreHead, UnlockSequence, WriterIdle, GoTo
<1>4. CASE (\E on \in BOOLEAN : SetSource(on)) \/ RefreshHeartbeat
  BY <1>0, <1>4 DEF SetSource, RefreshHeartbeat
<1>5. CASE Retire
  BY <1>0, <1>5 DEF Retire, RetireFlags, ResetBegin, ResetKey, ResetEnd, WriterIdle, GoTo
<1>6. CASE Lapse \/ Kill \/ \E k \in AutoScan : AutoType(k)
  BY <1>0, <1>6 DEF Lapse, Kill, AutoType, Fault, GoTo, shmVars
<1> QED BY <1>1, <1>2, <1>3, <1>4, <1>5, <1>6 DEF Outside, Write

LEMMA MappingKept ==
  ASSUME StateSound, Outside
  PROVE  Mapping' /\ edges' \in [Scan -> Nat]
<1> USE ScanAssumption, RingAssumption
    DEF StateSound, Mapping, Threads, Counts, WriterSound, WriterType, Busy
<1>1. CASE \E k \in Scan, down \in BOOLEAN : LockSequence(k, down)
  BY <1>1 DEF LockSequence
<1>2. CASE StoreLevel
  <2>1. wr.key \in Scan
    BY <1>2 DEF StoreLevel
  <2>0. ckeys \in SUBSET Scan
    OBVIOUS
  <2>2. ckeys' \in SUBSET Scan
    <3> HIDE DEF StateSound, Mapping, Threads, Counts, WriterSound, WriterType
    <3> QED BY <1>2, <2>0, <2>1 DEF StoreLevel
  <2>3. edges' \in [Scan -> Nat]
    BY <1>2, <2>1 DEF StoreLevel
  <2> QED BY <1>2, <2>2, <2>3 DEF StoreLevel
<1>3. CASE StoreRecord
  <2>1. [stamp |-> head, key |-> wr.key, down |-> wr.down] \in Event
    BY DEF Event
  <2> QED BY <1>3, <2>1 DEF StoreRecord
<1>4. CASE StoreHead
  <2>0. head + 1 \in Int
    OBVIOUS
  <2>1. NextHead \in 0..(Wrap - 1)
    BY <2>0, WrapRange DEF NextHead
  <2> QED BY <1>4, <2>1 DEF StoreHead
<1>5. CASE UnlockSequence
  BY <1>5 DEF UnlockSequence
<1>6. CASE (\E on \in BOOLEAN : SetSource(on)) \/ RefreshHeartbeat
  BY <1>6 DEF SetSource, RefreshHeartbeat
<1>7. CASE Retire
  <2>1. ckeys' \in SUBSET Scan
    BY <1>7 DEF Retire, RetireFlags, ResetBegin, ResetKey, ResetEnd
  <2>2. seq' \in Nat
    BY <1>7 DEF Retire, RetireFlags, ResetBegin, ResetKey, ResetEnd, ResetSequence, EndOfReset
  <2>3. sources' \in BOOLEAN /\ fresh' \in BOOLEAN
    BY <1>7 DEF Retire, RetireFlags, ResetBegin, ResetKey, ResetEnd
  <2>4. UNCHANGED <<head, ring, auto, edges>>
    BY <1>7 DEF Retire, RetireFlags, ResetBegin, ResetKey, ResetEnd
  <2> QED BY <2>1, <2>2, <2>3, <2>4
<1>8. CASE Lapse \/ Kill
  BY <1>8 DEF Lapse, Kill, Fault, shmVars
<1>9. CASE \E k \in AutoScan : AutoType(k)
  BY <1>9 DEF AutoType
<1> QED BY <1>1, <1>2, <1>3, <1>4, <1>5, <1>6, <1>7, <1>8, <1>9 DEF Outside, Write

LEMMA ThreadsKept ==
  ASSUME StateSound, Outside
  PROVE  Threads'
<1> USE DEF StateSound, Threads
<1>0. UNCHANGED <<rd, cursor>> /\ quiet' = FALSE
  BY OutsideFrame DEF pollVars
<1>1. wr' \in WriterType
  <2> USE DEF WriterType
  <2>1. CASE \E k \in Scan, down \in BOOLEAN : LockSequence(k, down)
    BY <2>1 DEF LockSequence
  <2>2. CASE StoreLevel \/ StoreRecord \/ StoreHead
    BY <2>2 DEF StoreLevel, StoreRecord, StoreHead, GoTo
  <2>3. CASE UnlockSequence
    BY <2>3 DEF UnlockSequence, WriterIdle
  <2>4. CASE (\E on \in BOOLEAN : SetSource(on)) \/ RefreshHeartbeat
    BY <2>4 DEF SetSource, RefreshHeartbeat
  <2>5. CASE RetireFlags \/ ResetEnd
    <3>1. WriterIdle \in WriterType
      BY DEF WriterIdle
    <3> QED BY <2>5, <3>1 DEF RetireFlags, ResetEnd
  <2>6. CASE ResetBegin \/ ResetKey
    BY <2>6 DEF ResetBegin, ResetKey, GoTo
  <2>7. CASE Lapse \/ Kill \/ \E k \in AutoScan : AutoType(k)
    BY <2>7 DEF Lapse, Kill, AutoType, GoTo
  <2> QED BY <2>1, <2>2, <2>3, <2>4, <2>5, <2>6, <2>7 DEF Outside, Write, Retire
<1>2. faults' \in Nat /\ lost' \in SUBSET {"ring", "owner", "mixed"}
  <2>1. CASE Write
    BY <2>1 DEF Write, LockSequence, StoreLevel, StoreRecord, StoreHead, UnlockSequence,
                SetSource, RefreshHeartbeat
  <2>2. CASE Retire
    BY <2>2 DEF Retire, RetireFlags, ResetBegin, ResetKey, ResetEnd, Fault
  <2>3. CASE Lapse
    BY <2>3 DEF Lapse, Fault
  <2>4. CASE Kill
    BY <2>4 DEF Kill, Fault
  <2>5. CASE \E k \in AutoScan : AutoType(k)
    BY <2>5 DEF AutoType
  <2> QED BY <2>1, <2>2, <2>3, <2>4, <2>5 DEF Outside
<1> QED BY <1>0, <1>1, <1>2

\* Whatever Stonemite does, the state stays sound.
LEMMA OutsideSound ==
  ASSUME StateSound, Outside
  PROVE  StateSound'
<1>1. Counts'
  <2>1. UNCHANGED <<observed, delivered>>
    BY OutsideFrame DEF pollVars
  <2> QED BY <2>1, MappingKept DEF StateSound, Counts
<1>2. ReaderSound'
  <2>1. UNCHANGED rd /\ lost \subseteq lost'
    BY OutsideFrame DEF pollVars
  <2> QED BY <2>1 DEF StateSound, ReaderSound
<1>3. QuietSound'
  BY OutsideFrame DEF QuietSound
<1> QED BY <1>1, <1>2, <1>3, MappingKept, ThreadsKept, WriterKept, OwnerKept, SnapshotKept
        DEF StateSound

----------------------------------------------------------------------------
(* A call of the game                                                      *)

\* Reading changes nothing of what Stonemite keeps, and counts only strokes of
\* keys there are.
LEMMA IdleType == Idle \in ReaderType
<1>1. Tries \in Nat /\ 0 \in 0..(Wrap - 1) /\ 0 \in 0..Tries /\ <<>> \in Seq(Event)
  BY RingAssumption
<1> QED BY <1>1 DEF Idle, ReaderType

LEMMA PollThreads ==
  ASSUME StateSound, Poll
  PROVE  Threads'
<1> USE DEF StateSound, Threads
<1>0. UNCHANGED <<wr, faults>>
  BY PollFrame DEF shmVars
<1>1. cursor' \in 0..Wrap
  BY RingAssumption DEF Poll, DrainBegin, DrainRecord, DrainEnd, ReadAutoTypeKeys, Replay, Replaying,
     ReplayEnd, ReadLevels, LoadBefore, LoadKey, LoadAfter, Settle, Observe, CursorAfter, ReaderType
<1>2. quiet' \in BOOLEAN /\ lost' \in SUBSET {"ring", "owner", "mixed"}
  BY DEF Poll, DrainBegin, DrainRecord, DrainEnd, ReadAutoTypeKeys, Replay, Replaying,
     ReplayEnd, ReadLevels, LoadBefore, LoadKey, LoadAfter, Settle, Observe
<1>3. rd' \in ReaderType
  <2> USE DEF ReaderType
  <2>0. Tries \in Nat /\ 0 \in 0..(Wrap - 1) /\ 0 \in 0..Tries
    BY RingAssumption
  <2>11. rd \in ReaderType
    BY DEF StateSound, Threads
  <2>1. CASE DrainBegin
    <3>0. head - Cap \in Int
      BY RingAssumption DEF Mapping
    <3>1. (head - Cap) % Wrap \in 0..(Wrap - 1)
      BY <3>0, WrapRange
    <3>2. cursor # NoCursor => cursor \in 0..(Wrap - 1)
      BY RingAssumption DEF NoCursor
    <3> DEFINE over == cursor # NoCursor /\ IsBehind(cursor)
               next == IF cursor = NoCursor THEN head
                       ELSE IF over THEN (head - Cap) % Wrap ELSE cursor
    <3>3. next \in 0..(Wrap - 1) /\ over \in BOOLEAN
      BY <3>1, <3>2 DEF Mapping
    <3>4. rd' = [Idle EXCEPT !.pc = "drain", !.next = next, !.end = head, !.over = over]
      BY <2>1 DEF DrainBegin
    <3> HIDE DEF next, over
    <3> QED BY IdleType, <3>3, <3>4 DEF Mapping
  <2>2. CASE DrainRecord
    <3>0. rd.next + 1 \in Int /\ rd.next \in Int
      OBVIOUS
    <3>1. (rd.next + 1) % Wrap \in 0..(Wrap - 1) /\ rd.next % Cap \in 0..(Cap - 1)
      BY <3>0, WrapRange
    <3>2. Append(rd.events, ring[rd.next % Cap]) \in Seq(Event)
      BY <3>1 DEF Mapping
    <3> DEFINE over == rd.over \/ ~StampMatches(ring[rd.next % Cap])
               events == IF StampMatches(ring[rd.next % Cap])
                         THEN Append(rd.events, ring[rd.next % Cap]) ELSE rd.events
               next == (rd.next + 1) % Wrap
    <3>3. over \in BOOLEAN /\ events \in Seq(Event) /\ next \in 0..(Wrap - 1)
      BY <3>1, <3>2
    <3>4. rd' = [rd EXCEPT !.next = next, !.over = over, !.events = events]
      BY <2>2 DEF DrainRecord
    <3> HIDE DEF over, events, next
    <3> QED BY <3>3, <3>4
  <2>3. CASE DrainEnd \/ ReadLevels \/ Settle
    BY <2>3 DEF DrainEnd, ReadLevels, Settle, Goes
  <2>4. CASE ReadAutoTypeKeys
    BY <2>4 DEF ReadAutoTypeKeys, Mapping
  <2>5. CASE Replay \/ Replaying
    <3>1. rd.events # <<>> => Tail(rd.events) \in Seq(Event)
      OBVIOUS
    <3> HIDE DEF StateSound, Threads
    <3> QED BY <2>5, <2>11, <3>1 DEF Replay, Replaying
  <2>6. CASE ReplayEnd
    <3>1. <<>> \in Seq(Event)
      OBVIOUS
    <3> QED BY <2>6, <3>1 DEF ReplayEnd
  <2>7. CASE LoadBefore
    <3>0. seq \in Nat
      BY DEF StateSound, Mapping
    <3> HIDE DEF StateSound, Threads
    <3>1. CASE rd.tries = Tries
      <4>1. rd' = [rd EXCEPT !.pc = "settle", !.left = Scan, !.keys = {}]
        BY <2>7, <3>1 DEF LoadBefore
      <4> QED BY <2>11, <4>1
    <3>2. CASE rd.tries # Tries /\ seq % 2 = 1
      <4>1. rd.tries + 1 \in 0..Tries
        BY <2>0, <2>11, <3>2
      <4> QED BY <2>7, <2>11, <3>2, <4>1 DEF LoadBefore
    <3>3. CASE rd.tries # Tries /\ seq % 2 # 1
      <4>1. rd' = [rd EXCEPT !.pc = "read", !.before = seq, !.left = Scan, !.keys = {}]
        BY <2>7, <3>3 DEF LoadBefore
      <4> QED BY <2>11, <3>0, <4>1
    <3> QED BY <3>1, <3>2, <3>3
  <2>8. CASE LoadKey
    <3> DEFINE keys == IF Min(rd.left) \in ckeys THEN rd.keys \cup {Min(rd.left)} ELSE rd.keys
    <3>1. keys \in SUBSET Scan /\ rd.left \ {Min(rd.left)} \in SUBSET Scan
      BY DEF Mapping
    <3>2. rd' = [rd EXCEPT !.left = @ \ {Min(rd.left)}, !.keys = keys]
      BY <2>8 DEF LoadKey
    <3> HIDE DEF keys
    <3> QED BY <3>1, <3>2
  <2>9. CASE LoadAfter
    <3>1. rd.tries + 1 \in 0..Tries
      BY <2>0, <2>9 DEF LoadAfter, ReaderSound
    <3> QED BY <2>9, <3>1 DEF LoadAfter
  <2>10. CASE Observe
    BY <2>10, IdleType DEF Observe
  <2> QED BY <2>1, <2>2, <2>3, <2>4, <2>5, <2>6, <2>7, <2>8, <2>9, <2>10 DEF Poll
<1> QED BY <1>0, <1>1, <1>2, <1>3

LEMMA PollReader ==
  ASSUME StateSound, Poll
  PROVE  ReaderSound' /\ SnapshotSound' /\ OwnerSound' /\ WriterSound' /\ Mapping'
<1> USE DEF StateSound, Mapping, Threads, ReaderType, ReaderSound, SnapshotSound, shmVars
<1>0. UNCHANGED <<shmVars, wr, edges, faults>> /\ lost \subseteq lost'
  BY PollFrame
<1>1. WriterSound' /\ Mapping'
  BY <1>0 DEF WriterSound
<1>2. OwnerSound'
  <2>1. rd'.auto \in {rd.auto, auto, {}}
    <3>0. Idle \in ReaderType /\ Idle.auto = {}
      BY IdleType DEF Idle
    <3>1. CASE DrainBegin \/ Observe
      BY <3>0, <3>1 DEF DrainBegin, Observe
    <3>2. CASE DrainRecord \/ DrainEnd \/ ReadAutoTypeKeys \/ Replay \/ Replaying \/ ReplayEnd
      BY <3>2 DEF DrainRecord, DrainEnd, ReadAutoTypeKeys, Replay, Replaying, ReplayEnd, Goes
    <3>3. CASE ReadLevels \/ LoadBefore \/ LoadKey \/ LoadAfter \/ Settle
      <4>1. rd \in ReaderType
        OBVIOUS
      <4> HIDE DEF StateSound, Mapping, Threads, ReaderSound, SnapshotSound
      <4> QED BY <3>3, <4>1 DEF ReadLevels, LoadBefore, LoadKey, LoadAfter, Settle, Goes
    <3> QED BY <3>1, <3>2, <3>3 DEF Poll
  <2> QED BY <1>0, <2>1 DEF OwnerSound
<1>3. CASE DrainBegin
  BY <1>0, <1>1, <1>2, <1>3 DEF DrainBegin, Idle
<1>4. CASE DrainRecord
  BY <1>0, <1>1, <1>2, <1>4 DEF DrainRecord
<1>5. CASE DrainEnd
  BY <1>0, <1>1, <1>2, <1>5 DEF DrainEnd, Goes
<1>6. CASE ReadAutoTypeKeys
  BY <1>0, <1>1, <1>2, <1>6 DEF ReadAutoTypeKeys
<1>7. CASE Replay \/ Replaying \/ ReplayEnd
  <2>1. rd'.pc \in {"replaying", "levels"} /\ rd'.over = rd.over
    BY <1>7 DEF Replay, Replaying, ReplayEnd
  <2>2. rd'.keys = rd.keys /\ (rd'.pc = "levels" => rd'.events = <<>>)
    BY <1>7 DEF Replay, Replaying, ReplayEnd
  <2>3. rd.pc \in {"replay", "replaying"}
    BY <1>7 DEF Replay, Replaying, ReplayEnd
  <2>6. rd'.keys = {} /\ (rd'.pc = "levels" => rd'.events = <<>>)
    BY <2>2, <2>3
  <2>7. rd'.over => "ring" \in lost'
    BY <1>0, <2>1, <2>3
  <2>4. ReaderSound'
    <3> HIDE DEF StateSound, Mapping, Threads, ReaderType, SnapshotSound, shmVars
    <3>1. CASE rd'.pc = "replaying"
      BY <2>6, <2>7, <3>1
    <3>2. CASE rd'.pc = "levels"
      BY <2>6, <2>7, <3>2
    <3> QED BY <2>1, <3>1, <3>2
  <2>5. SnapshotSound'
    BY <2>1
  <2> QED BY <1>1, <1>2, <2>4, <2>5
<1>8. CASE ReadLevels
  BY <1>0, <1>1, <1>2, <1>8 DEF ReadLevels, Goes
<1>9. CASE LoadBefore
  <2>1. seq % 2 \in {0, 1} /\ (rd.tries = Tries \/ rd.tries < Tries)
    BY RingAssumption
  <2>0. rd \in ReaderType
    OBVIOUS
  <2>2. rd.pc = "try" /\ rd'.pc \in {"settle", "try", "read"}
    <3> HIDE DEF StateSound, Mapping, Threads, ReaderSound, SnapshotSound, shmVars
    <3> QED BY <1>9, <2>0 DEF LoadBefore
  <2>7. rd'.over = rd.over /\ rd'.events = rd.events
    <3> HIDE DEF StateSound, Mapping, Threads, ReaderSound, SnapshotSound, shmVars
    <3> QED BY <1>9, <2>0 DEF LoadBefore
  <2>3. rd'.pc = "read" =>
          /\ rd.tries # Tries /\ seq % 2 # 1
          /\ rd'.tries = rd.tries /\ rd'.before = seq /\ rd'.left = Scan /\ rd'.keys = {}
    <3> HIDE DEF StateSound, Mapping, Threads, ReaderSound, SnapshotSound, shmVars
    <3> QED BY <1>9, <2>0 DEF LoadBefore
  <2>4. ckeys \ Scan = {}
    OBVIOUS
  <2>5. ReaderSound'
    BY <1>0, <2>1, <2>2, <2>3, <2>7
  <2>6. SnapshotSound'
    BY <1>0, <2>3, <2>4
  <2> QED BY <1>1, <1>2, <2>5, <2>6
<1>10. CASE LoadKey
  BY <1>0, <1>1, <1>2, <1>10 DEF LoadKey
<1>11. CASE LoadAfter
  BY <1>0, <1>1, <1>2, <1>11 DEF LoadAfter
<1>12. CASE Settle
  BY <1>0, <1>1, <1>2, <1>12 DEF Settle, Goes
<1>13. CASE Observe
  BY <1>0, <1>1, <1>2, <1>13 DEF Observe, Idle
<1> QED BY <1>3, <1>4, <1>5, <1>6, <1>7, <1>8, <1>9, <1>10, <1>11, <1>12, <1>13 DEF Poll

LEMMA PollQuiet ==
  ASSUME StateSound, Poll
  PROVE  QuietSound'
<1> USE DEF StateSound, Threads, ReaderType, QuietSound, ControllerActive, shmVars
<1>0. UNCHANGED <<shmVars, wr, edges, faults>> /\ lost \subseteq lost'
  BY PollFrame
<1>1. CASE DrainBegin
  BY <1>0, <1>1 DEF DrainBegin, Idle
<1>2. CASE DrainRecord
  BY <1>0, <1>2 DEF DrainRecord
<1>3. CASE DrainEnd
  BY <1>0, <1>3 DEF DrainEnd, Goes, CursorAfter
<1>4. CASE ReadAutoTypeKeys
  BY <1>0, <1>4 DEF ReadAutoTypeKeys
<1>5. CASE Replay \/ Replaying \/ ReplayEnd
  <2>1. rd'.pc \in {"replaying", "levels"} /\ UNCHANGED <<quiet, cursor, lost>>
    BY <1>5 DEF Replay, Replaying, ReplayEnd
  <2>2. rd.pc \in {"replay", "replaying"}
    BY <1>5 DEF Replay, Replaying, ReplayEnd
  <2> QED BY <1>0, <2>1, <2>2
<1>6. CASE ReadLevels
  BY <1>0, <1>6 DEF ReadLevels, Goes, ReaderSound, OwnerSound
<1>7. CASE LoadBefore
  <2>1. ckeys \ Scan = {}
    BY DEF Mapping
  <2>2. rd'.pc \in {"settle", "try", "read"} /\ UNCHANGED quiet
    BY <1>7 DEF LoadBefore
  <2>3. rd'.pc # "try" => rd'.left = Scan /\ rd'.keys = {}
    BY <1>7 DEF LoadBefore
  <2>4. rd.pc = "try" /\ UNCHANGED <<cursor, lost>>
    BY <1>7 DEF LoadBefore
  <2> QED BY <1>0, <2>1, <2>2, <2>3, <2>4
<1>8. CASE LoadKey
  BY <1>0, <1>8 DEF LoadKey
<1>9. CASE LoadAfter
  BY <1>0, <1>9 DEF LoadAfter, ReaderSound, SequenceUnchanged, Mapping
<1>10. CASE Settle
  <2>1. ckeys \ {} = ckeys
    OBVIOUS
  <2> QED BY <1>0, <1>10, <2>1 DEF Settle, Goes
<1>11. CASE Observe
  BY <1>0, <1>11 DEF Observe, Idle, LevelsRead
<1> QED BY <1>1, <1>2, <1>3, <1>4, <1>5, <1>6, <1>7, <1>8, <1>9, <1>10, <1>11 DEF Poll

----------------------------------------------------------------------------
(* Positions                                                               *)

\* h is the number of events written, c where the next call goes on, n and e
\* where the call in progress is and ends.
Positions(h, c, n, e) ==
  /\ head = h % Wrap
  /\ \A s \in 0..(Cap - 1) : s < h => ring[s].key \in Scan
  /\ wr.pc = "head" => ring[h % Cap].key \in Scan
  /\ c <= h
  /\ cursor # NoCursor => cursor = c % Wrap
  /\ cursor # NoCursor \/ rd.pc = "drain" =>
       /\ h - c < Wrap
       /\ wr.pc \in {"level", "record", "head"} => h - c < Wrap - 1
  /\ rd.pc = "drain" =>
       /\ rd.next = n % Wrap /\ rd.end = e % Wrap /\ c <= n /\ n <= e /\ e <= h
       /\ cursor = NoCursor => c = e
       /\ Len(rd.events) + (e - n) <= Cap
  /\ rd.pc # "drain" => Len(rd.events) <= Cap
  /\ \A i \in 1..Len(rd.events) : rd.events[i].key \in Scan
  /\ cursor = NoCursor =>
       /\ rd.pc \in {"idle", "drain"} /\ rd.events = <<>>
       /\ observed = {} /\ \A k \in Scan : delivered[k] = 0
       /\ "ring" \in lost

LEMMA Sizes ==
  /\ Wrap \in Nat \ {0} /\ Cap \in Nat \ {0} /\ Wrap % Cap = 0 /\ Cap + 1 < Wrap
BY RingAssumption

\* The slot of an absolute position is that of its remainder.
LEMMA SlotOf ==
  ASSUME NEW i \in Nat
  PROVE  (i % Wrap) % Cap = i % Cap /\ i % Cap \in 0..(Cap - 1) /\ i % Wrap \in 0..(Wrap - 1)
<1>1. i \in Int
  OBVIOUS
<1> QED BY <1>1, Sizes, NestedRemainder, WrapRange

LEMMA AfterOf ==
  ASSUME NEW i \in Nat
  PROVE  ((i % Wrap) + 1) % Wrap = (i + 1) % Wrap
<1>1. i \in Int /\ -1 \in Int
  OBVIOUS
<1>2. ((i % Wrap) - (-1)) % Wrap = (i - (-1)) % Wrap
  BY <1>1, Sizes, RemainderLeft
<1>3. i % Wrap \in Int
  BY SlotOf
<1> QED BY <1>2, <1>3

\* The wrapping difference of two positions less than Wrap apart is their
\* distance.
LEMMA DistanceOf ==
  ASSUME NEW i \in Nat, NEW j \in Nat, i <= j, j - i < Wrap
  PROVE  ((j % Wrap) - (i % Wrap)) % Wrap = j - i
<1>1. i \in Int /\ j \in Int /\ i % Wrap \in Int /\ j - i \in 0..(Wrap - 1)
  BY SlotOf, Sizes
<1>2. ((j % Wrap) - (i % Wrap)) % Wrap = (j - (i % Wrap)) % Wrap
  BY <1>1, Sizes, RemainderLeft
<1>3. (j - (i % Wrap)) % Wrap = (j - i) % Wrap
  BY <1>1, Sizes, RemainderRight
<1>4. (j - i) % Wrap = j - i
  BY <1>1, Sizes, SmallRemainder
<1> QED BY <1>2, <1>3, <1>4

LEMMA LagOf ==
  ASSUME StateSound, NEW h \in Nat, NEW c \in Nat, NEW n \in Nat, NEW e \in Nat,
         Positions(h, c, n, e), cursor # NoCursor \/ rd.pc = "drain"
  PROVE  Lag = h - c
BY DistanceOf DEF Positions, Lag

\* What Stonemite does moves h on by the event it uncovers.
LEMMA OutsideMoves ==
  ASSUME StateSound, Outside
  PROVE  \/ StoreHead \/ StoreRecord \/ StoreLevel
         \/ \E k \in Scan, down \in BOOLEAN : LockSequence(k, down)
         \/ /\ UNCHANGED <<head, ring>>
            /\ wr' = wr \/ wr'.pc \notin {"level", "record", "head"}
<1> USE DEF StateSound, Threads, WriterType
<1>1. CASE UnlockSequence \/ (\E on \in BOOLEAN : SetSource(on)) \/ RefreshHeartbeat
  BY <1>1 DEF UnlockSequence, SetSource, RefreshHeartbeat, WriterIdle
<1>2. CASE RetireFlags \/ ResetEnd
  BY <1>2 DEF RetireFlags, ResetEnd, WriterIdle
<1>3. CASE ResetBegin \/ ResetKey
  BY <1>3 DEF ResetBegin, ResetKey, GoTo
<1>4. CASE Lapse \/ Kill \/ \E k \in AutoScan : AutoType(k)
  BY <1>4 DEF Lapse, Kill, AutoType, GoTo, shmVars
<1> QED BY <1>1, <1>2, <1>3, <1>4 DEF Outside, Write, Retire

LEMMA OutsidePositions ==
  ASSUME StateSound, Outside,
         NEW h \in Nat, NEW c \in Nat, NEW n \in Nat, NEW e \in Nat, Positions(h, c, n, e)
  PROVE  (StoreHead => Positions(h + 1, c, n, e)') /\ (~StoreHead => Positions(h, c, n, e)')
<1> USE DEF StateSound, Mapping, Threads, WriterType
<1>0. UNCHANGED pollVars /\ lost \subseteq lost'
  BY OutsideFrame
<1>1. CASE StoreHead
  <2>1. head' = (h + 1) % Wrap
    BY <1>1, AfterOf DEF StoreHead, NextHead, Positions
  <2>2. \A s \in 0..(Cap - 1) : s < h + 1 => ring[s].key \in Scan
    <3> SUFFICES ASSUME NEW s \in 0..(Cap - 1), s = h
                 PROVE  ring[s].key \in Scan
      BY DEF Positions
    <3>1. h % Cap = s
      BY Sizes, SmallRemainder
    <3> QED BY <1>1, <3>1 DEF Positions, StoreHead
  <2>3. wr'.pc = "unlock" /\ ring' = ring /\ wr.pc = "head"
    BY <1>1 DEF StoreHead, GoTo
  <2> HIDE DEF StateSound, Mapping, Threads
  <2>5. UNCHANGED <<rd, cursor, observed, delivered>>
    BY <1>0 DEF pollVars
  <2>6. /\ cursor' # NoCursor => cursor' = c % Wrap
        /\ cursor' # NoCursor \/ rd.pc = "drain" => (h + 1) - c < Wrap
    BY <2>3, <2>5, Sizes DEF Positions
  <2>7. c <= h + 1 /\ (e <= h => e <= h + 1)
    BY DEF Positions
  <2>4. Positions(h + 1, c, n, e)'
    BY <1>0, <2>1, <2>2, <2>3, <2>5, <2>6, <2>7 DEF Positions
  <2> QED BY <1>1, <2>4
<1>2. CASE StoreRecord
  <2>1. ~StoreHead
    BY <1>2 DEF StoreHead, StoreRecord
  <2>2. head % Cap = h % Cap /\ h % Cap \in 0..(Cap - 1)
    BY SlotOf DEF Positions
  <2>3. wr.key \in Scan /\ wr.pc = "record" /\ wr'.pc = "head" /\ head' = head
    BY <1>2 DEF StoreRecord, GoTo, WriterSound, Busy
  <2>4. \A s \in 0..(Cap - 1) : ring'[s].key \in {wr.key, ring[s].key}
    BY <1>2, <2>2 DEF StoreRecord
  <2>5. ring'[h % Cap].key = wr.key
    BY <1>2, <2>2 DEF StoreRecord
  <2> HIDE DEF StateSound, Mapping, Threads
  <2>6. Positions(h, c, n, e)'
    BY <1>0, <2>2, <2>3, <2>4, <2>5 DEF Positions, pollVars
  <2> QED BY <2>1, <2>6
<1>3. CASE StoreLevel \/ \E k \in Scan, down \in BOOLEAN : LockSequence(k, down)
  <2>1. ~StoreHead
    BY <1>3 DEF StoreHead, StoreLevel, LockSequence
  <2>2. UNCHANGED <<head, ring>> /\ wr'.pc # "head"
    BY <1>3 DEF StoreLevel, LockSequence, GoTo
  <2>3. wr.pc = "level" \/ Lag < Wrap - 1
    BY <1>3 DEF StoreLevel, LockSequence
  <2>4. cursor # NoCursor \/ rd.pc = "drain" => h - c < Wrap - 1
    BY <2>3, LagOf DEF Positions
  <2> HIDE DEF StateSound, Mapping, Threads
  <2>5. Positions(h, c, n, e)'
    BY <1>0, <2>2, <2>4 DEF Positions, pollVars
  <2> QED BY <2>1, <2>5
<1>4. CASE /\ ~StoreHead /\ UNCHANGED <<head, ring>>
           /\ wr' = wr \/ wr'.pc \notin {"level", "record", "head"}
  <2> HIDE DEF StateSound, Mapping, Threads
  <2>1. Positions(h, c, n, e)'
    BY <1>0, <1>4 DEF Positions, pollVars
  <2> QED BY <1>4, <2>1
<1> QED BY <1>1, <1>2, <1>3, <1>4, OutsideMoves

LEMMA RemainderBelow ==
  ASSUME NEW i \in Nat
  PROVE  i % Cap <= i
<1> DEFINE q == i \div Cap  r == i % Cap
<1>1. i \in Int
  OBVIOUS
<1>2. q \in Int /\ r \in 0..(Cap - 1) /\ i = Cap * q + r
  BY <1>1, Sizes, Division
<1> HIDE DEF q, r
<1>3. q >= 0 => Cap * q >= 0
  BY <1>2, Sizes, SMT
<1>4. ~(q <= -1)
  BY <1>2, Sizes, SMT
<1>5. r <= i
  BY <1>2, <1>3, <1>4, Sizes
<1> QED BY <1>5 DEF r

\* A call starts where the last one ended, or at the oldest record still there.
LEMMA DrainBeginPositions ==
  ASSUME StateSound, DrainBegin,
         NEW h \in Nat, NEW c \in Nat, NEW n \in Nat, NEW e \in Nat, Positions(h, c, n, e)
  PROVE  \E b \in Nat, m \in Nat :
           /\ cursor # NoCursor => b = c
           /\ b <= m /\ m <= h
           /\ m # b => rd'.over
           /\ Positions(h, b, m, h)'
<1> USE DEF StateSound, Mapping, Threads
<1>0. /\ UNCHANGED <<head, ring, wr, cursor, observed, delivered, lost>>
      /\ rd.pc = "idle"
  BY DEF DrainBegin, unread, shmVars
<1> DEFINE over == cursor # NoCursor /\ IsBehind(cursor)
           next == IF cursor = NoCursor THEN head
                   ELSE IF over THEN (head - Cap) % Wrap ELSE cursor
<1>1. rd' = [Idle EXCEPT !.pc = "drain", !.next = next, !.end = head, !.over = over]
  BY DEF DrainBegin
<1>2. over \in BOOLEAN
  OBVIOUS
<1>3. rd'.pc = "drain" /\ rd'.end = head /\ rd'.events = <<>> /\ rd'.next = next /\ rd'.over = over
  <2> HIDE DEF next, over
  <2> QED BY <1>1 DEF Idle
<1>4. PICK b \in Nat, m \in Nat :
        /\ b <= m /\ m <= h /\ h - m <= Cap /\ next = m % Wrap
        /\ m # b => over
        /\ IF cursor = NoCursor THEN b = h ELSE b = c
  <2>1. CASE cursor = NoCursor
    <3>1. next = h % Wrap
      BY <2>1 DEF Positions
    <3> HIDE DEF next, over
    <3> QED BY <2>1, <3>1, Sizes
  <2>2. CASE cursor # NoCursor
    <3>1. IsBehind(cursor) <=> h - c > Cap
      BY <2>2, LagOf DEF Lag, IsBehind
    <3>2. CASE h - c > Cap
      <4>1. h - Cap \in Nat /\ c <= h - Cap
        BY <3>2, Sizes DEF Positions
      <4>2. (head - Cap) % Wrap = (h - Cap) % Wrap
        <5>1. h \in Int /\ Cap \in Int
          BY Sizes
        <5> QED BY <5>1, Sizes, RemainderLeft DEF Positions
      <4>3. over /\ next = (h - Cap) % Wrap
        BY <2>2, <3>1, <3>2, <4>2
      <4> HIDE DEF next, over
      <4>4. h - (h - Cap) <= Cap /\ h - Cap <= h
        BY Sizes
      <4> QED BY <2>2, <4>1, <4>3, <4>4
    <3>3. CASE ~(h - c > Cap)
      <4>1. next = c % Wrap /\ c <= h
        BY <2>2, <3>1, <3>3 DEF Positions
      <4> HIDE DEF next, over
      <4> QED BY <2>2, <3>3, <4>1, Sizes
    <3> QED BY <3>2, <3>3
  <2> QED BY <2>1, <2>2
<1>5. Positions(h, b, m, h)'
  <2> HIDE DEF next, over, StateSound, Mapping, Threads
  <2>1. Len(rd'.events) = 0
    BY <1>3
  <2>2. cursor' # NoCursor => cursor' = b % Wrap
    BY <1>0, <1>4 DEF Positions
  <2>3. h - b < Wrap /\ (wr.pc \in {"level", "record", "head"} => h - b < Wrap - 1)
    BY <1>0, <1>4, Sizes DEF Positions
  <2> QED BY <1>0, <1>3, <1>4, <2>1, <2>2, <2>3, Sizes DEF Positions
<1> QED BY <1>3, <1>4, <1>5

\* Between its start and its end a call reads slots that have been written.
LEMMA DrainRecordPositions ==
  ASSUME StateSound, DrainRecord,
         NEW h \in Nat, NEW c \in Nat, NEW n \in Nat, NEW e \in Nat, Positions(h, c, n, e)
  PROVE  /\ cursor # NoCursor /\ n < e /\ c <= n /\ h - n < Wrap
         /\ ring[rd.next % Cap] = ring[n % Cap] /\ ring[n % Cap] \in Event
         /\ Positions(h, c, n + 1, e)'
<1> USE DEF StateSound, Mapping, Threads
<1>0. /\ UNCHANGED <<head, ring, wr, cursor, observed, delivered, lost>>
      /\ rd.pc = "drain" /\ rd.next # rd.end
  BY DEF DrainRecord, unread, shmVars
<1>1. cursor # NoCursor /\ n < e /\ c <= n /\ h - n < Wrap /\ e <= h
  <2>1. n # e
    BY <1>0 DEF Positions
  <2>2. c <= n /\ n <= e /\ h - c < Wrap /\ (cursor = NoCursor => c = e) /\ e <= h
    BY <1>0 DEF Positions
  <2> QED BY <2>1, <2>2, Sizes
<1>2. ring[rd.next % Cap] = ring[n % Cap] /\ n % Cap \in 0..(Cap - 1)
  BY <1>0, SlotOf DEF Positions
<1>3. ring[n % Cap].key \in Scan
  <2>1. n % Cap < h
    BY <1>1, <1>2, RemainderBelow, Sizes
  <2> QED BY <1>2, <2>1 DEF Positions
<1>4. rd'.next = (n + 1) % Wrap
  <2>1. rd'.next = (rd.next + 1) % Wrap
    BY DEF DrainRecord, ReaderType
  <2> QED BY <1>0, <2>1, AfterOf DEF Positions
<1>5. rd'.pc = "drain" /\ rd'.end = rd.end
  BY <1>0 DEF DrainRecord, ReaderType
<1>6. rd'.events \in {rd.events, Append(rd.events, ring[n % Cap])}
  BY <1>2 DEF DrainRecord, ReaderType
<1>7. rd.events \in Seq(Event) /\ ring[n % Cap] \in Event
  BY <1>2 DEF ReaderType
<1>8. /\ Len(rd'.events) <= Len(rd.events) + 1 /\ Len(rd'.events) \in Nat /\ Len(rd.events) \in Nat
      /\ \A i \in 1..Len(rd'.events) : rd'.events[i].key \in Scan
  <2>1. \A i \in 1..Len(rd.events) : rd.events[i].key \in Scan
    BY DEF Positions
  <2>2. CASE rd'.events = rd.events
    BY <1>7, <2>1, <2>2
  <2>3. CASE rd'.events = Append(rd.events, ring[n % Cap])
    BY <1>3, <1>7, <2>1, <2>3
  <2> QED BY <1>6, <2>2, <2>3
<1>9. Positions(h, c, n + 1, e)'
  <2> HIDE DEF StateSound, Mapping, Threads
  <2>1. Len(rd'.events) + (e - (n + 1)) <= Cap
    <3>1. Len(rd.events) + (e - n) <= Cap
      BY <1>0 DEF Positions
    <3> QED BY <1>8, <3>1, Sizes
  <2>2. /\ head' = h % Wrap /\ c <= h
        /\ \A s \in 0..(Cap - 1) : s < h => ring'[s].key \in Scan
        /\ wr'.pc = "head" => ring'[h % Cap].key \in Scan
    BY <1>0 DEF Positions
  <2>3. /\ cursor' = c % Wrap /\ h - c < Wrap /\ cursor' # NoCursor
        /\ wr'.pc \in {"level", "record", "head"} => h - c < Wrap - 1
    BY <1>0, <1>1 DEF Positions
  <2>4. rd'.next = (n + 1) % Wrap /\ rd'.end = e % Wrap /\ n + 1 <= e /\ e <= h /\ c <= n + 1
    BY <1>0, <1>1, <1>4, <1>5 DEF Positions
  <2> QED BY <1>5, <1>8, <2>1, <2>2, <2>3, <2>4 DEF Positions
<1> QED BY <1>1, <1>2, <1>7, <1>9

\* A call leaves the cursor where the head was.
LEMMA DrainEndPositions ==
  ASSUME StateSound, DrainEnd,
         NEW h \in Nat, NEW c \in Nat, NEW n \in Nat, NEW e \in Nat, Positions(h, c, n, e)
  PROVE  n = e /\ Positions(h, e, n, e)'
<1> USE DEF StateSound, Mapping, Threads
<1>0. /\ UNCHANGED <<head, ring, wr, observed, delivered>>
      /\ rd.pc = "drain" /\ rd.next = rd.end /\ cursor' = rd.end
  BY DEF DrainEnd, unread, shmVars, CursorAfter
<1>1. rd'.pc = "auto" /\ rd'.events = rd.events
  BY DEF DrainEnd, Goes, ReaderType
<1>2. c <= n /\ n <= e /\ e <= h /\ h - c < Wrap /\ n \in Int /\ e \in Int
  BY <1>0 DEF Positions
<1>3. n = e
  <2>1. n % Wrap = e % Wrap /\ e - n < Wrap
    BY <1>0, <1>2, Sizes DEF Positions
  <2> QED BY <1>2, <2>1, Sizes, RemainderInjective
<1>4. cursor' # NoCursor /\ cursor' = e % Wrap
  BY <1>0, Sizes DEF ReaderType, NoCursor, Positions
<1>5. h - e < Wrap /\ (wr.pc \in {"level", "record", "head"} => h - e < Wrap - 1)
  <2>1. wr.pc \in {"level", "record", "head"} => h - c < Wrap - 1
    BY <1>0 DEF Positions
  <2> QED BY <1>2, <1>3, <2>1, Sizes
<1>6. Len(rd.events) \in Nat
  BY DEF ReaderType
<1>7. Len(rd.events) <= Cap
  BY <1>0, <1>3, <1>6, Sizes DEF Positions
<1>8. Positions(h, e, n, e)'
  <2> HIDE DEF StateSound, Mapping, Threads
  <2> QED BY <1>0, <1>1, <1>2, <1>4, <1>5, <1>7 DEF Positions
<1> QED BY <1>3, <1>8

AfterDrain == ReadAutoTypeKeys \/ Replay \/ Replaying \/ ReplayEnd \/ ReadLevels \/ LoadBefore
                \/ LoadKey \/ LoadAfter \/ Settle \/ Observe

\* What follows the drain leaves the positions alone and uses up the events.
LEMMA AfterDrainFrame ==
  ASSUME StateSound, AfterDrain
  PROVE  /\ UNCHANGED cursor
         /\ rd.pc \notin {"idle", "drain"} /\ rd'.pc # "drain"
         /\ \/ rd'.events = rd.events
            \/ rd.events # <<>> /\ rd'.events = Tail(rd.events)
            \/ rd'.events = <<>>
<1> USE DEF StateSound, Threads, ReaderType
<1>1. CASE ReadAutoTypeKeys
  BY <1>1 DEF ReadAutoTypeKeys
<1>2. CASE Replay \/ Replaying
  BY <1>2 DEF Replay, Replaying
<1>3. CASE ReplayEnd
  BY <1>3 DEF ReplayEnd
<1>4. CASE ReadLevels \/ Settle
  BY <1>4 DEF ReadLevels, Settle, Goes
<1>5. CASE LoadBefore
  BY <1>5 DEF LoadBefore
<1>6. CASE LoadKey \/ LoadAfter
  BY <1>6 DEF LoadKey, LoadAfter
<1>7. CASE Observe
  <2>1. rd' = Idle /\ rd.pc = "observe" /\ UNCHANGED cursor
    BY <1>7 DEF Observe
  <2> QED BY <2>1 DEF Idle
<1> QED BY <1>1, <1>2, <1>3, <1>4, <1>5, <1>6, <1>7 DEF AfterDrain

LEMMA AfterDrainPositions ==
  ASSUME StateSound, AfterDrain,
         NEW h \in Nat, NEW c \in Nat, NEW n \in Nat, NEW e \in Nat, Positions(h, c, n, e)
  PROVE  Positions(h, c, n, e)'
<1>0. UNCHANGED <<head, ring, wr>> /\ lost \subseteq lost'
  BY PollFrame DEF AfterDrain, Poll, shmVars
<1>1. /\ UNCHANGED cursor
      /\ rd.pc \notin {"idle", "drain"} /\ rd'.pc # "drain"
  BY AfterDrainFrame
<1>2. rd.events \in Seq(Event) /\ Len(rd.events) <= Cap
  BY <1>1 DEF StateSound, Threads, ReaderType, Positions
<1>3. \A i \in 1..Len(rd.events) : rd.events[i].key \in Scan
  BY DEF Positions
<1>4. Len(rd'.events) <= Cap /\ \A i \in 1..Len(rd'.events) : rd'.events[i].key \in Scan
  <2>1. CASE rd'.events = rd.events
    BY <1>2, <1>3, <2>1
  <2>2. CASE rd.events # <<>> /\ rd'.events = Tail(rd.events)
    BY <1>2, <1>3, <2>2, Sizes
  <2>3. CASE rd'.events = <<>>
    BY <2>3, Sizes
  <2> QED BY <2>1, <2>2, <2>3, AfterDrainFrame
<1>5. cursor' # NoCursor
  BY <1>1 DEF Positions
<1> QED BY <1>0, <1>1, <1>4, <1>5 DEF Positions

\* Whatever the step, the positions stay what they are.
LEMMA PositionsKept ==
  ASSUME StateSound, Next,
         \E h \in Nat, c \in Nat, n \in Nat, e \in Nat : Positions(h, c, n, e)
  PROVE  \E h \in Nat, c \in Nat, n \in Nat, e \in Nat : Positions(h, c, n, e)'
<1> PICK h \in Nat, c \in Nat, n \in Nat, e \in Nat : Positions(h, c, n, e)
  OBVIOUS
<1>1. CASE Outside
  <2>1. h + 1 \in Nat
    OBVIOUS
  <2> QED BY <1>1, <2>1, OutsidePositions
<1>2. CASE DrainBegin
  BY <1>2, DrainBeginPositions
<1>3. CASE DrainRecord
  <2>1. n + 1 \in Nat
    OBVIOUS
  <2> QED BY <1>3, <2>1, DrainRecordPositions
<1>4. CASE DrainEnd
  BY <1>4, DrainEndPositions
<1>5. CASE AfterDrain
  BY <1>5, AfterDrainPositions
<1> QED BY <1>1, <1>2, <1>3, <1>4, <1>5 DEF Next, Outside, Poll, AfterDrain

\* Only strokes of keys there are reach the game.
LEMMA CountsKept ==
  ASSUME StateSound, Poll,
         \E h \in Nat, c \in Nat, n \in Nat, e \in Nat : Positions(h, c, n, e)
  PROVE  Counts'
<1> USE DEF StateSound, Counts
<1>0. UNCHANGED edges
  BY PollFrame
<1>1. CASE Replay \/ Replaying
  <2> DEFINE r == Head(rd.events)
  <2>1. r.key \in Scan
    <3>1. rd.events # <<>> /\ rd.events \in Seq(Event)
      BY <1>1 DEF Replay, Replaying, Threads, ReaderType
    <3>2. r = rd.events[1] /\ 1 \in 1..Len(rd.events)
      BY <3>1
    <3> QED BY <3>2 DEF Positions
  <2>2. ObserveEvent(r)
    BY <1>1 DEF Replay, Replaying
  <2> HIDE DEF r
  <2>3. observed' \in SUBSET Scan
    BY <2>1, <2>2 DEF ObserveEvent
  <2>4. delivered' \in [Scan -> Nat]
    BY <2>1, <2>2 DEF ObserveEvent
  <2> QED BY <1>0, <2>3, <2>4
<1>2. CASE Observe
  <2>1. LevelsRead \in SUBSET Scan
    BY DEF LevelsRead, Threads, ReaderType, Mapping
  <2> QED BY <1>0, <1>2, <2>1 DEF Observe
<1>3. CASE UNCHANGED <<observed, delivered>>
  BY <1>0, <1>3
<1>4. CASE Poll /\ ~Replay /\ ~Replaying /\ ~Observe
  <2>1. UNCHANGED <<observed, delivered>>
    BY <1>4 DEF Poll, DrainBegin, DrainRecord, DrainEnd, ReadAutoTypeKeys, ReplayEnd,
       ReadLevels, LoadBefore, LoadKey, LoadAfter, Settle
  <2> QED BY <1>0, <2>1
<1> QED BY <1>1, <1>2, <1>4

LEMMA StateKept ==
  ASSUME StateSound, [Next]_vars,
         \E h \in Nat, c \in Nat, n \in Nat, e \in Nat : Positions(h, c, n, e)
  PROVE  StateSound'
<1>1. CASE Outside
  BY <1>1, OutsideSound
<1>2. CASE Poll
  BY <1>2, PollThreads, PollReader, PollQuiet, CountsKept DEF StateSound
<1>3. CASE UNCHANGED vars
  <2>1. Mapping' /\ Threads' /\ Counts'
    BY <1>3 DEF vars, shmVars, pollVars, StateSound, Mapping, Threads, Counts
  <2>2. WriterSound' /\ OwnerSound' /\ ReaderSound' /\ SnapshotSound' /\ QuietSound'
    BY <1>3 DEF vars, shmVars, pollVars, StateSound, WriterSound, OwnerSound, ReaderSound,
       SnapshotSound, QuietSound, ControllerActive
  <2> QED BY <2>1, <2>2 DEF StateSound
<1> QED BY <1>1, <1>2, <1>3 DEF Next, Outside

----------------------------------------------------------------------------
(* The history                                                             *)

\* The i-th event.
Ev(i, E, K) == [stamp |-> i % Wrap, key |-> K[i], down |-> E[i + 1][K[i]] % 2 = 1]

Strokes == [Nat -> [Scan -> Nat]]
Keys == [Nat -> Scan \cup {0}]

\* h events, each a change of one key.
History(h, E, K) ==
  /\ E \in Strokes /\ K \in Keys
  /\ \A i \in Nat : i < h => K[i] \in Scan /\ E[i + 1] = [E[i] EXCEPT ![K[i]] = @ + 1]
  /\ \A i, j \in Nat : i <= j /\ j <= h => \A k \in Scan : E[i][k] <= E[j][k]

\* The ring shows the end of the history; the slot after the last event may
\* hold the event being written.
RingShows(h, E, K) ==
  /\ \A i \in Nat : i < h /\ h - i < Cap => ring[i % Cap] = Ev(i, E, K)
  /\ Cap <= h => ring[h % Cap] = Ev(h - Cap, E, K) \/ ring[h % Cap].stamp = h % Wrap
  /\ wr.pc = "head" => ring[h % Cap] = [stamp |-> h % Wrap, key |-> wr.key, down |-> wr.down]

\* The levels are those of the history, or those of the event being written.
LevelsShow(h, E) ==
  /\ \A k \in Scan : k \in ckeys <=> edges[k] % 2 = 1
  /\ \A k \in Scan : E[h][k] <= edges[k]
  /\ seq % 2 = 0 \/ wr.pc \in {"level", "unlock"} => edges = E[h]
  /\ wr.pc \in {"record", "head"} =>
       /\ edges = [E[h] EXCEPT ![wr.key] = @ + 1]
       /\ wr.down <=> wr.key \in ckeys

Written(h, E, K) == History(h, E, K) /\ RingShows(h, E, K) /\ LevelsShow(h, E)

\* A count d of a key's strokes is at most a, or one more that the levels told
\* of before the ring did.
AtMost(d, a, told) == d <= a \/ (d = a + 1 /\ told > a)

\* What the game was told: strokes up to f, and the levels of q.  The events
\* drained and not replayed yet are those of the positions g, before l.
Told(h, c, n, e, E, K, q, f, l, g) ==
  /\ l = IF rd.pc = "drain" THEN n ELSE c
  /\ q <= h
  /\ rd.pc = "drain" => q <= e
  /\ rd.pc \notin {"idle", "drain"} => q <= c
  /\ Len(g) = Len(rd.events)
  /\ \A i \in 1..Len(g) : g[i] < l /\ rd.events[i] = Ev(g[i], E, K)
  /\ \A i, j \in 1..Len(g) : i < j => g[i] < g[j]
  /\ f = IF g = <<>> THEN l ELSE g[1]
  /\ \A k \in Scan : k \in observed <=> delivered[k] % 2 = 1
  /\ \A k \in Scan : AtMost(delivered[k], E[f][k], E[q][k])
  /\ rd.pc = "observe" =>
       \E s \in Nat : c <= s /\ s <= h /\ rd.keys = {k \in Scan : E[s][k] % 2 = 1}
  /\ lost = {} => (~sources => c = h /\ rd.events = <<>>)
  /\ lost = {} /\ ~rd.over =>
       /\ \A k \in Scan : delivered[k] >= E[f][k]
       /\ \A i \in 1..Len(g) : g[i] + Len(g) + 1 = l + i

Unspoilt == lost \subseteq {"ring"}

StrokesSound ==
  \E h \in Nat, c \in Nat, n \in Nat, e \in Nat :
    /\ Positions(h, c, n, e)
    /\ Unspoilt => \E E \in Strokes, K \in Keys, q \in Nat, f \in Nat, l \in Nat, g \in Seq(Nat) :
                     Written(h, E, K) /\ Told(h, c, n, e, E, K, q, f, l, g)

\* The steps that leave the ring and the counts of strokes alone.
LEMMA WrittenFrame ==
  ASSUME StateSound, Outside, Unspoilt', ~StoreHead, ~StoreRecord, ~StoreLevel
  PROVE  /\ UNCHANGED <<ckeys, ring, edges>>
         /\ \/ seq % 2 = 0 /\ wr'.pc \in {"level", "idle", "dead"}
            \/ wr.pc = "unlock" /\ wr'.pc = "idle"
            \/ seq' = seq /\ wr' = wr
            \/ seq' = seq /\ wr'.pc = "dead"
<1> USE DEF StateSound, Threads, WriterType, Unspoilt
<1>1. CASE \E k \in Scan, down \in BOOLEAN : LockSequence(k, down)
  BY <1>1 DEF LockSequence
<1>2. CASE UnlockSequence
  BY <1>2 DEF UnlockSequence, WriterIdle
<1>3. CASE (\E on \in BOOLEAN : SetSource(on)) \/ RefreshHeartbeat
  BY <1>3 DEF SetSource, RefreshHeartbeat
<1>4. CASE Retire \/ Lapse \/ \E k \in AutoScan : AutoType(k)
  BY <1>4, OutsideFrame DEF Retire, RetireFlags, ResetBegin, ResetKey, ResetEnd, Lapse, AutoType,
     OwnerSound
<1>5. CASE Kill
  BY <1>5 DEF Kill, GoTo, shmVars
<1> QED BY <1>1, <1>2, <1>3, <1>4, <1>5 DEF Outside, Write

LEMMA Parity == \A x \in Nat : (x % 2 = 0 \/ x % 2 = 1) /\ ((x + 1) % 2 = 1 <=> x % 2 # 1)
BY SMT

LEMMA RingKept ==
  ASSUME StateSound, Outside, Unspoilt', ~StoreHead,
         NEW h \in Nat, NEW c \in Nat, NEW n \in Nat, NEW e \in Nat, Positions(h, c, n, e),
         NEW E, NEW K, Written(h, E, K)
  PROVE  RingShows(h, E, K)'
<1> USE DEF StateSound, Mapping, Threads
<1>1. CASE ~StoreRecord
  <2>1. UNCHANGED ring /\ (wr'.pc = "head" => wr' = wr)
    <3>1. CASE StoreLevel
      BY <3>1 DEF StoreLevel, GoTo, WriterType
    <3> QED BY <1>1, <3>1, WrittenFrame
  <2> HIDE DEF StateSound, Mapping, Threads
  <2> QED BY <2>1 DEF Written, RingShows, Ev
<1>2. CASE StoreRecord
  <2>1. wr.pc = "record" /\ wr'.pc = "head" /\ wr'.key = wr.key /\ wr'.down = wr.down
    BY <1>2 DEF StoreRecord, GoTo, WriterType
  <2>2. head % Cap = h % Cap /\ h % Cap \in 0..(Cap - 1) /\ head = h % Wrap
    BY SlotOf DEF Positions
  <2>3. ring' = [ring EXCEPT ![h % Cap] = [stamp |-> h % Wrap, key |-> wr.key, down |-> wr.down]]
    BY <1>2, <2>2 DEF StoreRecord
  <2>4. ring'[h % Cap] = [stamp |-> h % Wrap, key |-> wr.key, down |-> wr.down]
    BY <2>2, <2>3
  <2>5. ASSUME NEW i \in Nat, i < h, h - i < Cap
        PROVE  ring'[i % Cap] = Ev(i, E, K)
    <3>1. i \in Int /\ h \in Int /\ i <= h /\ i # h
      BY <2>5
    <3>2. i % Cap # h % Cap
      BY <2>5, <3>1, Sizes, RemainderInjective
    <3>3. ring'[i % Cap] = ring[i % Cap]
      BY <2>3, <3>2, SlotOf
    <3> QED BY <2>5, <3>3 DEF Written, RingShows
  <2> HIDE DEF StateSound, Mapping, Threads
  <2> QED BY <2>1, <2>4, <2>5 DEF RingShows, Ev
<1> QED BY <1>1, <1>2

LEMMA LevelsKept ==
  ASSUME StateSound, Outside, Unspoilt', ~StoreHead,
         NEW h \in Nat, NEW E, NEW K, Written(h, E, K)
  PROVE  LevelsShow(h, E)'
<1> USE DEF StateSound, Mapping, Threads, Counts
<1>1. CASE ~StoreRecord /\ ~StoreLevel
  <2>1. UNCHANGED <<ckeys, edges>>
    BY <1>1, WrittenFrame
  <2>2. seq' % 2 = 0 \/ wr'.pc \in {"level", "unlock"} => edges = E[h]
    BY <1>1, WrittenFrame, WriterKept DEF Written, LevelsShow, WriterSound, Busy
  <2>3. wr'.pc \in {"record", "head"} => wr' = wr
    BY <1>1, WrittenFrame
  <2> HIDE DEF StateSound, Mapping, Threads, Counts
  <2> QED BY <2>1, <2>2, <2>3 DEF Written, LevelsShow
<1>2. CASE StoreRecord
  <2>1. /\ wr.pc = "record" /\ wr'.pc = "head" /\ wr'.key = wr.key /\ wr'.down = wr.down
        /\ UNCHANGED <<seq, ckeys, edges>>
    BY <1>2 DEF StoreRecord, GoTo, WriterType
  <2>2. seq % 2 = 1
    BY <2>1 DEF WriterSound, Busy
  <2> HIDE DEF StateSound, Mapping, Threads, Counts
  <2> QED BY <2>1, <2>2 DEF Written, LevelsShow
<1>3. CASE StoreLevel
  <2>1. /\ wr.pc = "level" /\ wr'.pc \in {"record", "unlock"} /\ wr'.key = wr.key
        /\ wr'.down = wr.down /\ UNCHANGED seq
    BY <1>3 DEF StoreLevel, GoTo, WriterType
  <2>2. seq % 2 = 1 /\ wr.key \in Scan
    BY <2>1 DEF WriterSound, Busy
  <2>3. edges = E[h]
    BY <2>1 DEF Written, LevelsShow
  <2>4. CASE (wr.key \in ckeys) = wr.down
    <3>1. wr'.pc = "unlock" /\ UNCHANGED <<ckeys, edges>>
      BY <1>3, <2>4 DEF StoreLevel, GoTo, WriterType
    <3> HIDE DEF StateSound, Mapping, Threads, Counts
    <3> QED BY <2>1, <2>2, <2>3, <3>1 DEF Written, LevelsShow
  <2>5. CASE (wr.key \in ckeys) # wr.down
    <3>1. /\ wr'.pc = "record"
          /\ ckeys' = IF wr.down THEN ckeys \cup {wr.key} ELSE ckeys \ {wr.key}
          /\ edges' = [edges EXCEPT ![wr.key] = @ + 1]
      BY <1>3, <2>5 DEF StoreLevel, GoTo, WriterType
    <3>2. wr.down \in BOOLEAN
      BY DEF WriterType
    <3>3. \A k \in Scan : k \in ckeys' <=> edges'[k] % 2 = 1
      <4>0. \A k \in Scan : (k \in ckeys <=> edges[k] % 2 = 1) /\ edges[k] \in Nat
        BY DEF Written, LevelsShow
      <4>1. \A k \in Scan : k # wr.key => (k \in ckeys' <=> k \in ckeys) /\ edges'[k] = edges[k]
        BY <3>1
      <4>2. wr.key \in ckeys' <=> wr.key \notin ckeys
        BY <2>5, <3>1, <3>2
      <4>3. edges'[wr.key] = edges[wr.key] + 1
        BY <2>2, <3>1
      <4>4. edges'[wr.key] % 2 = 1 <=> edges[wr.key] % 2 # 1
        BY <2>2, <4>0, <4>3, Parity
      <4> QED BY <2>2, <4>0, <4>1, <4>2, <4>4
    <3>4. wr'.down <=> wr'.key \in ckeys'
      BY <2>1, <2>5, <3>1, <3>2
    <3>5. \A k \in Scan : E[h][k] <= edges'[k]
      BY <2>3, <3>1
    <3>6. edges' = [E[h] EXCEPT ![wr'.key] = @ + 1]
      BY <2>1, <2>3, <3>1
    <3>7. ~(seq' % 2 = 0 \/ wr'.pc \in {"level", "unlock"})
      BY <2>1, <2>2, <3>1
    <3> HIDE DEF StateSound, Mapping, Threads, Counts
    <3> QED BY <3>3, <3>4, <3>5, <3>6, <3>7 DEF LevelsShow
  <2> QED BY <2>4, <2>5
<1> QED BY <1>1, <1>2, <1>3

LEMMA WrittenKept ==
  ASSUME StateSound, Outside, Unspoilt', ~StoreHead,
         NEW h \in Nat, NEW c \in Nat, NEW n \in Nat, NEW e \in Nat, Positions(h, c, n, e),
         NEW E, NEW K, Written(h, E, K)
  PROVE  Written(h, E, K)'
BY RingKept, LevelsKept DEF Written, History

Extended(h, E) == [E EXCEPT ![h + 1] = edges]
Keyed(h, K) == [K EXCEPT ![h] = wr.key]

\* The event is uncovered: the history grows by it.
LEMMA WrittenHead ==
  ASSUME StateSound, StoreHead,
         NEW h \in Nat, NEW c \in Nat, NEW n \in Nat, NEW e \in Nat, Positions(h, c, n, e),
         NEW E, NEW K, Written(h, E, K),
         NEW E2, E2 = Extended(h, E), NEW K2, K2 = Keyed(h, K)
  PROVE  /\ \A i \in 0..h : E2[i] = E[i]
         /\ \A i \in Nat : i < h => K2[i] = K[i]
         /\ Written(h + 1, E2, K2)'
<1> USE DEF StateSound, Mapping, Threads, Counts
<1>0. /\ wr.pc = "head" /\ wr'.pc = "unlock" /\ wr.key \in Scan
      /\ UNCHANGED <<seq, ckeys, ring, edges>>
  BY DEF StoreHead, GoTo, WriterType, WriterSound, Busy
<1>1. E \in [Nat -> [Scan -> Nat]] /\ K \in [Nat -> Scan \cup {0}] /\ edges \in [Scan -> Nat]
  BY DEF Written, History, Strokes, Keys
<1>2. E2 \in [Nat -> [Scan -> Nat]] /\ K2 \in [Nat -> Scan \cup {0}]
  BY <1>0, <1>1 DEF Extended, Keyed
<1>3. \A i \in Nat : i # h + 1 => E2[i] = E[i]
  BY <1>1 DEF Extended
<1>4. E2[h + 1] = edges
  BY <1>1 DEF Extended
<1>5. \A i \in Nat : i # h => K2[i] = K[i]
  BY <1>1 DEF Keyed
<1>6. K2[h] = wr.key
  BY <1>1 DEF Keyed
<1>7. edges = [E[h] EXCEPT ![wr.key] = @ + 1] /\ (wr.down <=> wr.key \in ckeys)
  BY <1>0 DEF Written, LevelsShow
<1> HIDE DEF StateSound, Mapping, Threads, Counts
<1>8. \A i \in Nat : i < h => Ev(i, E2, K2) = Ev(i, E, K)
  <2> TAKE i \in Nat
  <2>1. i < h => E2[i + 1] = E[i + 1] /\ K2[i] = K[i]
    BY <1>3, <1>5
  <2> QED BY <2>1 DEF Ev
<1>9. Ev(h, E2, K2) = ring[h % Cap]
  <2>1. ring[h % Cap] = [stamp |-> h % Wrap, key |-> wr.key, down |-> wr.down]
    BY <1>0 DEF Written, RingShows
  <2>2. wr.down \in BOOLEAN
    BY DEF StateSound, Threads, WriterType
  <2>3. wr.down = (edges[wr.key] % 2 = 1)
    BY <1>0, <1>7, <2>2 DEF Written, LevelsShow
  <2> QED BY <1>4, <1>6, <2>1, <2>3 DEF Ev
<1>10. History(h + 1, E2, K2)
  <2>1. ASSUME NEW i \in Nat, i < h + 1
        PROVE  K2[i] \in Scan /\ E2[i + 1] = [E2[i] EXCEPT ![K2[i]] = @ + 1]
    <3>1. CASE i = h
      <4>1. E2[i] = E[h]
        BY <1>3, <3>1
      <4> QED BY <1>0, <1>4, <1>6, <1>7, <3>1, <4>1
    <3>2. CASE i # h
      <4>1. E2[i] = E[i] /\ E2[i + 1] = E[i + 1] /\ K2[i] = K[i] /\ i < h
        BY <1>3, <1>5, <2>1, <3>2
      <4> QED BY <4>1 DEF Written, History
    <3> QED BY <3>1, <3>2
  <2>2. ASSUME NEW i \in Nat, NEW j \in Nat, i <= j, j <= h + 1, NEW k \in Scan
        PROVE  E2[i][k] <= E2[j][k]
    <3>1. CASE j # h + 1
      <4>1. E2[i] = E[i] /\ E2[j] = E[j] /\ j <= h
        BY <1>3, <2>2, <3>1
      <4> QED BY <2>2, <4>1 DEF Written, History
    <3>2. CASE j = h + 1 /\ i # h + 1
      <4>1. E2[i] = E[i] /\ E2[j] = edges /\ i <= h
        BY <1>3, <1>4, <2>2, <3>2
      <4>2. E[i][k] <= E[h][k] /\ E[h][k] <= edges[k]
        BY <4>1 DEF Written, History, LevelsShow
      <4>3. E[i][k] \in Nat /\ E[h][k] \in Nat /\ edges[k] \in Nat
        BY <1>1
      <4> QED BY <4>1, <4>2, <4>3
    <3>3. CASE j = h + 1 /\ i = h + 1
      <4>1. E2[j][k] \in Nat
        BY <1>2
      <4> QED BY <3>3, <4>1
    <3> QED BY <3>1, <3>2, <3>3
  <2> QED BY <1>2, <2>1, <2>2 DEF History, Strokes, Keys
<1>11. RingShows(h + 1, E2, K2)'
  <2>1. ASSUME NEW i \in Nat, i < h + 1, (h + 1) - i < Cap
        PROVE  ring[i % Cap] = Ev(i, E2, K2)
    <3>1. CASE i = h
      BY <1>9, <3>1
    <3>2. CASE i # h
      <4>1. i < h /\ h - i < Cap
        BY <2>1, <3>2, Sizes
      <4> QED BY <1>8, <4>1 DEF Written, RingShows
    <3> QED BY <3>1, <3>2
  <2>2. ASSUME Cap <= h + 1
        PROVE  ring[(h + 1) % Cap] = Ev((h + 1) - Cap, E2, K2)
    <3> DEFINE i == (h + 1) - Cap
    <3>1. i \in Nat /\ i < h + 1 /\ i + Cap * 1 = h + 1 /\ i \in Int /\ 1 \in Int
      BY <2>2, Sizes
    <3>2. (i + Cap * 1) % Cap = i % Cap
      BY <3>1, Sizes, MultipleAdded
    <3>3. (h + 1) % Cap = i % Cap
      BY <3>1, <3>2
    <3>4. CASE i = h
      BY <1>9, <3>3, <3>4
    <3>5. CASE i # h
      <4>1. i < h /\ h - i < Cap
        BY <3>1, <3>5, Sizes
      <4> HIDE DEF i
      <4>2. ring[i % Cap] = Ev(i, E2, K2)
        BY <1>8, <3>1, <4>1 DEF Written, RingShows
      <4> QED BY <3>3, <4>2 DEF i
    <3> QED BY <3>4, <3>5
  <2>3. wr'.pc # "head" /\ ring' = ring
    BY <1>0
  <2> QED BY <2>1, <2>2, <2>3 DEF RingShows, Ev
<1>12. LevelsShow(h + 1, E2)'
  <2>1. \A k \in Scan : k \in ckeys <=> edges[k] % 2 = 1
    BY DEF Written, LevelsShow
  <2>2. \A k \in Scan : edges[k] <= edges[k]
    BY <1>1
  <2> QED BY <1>0, <1>4, <2>1, <2>2 DEF LevelsShow
<1>13. \A i \in 0..h : E2[i] = E[i]
  BY <1>3
<1>14. \A i \in Nat : i < h => K2[i] = K[i]
  BY <1>5
<1> QED BY <1>10, <1>11, <1>12, <1>13, <1>14 DEF Written, History

\* The first h events of one history are those of another.
Extends(h, E, K, E2, K2) ==
  (\A i \in 0..h : E2[i] = E[i]) /\ (\A i \in Nat : i < h => K2[i] = K[i])

\* What the game was told is not what Stonemite does.
LEMMA ToldKept ==
  ASSUME StateSound, Outside,
         NEW h \in Nat, NEW c \in Nat, NEW n \in Nat, NEW e \in Nat, Positions(h, c, n, e),
         NEW E, NEW K, NEW q \in Nat, NEW f \in Nat, NEW l \in Nat, NEW g \in Seq(Nat),
         Told(h, c, n, e, E, K, q, f, l, g),
         NEW h2 \in Nat, h <= h2, NEW E2, NEW K2,
         Extends(h, E, K, E2, K2),
         lost' = {} /\ ~sources' => c = h2 /\ rd.events = <<>>
  PROVE  Told(h2, c, n, e, E2, K2, q, f, l, g)'
<1> USE DEF Extends
<1>0. UNCHANGED <<rd, cursor, observed, delivered>> /\ lost \subseteq lost'
  BY OutsideFrame DEF pollVars
<1>1. l <= h
  BY DEF Told, Positions
<1>2. f <= h /\ q <= h
  <2>1. CASE g = <<>>
    BY <1>1, <2>1 DEF Told
  <2>2. CASE g # <<>>
    <3>1. 1 \in 1..Len(g) /\ g[1] \in Nat
      BY <2>2
    <3>2. g[1] < l /\ f = g[1]
      BY <2>2, <3>1 DEF Told
    <3> QED BY <1>1, <3>1, <3>2 DEF Told
  <2> QED BY <2>1, <2>2 DEF Told
<1>3. E2[f] = E[f] /\ E2[q] = E[q]
  BY <1>2
<1>4. \A i \in 1..Len(g) : Ev(g[i], E2, K2) = Ev(g[i], E, K)
  <2> SUFFICES ASSUME NEW i \in 1..Len(g)
               PROVE  Ev(g[i], E2, K2) = Ev(g[i], E, K)
    OBVIOUS
  <2>3. g[i] \in Nat
    OBVIOUS
  <2>4. g[i] < l
    BY DEF Told
  <2>1. g[i] \in Nat /\ g[i] < l
    BY <2>3, <2>4
  <2>2. g[i] < h /\ g[i] + 1 \in 0..h
    <3>1. PICK x \in Nat : x = g[i]
      BY <2>1
    <3>3. x < l
      BY <2>1, <3>1
    <3>2. x < h /\ x + 1 \in 0..h
      BY <1>1, <3>3
    <3> QED BY <3>1, <3>2
  <2> QED BY <2>1, <2>2 DEF Ev
<1>5. rd.pc = "observe" =>
        \E s \in Nat : c <= s /\ s <= h2 /\ rd.keys = {k \in Scan : E2[s][k] % 2 = 1}
  <2> HAVE rd.pc = "observe"
  <2>1. PICK s \in Nat : c <= s /\ s <= h /\ rd.keys = {k \in Scan : E[s][k] % 2 = 1}
    BY DEF Told
  <2>2. E2[s] = E[s] /\ s <= h2
    BY <2>1
  <2> WITNESS s \in Nat
  <2> QED BY <2>1, <2>2
<1>6. lost' = {} => lost = {}
  BY <1>0
<1>7. \A i \in 1..Len(g) : rd.events[i] = Ev(g[i], E2, K2)
  BY <1>4 DEF Told
<1>8. q <= h2
  BY <1>2
<1> QED BY <1>0, <1>3, <1>5, <1>6, <1>7, <1>8 DEF Told, Ev

\* A source goes off unnoticed only when the game has read everything.
LEMMA SourceOff ==
  ASSUME StateSound, Outside,
         NEW h \in Nat, NEW c \in Nat, NEW n \in Nat, NEW e \in Nat, Positions(h, c, n, e),
         NEW E, NEW K, NEW q \in Nat, NEW f \in Nat, NEW l \in Nat, NEW g \in Seq(Nat),
         Told(h, c, n, e, E, K, q, f, l, g),
         lost' = {}, ~sources'
  PROVE  ~StoreHead /\ c = h /\ rd.events = <<>>
<1>1. lost = {} /\ cursor # NoCursor
  BY OutsideFrame DEF Positions
<1>2. CASE ~sources
  BY <1>1, <1>2 DEF Told, StoreHead, StateSound, WriterSound, Busy
<1>3. CASE sources
  <2>1. \E on \in BOOLEAN : SetSource(on)
    <3>1. ~Retire /\ ~Lapse /\ ~\E k \in AutoScan : AutoType(k)
      BY <1>3 DEF Retire, RetireFlags, ResetBegin, ResetKey, ResetEnd, Lapse, AutoType
    <3> QED BY <1>3, <3>1 DEF Outside, Write, LockSequence, StoreLevel, StoreRecord, StoreHead,
               UnlockSequence, RefreshHeartbeat, Kill, shmVars
  <2>2. wr.pc = "idle" /\ Lag = 0 /\ rd.events = <<>>
    BY <1>3, <2>1 DEF SetSource
  <2>3. h - c = 0
    BY <1>1, <2>2, LagOf
  <2>4. ~StoreHead
    BY <2>2 DEF StoreHead
  <2> QED BY <2>2, <2>3, <2>4
<1> QED BY <1>2, <1>3

LEMMA OutsideStrokes ==
  ASSUME StateSound, Outside, StrokesSound
  PROVE  StrokesSound'
<1> PICK h \in Nat, c \in Nat, n \in Nat, e \in Nat :
       /\ Positions(h, c, n, e)
       /\ Unspoilt => \E E \in Strokes, K \in Keys, q \in Nat, f \in Nat, l \in Nat, g \in Seq(Nat) :
                        Written(h, E, K) /\ Told(h, c, n, e, E, K, q, f, l, g)
  BY DEF StrokesSound
<1>1. CASE ~Unspoilt'
  <2>1. h + 1 \in Nat
    OBVIOUS
  <2> QED BY <1>1, <2>1, OutsidePositions DEF StrokesSound
<1>2. CASE Unspoilt'
  <2>1. Unspoilt
    BY <1>2, OutsideFrame DEF Unspoilt
  <2> PICK E \in Strokes, K \in Keys, q \in Nat, f \in Nat, l \in Nat, g \in Seq(Nat) :
           Written(h, E, K) /\ Told(h, c, n, e, E, K, q, f, l, g)
    BY <2>1
  <2>2. CASE StoreHead
    <3>1. PICK E2, K2 : E2 = Extended(h, E) /\ K2 = Keyed(h, K)
      OBVIOUS
    <3>0. PICK h2 \in Nat : h2 = h + 1
      OBVIOUS
    <3>7. /\ \A i \in 0..h : E2[i] = E[i]
          /\ \A i \in Nat : i < h => K2[i] = K[i]
          /\ Written(h + 1, E2, K2)'
      BY <2>2, <3>1, WrittenHead
    <3>2. Written(h2, E2, K2)'
      BY <3>0, <3>7
    <3>3. h <= h2
      BY <3>0
    <3>8. Extends(h, E, K, E2, K2)
      BY <3>7 DEF Extends
    <3>4. lost' = {} /\ ~sources' => c = h2 /\ rd.events = <<>>
      BY <2>2, SourceOff
    <3>5. Told(h2, c, n, e, E2, K2, q, f, l, g)'
      BY <3>3, <3>4, <3>8, ToldKept
    <3>6. Positions(h2, c, n, e)'
      BY <2>2, <3>0, OutsidePositions
    <3>10. E2 \in Strokes /\ K2 \in Keys
      BY <3>2 DEF Written, History, Strokes, Keys
    <3> QED BY <3>2, <3>5, <3>6, <3>10 DEF StrokesSound
  <2>3. CASE ~StoreHead
    <3>1. Written(h, E, K)'
      BY <1>2, <2>3, WrittenKept
    <3>2. lost' = {} /\ ~sources' => c = h /\ rd.events = <<>>
      BY SourceOff
    <3>3. h <= h /\ Extends(h, E, K, E, K)
      BY DEF Extends
    <3>4. Told(h, c, n, e, E, K, q, f, l, g)'
      BY <3>2, <3>3, ToldKept
    <3>5. Positions(h, c, n, e)'
      BY <2>3, OutsidePositions
    <3> QED BY <3>1, <3>4, <3>5 DEF StrokesSound
  <2> QED BY <2>2, <2>3
<1> QED BY <1>1, <1>2

----------------------------------------------------------------------------
(* What a call tells                                                       *)

\* Reading writes nothing.
LEMMA PollWritten ==
  ASSUME Poll, NEW h \in Nat, NEW E, NEW K, Written(h, E, K)
  PROVE  Written(h, E, K)'
<1>1. UNCHANGED <<seq, ckeys, ring, wr, edges>>
  BY PollFrame DEF shmVars
<1>2. RingShows(h, E, K)'
  BY <1>1 DEF Written, RingShows, Ev
<1>3. LevelsShow(h, E)'
  BY <1>1 DEF Written, LevelsShow
<1> QED BY <1>2, <1>3 DEF Written, History

\* Strokes that are passed over only make the game know less.
LEMMA AtMostMoves ==
  ASSUME NEW d \in Nat, NEW a \in Nat, NEW b \in Nat, NEW told \in Nat, a <= b, AtMost(d, a, told)
  PROVE  AtMost(d, b, told)
BY DEF AtMost

\* The counts at the positions the game is told of.
LEMMA FrontType ==
  ASSUME StateSound,
         NEW h \in Nat, NEW c \in Nat, NEW n \in Nat, NEW e \in Nat, Positions(h, c, n, e),
         NEW E, NEW K, Written(h, E, K), NEW q \in Nat, NEW f \in Nat, NEW l \in Nat,
         NEW g \in Seq(Nat), Told(h, c, n, e, E, K, q, f, l, g)
  PROVE  /\ f <= l /\ l <= h /\ q <= h
         /\ \A i \in Nat : \A k \in Scan : E[i][k] \in Nat
         /\ \A k \in Scan : delivered[k] \in Nat
         /\ \A i, j \in Nat : i <= j /\ j <= h => \A k \in Scan : E[i][k] <= E[j][k]
<1>1. l <= h /\ q <= h
  BY DEF Told, Positions
<1>2. f <= l
  <2>1. CASE g = <<>>
    BY <2>1 DEF Told
  <2>2. CASE g # <<>>
    <3>1. 1 \in 1..Len(g) /\ g[1] \in Nat
      BY <2>2
    <3> QED BY <2>2, <3>1 DEF Told
  <2> QED BY <2>1, <2>2
<1>3. \A i \in Nat : \A k \in Scan : E[i][k] \in Nat
  BY DEF Written, History, Strokes
<1>4. \A k \in Scan : delivered[k] \in Nat
  BY DEF StateSound, Counts
<1>5. \A i, j \in Nat : i <= j /\ j <= h => \A k \in Scan : E[i][k] <= E[j][k]
  BY DEF Written, History
<1> QED BY <1>1, <1>2, <1>3, <1>4, <1>5

LEMMA DrainBeginTold ==
  ASSUME StateSound, DrainBegin,
         NEW h \in Nat, NEW c \in Nat, NEW n \in Nat, NEW e \in Nat, Positions(h, c, n, e),
         NEW E, NEW K, Written(h, E, K), NEW q \in Nat, NEW f \in Nat, NEW l \in Nat,
         NEW g \in Seq(Nat), Told(h, c, n, e, E, K, q, f, l, g),
         NEW b \in Nat, NEW m \in Nat, cursor # NoCursor => b = c,
         b <= m, m <= h, m # b => rd'.over
  PROVE  Told(h, b, m, h, E, K, q, m, m, <<>>)'
<1>0. /\ UNCHANGED <<lost, observed, delivered, sources>>
      /\ rd.pc = "idle"
  BY DEF DrainBegin, unread, shmVars
<1>1. rd'.pc = "drain" /\ rd'.events = <<>>
  <2>1. PICK next, over : rd' = [Idle EXCEPT !.pc = "drain", !.next = next, !.end = head, !.over = over]
    BY DEF DrainBegin
  <2> QED BY <2>1 DEF Idle
<1>2. rd.events = <<>>
  BY <1>0 DEF StateSound, ReaderSound
<1>3. l = c /\ f = c
  BY <1>0, <1>2 DEF Told
<1>4. \A k \in Scan : AtMost(delivered[k], E[m][k], E[q][k])
  <2> TAKE k \in Scan
  <2>1. CASE cursor = NoCursor
    <3>1. delivered[k] = 0
      BY <2>1 DEF Positions
    <3>2. E[m][k] \in Nat
      BY FrontType
    <3> QED BY <3>1, <3>2 DEF AtMost
  <2>2. CASE cursor # NoCursor
    <3>1. AtMost(delivered[k], E[c][k], E[q][k])
      BY <1>3 DEF Told
    <3>2. E[c][k] <= E[m][k]
      BY <2>2, FrontType
    <3> QED BY <3>1, <3>2, AtMostMoves, FrontType
  <2> QED BY <2>1, <2>2
<1>5. lost = {} => /\ ~sources => b = h
                   /\ ~rd'.over => \A k \in Scan : delivered[k] >= E[m][k]
  <2> HAVE lost = {}
  <2>1. cursor # NoCursor
    BY DEF Positions
  <2>2. ~rd.over
    BY <1>0 DEF StateSound, ReaderSound
  <2> QED BY <1>3, <2>1, <2>2 DEF Told
<1>6. q <= h
  BY DEF Told
<1>7. \A k \in Scan : k \in observed <=> delivered[k] % 2 = 1
  BY DEF Told
<1> QED BY <1>0, <1>1, <1>4, <1>5, <1>6, <1>7 DEF Told

LEMMA DrainEndTold ==
  ASSUME StateSound, DrainEnd,
         NEW h \in Nat, NEW c \in Nat, NEW n \in Nat, NEW e \in Nat, Positions(h, c, n, e),
         NEW E, NEW K, Written(h, E, K), NEW q \in Nat, NEW f \in Nat, NEW l \in Nat,
         NEW g \in Seq(Nat), Told(h, c, n, e, E, K, q, f, l, g), n = e
  PROVE  Told(h, e, n, e, E, K, q, f, l, g)'
<1>0. /\ UNCHANGED <<observed, delivered, sources>>
      /\ rd.pc = "drain" /\ lost' = IF rd.over THEN lost \cup {"ring"} ELSE lost
  BY DEF DrainEnd, unread, shmVars
<1>1. rd'.pc = "auto" /\ rd'.events = rd.events /\ rd'.over = rd.over
  BY DEF DrainEnd, Goes, StateSound, Threads, ReaderType
<1>2. lost' = {} => lost = {} /\ ~rd.over
  BY <1>0
<1>3. lost' = {} /\ ~sources => e = h
  BY <1>0, <1>2 DEF Told, Positions
<1> QED BY <1>0, <1>1, <1>2, <1>3 DEF Told, Ev

\* A record that carries the expected stamp is the expected event: the writer
\* did not go all around the counter.
LEMMA StampTells ==
  ASSUME NEW h \in Nat, NEW n \in Nat, n < h, h - n < Wrap,
         NEW E, NEW K, RingShows(h, E, K), ring[n % Cap].stamp = n % Wrap
  PROVE  ring[n % Cap] = Ev(n, E, K)
<1> DEFINE p == (h - n) \div Cap  r == (h - n) % Cap  i == h - r
<1>1. p \in Int /\ r \in 0..(Cap - 1) /\ h - n = Cap * p + r
  <2>1. h - n \in Int
    OBVIOUS
  <2> QED BY <2>1, Sizes, Division
<1> HIDE DEF p, r
<1>2. r <= h - n
  <2>1. h - n \in Nat
    OBVIOUS
  <2>2. p >= 0
    <3>1. ~(p <= -1)
      BY <1>1, Sizes, SMT
    <3> QED BY <1>1, <3>1
  <2>3. Cap * p >= 0
    BY <2>2, <1>1, Sizes, SMT
  <2>4. Cap * p \in Int
    BY <1>1, Sizes, SMT
  <2> QED BY <1>1, <2>3, <2>4, Sizes
<1>3. i \in Nat /\ n <= i /\ i <= h /\ i = n + Cap * p
  BY <1>1, <1>2, Sizes, SMT
<1>4. i % Cap = n % Cap
  <2>1. n \in Int
    OBVIOUS
  <2> QED BY <1>1, <1>3, <2>1, Sizes, MultipleAdded
<1>5. h - i = r
  BY <1>1, Sizes
<1> HIDE DEF i
<1>6. \A j \in Nat : n <= j /\ j <= h /\ j % Wrap = n % Wrap => j = n
  <2> SUFFICES ASSUME NEW j \in Nat, n <= j, j <= h, j % Wrap = n % Wrap
               PROVE  j = n
    OBVIOUS
  <2>1. n \in Int /\ j \in Int /\ j - n < Wrap
    BY Sizes
  <2> QED BY <2>1, Sizes, RemainderInjective
<1>7. CASE r # 0
  <2>1. i < h /\ h - i < Cap
    BY <1>1, <1>3, <1>5, <1>7, Sizes
  <2>2. ring[n % Cap] = Ev(i, E, K)
    BY <1>3, <1>4, <2>1 DEF RingShows
  <2>3. i % Wrap = n % Wrap
    BY <2>2 DEF Ev
  <2>4. i = n
    BY <1>3, <1>6, <2>3
  <2> QED BY <2>2, <2>4
<1>8. CASE r = 0
  <2>1. i = h
    BY <1>3, <1>5, <1>8
  <2>2. h - n >= Cap
    <3>1. ~(p <= 0)
      BY <1>1, <1>8, Sizes, SMT
    <3>2. p >= 1
      BY <1>1, <3>1
    <3> QED BY <1>1, <1>8, <3>2, Sizes, SMT
  <2>3. Cap <= h /\ h - Cap \in Nat /\ n <= h - Cap /\ h - Cap <= h
    BY <2>2, Sizes
  <2>4. ring[n % Cap].stamp # h % Wrap
    <3>1. h # n /\ h <= h /\ n <= h
      OBVIOUS
    <3> QED BY <1>6, <3>1
  <2>5. ring[n % Cap] = Ev(h - Cap, E, K)
    BY <1>4, <2>1, <2>3, <2>4 DEF RingShows
  <2>6. (h - Cap) % Wrap = n % Wrap
    BY <2>5 DEF Ev
  <2>7. h - Cap = n
    BY <1>6, <2>3, <2>6
  <2> QED BY <2>5, <2>7
<1> QED BY <1>7, <1>8

LEMMA DrainRecordTold ==
  ASSUME StateSound, DrainRecord,
         NEW h \in Nat, NEW c \in Nat, NEW n \in Nat, NEW e \in Nat, Positions(h, c, n, e),
         NEW E, NEW K, Written(h, E, K), NEW q \in Nat, NEW f \in Nat, NEW l \in Nat,
         NEW g \in Seq(Nat), Told(h, c, n, e, E, K, q, f, l, g),
         NEW m \in Nat, m = n + 1
  PROVE  \E f2 \in Nat, g2 \in Seq(Nat) : Told(h, c, m, e, E, K, q, f2, m, g2)'
<1> DEFINE r == ring[n % Cap]
<1>0. n < e /\ cursor # NoCursor /\ c <= n /\ h - n < Wrap /\ ring[rd.next % Cap] = r
  BY DrainRecordPositions
<1>1. n < e /\ e <= h /\ h - n < Wrap /\ ring[rd.next % Cap] = r
  BY <1>0 DEF DrainRecord, Positions
<1>2. /\ UNCHANGED <<lost, observed, delivered, sources>>
      /\ rd.pc = "drain" /\ rd.next = n % Wrap
  BY DEF DrainRecord, unread, shmVars, Positions
<1> DEFINE match == r.stamp = n % Wrap
<1>3. /\ rd'.pc = "drain"
      /\ rd'.over = (rd.over \/ ~match)
      /\ rd'.events = IF match THEN Append(rd.events, r) ELSE rd.events
  BY <1>1, <1>2 DEF DrainRecord, StampMatches, StateSound, Threads, ReaderType
<1>4. l = n /\ Len(g) = Len(rd.events) /\ q <= h /\ q <= e
  BY <1>2 DEF Told
<1>5. rd.events \in Seq(Event)
  BY DEF StateSound, Threads, ReaderType
<1>6. \A i \in 1..Len(g) : g[i] \in Nat /\ g[i] < m
  <2>1. \A i \in 1..Len(g) : g[i] \in Nat /\ g[i] < n
    <3>1. \A i \in 1..Len(g) : g[i] < n
      BY <1>4 DEF Told
    <3> QED BY <3>1
  <2> QED BY <2>1
<1>7. lost = {} => (~sources => c = h /\ rd.events = <<>>)
  BY DEF Told
<1>8. ~(lost = {} /\ ~sources)
  BY <1>0, <1>1, <1>7
<1>9. CASE match
  <2>1. r = Ev(n, E, K)
    BY <1>1, <1>9, StampTells DEF Written
  <2>2. rd'.events = Append(rd.events, r) /\ rd'.over = rd.over
    BY <1>3, <1>9, <1>2 DEF StateSound, Threads, ReaderType
  <2> HIDE DEF r, match
  <2> DEFINE g2 == Append(g, n)
  <2>3. g2 \in Seq(Nat) /\ Len(g2) = Len(g) + 1 /\ g2 # <<>> /\ g2[Len(g) + 1] = n
        /\ \A i \in 1..Len(g) : g2[i] = g[i]
    <3>1. g2 \in Seq(Nat) /\ Len(g2) = Len(g) + 1
      OBVIOUS
    <3>2. g2[Len(g) + 1] = n /\ \A i \in 1..Len(g) : g2[i] = g[i]
      OBVIOUS
    <3>3. g2 # <<>>
      <4>1. Len(g2) >= 1
        BY <3>1, Len(g) \in Nat
      <4> HIDE DEF g2
      <4> QED BY ONLY <4>1, Len(<<>>) = 0
    <3> QED BY <3>1, <3>2, <3>3
  <2>4. Len(rd'.events) = Len(rd.events) + 1 /\ rd'.events[Len(g) + 1] = r
        /\ \A i \in 1..Len(g) : rd'.events[i] = rd.events[i]
    <3>1. Len(Append(rd.events, r)) = Len(rd.events) + 1
      BY <1>5
    <3>2. Append(rd.events, r)[Len(rd.events) + 1] = r
      BY <1>5
    <3>3. \A i \in 1..Len(rd.events) : Append(rd.events, r)[i] = rd.events[i]
      BY <1>5
    <3> QED BY <1>4, <2>2, <3>1, <3>2, <3>3
  <2>5. \A i \in 1..Len(g2) : g2[i] < m /\ rd'.events[i] = Ev(g2[i], E, K)
    <3> SUFFICES ASSUME NEW i \in 1..Len(g2)
                 PROVE  g2[i] < m /\ rd'.events[i] = Ev(g2[i], E, K)
      OBVIOUS
    <3> HIDE DEF g2
    <3>1. CASE i = Len(g) + 1
      <4>1. g2[i] = n /\ rd'.events[i] = r /\ n < m
        BY <2>3, <2>4, <3>1
      <4> QED BY <2>1, <4>1
    <3>2. CASE i \in 1..Len(g)
      <4>1. g2[i] = g[i] /\ rd'.events[i] = rd.events[i] /\ rd.events[i] = Ev(g[i], E, K)
        BY <2>3, <2>4, <3>2 DEF Told
      <4> QED BY <1>6, <3>2, <4>1
    <3>3. i = Len(g) + 1 \/ i \in 1..Len(g)
      BY <2>3
    <3> QED BY <3>1, <3>2, <3>3
  <2>6. \A i, j \in 1..Len(g2) : i < j => g2[i] < g2[j]
    <3> SUFFICES ASSUME NEW i \in 1..Len(g2), NEW j \in 1..Len(g2), i < j
                 PROVE  g2[i] < g2[j]
      OBVIOUS
    <3> HIDE DEF g2
    <3>3. Len(g) \in Nat /\ i \in 1..(Len(g) + 1) /\ j \in 1..(Len(g) + 1)
      BY <2>3
    <3>0. i \in 1..Len(g) /\ (j = Len(g) + 1 \/ j \in 1..Len(g))
      <4>1. PICK y \in Nat : y = Len(g)
        BY <3>3
      <4>2. i \in 1..y /\ (j = y + 1 \/ j \in 1..y)
        BY <3>3, <4>1, SMTT(30)
      <4> QED BY <4>1, <4>2
    <3>1. CASE j = Len(g) + 1
      <4>1. g[i] < n
        BY <1>4, <3>0 DEF Told
      <4> QED BY <2>3, <3>0, <3>1, <4>1
    <3>2. CASE j \in 1..Len(g)
      <4>1. g[i] < g[j]
        BY <3>0, <3>2 DEF Told
      <4> QED BY <2>3, <3>0, <3>2, <4>1
    <3> QED BY <3>0, <3>1, <3>2
  <2>7. f = g2[1]
    <3>1. CASE g = <<>>
      <4>1. Len(g) + 1 = 1 /\ f = n
        BY <1>4, <3>1 DEF Told
      <4> HIDE DEF g2
      <4> QED BY <2>3, <4>1
    <3>2. CASE g # <<>>
      <4>1. 1 \in 1..Len(g) /\ f = g[1]
        BY <3>2 DEF Told
      <4> HIDE DEF g2
      <4> QED BY <2>3, <4>1
    <3> QED BY <3>1, <3>2
  <2>8. lost = {} /\ ~rd.over => \A i \in 1..Len(g2) : g2[i] + Len(g2) + 1 = m + i
    <3> SUFFICES ASSUME lost = {}, ~rd.over, NEW i \in 1..Len(g2)
                 PROVE  g2[i] + Len(g2) + 1 = m + i
      OBVIOUS
    <3> HIDE DEF g2
    <3>1. CASE i = Len(g) + 1
      BY <2>3, <3>1
    <3>2. CASE i \in 1..Len(g)
      <4>1. g[i] + Len(g) + 1 = n + i
        BY <1>4, <3>2 DEF Told
      <4>2. g[i] \in Nat /\ Len(g) \in Nat /\ i \in Nat
        BY <3>2
      <4>3. g2[i] = g[i] /\ Len(g2) = Len(g) + 1
        BY <2>3, <3>2
      <4>4. PICK x \in Nat, y \in Nat : x = g[i] /\ y = Len(g)
        BY <4>2
      <4>6. x + y + 1 = n + i /\ i \in Nat
        BY <4>1, <4>4, <4>2
      <4>5. x + (y + 1) + 1 = m + i
        BY <4>6
      <4> QED BY <4>3, <4>4, <4>5
    <3>3. i = Len(g) + 1 \/ i \in 1..Len(g)
      BY <2>3
    <3> QED BY <3>1, <3>2, <3>3
  <2>9. Len(g2) = Len(rd'.events)
    BY <1>4, <2>3, <2>4
  <2> HIDE DEF g2
  <2>10. Told(h, c, m, e, E, K, q, f, m, g2)'
    <3>1. \A k \in Scan : AtMost(delivered[k], E[f][k], E[q][k])
      BY DEF Told
    <3>2. \A k \in Scan : k \in observed <=> delivered[k] % 2 = 1
      BY DEF Told
    <3>3. lost = {} /\ ~rd.over => \A k \in Scan : delivered[k] >= E[f][k]
      BY DEF Told
    <3> QED BY <1>2, <1>3, <1>4, <1>8, <2>2, <2>3, <2>5, <2>6, <2>7, <2>8, <2>9, <3>1, <3>2, <3>3
            DEF Told, Ev
  <2> QED BY <2>3, <2>10
<1>10. CASE ~match
  <2>1. rd'.events = rd.events /\ rd'.over = TRUE
    BY <1>3, <1>10
  <2> HIDE DEF r, match
  <2>2. PICK f2 \in Nat : f2 = (IF g = <<>> THEN m ELSE g[1]) /\ f <= f2 /\ f2 <= m
    <3>1. CASE g = <<>>
      BY <1>4, <3>1 DEF Told
    <3>2. CASE g # <<>>
      <4>1. 1 \in 1..Len(g)
        BY <3>2
      <4>2. g[1] \in Nat /\ g[1] <= m /\ f = g[1]
        BY <1>6, <3>2, <4>1 DEF Told
      <4> QED BY <3>2, <4>2
    <3> QED BY <3>1, <3>2
  <2>3. \A k \in Scan : AtMost(delivered[k], E[f2][k], E[q][k])
    <3> TAKE k \in Scan
    <3>1. f2 <= h
      BY <1>1, <2>2
    <3>2. E[f][k] <= E[f2][k]
      BY <2>2, <3>1, FrontType
    <3>3. E[f][k] \in Nat /\ E[f2][k] \in Nat /\ E[q][k] \in Nat /\ delivered[k] \in Nat
      BY FrontType
    <3>4. AtMost(delivered[k], E[f][k], E[q][k])
      BY DEF Told
    <3> QED BY <3>2, <3>3, <3>4, AtMostMoves
  <2>4. Told(h, c, m, e, E, K, q, f2, m, g)'
    <3>1. \A i \in 1..Len(g) : rd.events[i] = Ev(g[i], E, K)
      BY DEF Told
    <3>2. \A i, j \in 1..Len(g) : i < j => g[i] < g[j]
      BY DEF Told
    <3>3. \A k \in Scan : k \in observed <=> delivered[k] % 2 = 1
      BY DEF Told
    <3> QED BY <1>2, <1>3, <1>4, <1>6, <1>8, <2>1, <2>2, <2>3, <3>1, <3>2, <3>3 DEF Told, Ev
  <2> QED BY <2>4
<1> QED BY <1>9, <1>10

\* One more event: a count d of at most a before it is at most a + 1 after it,
\* and exact if it was.
LEMMA OneMore ==
  ASSUME NEW d \in Nat, NEW a \in Nat, NEW told \in Nat, AtMost(d, a, told),
         NEW d2 \in Nat, d2 = IF d % 2 = (a + 1) % 2 THEN d ELSE d + 1
  PROVE  d2 <= a + 1 /\ (d >= a => d2 >= a + 1) /\ ((a + 1) % 2 = 1 <=> d2 % 2 = 1)
<1>1. (d + 1) % 2 = 1 <=> d % 2 # 1
  BY Parity
<1>2. (a + 1) % 2 = 1 <=> a % 2 # 1
  BY Parity
<1>3. /\ d % 2 = 0 \/ d % 2 = 1
      /\ a % 2 = 0 \/ a % 2 = 1
      /\ (a + 1) % 2 = 0 \/ (a + 1) % 2 = 1
  BY Parity
<1>4. d = a \/ d = a + 1 \/ d < a
  BY DEF AtMost
<1>5. CASE d = a
  BY <1>2, <1>3, <1>5
<1>6. CASE d = a + 1
  BY <1>6
<1>7. CASE d < a
  BY <1>1, <1>3, <1>7
<1> QED BY <1>4, <1>5, <1>6, <1>7

LEMMA ReplayTold ==
  ASSUME StateSound, Replay \/ Replaying, Unspoilt,
         NEW h \in Nat, NEW c \in Nat, NEW n \in Nat, NEW e \in Nat, Positions(h, c, n, e),
         NEW E, NEW K, Written(h, E, K), NEW q \in Nat, NEW f \in Nat, NEW l \in Nat,
         NEW g \in Seq(Nat), Told(h, c, n, e, E, K, q, f, l, g)
  PROVE  \E f2 \in Nat, g2 \in Seq(Nat) : Told(h, c, n, e, E, K, q, f2, l, g2)'
<1> DEFINE r == Head(rd.events)
<1>0. /\ f <= l /\ l <= h /\ q <= h
      /\ \A i \in Nat : \A k \in Scan : E[i][k] \in Nat
      /\ \A k \in Scan : delivered[k] \in Nat
      /\ \A i, j \in Nat : i <= j /\ j <= h => \A k \in Scan : E[i][k] <= E[j][k]
  BY FrontType
<1>1. /\ UNCHANGED <<lost, sources>> /\ rd.events # <<>>
      /\ rd.pc \in {"replay", "replaying"} /\ ObserveEvent(r)
  BY DEF Replay, Replaying, unread, shmVars
<1>2. rd'.pc = "replaying" /\ rd'.events = Tail(rd.events) /\ rd'.over = rd.over
  BY DEF Replay, Replaying, StateSound, Threads, ReaderType
<1>3. rd.events \in Seq(Event)
  BY DEF StateSound, Threads, ReaderType
<1>4. /\ Len(g) = Len(rd.events) /\ Len(g) \in Nat \ {0} /\ 1 \in 1..Len(g)
      /\ l = c /\ q <= c /\ q <= h
  <2>1. Len(rd.events) \in Nat \ {0}
    BY <1>1, <1>3
  <2> QED BY <1>1, <2>1 DEF Told
<1>5. f = g[1] /\ f < l /\ r = Ev(f, E, K)
  <2>1. g # <<>>
    BY <1>4
  <2>2. r = rd.events[1]
    BY <1>1, <1>3
  <2> QED BY <1>4, <2>1, <2>2 DEF Told
<1>6. f < h /\ l <= h /\ f + 1 \in Nat
  BY <1>0, <1>5
<1>7. K[f] \in Scan /\ E[f + 1] = [E[f] EXCEPT ![K[f]] = @ + 1]
  BY <1>6 DEF Written, History
<1>8. E[f] \in [Scan -> Nat] /\ E[f + 1] \in [Scan -> Nat]
  BY <1>6 DEF Written, History, Strokes
<1>9. r.key = K[f] /\ Effective(r) = (E[f + 1][K[f]] % 2 = 1)
  <2>1. rd.auto = {}
    <3>1. OwnerSound /\ "owner" \notin lost
      BY DEF StateSound, Unspoilt
    <3> QED BY <3>1 DEF OwnerSound
  <2>4. r = Ev(f, E, K)
    BY <1>5
  <2> HIDE DEF r
  <2>2. r.key = K[f] /\ r.down = (E[f + 1][K[f]] % 2 = 1)
    BY <2>4 DEF Ev
  <2>3. r.down \in BOOLEAN
    BY <2>2
  <2> QED BY <2>1, <2>2, <2>3 DEF Effective
<1> HIDE DEF r
<1> DEFINE k0 == K[f]  down == (E[f + 1][k0] % 2 = 1)
<1>10. /\ \A k \in Scan : k # k0 =>
            delivered'[k] = delivered[k] /\ (k \in observed' <=> k \in observed)
       /\ delivered'[k0] = IF (k0 \in observed) = down THEN delivered[k0] ELSE delivered[k0] + 1
       /\ k0 \in observed' <=> down
       /\ delivered' \in [Scan -> Nat]
  <2>1. delivered \in [Scan -> Nat] /\ observed \subseteq Scan
    BY DEF StateSound, Counts
  <2>2. ObserveEvent(r) /\ r.key = k0 /\ Effective(r) = down /\ k0 \in Scan
    BY <1>1, <1>7, <1>9
  <2> HIDE DEF k0, down
  <2>3. CASE (k0 \in observed) = down
    <3>1. UNCHANGED <<observed, delivered>>
      BY <2>2, <2>3 DEF ObserveEvent
    <3> QED BY <2>1, <2>3, <3>1
  <2>4. CASE (k0 \in observed) # down
    <3>0. down \in BOOLEAN
      BY DEF down
    <3>1. /\ observed' = IF down THEN observed \cup {k0} ELSE observed \ {k0}
          /\ delivered' = [delivered EXCEPT ![k0] = @ + 1]
      BY <2>2, <2>4 DEF ObserveEvent
    <3>2. k0 \in observed' <=> down
      BY <3>0, <3>1
    <3>3. \A k \in Scan : k # k0 => (k \in observed' <=> k \in observed)
      BY <3>1
    <3>4. \A k \in Scan : k # k0 => delivered'[k] = delivered[k]
      BY <2>1, <3>1
    <3>5. delivered'[k0] = delivered[k0] + 1 /\ delivered' \in [Scan -> Nat]
      BY <2>1, <2>2, <3>1
    <3> QED BY <2>4, <3>2, <3>3, <3>4, <3>5
  <2> QED BY <2>3, <2>4
<1>11. E[f + 1][k0] = E[f][k0] + 1 /\ \A k \in Scan : k # k0 => E[f + 1][k] = E[f][k]
  BY <1>7, <1>8
<1>12. k0 \in Scan
  BY <1>7
<1> HIDE DEF k0
<1>13. /\ delivered'[k0] <= E[f + 1][k0]
       /\ delivered[k0] >= E[f][k0] => delivered'[k0] >= E[f + 1][k0]
       /\ k0 \in observed' <=> delivered'[k0] % 2 = 1
  <2> DEFINE d == delivered[k0]  a == E[f][k0]  told == E[q][k0]  d2 == delivered'[k0]
             held == k0 \in observed
  <2>1. d \in Nat /\ a \in Nat /\ told \in Nat /\ d2 \in Nat /\ AtMost(d, a, told)
    <3>1. AtMost(d, a, told)
      BY <1>12 DEF Told
    <3>2. d \in Nat /\ a \in Nat /\ told \in Nat
      BY <1>0, <1>12
    <3>3. d2 \in Nat
      BY <1>10, <1>12
    <3> QED BY <3>1, <3>2, <3>3
  <2>2. held <=> d % 2 = 1
    BY <1>12 DEF Told
  <2>3. down <=> (a + 1) % 2 = 1
    BY <1>11
  <2>4. d2 = IF held = down THEN d ELSE d + 1
    BY <1>10
  <2>5. d2 = IF d % 2 = (a + 1) % 2 THEN d ELSE d + 1
    <3>0. a + 1 \in Nat /\ d \in Nat
      BY <2>1
    <3>1. /\ d % 2 = 0 \/ d % 2 = 1
          /\ (a + 1) % 2 = 0 \/ (a + 1) % 2 = 1
      BY <3>0, Parity
    <3>2. (held = down) <=> d % 2 = (a + 1) % 2
      BY <2>2, <2>3, <3>1
    <3> HIDE DEF d, a, told, d2, held, down
    <3> QED BY <2>4, <3>2
  <2>6. d2 <= a + 1 /\ (d >= a => d2 >= a + 1) /\ (down <=> d2 % 2 = 1)
    <3> HIDE DEF d, a, told, d2, held, down
    <3> QED BY <2>1, <2>3, <2>5, OneMore
  <2> QED BY <1>10, <1>11, <2>6
<1>14. /\ \A k \in Scan : AtMost(delivered'[k], E[f + 1][k], E[q][k])
       /\ \A k \in Scan : delivered[k] >= E[f][k] => delivered'[k] >= E[f + 1][k]
       /\ \A k \in Scan : k \in observed' <=> delivered'[k] % 2 = 1
  <2>1. ASSUME NEW k \in Scan
        PROVE  /\ AtMost(delivered'[k], E[f + 1][k], E[q][k])
               /\ delivered[k] >= E[f][k] => delivered'[k] >= E[f + 1][k]
               /\ k \in observed' <=> delivered'[k] % 2 = 1
    <3>1. CASE k = k0
      BY <1>13, <3>1 DEF AtMost
    <3>2. CASE k # k0
      <4>1. delivered'[k] = delivered[k] /\ (k \in observed' <=> k \in observed)
        BY <1>10, <3>2
      <4>2. E[f + 1][k] = E[f][k]
        BY <1>11, <3>2
      <4>3. AtMost(delivered[k], E[f][k], E[q][k]) /\ (k \in observed <=> delivered[k] % 2 = 1)
        BY DEF Told
      <4> QED BY <4>1, <4>2, <4>3
    <3> QED BY <3>1, <3>2
  <2> QED BY <2>1
<1> DEFINE g2 == Tail(g)
<1>15. /\ g2 \in Seq(Nat) /\ Len(g2) = Len(g) - 1
       /\ \A i \in 1..Len(g2) : i + 1 \in 1..Len(g) /\ g2[i] = g[i + 1]
  <2>1. g # <<>>
    BY <1>4
  <2>2. g2 \in Seq(Nat) /\ Len(g2) = Len(g) - 1
    BY <2>1
  <2>3. \A i \in 1..Len(g2) : g2[i] = g[i + 1]
    BY <2>1
  <2>4. \A i \in 1..(Len(g) - 1) : i + 1 \in 1..Len(g)
    BY <1>4
  <2> QED BY <2>2, <2>3, <2>4
<1>16. /\ Len(rd'.events) = Len(rd.events) - 1
       /\ \A i \in 1..Len(rd'.events) : rd'.events[i] = rd.events[i + 1]
  <2>1. Len(Tail(rd.events)) = Len(rd.events) - 1
    BY <1>1, <1>3
  <2>2. \A i \in 1..Len(Tail(rd.events)) : Tail(rd.events)[i] = rd.events[i + 1]
    BY <1>1, <1>3
  <2> QED BY <1>2, <2>1, <2>2
<1> HIDE DEF g2
<1>17. \A i \in 1..Len(g2) : g2[i] < l /\ rd'.events[i] = Ev(g2[i], E, K)
  <2> SUFFICES ASSUME NEW i \in 1..Len(g2)
               PROVE  g2[i] < l /\ rd'.events[i] = Ev(g2[i], E, K)
    OBVIOUS
  <2>1. i + 1 \in 1..Len(g) /\ g2[i] = g[i + 1] /\ rd'.events[i] = rd.events[i + 1]
    BY <1>4, <1>15, <1>16
  <2> QED BY <2>1 DEF Told
<1>18. \A i, j \in 1..Len(g2) : i < j => g2[i] < g2[j]
  <2> SUFFICES ASSUME NEW i \in 1..Len(g2), NEW j \in 1..Len(g2), i < j
               PROVE  g2[i] < g2[j]
    OBVIOUS
  <2>1. i + 1 \in 1..Len(g) /\ g2[i] = g[i + 1] /\ j + 1 \in 1..Len(g) /\ g2[j] = g[j + 1]
    BY <1>15
  <2>2. i + 1 < j + 1
    BY <1>15
  <2> QED BY <2>1, <2>2 DEF Told
<1>19. PICK f2 \in Nat :
         /\ f2 = (IF g2 = <<>> THEN l ELSE g2[1])
         /\ f + 1 <= f2 /\ f2 <= l
         /\ lost = {} /\ ~rd.over => f2 = f + 1
  <2>1. CASE g2 = <<>>
    <3>1. Len(g) = 1
      BY <1>4, <1>15, <2>1
    <3>2. lost = {} /\ ~rd.over => f + 1 + 1 = l + 1
      BY <1>4, <1>5, <3>1 DEF Told
    <3>3. f + 1 <= l /\ (lost = {} /\ ~rd.over => l = f + 1)
      <4>1. f < l
        BY <1>5
      <4> QED BY <3>2, <4>1
    <3> QED BY <2>1, <3>3
  <2>2. CASE g2 # <<>>
    <3>1. 1 \in 1..Len(g2)
      BY <1>15, <2>2
    <3>2. 2 \in 1..Len(g) /\ g2[1] = g[2] /\ g[2] \in Nat
      <4>1. 1 + 1 \in 1..Len(g) /\ g2[1] = g[1 + 1] /\ 1 + 1 = 2
        BY <1>15, <3>1
      <4>2. 2 \in 1..Len(g) /\ g2[1] = g[2]
        BY <4>1
      <4> QED BY <4>2
    <3>3. g[1] < g[2] /\ g[2] < l
      BY <1>4, <3>2 DEF Told
    <3>4. lost = {} /\ ~rd.over => g[1] + Len(g) + 1 = l + 1 /\ g[2] + Len(g) + 1 = l + 2
      BY <1>4, <3>2 DEF Told
    <3> DEFINE x == g[2]  y == Len(g)
    <3>5. x \in Nat /\ y \in Nat /\ f < x /\ x < l
          /\ (lost = {} /\ ~rd.over => f + y + 1 = l + 1 /\ x + y + 1 = l + 2)
      BY <1>4, <1>5, <3>2, <3>3, <3>4
    <3>6. g2[1] = x
      BY <3>2
    <3> HIDE DEF x, y
    <3>7. f + 1 <= x /\ (lost = {} /\ ~rd.over => x = f + 1)
      BY <3>5
    <3> QED BY <2>2, <3>5, <3>6, <3>7
  <2> QED BY <2>1, <2>2
<1>20. \A k \in Scan : AtMost(delivered'[k], E[f2][k], E[q][k])
  <2> TAKE k \in Scan
  <2>1. E[f + 1][k] <= E[f2][k]
    <3>1. f2 <= h
      BY <1>0, <1>19
    <3> QED BY <1>0, <1>6, <1>19, <3>1
  <2>2. E[f + 1][k] \in Nat /\ E[f2][k] \in Nat /\ E[q][k] \in Nat /\ delivered'[k] \in Nat
    BY <1>0, <1>6, <1>10
  <2>3. AtMost(delivered'[k], E[f + 1][k], E[q][k])
    BY <1>14
  <2> QED BY <2>1, <2>2, <2>3, AtMostMoves
<1>21. lost = {} /\ ~rd.over =>
         /\ \A k \in Scan : delivered'[k] >= E[f2][k]
         /\ \A i \in 1..Len(g2) : g2[i] + Len(g2) + 1 = l + i
  <2> HAVE lost = {} /\ ~rd.over
  <2>1. \A k \in Scan : delivered[k] >= E[f][k]
    BY DEF Told
  <2>2. \A k \in Scan : delivered'[k] >= E[f2][k]
    BY <1>14, <1>19, <2>1
  <2>3. ASSUME NEW i \in 1..Len(g2)
        PROVE  g2[i] + Len(g2) + 1 = l + i
    <3>1. i + 1 \in 1..Len(g) /\ g2[i] = g[i + 1] /\ g[i + 1] \in Nat
      <4>1. i + 1 \in 1..Len(g) /\ g2[i] = g[i + 1]
        BY <1>15
      <4>2. PICK j \in 1..Len(g) : j = i + 1
        BY <4>1
      <4>3. g[j] \in Nat
        OBVIOUS
      <4> QED BY <4>1, <4>2, <4>3
    <3>2. g[i + 1] + Len(g) + 1 = l + (i + 1)
      BY <3>1 DEF Told
    <3> DEFINE x == g[i + 1]  y == Len(g)
    <3>3. x \in Nat /\ y \in Nat /\ x + y + 1 = l + (i + 1) /\ i \in Nat /\ g2[i] = x
          /\ Len(g2) = y - 1
      <4>1. Len(g2) = y - 1 /\ y \in Nat
        BY <1>4, <1>15
      <4>2. i \in Nat
        BY <1>15, <4>1
      <4> QED BY <3>1, <3>2, <4>1, <4>2
    <3> HIDE DEF x, y
    <3>4. x + (y - 1) + 1 = l + i
      BY <3>3
    <3> QED BY <3>3, <3>4
  <2> QED BY <2>2, <2>3
<1>22. lost = {} => sources
  BY <1>1 DEF Told
<1>23. Told(h, c, n, e, E, K, q, f2, l, g2)'
  <2>1. Len(g2) = Len(rd'.events)
    BY <1>4, <1>15, <1>16
  <2> QED BY <1>1, <1>2, <1>4, <1>14, <1>17, <1>18, <1>19, <1>20, <1>21, <1>22, <2>1 DEF Told, Ev
<1> QED BY <1>15, <1>23

\* The steps of a call that read, and tell the game nothing.
LEMMA SilentTold ==
  ASSUME StateSound, Unspoilt,
         ReadAutoTypeKeys \/ ReadLevels \/ LoadBefore \/ LoadKey \/ LoadAfter,
         NEW h \in Nat, NEW c \in Nat, NEW n \in Nat, NEW e \in Nat, Positions(h, c, n, e),
         NEW E, NEW K, Written(h, E, K), NEW q \in Nat, NEW f \in Nat, NEW l \in Nat,
         NEW g \in Seq(Nat), Told(h, c, n, e, E, K, q, f, l, g)
  PROVE  Told(h, c, n, e, E, K, q, f, l, g)'
<1> USE DEF StateSound, Threads, ReaderType
<1>1. /\ UNCHANGED <<lost, observed, delivered, sources, seq, ckeys, edges>>
      /\ rd.pc \in {"auto", "levels", "try", "read", "settle"}
      /\ rd'.pc \in {"replay", "try", "observe", "settle", "read"}
  <2>1. CASE ReadAutoTypeKeys
    BY <2>1 DEF ReadAutoTypeKeys, unread, shmVars
  <2>2. CASE ReadLevels
    BY <2>2 DEF ReadLevels, Goes, unread, shmVars
  <2>3. CASE LoadBefore
    BY <2>3 DEF LoadBefore, unread, shmVars
  <2>4. CASE LoadKey
    BY <2>4 DEF LoadKey, unread, shmVars
  <2>5. CASE LoadAfter
    BY <2>5 DEF LoadAfter, unread, shmVars
  <2> QED BY <2>1, <2>2, <2>3, <2>4, <2>5
<1>2. rd'.events = rd.events /\ rd'.over = rd.over
  BY DEF ReadAutoTypeKeys, ReadLevels, LoadBefore, LoadKey, LoadAfter, Goes
<1>3. c <= h /\ q <= c /\ l = c
  BY <1>1 DEF Told, Positions
<1>4. ASSUME rd'.pc = "observe"
      PROVE  rd'.keys = {k \in Scan : E[h][k] % 2 = 1}
  <2>1. ReadLevels \/ LoadAfter
    BY <1>1, <1>4 DEF ReadAutoTypeKeys, LoadBefore, LoadKey
  <2>2. ckeys \subseteq Scan /\ \A k \in Scan : k \in ckeys <=> edges[k] % 2 = 1
    BY DEF Mapping, Written, LevelsShow
  <2>3. rd'.keys = ckeys /\ seq % 2 = 0
    <3>1. CASE ReadLevels
      <4>1. ~sources /\ rd'.keys = rd.keys /\ rd.pc = "levels"
        BY <1>4, <3>1 DEF ReadLevels, Goes, ControllerActive, OwnerSound, Unspoilt
      <4> QED BY <4>1 DEF OwnerSound, ReaderSound, Unspoilt
    <3>2. CASE LoadAfter
      <4>1. rd.pc = "read" /\ rd.left = {} /\ seq = rd.before /\ rd'.keys = rd.keys
        BY <1>4, <3>2 DEF LoadAfter, SequenceUnchanged
      <4>2. rd.keys = ckeys \ {} /\ rd.before % 2 = 0
        BY <4>1 DEF SnapshotSound, ReaderSound, Unspoilt, Mapping
      <4> QED BY <4>1, <4>2
    <3> QED BY <2>1, <3>1, <3>2
  <2>4. edges = E[h]
    BY <2>3 DEF Written, LevelsShow
  <2>5. rd'.keys = {k \in Scan : edges[k] % 2 = 1}
    BY <2>2, <2>3
  <2> QED BY <2>4, <2>5
<1>5. rd'.pc = "observe" =>
        \E s \in Nat : c <= s /\ s <= h /\ rd'.keys = {k \in Scan : E[s][k] % 2 = 1}
  <2> HAVE rd'.pc = "observe"
  <2> WITNESS h \in Nat
  <2> QED BY <1>3, <1>4
<1> HIDE DEF StateSound, Threads, ReaderType
<1> QED BY <1>1, <1>2, <1>3, <1>5 DEF Told, Ev

\* What is dropped of an inactive controller is all that the game will not hear.
LEMMA ReplayEndTold ==
  ASSUME StateSound, ReplayEnd, Unspoilt,
         NEW h \in Nat, NEW c \in Nat, NEW n \in Nat, NEW e \in Nat, Positions(h, c, n, e),
         NEW E, NEW K, Written(h, E, K), NEW q \in Nat, NEW f \in Nat, NEW l \in Nat,
         NEW g \in Seq(Nat), Told(h, c, n, e, E, K, q, f, l, g)
  PROVE  Told(h, c, n, e, E, K, q, c, c, <<>>)'
<1>0. /\ f <= l /\ l <= h /\ q <= h
      /\ \A i \in Nat : \A k \in Scan : E[i][k] \in Nat
      /\ \A k \in Scan : delivered[k] \in Nat
      /\ \A i, j \in Nat : i <= j /\ j <= h => \A k \in Scan : E[i][k] <= E[j][k]
  BY FrontType
<1>1. /\ UNCHANGED <<lost, observed, delivered, sources>>
      /\ rd.pc \in {"replay", "replaying"}
  BY DEF ReplayEnd, unread, shmVars
<1>2. rd'.events = <<>> /\ rd'.over = rd.over /\ rd'.pc = "levels"
  BY DEF ReplayEnd, StateSound, Threads, ReaderType
<1>3. c <= h /\ q <= c /\ l = c
  BY <1>1 DEF Told, Positions
<1>4. \A k \in Scan : AtMost(delivered[k], E[c][k], E[q][k])
  <2> TAKE k \in Scan
  <2>1. E[f][k] <= E[c][k]
    BY <1>0, <1>3
  <2>2. AtMost(delivered[k], E[f][k], E[q][k])
    BY DEF Told
  <2> QED BY <1>0, <2>1, <2>2, AtMostMoves
<1>5. lost = {} => rd.events = <<>>
  BY DEF ReplayEnd, ControllerActive, StateSound, OwnerSound, Told
<1>6. rd.events = <<>> => f = c
  <2>1. rd.events = <<>> => Len(g) = 0
    BY DEF Told
  <2> QED BY <1>3, <2>1 DEF Told
<1>7. lost = {} /\ ~rd.over => \A k \in Scan : delivered[k] >= E[c][k]
  BY <1>5, <1>6 DEF Told
<1>8. \A k \in Scan : k \in observed <=> delivered[k] % 2 = 1
  BY DEF Told
<1>9. lost = {} => (~sources => c = h)
  BY DEF Told
<1> QED BY <1>1, <1>2, <1>3, <1>4, <1>7, <1>8, <1>9 DEF Told

\* A count d of at most a, and the levels of a later position told of.
LEMMA LevelTells ==
  ASSUME NEW d \in Nat, NEW a \in Nat, NEW told \in Nat, d <= a, a <= told,
         NEW d2 \in Nat, d2 = IF told % 2 = d % 2 THEN d ELSE d + 1
  PROVE  /\ d2 <= a \/ (d2 = a + 1 /\ told > a)
         /\ (d >= a => d2 >= a) /\ (told % 2 = 1 <=> d2 % 2 = 1)
<1>1. (d + 1) % 2 = 1 <=> d % 2 # 1
  BY Parity
<1>2. (told % 2 = 0 \/ told % 2 = 1) /\ (d % 2 = 0 \/ d % 2 = 1)
  BY Parity
<1>3. CASE told % 2 = d % 2
  BY <1>3 DEF AtMost
<1>4. CASE told % 2 # d % 2
  <2>1. d # told
    BY <1>4
  <2> QED BY <1>1, <1>2, <1>4, <2>1 DEF AtMost
<1> QED BY <1>3, <1>4

LEMMA ObserveTold ==
  ASSUME StateSound, Observe, Unspoilt,
         NEW h \in Nat, NEW c \in Nat, NEW n \in Nat, NEW e \in Nat, Positions(h, c, n, e),
         NEW E, NEW K, Written(h, E, K), NEW q \in Nat, NEW f \in Nat, NEW l \in Nat,
         NEW g \in Seq(Nat), Told(h, c, n, e, E, K, q, f, l, g)
  PROVE  \E s \in Nat : Told(h, c, n, e, E, K, s, c, c, <<>>)'
<1>0. /\ f <= l /\ l <= h /\ q <= h
      /\ \A i \in Nat : \A k \in Scan : E[i][k] \in Nat
      /\ \A k \in Scan : delivered[k] \in Nat
      /\ \A i, j \in Nat : i <= j /\ j <= h => \A k \in Scan : E[i][k] <= E[j][k]
  BY FrontType
<1>1. /\ UNCHANGED <<lost, sources>> /\ rd.pc = "observe" /\ rd' = Idle
      /\ observed' = LevelsRead
      /\ delivered' = [k \in Scan |-> IF (k \in LevelsRead) = (k \in observed) THEN delivered[k]
                                      ELSE delivered[k] + 1]
  BY DEF Observe, unread, shmVars
<1>2. rd'.events = <<>> /\ rd'.over = FALSE /\ rd'.pc = "idle"
  BY <1>1 DEF Idle
<1>3. c <= h /\ q <= c /\ l = c /\ rd.events = <<>>
  BY <1>1 DEF Told, Positions, StateSound, ReaderSound
<1>4. f = c
  <2>1. Len(g) = 0
    BY <1>3 DEF Told
  <2> QED BY <1>3, <2>1 DEF Told
<1>5. PICK s \in Nat : c <= s /\ s <= h /\ rd.keys = {k \in Scan : E[s][k] % 2 = 1}
  BY <1>1 DEF Told
<1>6. LevelsRead = rd.keys
  <2>1. auto = {}
    BY DEF StateSound, OwnerSound, Unspoilt
  <2> QED BY <2>1 DEF LevelsRead
<1>7. \A k \in Scan : k \in observed <=> delivered[k] % 2 = 1
  BY DEF Told
<1>8. ASSUME NEW k \in Scan
      PROVE  /\ AtMost(delivered'[k], E[c][k], E[s][k])
             /\ delivered[k] >= E[c][k] => delivered'[k] >= E[c][k]
             /\ k \in observed' <=> delivered'[k] % 2 = 1
  <2> DEFINE d == delivered[k]  a == E[c][k]  told == E[s][k]  d2 == delivered'[k]
  <2>1. k \in LevelsRead <=> told % 2 = 1
    BY <1>5, <1>6
  <2>2. d2 = IF (k \in LevelsRead) = (k \in observed) THEN d ELSE d + 1
    BY <1>1
  <2>3. d \in Nat /\ a \in Nat /\ told \in Nat /\ E[q][k] \in Nat
    BY <1>0
  <2>4. told % 2 \in {0, 1} /\ d % 2 \in {0, 1}
    BY <2>3, Parity
  <2>5. d2 = IF told % 2 = d % 2 THEN d ELSE d + 1
    <3>1. (k \in LevelsRead) = (k \in observed) <=> told % 2 = d % 2
      BY <1>7, <2>1, <2>4
    <3> HIDE DEF d, told, d2
    <3> QED BY <2>2, <3>1
  <2>6. d2 \in Nat
    <3> HIDE DEF d, a, told, d2
    <3> QED BY <2>3, <2>5
  <2>7. a <= told /\ E[q][k] <= a
    BY <1>0, <1>3, <1>5
  <2>8. d <= a
    <3>1. AtMost(d, a, E[q][k])
      BY <1>4 DEF Told
    <3> QED BY <2>3, <2>7, <3>1 DEF AtMost
  <2>9. (d2 <= a \/ (d2 = a + 1 /\ told > a)) /\ (d >= a => d2 >= a) /\ (told % 2 = 1 <=> d2 % 2 = 1)
    <3> HIDE DEF d, a, told, d2
    <3>1. d \in Nat /\ a \in Nat /\ told \in Nat
      BY <2>3
    <3>2. a <= told
      BY <2>7
    <3> QED BY <2>5, <2>6, <2>8, <3>1, <3>2, LevelTells
  <2>10. k \in observed' <=> told % 2 = 1
    BY <1>1, <2>1
  <2> QED BY <2>9, <2>10 DEF AtMost
<1>9. lost = {} => ~rd.over
  BY <1>1 DEF StateSound, ReaderSound
<1>10. lost = {} => \A k \in Scan : delivered'[k] >= E[c][k]
  BY <1>4, <1>8, <1>9 DEF Told
<1>11. lost = {} => (~sources => c = h)
  BY DEF Told
<1>12. /\ \A k \in Scan : AtMost(delivered'[k], E[c][k], E[s][k])
       /\ \A k \in Scan : k \in observed' <=> delivered'[k] % 2 = 1
  BY <1>8
<1>13. Told(h, c, n, e, E, K, s, c, c, <<>>)'
  BY <1>1, <1>2, <1>3, <1>5, <1>10, <1>11, <1>12 DEF Told
<1> QED BY <1>13

LEMMA PollStrokes ==
  ASSUME StateSound, Poll, StrokesSound
  PROVE  StrokesSound'
<1> PICK h \in Nat, c \in Nat, n \in Nat, e \in Nat :
       /\ Positions(h, c, n, e)
       /\ Unspoilt => \E E \in Strokes, K \in Keys, q \in Nat, f \in Nat, l \in Nat, g \in Seq(Nat) :
                        Written(h, E, K) /\ Told(h, c, n, e, E, K, q, f, l, g)
  BY DEF StrokesSound
<1>1. CASE ~Unspoilt'
  <2>1. Next
    BY DEF Next
  <2>2. \E h1 \in Nat, c1 \in Nat, n1 \in Nat, e1 \in Nat : Positions(h1, c1, n1, e1)'
    BY <2>1, PositionsKept
  <2> QED BY <1>1, <2>2 DEF StrokesSound
<1>2. CASE Unspoilt'
  <2>1. Unspoilt
    BY <1>2, PollFrame DEF Unspoilt
  <2> PICK E \in Strokes, K \in Keys, q \in Nat, f \in Nat, l \in Nat, g \in Seq(Nat) :
           Written(h, E, K) /\ Told(h, c, n, e, E, K, q, f, l, g)
    BY <2>1
  <2>2. Written(h, E, K)'
    BY PollWritten
  <2>3. <<>> \in Seq(Nat)
    OBVIOUS
  <2>4. ASSUME NEW b \in Nat, NEW m \in Nat, NEW d \in Nat, Positions(h, b, m, d)',
               NEW q2 \in Nat, NEW f2 \in Nat, NEW l2 \in Nat, NEW g2 \in Seq(Nat),
               Told(h, b, m, d, E, K, q2, f2, l2, g2)'
        PROVE  StrokesSound'
    BY <2>2, <2>4 DEF StrokesSound
  <2>5. CASE DrainBegin
    <3>1. PICK b \in Nat, m \in Nat :
            /\ cursor # NoCursor => b = c
            /\ b <= m /\ m <= h
            /\ m # b => rd'.over
            /\ Positions(h, b, m, h)'
      BY <2>5, DrainBeginPositions
    <3>2. Told(h, b, m, h, E, K, q, m, m, <<>>)'
      BY <2>5, <3>1, DrainBeginTold
    <3> QED BY <2>3, <2>4, <3>1, <3>2
  <2>6. CASE DrainRecord
    <3>1. PICK m \in Nat : m = n + 1
      OBVIOUS
    <3>2. Positions(h, c, m, e)'
      BY <2>6, <3>1, DrainRecordPositions
    <3>3. PICK f2 \in Nat, g2 \in Seq(Nat) : Told(h, c, m, e, E, K, q, f2, m, g2)'
      BY <2>6, <3>1, DrainRecordTold
    <3> QED BY <2>4, <3>2, <3>3
  <2>7. CASE DrainEnd
    <3>1. n = e /\ Positions(h, e, n, e)'
      BY <2>7, DrainEndPositions
    <3>2. Told(h, e, n, e, E, K, q, f, l, g)'
      BY <2>7, <3>1, DrainEndTold
    <3> QED BY <2>4, <3>1, <3>2
  <2>8. CASE AfterDrain
    <3>1. Positions(h, c, n, e)'
      BY <2>8, AfterDrainPositions
    <3>2. CASE ReadAutoTypeKeys \/ ReadLevels \/ LoadBefore \/ LoadKey \/ LoadAfter
      <4>1. Told(h, c, n, e, E, K, q, f, l, g)'
        BY <2>1, <3>2, SilentTold
      <4> QED BY <2>4, <3>1, <4>1
    <3>3. CASE Replay \/ Replaying
      <4>1. PICK f2 \in Nat, g2 \in Seq(Nat) : Told(h, c, n, e, E, K, q, f2, l, g2)'
        BY <2>1, <3>3, ReplayTold
      <4> QED BY <2>4, <3>1, <4>1
    <3>4. CASE ReplayEnd
      <4>1. Told(h, c, n, e, E, K, q, c, c, <<>>)'
        BY <2>1, <3>4, ReplayEndTold
      <4> QED BY <2>3, <2>4, <3>1, <4>1
    <3>5. CASE Observe
      <4>1. PICK s \in Nat : Told(h, c, n, e, E, K, s, c, c, <<>>)'
        BY <2>1, <3>5, ObserveTold
      <4> QED BY <2>3, <2>4, <3>1, <4>1
    <3>6. CASE Settle
      <4>1. "mixed" \in lost'
        BY <3>6 DEF Settle
      <4> QED BY <1>2, <4>1 DEF Unspoilt
    <3> QED BY <2>8, <3>2, <3>3, <3>4, <3>5, <3>6 DEF AfterDrain
  <2> QED BY <2>5, <2>6, <2>7, <2>8 DEF Poll, AfterDrain
<1> QED BY <1>1, <1>2

----------------------------------------------------------------------------
(* The invariant, and what follows from it                                 *)

Sound == StateSound /\ StrokesSound

LEMMA PositionsThere ==
  ASSUME StrokesSound
  PROVE  \E h \in Nat, c \in Nat, n \in Nat, e \in Nat : Positions(h, c, n, e)
BY DEF StrokesSound

LEMMA SoundKept ==
  ASSUME Sound, [Next]_vars
  PROVE  Sound'
<1>1. StateSound'
  BY StateKept, PositionsThere DEF Sound
<1>2. StrokesSound'
  <2>1. CASE Outside
    BY <2>1, OutsideStrokes DEF Sound
  <2>2. CASE Poll
    BY <2>2, PollStrokes DEF Sound
  <2>3. CASE UNCHANGED vars
    <3>0. /\ UNCHANGED <<seq, ckeys, head, ring, sources, wr, rd, cursor, observed, delivered>>
          /\ UNCHANGED <<edges, lost>>
      BY <2>3 DEF vars, shmVars, pollVars
    <3> PICK h \in Nat, c \in Nat, n \in Nat, e \in Nat :
           /\ Positions(h, c, n, e)
           /\ Unspoilt => \E E \in Strokes, K \in Keys, q \in Nat, f \in Nat, l \in Nat, g \in Seq(Nat) :
                            Written(h, E, K) /\ Told(h, c, n, e, E, K, q, f, l, g)
      BY DEF Sound, StrokesSound
    <3>1. Positions(h, c, n, e)'
      BY <3>0 DEF Positions
    <3>2. CASE ~Unspoilt
      BY <3>0, <3>1, <3>2 DEF StrokesSound, Unspoilt
    <3>3. CASE Unspoilt
      <4> PICK E \in Strokes, K \in Keys, q \in Nat, f \in Nat, l \in Nat, g \in Seq(Nat) :
               Written(h, E, K) /\ Told(h, c, n, e, E, K, q, f, l, g)
        BY <3>3
      <4>1. Written(h, E, K)'
        BY <3>0 DEF Written, History, RingShows, LevelsShow, Ev
      <4>2. Told(h, c, n, e, E, K, q, f, l, g)'
        BY <3>0 DEF Told, Ev
      <4> QED BY <3>1, <4>1, <4>2 DEF StrokesSound
    <3> QED BY <3>2, <3>3
  <2> QED BY <2>1, <2>2, <2>3 DEF Next, Outside
<1> QED BY <1>1, <1>2 DEF Sound

\* Before the first key is pressed.
LEMMA InitialState == Init => StateSound
<1> SUFFICES ASSUME Init PROVE StateSound
  OBVIOUS
<1>0. /\ Wrap \in Nat /\ Cap \in Nat \ {0} /\ Wrap > Cap + 1 /\ 0 \in 0..(Wrap - 1)
  BY RingAssumption
<1>1. Mapping
  <2>1. [stamp |-> 0, key |-> 0, down |-> FALSE] \in Event
    BY <1>0 DEF Event
  <2> QED BY <1>0, <2>1 DEF Init, Mapping
<1>2. Threads
  <2>1. WriterIdle \in WriterType
    BY DEF WriterIdle, WriterType
  <2>2. cursor \in 0..Wrap /\ lost \in SUBSET {"ring", "owner", "mixed"}
    BY <1>0 DEF Init, NoCursor
  <2> QED BY <2>1, <2>2, IdleType DEF Init, Threads
<1>3. Counts
  BY DEF Init, Counts
<1>4. WriterSound /\ OwnerSound /\ QuietSound
  <2>1. wr.pc = "idle" /\ rd.auto = {}
    BY DEF Init, WriterIdle, Idle
  <2> QED BY <2>1 DEF Init, WriterSound, OwnerSound, QuietSound, Busy
<1>5. ReaderSound /\ SnapshotSound
  <2>1. rd.pc = "idle" /\ rd.over = FALSE /\ rd.keys = {} /\ rd.events = <<>>
    BY DEF Init, Idle
  <2> QED BY <2>1 DEF ReaderSound, SnapshotSound
<1> QED BY <1>1, <1>2, <1>3, <1>4, <1>5 DEF StateSound

LEMMA InitialStrokes == Init => StrokesSound
<1> SUFFICES ASSUME Init PROVE StrokesSound
  OBVIOUS
<1>0. /\ Wrap \in Nat \ {0} /\ Cap \in Nat \ {0} /\ Cap + 1 < Wrap /\ 0 \in 0..(Wrap - 1)
      /\ 0 % Wrap = 0
  <2>1. 0 \in 0..(Wrap - 1)
    BY Sizes
  <2> QED BY <2>1, Sizes, SmallRemainder
<1>1. /\ rd.pc = "idle" /\ rd.over = FALSE /\ rd.events = <<>> /\ wr.pc = "idle"
      /\ Len(rd.events) = 0
  BY DEF Init, Idle, WriterIdle
<1>2. cursor \in {0, NoCursor} /\ (cursor = NoCursor => lost = {"ring"}) /\ head = 0
  BY DEF Init
<1>3. Positions(0, 0, 0, 0)
  BY <1>0, <1>1, <1>2 DEF Positions, Init
<1> DEFINE E == [i \in Nat |-> [k \in Scan |-> 0]]
           K == [i \in Nat |-> 0]
<1>4. E \in Strokes /\ K \in Keys /\ \A i \in Nat : \A k \in Scan : E[i][k] = 0
  BY DEF Strokes, Keys
<1>5. edges = E[0] /\ edges \in [Scan -> Nat] /\ \A k \in Scan : edges[k] = 0
  BY DEF Init
<1>10. \A k \in Scan : delivered[k] = 0
  BY DEF Init
<1> HIDE DEF E, K
<1>6. Written(0, E, K)
  <2>1. History(0, E, K)
    <3>1. \A i \in Nat : ~(i < 0)
      OBVIOUS
    <3>2. \A i, j \in Nat : i <= j /\ j <= 0 => \A k \in Scan : E[i][k] <= E[j][k]
      BY <1>4
    <3> QED BY <1>4, <3>1, <3>2 DEF History
  <2>2. RingShows(0, E, K)
    <3>1. (\A i \in Nat : ~(i < 0)) /\ ~(Cap <= 0)
      BY <1>0
    <3> QED BY <1>1, <3>1 DEF RingShows
  <2>3. LevelsShow(0, E)
    <3>1. 0 % 2 # 1
      OBVIOUS
    <3>2. \A k \in Scan : edges[k] % 2 # 1 /\ E[0][k] <= edges[k]
      BY <1>4, <1>5, <3>1
    <3>3. ckeys = {}
      BY DEF Init
    <3> QED BY <1>1, <1>5, <3>2, <3>3 DEF LevelsShow
  <2> QED BY <2>1, <2>2, <2>3 DEF Written
<1>7. Told(0, 0, 0, 0, E, K, 0, 0, 0, <<>>)
  <2>1. 0 % 2 # 1
    OBVIOUS
  <2>2. \A k \in Scan : k \in observed <=> delivered[k] % 2 = 1
    BY <1>10, <2>1 DEF Init
  <2>3. \A k \in Scan : AtMost(delivered[k], E[0][k], E[0][k]) /\ delivered[k] >= E[0][k]
    BY <1>4, <1>10 DEF AtMost
  <2> QED BY <1>1, <2>2, <2>3 DEF Told
<1>8. <<>> \in Seq(Nat) /\ 0 \in Nat
  OBVIOUS
<1> QED BY <1>3, <1>4, <1>6, <1>7, <1>8 DEF StrokesSound

LEMMA SoundTyped == Sound => TypeOK
<1> SUFFICES ASSUME Sound PROVE TypeOK
  OBVIOUS
<1>1. Len(rd.events) <= Cap
  <2>1. PICK h \in Nat, c \in Nat, n \in Nat, e \in Nat : Positions(h, c, n, e)
    BY PositionsThere DEF Sound
  <2>2. Len(rd.events) \in Nat
    BY DEF Sound, StateSound, Threads, ReaderType
  <2>3. CASE rd.pc # "drain"
    BY <2>1, <2>3 DEF Positions
  <2>4. CASE rd.pc = "drain"
    <3>1. n <= e /\ Len(rd.events) + (e - n) <= Cap
      BY <2>1, <2>4 DEF Positions
    <3> QED BY <2>2, <3>1, Sizes
  <2> QED BY <2>3, <2>4
<1>2. /\ wr \in [pc : {"idle", "level", "record", "head", "unlock", "dead", "reset", "clear"},
                 key : Scan \cup {0}, down : BOOLEAN]
      /\ cursor \in 0..Wrap /\ quiet \in BOOLEAN /\ lost \subseteq {"ring", "owner", "mixed"}
      /\ faults \in Nat
  BY DEF Sound, StateSound, Threads, WriterType
<1>3. /\ rd.pc \in {"idle", "drain", "auto", "replay", "replaying", "levels", "try", "read",
                    "settle", "observe"}
      /\ rd.next \in 0..(Wrap - 1) /\ rd.end \in 0..(Wrap - 1) /\ rd.over \in BOOLEAN
      /\ rd.events \in Seq(Event) /\ rd.auto \subseteq Scan /\ rd.keys \subseteq Scan
      /\ rd.left \subseteq Scan /\ rd.tries \in 0..Tries /\ rd.before \in Nat
  BY DEF Sound, StateSound, Threads, ReaderType
<1>4. /\ seq \in Nat /\ ckeys \subseteq Scan
      /\ head \in 0..(Wrap - 1) /\ ring \in [0..(Cap - 1) -> Event]
      /\ sources \in BOOLEAN /\ fresh \in BOOLEAN /\ auto \subseteq Scan
      /\ observed \subseteq Scan /\ edges \in [Scan -> Nat] /\ delivered \in [Scan -> Nat]
  BY DEF Sound, StateSound, Mapping, Counts
<1> QED BY <1>1, <1>2, <1>3, <1>4 DEF TypeOK

LEMMA SoundExact == Sound => StrokesExact
<1> SUFFICES ASSUME Sound PROVE StrokesExact
  OBVIOUS
<1>1. CASE ~Unspoilt
  BY <1>1 DEF Unspoilt, StrokesExact, NoInventedStrokes, NoLostStrokes
<1>2. CASE Unspoilt
  <2>1. PICK h \in Nat, c \in Nat, n \in Nat, e \in Nat :
          /\ Positions(h, c, n, e)
          /\ \E E \in Strokes, K \in Keys, q \in Nat, f \in Nat, l \in Nat, g \in Seq(Nat) :
               Written(h, E, K) /\ Told(h, c, n, e, E, K, q, f, l, g)
    BY <1>2 DEF Sound, StrokesSound
  <2>2. PICK E \in Strokes, K \in Keys, q \in Nat, f \in Nat, l \in Nat, g \in Seq(Nat) :
          Written(h, E, K) /\ Told(h, c, n, e, E, K, q, f, l, g)
    BY <2>1
  <2>3. /\ f <= l /\ l <= h /\ q <= h
        /\ \A i \in Nat : \A k \in Scan : E[i][k] \in Nat
        /\ \A k \in Scan : delivered[k] \in Nat
        /\ \A i, j \in Nat : i <= j /\ j <= h => \A k \in Scan : E[i][k] <= E[j][k]
    BY <2>1, <2>2, FrontType DEF Sound
  <2>4. edges \in [Scan -> Nat] /\ delivered \in [Scan -> Nat]
    BY DEF Sound, StateSound, Counts
  <2>5. \A k \in Scan : delivered[k] <= edges[k]
    <3> TAKE k \in Scan
    <3>1. E[f][k] <= E[h][k] /\ E[q][k] <= E[h][k] /\ E[h][k] <= edges[k]
      BY <2>2, <2>3 DEF Written, LevelsShow
    <3>2. AtMost(delivered[k], E[f][k], E[q][k])
      BY <2>2 DEF Told
    <3>3. /\ E[f][k] \in Nat /\ E[q][k] \in Nat /\ E[h][k] \in Nat
          /\ edges[k] \in Nat /\ delivered[k] \in Nat
      BY <2>3, <2>4
    <3>4. \/ delivered[k] <= E[f][k]
          \/ delivered[k] = E[f][k] + 1 /\ E[q][k] > E[f][k]
      BY <3>2 DEF AtMost
    <3>5. CASE delivered[k] <= E[f][k]
      BY <3>1, <3>3, <3>5
    <3>6. CASE delivered[k] = E[f][k] + 1 /\ E[q][k] > E[f][k]
      <4>1. delivered[k] <= E[q][k]
        BY <3>3, <3>6
      <4> QED BY <3>1, <3>3, <4>1
    <3> QED BY <3>4, <3>5, <3>6
  <2>6. ASSUME rd.pc = "idle", quiet, lost = {}
        PROVE  delivered = edges
    <3>1. cursor = head /\ seq % 2 = 0 /\ ~rd.over /\ rd.events = <<>>
      BY <2>6 DEF Sound, StateSound, QuietSound, ReaderSound
    <3>2. c % Wrap = h % Wrap /\ c <= h /\ h - c < Wrap /\ c \in Int /\ h \in Int
      BY <2>1, <2>6, <3>1 DEF Positions
    <3>3. c = h
      BY <3>2, Sizes, RemainderInjective
    <3>4. f = h
      <4>1. Len(g) = 0 /\ l = c
        BY <2>2, <2>6, <3>1 DEF Told
      <4> QED BY <2>2, <3>3, <4>1 DEF Told
    <3>5. edges = E[h]
      BY <2>2, <3>1 DEF Written, LevelsShow
    <3>6. \A k \in Scan : delivered[k] >= edges[k]
      BY <2>2, <2>6, <3>1, <3>4, <3>5 DEF Told
    <3>7. \A k \in Scan : delivered[k] = edges[k]
      <4> TAKE k \in Scan
      <4>1. delivered[k] \in Nat /\ edges[k] \in Nat
        BY <2>4
      <4> QED BY <2>5, <3>6, <4>1
    <3> QED BY <2>4, <3>7
  <2> QED BY <2>5, <2>6 DEF StrokesExact, NoInventedStrokes, NoLostStrokes
<1> QED BY <1>1, <1>2

LEMMA SoundLevels == Sound => LevelsReconciled /\ LockNeverStuck
BY DEF Sound, StateSound, QuietSound, WriterSound, LevelsReconciled, LockNeverStuck, ControllerActive

LEMMA SnapshotTaken ==
  ASSUME Sound, [Next]_vars, rd.pc = "read", rd'.pc = "observe", "owner" \notin lost
  PROVE  rd.keys = ckeys
<1> USE DEF Sound, StateSound, Threads, ReaderType
<1>1. rd' # rd
  OBVIOUS
<1>2. Poll
  <2>1. ~Outside /\ ~UNCHANGED vars
    BY <1>1, OutsideFrame DEF pollVars, vars
  <2> QED BY <2>1 DEF Next, Outside
<1>3. LoadAfter
  <2>1. ~LoadKey
    BY DEF LoadKey
  <2> QED BY <1>2, <2>1 DEF Poll, DrainBegin, DrainRecord, DrainEnd, ReadAutoTypeKeys, Replay,
             Replaying, ReplayEnd, ReadLevels, LoadBefore, Settle, Observe
<1>4. rd.left = {} /\ seq = rd.before
  BY <1>3 DEF LoadAfter, SequenceUnchanged
<1> QED BY <1>4 DEF SnapshotSound, Mapping

\* Whatever Stonemite and the game do, the state is one of the history's.
THEOREM AlwaysSound == Spec => []Sound
<1>1. Init => Sound
  BY InitialState, InitialStrokes DEF Sound
<1>2. Sound /\ [Next]_vars => Sound'
  BY SoundKept
<1> QED BY <1>1, <1>2, PTL DEF Spec

\* Every field of the mapping, and every local of the writer and of a call,
\* keeps its type; a call never holds more events than the ring has slots, so
\* drain_controller_events() never overflows the array it fills.
THEOREM TypeCorrect == Spec => []TypeOK
BY AlwaysSound, SoundTyped, PTL

\* Key strokes written to the mapping reach a game that polls it through
\* GetDeviceData() neither too often nor too seldom: however the writer's and
\* the reader's accesses interleave, for every ring and around every wrap of
\* its counter, the game is told of no stroke that was not made, and of every
\* one that was, unless the code itself accounts for the loss.
THEOREM StrokesAlwaysExact == Spec => []StrokesExact
BY AlwaysSound, SoundExact, PTL

\* What the game takes for the keys that are down: an undisturbed call
\* reconciles it with the mapping whatever was lost before; a snapshot that
\* read_consistent() accepts is one the writer published; and an owner that
\* is not writing finds the sequence lock free, however its predecessor died.
THEOREM LevelsAlwaysSound == Spec => LevelsSound
<1>1. Spec => [](LevelsReconciled /\ LockNeverStuck)
  BY AlwaysSound, SoundLevels, PTL
<1>2. Spec => SnapshotsWhole
  <2>1. Sound /\ [Next]_vars =>
          [rd.pc = "read" /\ rd'.pc = "observe" /\ "owner" \notin lost => rd.keys = ckeys]_vars
    BY SnapshotTaken
  <2> QED BY <2>1, AlwaysSound, PTL DEF Spec, SnapshotsWhole
<1> QED BY <1>1, <1>2 DEF LevelsSound

(***************************************************************************)
(* InputProxy                                                              *)
(***************************************************************************)

\* Only the fields the mapping and the watcher are judged by are typed.
CacheShape(ch) == ch = [open |-> ch.open, retry |-> ch.retry] /\ ch.open \in BOOLEAN
ShmShape(sh) ==
  /\ sh = [made |-> sh.made, acknowledged |-> sh.acknowledged, keyboard |-> sh.keyboard,
           mouse |-> sh.mouse, beat |-> sh.beat, generation |-> sh.generation,
           leaseBeat |-> sh.leaseBeat]
  /\ sh.made \in BOOLEAN /\ sh.acknowledged \in BOOLEAN
WatcherShape(w) ==
  /\ w = [at |-> w.at, asserted |-> w.asserted, generation |-> w.generation,
          mouse |-> w.mouse, quiet |-> w.quiet]
  /\ w.at \in {"none", "asleep", "recheck", "look", "leave", "deactivate"} /\ w.quiet \in Nat

\* A mapping in use was made, its maker was told, and no further try is due.
MappingAgreed(ch, sh) ==
  /\ CacheShape(ch) /\ ShmShape(sh)
  /\ ch.open = TRUE => ch.retry = 0 /\ sh.made = TRUE /\ sh.acknowledged = TRUE

\* The watcher sleeps only on fewer quiet frames than let the game go.
WatcherKept(w) ==
  /\ WatcherShape(w) /\ w.quiet <= StableFrames
  /\ w.at \in {"none", "asleep"} => w.quiet < StableFrames

\* The heartbeat in the mapping is the controller's last one.
BeatKept(ctl, sh, now) ==
  /\ ctl = [alive |-> ctl.alive, beatAt |-> ctl.beatAt] /\ ctl.beatAt \in FirstClock .. now
  /\ sh.beat = 0 \/ sh.beat = Stamp(ctl.beatAt)

ProxyInv ==
  /\ clock \in FirstClock .. MaxClock /\ switches \in 0 .. MaxSwitches
  /\ runtime \in {"none", "hooked", "ready", "failed"}
  /\ MappingAgreed(cache, shm) /\ WatcherKept(watcher)
  /\ hwnd \in BOOLEAN /\ (~hwnd => watcher.at = "none")
  /\ BeatKept(controller, shm, clock)

\* Broadcast keys reach the game, at any tick read so far, only on a heartbeat that had
\* not expired by then; a tick count that went all the way round cannot tell.
KeysNeedHeartbeat ==
  \A c \in FirstClock .. clock :
    ControllerKeys(c) => c - controller.beatAt <= Timeout + 1 \/ c - controller.beatAt = TickWrap

USE ProxyBounds

\* heartbeat_is_fresh against begin_tick and the stamp that avoids 0: across the wrap of
\* the tick count a heartbeat of b is fresh for the timeout and one tick more at most.
LEMMA HeartbeatExpires ==
  ASSUME NEW b \in Nat, NEW c \in Nat, b < c, c - b < TickWrap
  PROVE  /\ IsFresh(Stamp(b), Tick(c)) => c - b <= Timeout + 1
         /\ c - b <= Timeout => IsFresh(Stamp(b), Tick(c))
<1>1. TickWrap \in Nat \ {0} /\ Timeout \in Nat /\ b \in Int /\ c \in Int /\ c - 1 \in Int
  OBVIOUS
<1>2. PICK t \in 0 .. TickWrap - 1 : t = c % TickWrap
  BY ONLY <1>1, Division
<1>3. PICK u \in 0 .. TickWrap - 1 : u = b % TickWrap
  BY ONLY <1>1, Division
<1>4. t = Tick(c) /\ u = Tick(b)
  BY <1>2, <1>3 DEF Tick
<1>5. ASSUME NEW n \in Int PROVE Sub(t, n) = (c - n) % TickWrap
  <2>1. (t - n + TickWrap) % TickWrap = (t - n) % TickWrap
    <3>1. t - n + TickWrap = (t - n) + TickWrap * 1 /\ t - n \in Int
      BY ONLY <1>1, <1>2, <1>5
    <3>2. ((t - n) + TickWrap * 1) % TickWrap = (t - n) % TickWrap
      <4>1. 1 \in Int /\ t - n \in Int /\ TickWrap \in Nat \ {0}
        BY ONLY <3>1, <1>1
      <4> QED BY ONLY <4>1, MultipleAdded, Zenon
    <3> QED BY ONLY <3>1, <3>2
  <2>2. (t - n) % TickWrap = (c - n) % TickWrap
    <3>1. ((c % TickWrap) - n) % TickWrap = (c - n) % TickWrap
      BY ONLY <1>1, <1>5, n \in Int, RemainderLeft
    <3> QED BY ONLY <3>1, <1>2
  <2> QED BY <2>1, <2>2 DEF Sub
<1>6. PICK n \in Nat : n = c - b
  BY ONLY b \in Nat, c \in Nat, b < c
<1>7. n \in 1 .. TickWrap - 1
  BY ONLY <1>1, <1>6, b < c, c - b < TickWrap, b \in Nat, c \in Nat
<1>8. CASE u = 0
  <2>1. Stamp(b) = 1
    BY <1>4, <1>8 DEF Stamp, AtLeastOne
  <2>2. Sub(t, 1) = n - 1
    <3>1. (c - 1 - b) % TickWrap = (c - 1) % TickWrap
      <4>1. ((c - 1) - (b % TickWrap)) % TickWrap = ((c - 1) - b) % TickWrap
        BY ONLY <1>1, RemainderRight
      <4>2. (c - 1) - (b % TickWrap) = c - 1
        BY ONLY <1>1, <1>3, <1>8
      <4> QED BY <4>1, <4>2
    <3>2. c - 1 - b = n - 1 /\ n - 1 \in 0 .. TickWrap - 1
      BY ONLY <1>1, <1>6, <1>7, b \in Nat, c \in Nat
    <3>3. (n - 1) % TickWrap = n - 1
      BY <3>2, <1>1, SmallRemainder
    <3> QED BY <3>1, <3>2, <3>3, <1>5
  <2>3. IsFresh(Stamp(b), Tick(c)) <=> n - 1 <= Timeout
    BY <2>1, <2>2, <1>4 DEF IsFresh
  <2> QED BY ONLY <2>3, <1>1, <1>6
<1>9. CASE u # 0
  <2>1. Stamp(b) = u /\ u # 0 /\ u \in Int
    BY <1>3, <1>4, <1>9 DEF Stamp, AtLeastOne
  <2>2. Sub(t, u) = n
    <3>1. (c - u) % TickWrap = (c - b) % TickWrap
      <4>1. (c - (b % TickWrap)) % TickWrap = (c - b) % TickWrap
        BY ONLY <1>1, RemainderRight
      <4> QED BY ONLY <4>1, <1>3
    <3>2. n % TickWrap = n
      BY <1>1, <1>7, SmallRemainder
    <3> QED BY <3>1, <3>2, <1>5, <1>6
  <2>3. IsFresh(Stamp(b), Tick(c)) <=> n <= Timeout
    BY <2>1, <2>2, <1>4 DEF IsFresh
  <2> QED BY ONLY <2>3, <1>1, <1>6
<1> QED BY <1>8, <1>9

\* try_open, by any reader.
LEMMA ConsultKeeps ==
  ASSUME NEW c, MappingAgreed(cache, shm), Consult(c)
  PROVE  MappingAgreed(cache', shm') /\ shm'.beat = shm.beat
<1>1. /\ cache' = Cached(c)
      /\ shm' = [shm EXCEPT !.acknowledged = @ \/ Opens(c)]
  BY DEF Consult
<1>2. PICK opens \in BOOLEAN : opens = Opens(c)
  BY DEF Opens
<1>3. /\ ShmShape(shm') /\ shm'.made = shm.made
      /\ shm'.beat = shm.beat
      /\ shm'.acknowledged = TRUE <=> shm.acknowledged = TRUE \/ opens = TRUE
  BY <1>1, <1>2 DEF MappingAgreed, ShmShape
<1>4. CASE cache.open = TRUE
  BY <1>1, <1>3, <1>4 DEF Cached, MappingAgreed
<1>5. CASE cache.open # TRUE /\ Opens(c)
  <2>1. cache' = [open |-> TRUE, retry |-> 0] /\ shm.made = TRUE
    BY <1>1, <1>5 DEF Cached, Opens, MappingAgreed, CacheShape, ShmShape
  <2> QED BY <2>1, <1>2, <1>3, <1>5 DEF MappingAgreed, CacheShape
<1>6. CASE cache.open # TRUE /\ ~Opens(c)
  <2>1. cache' = [open |-> FALSE, retry |-> Tick(c + RetryAfter)] \/ cache' = cache
    BY <1>1, <1>6 DEF Cached, MappingAgreed, CacheShape
  <2>2. CacheShape(cache') /\ ~cache'.open
    <3>1. CASE cache' = [open |-> FALSE, retry |-> Tick(c + RetryAfter)]
      BY <3>1 DEF CacheShape
    <3>2. CASE cache' = cache
      BY <3>2, <1>6 DEF MappingAgreed, CacheShape
    <3> QED BY <2>1, <3>1, <3>2
  <2> QED BY <2>2, <1>3 DEF MappingAgreed
<1> QED BY <1>4, <1>5, <1>6

\* The controller changes only what it sends; the first thing it does is make the mapping.
LEMMA ControllerKeeps ==
  ASSUME ProxyInv, CreateShm \/ ControllerActs \/ ControllerBeats \/ ControllerDies \/ TimePasses
  PROVE  ProxyInv'
<1>1. UNCHANGED <<runtime, cache, watcher, hwnd>>
  BY DEF CreateShm, ControllerActs, ControllerBeats, ControllerDies, TimePasses, watchVars
<1>2. clock' \in FirstClock .. MaxClock /\ switches' \in 0 .. MaxSwitches
  BY DEF CreateShm, ControllerActs, ControllerBeats, ControllerDies, TimePasses, ctlVars,
     Switched, ProxyInv
<1>3. /\ ShmShape(shm') /\ shm'.acknowledged = shm.acknowledged
      /\ shm'.made = TRUE \/ shm'.made = shm.made
  <2>1. CASE CreateShm
    BY <2>1 DEF CreateShm, ProxyInv, MappingAgreed, ShmShape
  <2>2. CASE ControllerActs
    BY <2>2 DEF ControllerActs, ProxyInv, MappingAgreed, ShmShape
  <2>3. CASE ControllerBeats
    BY <2>3 DEF ControllerBeats, ProxyInv, MappingAgreed, ShmShape
  <2>4. CASE ControllerDies \/ TimePasses
    BY <2>4 DEF ControllerDies, TimePasses, ctlVars, ProxyInv, MappingAgreed, ShmShape
  <2> QED BY <2>1, <2>2, <2>3, <2>4
<1>4. MappingAgreed(cache', shm')
  BY <1>1, <1>3 DEF ProxyInv, MappingAgreed
<1>5. BeatKept(controller', shm', clock')
  <2>1. /\ controller = [alive |-> controller.alive, beatAt |-> controller.beatAt]
        /\ controller.beatAt \in FirstClock .. clock /\ clock \in FirstClock .. MaxClock
        /\ shm.beat = 0 \/ shm.beat = Stamp(controller.beatAt)
        /\ ShmShape(shm)
    BY DEF ProxyInv, BeatKept, MappingAgreed
  <2>2. CASE CreateShm
    <3>1. controller' = [alive |-> TRUE, beatAt |-> clock] /\ clock' = clock
          /\ shm'.beat = Stamp(clock)
      BY <2>1, <2>2 DEF CreateShm, ShmShape
    <3> QED BY <3>1, <2>1 DEF BeatKept
  <2>3. CASE ControllerActs
    <3>1. controller' = controller /\ clock' = clock /\ shm'.beat = shm.beat
      BY <2>1, <2>3 DEF ControllerActs, ShmShape
    <3> QED BY <3>1, <2>1 DEF BeatKept
  <2>4. CASE ControllerBeats
    <3>1. controller' = [controller EXCEPT !.beatAt = clock] /\ clock' = clock
          /\ shm'.beat = Stamp(clock)
      BY <2>1, <2>4 DEF ControllerBeats, ShmShape
    <3>2. controller' = [alive |-> controller.alive, beatAt |-> clock]
      BY <3>1, <2>1
    <3> QED BY <3>1, <3>2, <2>1 DEF BeatKept
  <2>5. CASE ControllerDies
    <3>1. controller' = [controller EXCEPT !.alive = FALSE] /\ clock' = clock /\ shm' = shm
      BY <2>5 DEF ControllerDies
    <3>2. controller' = [alive |-> FALSE, beatAt |-> controller.beatAt]
      BY <3>1, <2>1
    <3> QED BY <3>1, <3>2, <2>1 DEF BeatKept
  <2>6. CASE TimePasses
    <3>1. controller' = controller /\ clock' = clock + 1 /\ shm' = shm
      BY <2>6 DEF TimePasses, ctlVars
    <3> QED BY <3>1, <2>1 DEF BeatKept
  <2> QED BY <2>2, <2>3, <2>4, <2>5, <2>6
<1> QED BY <1>1, <1>2, <1>4, <1>5 DEF ProxyInv

\* Steps of the game that leave mapping and watcher alone, but for the watcher's start.
LEMMA GameKeeps ==
  ASSUME ProxyInv,
         \/ InitializeRuntime \/ SetCooperativeLevel \/ SetEventNotification \/ ReleaseDevice
         \/ ChangeForeground \/ GameReads
  PROVE  ProxyInv'
<1>1. UNCHANGED <<clock, shm, cache, controller>> /\ switches' \in 0 .. MaxSwitches
  <2>1. CASE InitializeRuntime \/ SetCooperativeLevel \/ GameReads
    BY <2>1 DEF InitializeRuntime, SetCooperativeLevel, GameReads, ctlVars, ProxyInv
  <2>2. CASE SetEventNotification \/ ReleaseDevice \/ ChangeForeground
    <3>1. UNCHANGED <<clock, shm, cache, controller>> /\ Switched
      BY <2>2 DEF SetEventNotification, ReleaseDevice, ChangeForeground
    <3> QED BY <3>1 DEF Switched, ProxyInv
  <2> QED BY <2>1, <2>2
<1>2. runtime' \in {"none", "hooked", "ready", "failed"}
  BY DEF InitializeRuntime, SetCooperativeLevel, SetEventNotification, ReleaseDevice,
     ChangeForeground, GameReads, ctlVars, ProxyInv
<1>3. WatcherKept(watcher') /\ hwnd' \in BOOLEAN /\ (~hwnd' => watcher'.at = "none")
  <2>1. CASE SetCooperativeLevel
    <3>1. watcher' = [watcher EXCEPT !.at = "asleep"]
      BY <2>1 DEF SetCooperativeLevel
    <3>2. watcher.at = "none"
      BY <2>1 DEF SetCooperativeLevel, ProxyInv
    <3>3. hwnd' = TRUE
      BY <2>1 DEF SetCooperativeLevel
    <3> QED BY <3>1, <3>2, <3>3 DEF ProxyInv, WatcherKept, WatcherShape
  <2>2. CASE ~SetCooperativeLevel
    <3>1. UNCHANGED <<watcher, hwnd>>
      BY <2>2 DEF InitializeRuntime, SetEventNotification, ReleaseDevice,
         ChangeForeground, GameReads, watchVars
    <3> QED BY <3>1 DEF ProxyInv
  <2> QED BY <2>1, <2>2
<1> QED BY <1>1, <1>2, <1>3 DEF ProxyInv

LEMMA WatcherKeeps ==
  ASSUME ProxyInv, WatcherStep
  PROVE  ProxyInv'
<1>1. UNCHANGED <<clock, switches, runtime, hwnd, controller>>
  BY DEF WatcherStep, WatcherDeactivates, WatcherFrame, WatcherRechecks, WatcherLooks, ctlVars
<1>0. hwnd \in BOOLEAN /\ hwnd
  <2>1. watcher.at # "none"
    BY DEF WatcherStep, WatcherDeactivates, WatcherFrame, WatcherRechecks, WatcherLooks
  <2> QED BY <2>1 DEF ProxyInv
<1>2. MappingAgreed(cache', shm') /\ shm'.beat = shm.beat
  <2>1. CASE WatcherDeactivates
    BY <2>1 DEF WatcherDeactivates, ctlVars, ProxyInv
  <2>2. CASE ~WatcherDeactivates
    <3>1. PICK c : Consult(c)
      BY <2>2 DEF WatcherStep, WatcherFrame, WatcherRechecks, WatcherLooks
    <3> QED BY <3>1, ConsultKeeps DEF ProxyInv
  <2> QED BY <2>1, <2>2
<1>3. WatcherKept(watcher')
  <2>1. CASE WatcherDeactivates
    <3>1. watcher' = [watcher EXCEPT !.at = "asleep", !.quiet = 0, !.asserted = FALSE]
      BY <2>1 DEF WatcherDeactivates
    <3>2. watcher' = [at |-> "asleep", asserted |-> FALSE, generation |-> watcher.generation,
                      mouse |-> watcher.mouse, quiet |-> 0]
      BY <3>1 DEF ProxyInv, WatcherKept, WatcherShape
    <3>3. 0 < StableFrames /\ StableFrames \in Nat
      OBVIOUS
    <3> QED BY <3>2, <3>3 DEF WatcherKept, WatcherShape
  <2>2. ASSUME NEW c \in Sampled, WatcherFrame(c) PROVE WatcherKept(watcher')
    <3>1. watcher.at = "asleep" /\ watcher.quiet \in Nat /\ watcher.quiet < StableFrames
      BY <2>2 DEF WatcherFrame, ProxyInv, WatcherKept, WatcherShape
    <3>2. PICK frames \in {0, watcher.quiet, watcher.quiet + 1} : \E asserted, gen, mouse :
            watcher' = [at |-> IF frames >= StableFrames THEN "recheck" ELSE "asleep",
                        asserted |-> asserted, generation |-> gen, mouse |-> mouse,
                        quiet |-> frames]
      BY <2>2 DEF WatcherFrame
    <3>3. frames \in Nat /\ frames <= StableFrames
      BY <3>1, <3>2
    <3> QED BY <3>2, <3>3 DEF WatcherKept, WatcherShape
  <2>3. ASSUME NEW c \in Sampled, WatcherRechecks(c) PROVE WatcherKept(watcher')
    <3>1. PICK back \in BOOLEAN : back = (Opens(c) /\ IsActive(c))
      BY DEF Opens, IsActive
    <3>2. watcher' = [watcher EXCEPT !.at = IF back THEN "asleep" ELSE "look",
                                     !.quiet = IF back THEN 0 ELSE @]
      BY <2>3, <3>1 DEF WatcherRechecks
    <3>3. watcher' = [at |-> IF back THEN "asleep" ELSE "look", asserted |-> watcher.asserted,
                      generation |-> watcher.generation, mouse |-> watcher.mouse,
                      quiet |-> IF back THEN 0 ELSE watcher.quiet]
      BY <3>2 DEF ProxyInv, WatcherKept, WatcherShape
    <3>4. watcher.quiet \in Nat /\ watcher.quiet <= StableFrames /\ 0 < StableFrames
      BY DEF ProxyInv, WatcherKept, WatcherShape
    <3> QED BY <3>1, <3>3, <3>4 DEF WatcherKept, WatcherShape
  <2>4. ASSUME NEW c \in Sampled, WatcherLooks(c) PROVE WatcherKept(watcher')
    BY <2>4 DEF WatcherLooks, ProxyInv, WatcherKept, WatcherShape
  <2> QED BY <2>1, <2>2, <2>3, <2>4 DEF WatcherStep
<1> QED BY <1>0, <1>1, <1>2, <1>3 DEF ProxyInv, BeatKept

LEMMA ProxyNextKeeps ==
  ASSUME ProxyInv, ProxyNext
  PROVE  ProxyInv'
<1>1. ASSUME NEW c, SignalReady(c) \/ Notify(c) \/ GameSamples PROVE ProxyInv'
  <2>1. PICK d : Consult(d)
    BY <1>1 DEF SignalReady, Notify, GameSamples
  <2>2. UNCHANGED <<clock, switches, watcher, hwnd, controller>>
        /\ runtime' \in {"none", "hooked", "ready", "failed"}
    BY <1>1 DEF SignalReady, Notify, GameSamples, watchVars, ProxyInv
  <2> QED BY <2>1, <2>2, ConsultKeeps DEF ProxyInv, BeatKept
<1> QED BY <1>1, ControllerKeeps, GameKeeps, WatcherKeeps DEF ProxyNext, GameStep, NotifyStep

LEMMA ProxyInvHolds == ProxySpec => []ProxyInv
<1>1. ProxyInit => ProxyInv
  <2> SUFFICES ASSUME ProxyInit PROVE ProxyInv
    OBVIOUS
  <2>1. CacheShape(cache) /\ ~cache.open /\ ShmShape(shm)
    BY DEF ProxyInit, CacheShape, ShmShape
  <2>2. MappingAgreed(cache, shm)
    BY <2>1 DEF MappingAgreed
  <2>3. WatcherKept(watcher) /\ watcher.at = "none" /\ hwnd = FALSE
    BY DEF ProxyInit, WatcherKept, WatcherShape
  <2>4. clock \in FirstClock .. MaxClock /\ switches \in 0 .. MaxSwitches /\ runtime = "none"
    BY DEF ProxyInit
  <2>5. BeatKept(controller, shm, clock)
    BY <2>4 DEF ProxyInit, BeatKept
  <2> QED BY <2>2, <2>3, <2>4, <2>5 DEF ProxyInv
<1>2. ProxyInv /\ [ProxyNext]_proxyVars => ProxyInv'
  <2>1. CASE UNCHANGED proxyVars
    BY <2>1 DEF proxyVars, ctlVars, watchVars, proxyGame, ProxyInv
  <2> QED BY <2>1, ProxyNextKeeps
<1> QED BY <1>1, <1>2, PTL DEF ProxySpec

\* However the controller, its crashes and successors, the game's threads and the tick
\* count interleave, a reader has a mapping open only if it was made and its maker was
\* told, and the watcher never sleeps on a finished count of quiet frames (state.rs:
\* MappingCache, wm_activate_thread).
THEOREM ProxyAlwaysWellFormed == ProxySpec => []ProxyTypeOK
<1>1. ProxyInv => ProxyTypeOK
  BY DEF ProxyInv, ProxyTypeOK, MappingAgreed, CacheShape, WatcherKept, WatcherShape
<1> QED BY <1>1, ProxyInvHolds, PTL

\* A controller that died, hangs or was replaced holds no key down for longer than the
\* timeout and a tick, wherever in its range the tick count is (heartbeat_is_fresh).
THEOREM DeadControllersHoldNoKey == ProxySpec => []KeysNeedHeartbeat
<1>1. ProxyInv => KeysNeedHeartbeat
  <2> SUFFICES ASSUME ProxyInv, NEW c \in FirstClock .. clock, ControllerKeys(c)
               PROVE  c - controller.beatAt <= Timeout + 1 \/ c - controller.beatAt = TickWrap
    BY DEF KeysNeedHeartbeat
  <2>1. PICK b \in Nat : b = controller.beatAt /\ FirstClock <= b
    BY DEF ProxyInv, BeatKept
  <2>2. IsFresh(shm.beat, Tick(c)) /\ shm.beat # 0
    BY DEF ControllerKeys, ControllerFresh, IsFresh
  <2>3. IsFresh(Stamp(b), Tick(c))
    BY <2>1, <2>2 DEF ProxyInv, BeatKept
  <2>4. c \in Nat /\ c - b <= TickWrap /\ FirstClock \in Nat /\ TickWrap \in Nat /\ Timeout \in Nat
    <3>1. FirstClock \in Nat /\ clock \in Nat /\ clock <= MaxClock /\ MaxClock \in Nat
          /\ MaxClock <= TickWrap + FirstClock /\ TickWrap \in Nat /\ Timeout \in Nat
      BY DEF ProxyInv
    <3>2. c \in Nat /\ c <= clock
      BY <3>1
    <3> QED BY ONLY <3>1, <3>2, <2>1
  <2>5. CASE b < c /\ c - b < TickWrap
    BY <2>1, <2>3, <2>4, <2>5, HeartbeatExpires
  <2>6. CASE ~(b < c /\ c - b < TickWrap)
    <3>1. c - b <= Timeout + 1 \/ c - b = TickWrap
      BY ONLY <2>4, <2>6, b \in Nat
    <3> QED BY <3>1, <2>1
  <2> QED BY <2>5, <2>6
<1> QED BY <1>1, ProxyInvHolds, PTL
=============================================================================
