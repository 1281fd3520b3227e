-------------------------- MODULE GameMemoryProofs --------------------------
(***************************************************************************)
(* What the memory shared with a game promises for every value of the      *)
(* constants: the identity that the game publishes (CharacterIdentity) and *)
(* the keys that are typed into it (AutoType), one part each.              *)
(***************************************************************************)
EXTENDS CharacterIdentity, AutoType, WellFoundedInduction, NaturalsInduction, TLAPS

-----------------------------------------------------------------------------
(***************************************************************************)
(* CharacterIdentity.                                                      *)
(*                                                                         *)
(* The generation that the DLL makes odd while it writes an identity is    *)
(* enough for a reader without a lock: whatever it accepts was published   *)
(* whole.  The argument: an even generation means that no write is under   *)
(* way and the fields are those of one login; as long as the generation is *)
(* the one a read began with, nothing was written since, and what the read *)
(* has copied so far is what the fields still are.                         *)
(***************************************************************************)
Published == Identity \cup {<<Empty, Empty>>}
Text == {Torn, Empty} \cup {i[1] : i \in Identity} \cup {i[2] : i \in Identity}

IdTypeOK ==
  /\ info \in [generation : Nat, character : Text, server : Text]
  /\ writer \in [at : {"idle", "character", "server", "end"}, identity : Published]
  /\ reader \in [at : {"idle", "generation", "character", "server", "after"},
                 before : Nat, character : Text, server : Text, tries : Nat]
  /\ readBack \in Published

\* What the writer has done so far of the identity it stores.
WriterSound ==
  /\ Odd(info.generation) <=> writer.at # "idle"
  /\ writer.at = "idle" => <<info.character, info.server>> \in Published
  /\ writer.at # "idle" => writer.identity \in Identity
  /\ writer.at \in {"server", "end"} => info.character = writer.identity[1]
  /\ writer.at = "end" => info.server = writer.identity[2]

\* What the reader has copied is still there if the generation is still the same.
ReaderSound ==
  reader.at \in {"character", "server", "after"} =>
    /\ reader.before <= info.generation
    /\ reader.before = info.generation =>
         /\ ~Odd(info.generation)
         /\ reader.at \in {"server", "after"} => reader.character = info.character
         /\ reader.at = "after" => reader.server = info.server

IdInv == IdTypeOK /\ WriterSound /\ ReaderSound

-----------------------------------------------------------------------------

LEMMA NextGeneration ==
  ASSUME NEW g \in Nat
  PROVE  /\ Odd(g + 1) <=> ~Odd(g)
         /\ g + 1 \in Nat
BY DEF Odd

LEMMA PublishedText ==
  ASSUME NEW i \in Published
  PROVE  i[1] \in Text /\ i[2] \in Text /\ i = <<i[1], i[2]>>
<1>1. CASE i \in Identity
  BY <1>1, IdentityBounds DEF Text
<1>2. CASE i = <<Empty, Empty>>
  BY <1>2 DEF Text
<1> QED BY <1>1, <1>2 DEF Published

\* A read that starts again, or gives up, has copied nothing.
LEMMA RetriedFresh ==
  ASSUME IdTypeOK
  PROVE  Retried \in [at : {"idle", "generation"}, before : Nat, character : Text,
                      server : Text, tries : Nat]
<1> DEFINE Fresh == [at : {"idle", "generation"}, before : Nat, character : Text,
                     server : Text, tries : Nat]
<1>1. NoRead \in Fresh /\ reader.tries + 1 \in Nat
  BY DEF NoRead, IdTypeOK, Text
<1>2. [NoRead EXCEPT !.at = "generation", !.tries = reader.tries + 1] \in Fresh
  BY <1>1
<1> QED BY <1>1, <1>2, Zenon DEF Retried

LEMMA InitIdInv == IdInit => IdInv
BY DEF IdInit, IdInv, IdTypeOK, WriterSound, ReaderSound, NoWrite, NoRead, Published, Text, Odd

\* The writer begins: the generation becomes odd, so no read of before accepts any more.
LEMMA OpenLogFileIdInv ==
  ASSUME IdInv, NEW i \in Identity, OpenLogFile(i)
  PROVE  IdInv'
<1> DEFINE g == info.generation
<1>1. info' = [info EXCEPT !.generation = g + 1] /\ g \in Nat /\ writer = NoWrite
  BY DEF OpenLogFile, IdInv, IdTypeOK
<1>2. info'.generation = g + 1 /\ info'.character = info.character
      /\ info'.server = info.server
  BY <1>1 DEF IdInv, IdTypeOK
<1>3. Odd(g + 1) /\ ~Odd(g)
  BY <1>1, NextGeneration DEF IdInv, WriterSound, NoWrite
<1>4. IdTypeOK'
  BY <1>1, NextGeneration DEF OpenLogFile, IdInv, IdTypeOK, Published
<1>5. WriterSound'
  BY <1>2, <1>3 DEF OpenLogFile, IdInv, WriterSound
<1>6. ReaderSound'
  BY <1>1, <1>2, <1>3 DEF OpenLogFile, IdInv, IdTypeOK, ReaderSound
<1> QED BY <1>4, <1>5, <1>6 DEF IdInv

\* The writer stores: the generation is odd, so nothing is promised of a read.
LEMMA StoreIdInv ==
  ASSUME IdInv, StoreCharacter \/ StoreServer
  PROVE  IdInv'
<1>1. writer.identity \in Identity /\ writer.identity[1] \in Text
      /\ writer.identity[2] \in Text /\ writer.at # "idle"
  BY PublishedText DEF IdInv, IdTypeOK, WriterSound, StoreCharacter, StoreServer, StoreField
<1>2. Torn \in Text
  BY DEF Text
<1>3. CASE StoreCharacter
  <2>1. IdTypeOK'
    BY <1>1, <1>2, <1>3 DEF StoreCharacter, StoreField, IdInv, IdTypeOK
  <2>2. WriterSound'
    BY <1>1, <1>3 DEF StoreCharacter, StoreField, IdInv, IdTypeOK, WriterSound
  <2>3. ReaderSound'
    BY <1>1, <1>3 DEF StoreCharacter, StoreField, IdInv, IdTypeOK, WriterSound, ReaderSound
  <2> QED BY <2>1, <2>2, <2>3 DEF IdInv
<1>4. CASE StoreServer
  <2>1. IdTypeOK'
    BY <1>1, <1>2, <1>4 DEF StoreServer, StoreField, IdInv, IdTypeOK
  <2>2. WriterSound'
    BY <1>1, <1>4 DEF StoreServer, StoreField, IdInv, IdTypeOK, WriterSound
  <2>3. ReaderSound'
    BY <1>1, <1>4 DEF StoreServer, StoreField, IdInv, IdTypeOK, WriterSound, ReaderSound
  <2> QED BY <2>1, <2>2, <2>3 DEF IdInv
<1> QED BY <1>3, <1>4

\* The writer ends: the fields are those of its identity, under a generation no read
\* has begun with.
LEMMA EndPublishIdInv ==
  ASSUME IdInv, EndPublish
  PROVE  IdInv'
<1> DEFINE g == info.generation
<1>1. g \in Nat /\ Odd(g) /\ ~Odd(g + 1)
  BY NextGeneration DEF EndPublish, IdInv, IdTypeOK, WriterSound
<1>2. info'.generation = g + 1 /\ info'.character = info.character
      /\ info'.server = info.server
  BY DEF EndPublish, IdInv, IdTypeOK
<1>3. <<info.character, info.server>> \in Published
  BY PublishedText DEF EndPublish, IdInv, WriterSound, Published
<1>4. IdTypeOK'
  BY <1>1, NextGeneration DEF EndPublish, IdInv, IdTypeOK, NoWrite, Published
<1>5. WriterSound'
  BY <1>1, <1>2, <1>3 DEF EndPublish, WriterSound, NoWrite
<1>6. ReaderSound'
  BY <1>1, <1>2 DEF EndPublish, IdInv, IdTypeOK, ReaderSound
<1> QED BY <1>4, <1>5, <1>6 DEF IdInv

\* The reader copies one field, or starts again.
LEMMA ReadIdInv ==
  ASSUME IdInv,
         \/ ReadCharacter \/ ReadGeneration
         \/ ReadField("character", "server") \/ ReadField("server", "after")
  PROVE  IdInv'
<1>1. Retried \in [at : {"idle", "generation"}, before : Nat, character : Text,
                   server : Text, tries : Nat]
  BY RetriedFresh DEF IdInv
<1>2. UNCHANGED <<info, writer, readBack>>
  BY DEF ReadCharacter, ReadGeneration, ReadField
<1>3. WriterSound'
  BY <1>2 DEF IdInv, WriterSound, Odd
<1>4. IdTypeOK' /\ ReaderSound'
  <2>1. CASE ReadCharacter
    BY <1>2, <2>1 DEF ReadCharacter, NoRead, IdInv, IdTypeOK, ReaderSound, Text
  <2>2. CASE ReadGeneration /\ Odd(info.generation)
    <3>1. reader' = Retried
      BY <2>2 DEF ReadGeneration
    <3> QED BY <1>1, <1>2, <3>1 DEF IdInv, IdTypeOK, ReaderSound
  <2>3. CASE ReadGeneration /\ ~Odd(info.generation)
    <3>1. reader' = [reader EXCEPT !.at = "character", !.before = info.generation]
      BY <2>3 DEF ReadGeneration
    <3>2. reader'.at = "character" /\ reader'.before = info.generation
      BY <3>1 DEF IdInv, IdTypeOK
    <3>3. IdTypeOK'
      BY <1>2, <3>1 DEF IdInv, IdTypeOK
    <3>4. ReaderSound'
      BY <1>2, <2>3, <3>2 DEF IdInv, IdTypeOK, ReaderSound, Odd
    <3> QED BY <3>3, <3>4
  <2>4. CASE ReadField("character", "server")
    BY <1>2, <2>4 DEF ReadField, IdInv, IdTypeOK, ReaderSound
  <2>5. CASE ReadField("server", "after")
    BY <1>2, <2>5 DEF ReadField, IdInv, IdTypeOK, ReaderSound
  <2> QED BY <2>1, <2>2, <2>3, <2>4, <2>5
<1> QED BY <1>3, <1>4 DEF IdInv

\* The reader accepts only under the generation it began with.
LEMMA AcceptIdInv ==
  ASSUME IdInv, AcceptIdentity
  PROVE  IdInv'
<1>1. CASE SameGeneration(reader.before)
  <2>1. /\ reader.character = info.character /\ reader.server = info.server
        /\ writer.at = "idle"
    BY <1>1 DEF AcceptIdentity, SameGeneration, IdInv, WriterSound, ReaderSound
  <2>2. <<reader.character, reader.server>> \in Published
    BY <2>1 DEF IdInv, WriterSound
  <2>3. readBack' \in Published /\ reader' = NoRead /\ UNCHANGED <<info, writer>>
    BY <1>1, <2>2 DEF AcceptIdentity, IdInv, IdTypeOK
  <2> QED BY <2>3 DEF NoRead, IdInv, IdTypeOK, WriterSound, ReaderSound, Text
<1>2. CASE ~SameGeneration(reader.before)
  <2>1. Retried \in [at : {"idle", "generation"}, before : Nat, character : Text,
                     server : Text, tries : Nat]
    BY RetriedFresh DEF IdInv
  <2>2. reader' = Retried /\ UNCHANGED <<info, writer, readBack>>
    BY <1>2 DEF AcceptIdentity
  <2> QED BY <2>1, <2>2 DEF IdInv, IdTypeOK, WriterSound, ReaderSound
<1> QED BY <1>1, <1>2

LEMMA NextIdInv == IdInv /\ [IdNext]_idVars => IdInv'
<1> SUFFICES ASSUME IdInv, [IdNext]_idVars PROVE IdInv'
  OBVIOUS
<1>1. CASE \E i \in Identity : OpenLogFile(i)
  BY <1>1, OpenLogFileIdInv
<1>2. CASE WriterStep
  BY <1>2, StoreIdInv, EndPublishIdInv DEF WriterStep
<1>3. CASE ReaderStep
  BY <1>3, ReadIdInv, AcceptIdInv DEF ReaderStep
<1>4. CASE UNCHANGED idVars
  BY <1>4 DEF idVars, IdInv, IdTypeOK, WriterSound, ReaderSound
<1> QED BY <1>1, <1>2, <1>3, <1>4 DEF IdNext

-----------------------------------------------------------------------------

\* However logins and reads interleave, and however many there are, Stonemite never
\* pairs a character's name with another login's server, nor with half a name.
THEOREM IdentityAlwaysWhole == IdSpec => []IdentityWhole
<1>1. IdInv => IdentityWhole
  BY DEF IdInv, IdTypeOK, IdentityWhole, Published
<1> QED BY <1>1, InitIdInv, NextIdInv, PTL DEF IdSpec


-----------------------------------------------------------------------------
(***************************************************************************)
(* AutoType.                                                               *)
(*                                                                         *)
(* Auto-typing: for any number of jobs and any strokes, the keys of the    *)
(* buffer are the newest job's.  The argument: generations are handed out  *)
(* once and the lease never returns to one it has left, so a word that a   *)
(* job found before its swap is either its own, or older than every job    *)
(* that can own the lease by then: when the swap succeeds, it changes no   *)
(* key the owner shows.  What the owner shows follows its strokes because  *)
(* each step adds or removes the key it sets.                              *)
(***************************************************************************)
Stroke   == [key : TypedScan \ {Shift}, shift : BOOLEAN]
Counters == {"wait", "begin", "do", "check", "swap", "recheck", "refresh", "retire", "done"}
JobState == [pc : Counters, gen : Nat, stroke : Nat, step : Nat, cur : Key]

Typing(i) == i.pc \in {"do", "check", "swap", "recheck", "refresh"}
AtKey(i)  == i.pc \in {"check", "swap", "recheck", "refresh"}

\* A job is at some access of some stroke of its own.
Placed(i, j) ==
  /\ i \in JobState
  /\ i.stroke \in DOMAIN Strokes[j]
  /\ i.step \in 0..Len(PressScancode(Strokes[j][i.stroke]))

WordsTyped ==
  /\ generation \in Nat
  /\ lease \in [gen : Nat, fresh : BOOLEAN]
  /\ akeys \in [TypedScan -> Key]

JobsPlaced == job \in [Job -> JobState] /\ \A j \in Job : Placed(job[j], j)

GameTyped ==
  /\ dead \subseteq Job
  /\ jobRd \in [pc : {"idle", "sampled", "keys"}, gen : Nat, left : SUBSET TypedScan,
                keys : SUBSET TypedScan, ahead : BOOLEAN]
  /\ jobObserved \subseteq TypedScan
  /\ typed \subseteq [key : TypedScan, shift : BOOLEAN]

\* Generations are handed out once.
Generations ==
  /\ lease.gen <= generation
  /\ \A k \in TypedScan : akeys[k].gen <= generation
  /\ \A j \in Job : job[j].gen <= generation /\ job[j].cur.gen <= generation
  /\ \A i, j \in Job : i # j => job[i].gen # job[j].gen \/ job[i].gen = 0
  /\ \A j \in Job : job[j].pc \notin {"wait", "done"} => job[j].gen # 0

\* Nobody has seen generation g in the mapping.
Unseen(g) ==
  /\ lease.gen # g
  /\ \A k \in TypedScan : akeys[k].gen # g
  /\ \A i \in Job : job[i].cur.gen # g

\* What job j, being at i, may rely on.
Sound(i, j) ==
  /\ i.pc \in {"wait", "begin"} => i.step = 0
  /\ i.pc = "wait" => i.gen = 0
  /\ i.pc = "begin" => Unseen(i.gen)
  /\ AtKey(i) => i.step # 0 /\ Op(i, j) # Sleep
  /\ Typing(i) /\ lease.gen # i.gen => i.gen < generation
  /\ i.pc = "swap" => /\ i.cur.gen <= i.gen
                      /\ lease.gen # i.gen => lease.gen = 0 \/ i.cur.gen # lease.gen

\* The keys that the first n steps of p leave down.
Pressed(p, n) ==
  {k \in TypedScan : \E m \in 1..n : p[m] = Set(k, TRUE) /\ \A l \in m..n : p[l] # Set(k, FALSE)}

Holds(i, j) ==
  IF i.step = 0 THEN {} ELSE Pressed(PressScancode(Strokes[j][i.stroke]), Done(i))

\* The buffer shows what the owner of the lease has down.
Shown(i, j) == Typing(i) /\ i.gen = lease.gen => Visible = Holds(i, j)

JobsInv ==
  /\ WordsTyped /\ JobsPlaced /\ GameTyped
  /\ Generations
  /\ \A j \in Job : Sound(job[j], j) /\ Shown(job[j], j)

----------------------------------------------------------------------------
(* Strokes.                                                                *)

LEMMA SetIsNoSleep ==
  ASSUME NEW k, NEW d
  PROVE  Set(k, d) # Sleep
<1>1. Set(k, d).op = "set" /\ Sleep.op = "sleep"
  BY DEF Set, Sleep
<1> QED BY <1>1

LEMMA SetInjective ==
  ASSUME NEW k, NEW c, NEW d \in BOOLEAN, NEW e \in BOOLEAN, Set(k, d) = Set(c, e)
  PROVE  k = c /\ d = e
<1>1. Set(k, d).key = k /\ Set(c, e).key = c
  BY DEF Set
<1>2. (Set(k, d).down = d) /\ (Set(c, e).down = e)
  BY DEF Set
<1> QED BY <1>1, <1>2

LEMMA DownIsNotUp ==
  ASSUME NEW k, NEW c
  PROVE  Set(k, TRUE) # Set(c, FALSE)
BY SetInjective

\* Every key that a stroke presses it releases.
OnlySets(p) ==
  \A n \in 1..Len(p) : p[n] # Sleep => \E k \in TypedScan, d \in BOOLEAN : p[n] = Set(k, d)

Releases(p) ==
  \A k, n : n \in 1..Len(p) /\ p[n] = Set(k, TRUE) => \E m \in n..Len(p) : p[m] = Set(k, FALSE)

LEMMA StrokeShape ==
  ASSUME NEW s \in Stroke, NEW p, p = PressScancode(s)
  PROVE  Len(p) \in Nat \ {0} /\ OnlySets(p) /\ Releases(p)
<1> USE TypedScanAssumption
<1>k. s.key \in TypedScan /\ Shift \in TypedScan
  BY DEF Stroke
<1>n. \A c, k : Set(c, FALSE) # Set(k, TRUE) /\ Set(k, TRUE) # Sleep
  BY DownIsNotUp, SetIsNoSleep
<1>i. \A c, k : Set(c, TRUE) = Set(k, TRUE) => c = k
  BY SetInjective
<1>1. CASE s.shift = TRUE
  <2>1. p = <<Set(Shift, TRUE), Set(s.key, TRUE), Sleep,
              Set(s.key, FALSE), Set(Shift, FALSE), Sleep>>
    BY <1>1 DEF PressScancode
  <2>2. /\ Len(p) = 6 /\ p[1] = Set(Shift, TRUE) /\ p[2] = Set(s.key, TRUE) /\ p[3] = Sleep
        /\ p[4] = Set(s.key, FALSE) /\ p[5] = Set(Shift, FALSE) /\ p[6] = Sleep
    BY <2>1
  <2>3. \A n \in 1..Len(p) : n \in {1, 2, 3, 4, 5, 6}
    BY <2>2
  <2>4. OnlySets(p)
    BY <2>2, <2>3, <1>k DEF OnlySets
  <2>5. ASSUME NEW k, NEW n \in 1..Len(p), p[n] = Set(k, TRUE)
        PROVE  \E m \in n..Len(p) : p[m] = Set(k, FALSE)
    <3>1. n \in {1, 2}
      BY <2>2, <2>3, <2>5, <1>n
    <3>2. CASE n = 1
      <4>1. k = Shift
        BY <3>2, <2>2, <2>5, <1>i
      <4>2. 5 \in n..Len(p) /\ p[5] = Set(k, FALSE)
        BY <3>2, <4>1, <2>2
      <4> QED BY <4>2
    <3>3. CASE n = 2
      <4>1. k = s.key
        BY <3>3, <2>2, <2>5, <1>i
      <4>2. 4 \in n..Len(p) /\ p[4] = Set(k, FALSE)
        BY <3>3, <4>1, <2>2
      <4> QED BY <4>2
    <3> QED BY <3>1, <3>2, <3>3
  <2>6. Releases(p)
    BY <2>5, Zenon DEF Releases
  <2>7. Len(p) \in Nat \ {0}
    BY <2>2
  <2> QED BY <2>4, <2>6, <2>7
<1>2. CASE s.shift = FALSE
  <2>1. p = <<Set(s.key, TRUE), Sleep, Set(s.key, FALSE), Sleep>>
    BY <1>2 DEF PressScancode
  <2>2. /\ Len(p) = 4 /\ p[1] = Set(s.key, TRUE) /\ p[2] = Sleep
        /\ p[3] = Set(s.key, FALSE) /\ p[4] = Sleep
    BY <2>1
  <2>3. \A n \in 1..Len(p) : n \in {1, 2, 3, 4}
    BY <2>2
  <2>4. OnlySets(p)
    BY <2>2, <2>3, <1>k DEF OnlySets
  <2>5. ASSUME NEW k, NEW n \in 1..Len(p), p[n] = Set(k, TRUE)
        PROVE  \E m \in n..Len(p) : p[m] = Set(k, FALSE)
    <3>1. n = 1
      BY <2>2, <2>3, <2>5, <1>n
    <3>2. k = s.key
      BY <3>1, <2>2, <2>5, <1>i
    <3>3. 3 \in n..Len(p) /\ p[3] = Set(k, FALSE)
      BY <3>1, <3>2, <2>2
    <3> QED BY <3>3
  <2>6. Releases(p)
    BY <2>5, Zenon DEF Releases
  <2>7. Len(p) \in Nat \ {0}
    BY <2>2
  <2> QED BY <2>4, <2>6, <2>7
<1>3. s.shift \in BOOLEAN
  BY DEF Stroke
<1> QED BY <1>1, <1>2, <1>3

\* One more step of a stroke.
Presses(p, n, k) == p[n] = Set(k, TRUE)
Lifts(p, n, k)   == p[n] = Set(k, FALSE)

LEMMA PressedDown ==
  ASSUME NEW p, NEW n \in Nat \ {0}, NEW k \in TypedScan, Presses(p, n, k)
  PROVE  Pressed(p, n) = Pressed(p, n - 1) \cup {k}
<1> USE DEF Presses
<1>1. \A c : p[n] # Set(c, FALSE)
  BY DownIsNotUp
<1>2. \A c : p[n] = Set(c, TRUE) => c = k
  BY SetInjective
<1>3. \A m \in 1..(n - 1) : \A l \in m..n : l \in m..(n - 1) \/ l = n
  OBVIOUS
<1>4. \A m \in 1..n : m \in 1..(n - 1) \/ m = n
  OBVIOUS
<1>5. \A m \in 1..(n - 1) : m \in 1..n /\ \A l \in m..(n - 1) : l \in m..n
  OBVIOUS
<1>6. ASSUME NEW c \in Pressed(p, n) PROVE c \in Pressed(p, n - 1) \cup {k}
  <2>1. c \in TypedScan
    BY <1>6 DEF Pressed
  <2>2. PICK m \in 1..n : p[m] = Set(c, TRUE) /\ \A l \in m..n : p[l] # Set(c, FALSE)
    BY <1>6 DEF Pressed
  <2>3. CASE m = n
    BY <2>2, <2>3, <1>2
  <2>4. CASE m \in 1..(n - 1)
    BY <2>1, <2>2, <2>4, <1>5 DEF Pressed
  <2> QED BY <2>3, <2>4, <1>4
<1>7. ASSUME NEW c \in Pressed(p, n - 1) PROVE c \in Pressed(p, n)
  <2>1. c \in TypedScan
    BY <1>7 DEF Pressed
  <2>2. PICK m \in 1..(n - 1) : p[m] = Set(c, TRUE) /\ \A l \in m..(n - 1) : p[l] # Set(c, FALSE)
    BY <1>7 DEF Pressed
  <2> QED BY <2>1, <2>2, <1>1, <1>3, <1>5 DEF Pressed
<1>8. k \in Pressed(p, n)
  <2>1. n \in 1..n /\ \A l \in n..n : l = n
    OBVIOUS
  <2> QED BY <2>1, <1>1 DEF Pressed
<1> QED BY <1>6, <1>7, <1>8

LEMMA PressedUp ==
  ASSUME NEW p, NEW n \in Nat \ {0}, NEW k \in TypedScan, Lifts(p, n, k)
  PROVE  Pressed(p, n) = Pressed(p, n - 1) \ {k}
<1> USE DEF Lifts
<1>1. \A c : p[n] # Set(c, TRUE)
  BY DownIsNotUp
<1>2. \A c : p[n] = Set(c, FALSE) => c = k
  BY SetInjective
<1>3. \A m \in 1..(n - 1) : \A l \in m..n : l \in m..(n - 1) \/ l = n
  OBVIOUS
<1>4. \A m \in 1..n : m \in 1..(n - 1) \/ m = n
  OBVIOUS
<1>5. \A m \in 1..(n - 1) : m \in 1..n /\ n \in m..n /\ \A l \in m..(n - 1) : l \in m..n
  OBVIOUS
<1>6. ASSUME NEW c \in Pressed(p, n) PROVE c \in Pressed(p, n - 1) \ {k}
  <2>1. c \in TypedScan
    BY <1>6 DEF Pressed
  <2>2. PICK m \in 1..n : p[m] = Set(c, TRUE) /\ \A l \in m..n : p[l] # Set(c, FALSE)
    BY <1>6 DEF Pressed
  <2>3. m \in 1..(n - 1)
    BY <2>2, <1>1, <1>4
  <2>4. c # k
    BY <2>2, <2>3, <1>5
  <2> QED BY <2>1, <2>2, <2>3, <2>4, <1>5 DEF Pressed
<1>7. ASSUME NEW c \in Pressed(p, n - 1), c # k PROVE c \in Pressed(p, n)
  <2>1. c \in TypedScan
    BY <1>7 DEF Pressed
  <2>2. PICK m \in 1..(n - 1) : p[m] = Set(c, TRUE) /\ \A l \in m..(n - 1) : p[l] # Set(c, FALSE)
    BY <1>7 DEF Pressed
  <2> QED BY <2>1, <2>2, <1>2, <1>7, <1>3, <1>5 DEF Pressed
<1> QED BY <1>6, <1>7

LEMMA PressedSleep ==
  ASSUME NEW p, NEW n \in Nat \ {0}, p[n] = Sleep
  PROVE  Pressed(p, n) = Pressed(p, n - 1)
<1>1. \A c : p[n] # Set(c, TRUE) /\ p[n] # Set(c, FALSE)
  BY SetIsNoSleep
<1>3. \A m \in 1..(n - 1) : \A l \in m..n : l \in m..(n - 1) \/ l = n
  OBVIOUS
<1>4. \A m \in 1..n : m \in 1..(n - 1) \/ m = n
  OBVIOUS
<1>5. \A m \in 1..(n - 1) : m \in 1..n /\ \A l \in m..(n - 1) : l \in m..n
  OBVIOUS
<1>6. ASSUME NEW c \in Pressed(p, n) PROVE c \in Pressed(p, n - 1)
  <2>1. c \in TypedScan
    BY <1>6 DEF Pressed
  <2>2. PICK m \in 1..n : p[m] = Set(c, TRUE) /\ \A l \in m..n : p[l] # Set(c, FALSE)
    BY <1>6 DEF Pressed
  <2>3. m \in 1..(n - 1)
    BY <2>2, <1>1, <1>4
  <2> QED BY <2>1, <2>2, <2>3, <1>5 DEF Pressed
<1>7. ASSUME NEW c \in Pressed(p, n - 1) PROVE c \in Pressed(p, n)
  <2>1. c \in TypedScan
    BY <1>7 DEF Pressed
  <2>2. PICK m \in 1..(n - 1) : p[m] = Set(c, TRUE) /\ \A l \in m..(n - 1) : p[l] # Set(c, FALSE)
    BY <1>7 DEF Pressed
  <2> QED BY <2>1, <2>2, <1>1, <1>3, <1>5 DEF Pressed
<1> QED BY <1>6, <1>7

LEMMA NothingPressed ==
  ASSUME NEW p
  PROVE  Pressed(p, 0) = {}
BY DEF Pressed

\* At the end of a stroke no key is down.
LEMMA StrokeEndsUp ==
  ASSUME NEW s \in Stroke
  PROVE  Pressed(PressScancode(s), Len(PressScancode(s))) = {}
<1> DEFINE p == PressScancode(s)
<1>1. Releases(p)
  BY StrokeShape
<1> QED BY <1>1 DEF Pressed, Releases

----------------------------------------------------------------------------
(* The place of a job.                                                     *)

LEMMA StrokeOfJob ==
  ASSUME NEW j \in Job, NEW i, Placed(i, j)
  PROVE  /\ Strokes[j][i.stroke] \in Stroke
         /\ Len(PressScancode(Strokes[j][i.stroke])) \in Nat \ {0}
         /\ Len(Strokes[j]) \in Nat \ {0} /\ i.stroke \in 1..Len(Strokes[j])
<1>1. Strokes[j] \in Seq(Stroke)
  BY StrokesAssumption DEF Stroke
<1>2. i.stroke \in 1..Len(Strokes[j])
  BY <1>1 DEF Placed
<1>3. Strokes[j][i.stroke] \in Stroke
  BY <1>1, <1>2
<1>4. Len(PressScancode(Strokes[j][i.stroke])) \in Nat \ {0}
  BY <1>3, StrokeShape
<1>5. Len(Strokes[j]) \in Nat \ {0}
  BY <1>1, <1>2
<1> QED BY <1>2, <1>3, <1>4, <1>5

\* The next step is one of the same job: it holds what was pressed so far.
LEMMA AdvancePlaced ==
  ASSUME NEW j \in Job, NEW i, Placed(i, j)
  PROVE  /\ Placed(Advance(i, j), j)
         /\ Advance(i, j).pc \in {"do", "retire"}
         /\ Advance(i, j).gen = i.gen /\ Advance(i, j).cur = i.cur
         /\ Advance(i, j).pc = "retire" =>
              i.stroke = Len(Strokes[j]) /\ LastStep(i, j)
         /\ Advance(i, j).pc = "do" =>
              Holds(Advance(i, j), j) =
                IF i.step = 0 THEN {} ELSE Pressed(PressScancode(Strokes[j][i.stroke]), i.step)
<1> DEFINE p == PressScancode(Strokes[j][i.stroke])
           a == Advance(i, j)
<1>1. /\ Len(p) \in Nat \ {0} /\ i.step \in 0..Len(p) /\ i \in JobState
      /\ Len(Strokes[j]) \in Nat \ {0} /\ i.stroke \in 1..Len(Strokes[j])
      /\ DOMAIN Strokes[j] = 1..Len(Strokes[j])
      /\ i.step + 1 \in Nat /\ i.stroke + 1 \in Nat
  <2>1. Strokes[j] \in Seq(Stroke)
    BY StrokesAssumption DEF Stroke
  <2> QED BY <2>1, StrokeOfJob DEF Placed
<1>2. CASE i.step = 0 \/ ~LastStep(i, j)
  <2>1. a = [i EXCEPT !.pc = "do", !.step = i.step + 1]
    BY <1>2 DEF Advance
  <2>2. a.pc = "do" /\ a.step = i.step + 1 /\ a.gen = i.gen /\ a.cur = i.cur /\ a.stroke = i.stroke
    BY <2>1, <1>1 DEF JobState
  <2>3. a \in JobState
    BY <2>1, <1>1 DEF JobState, Counters
  <2>4. i.step # Len(p)
    BY <1>1, <1>2 DEF LastStep
  <2>5. Placed(a, j)
    BY <2>2, <2>3, <2>4, <1>1 DEF Placed
  <2>6. Holds(a, j) = Pressed(p, i.step)
    <3>1. Done(a) = i.step
      BY <2>2, <1>1 DEF Done
    <3> QED BY <2>2, <3>1, <1>1 DEF Holds
  <2>7. i.step = 0 => Pressed(p, i.step) = {}
    BY NothingPressed
  <2> HIDE DEF a, p
  <2>8. Holds(a, j) = IF i.step = 0 THEN {} ELSE Pressed(p, i.step)
    BY <2>6, <2>7
  <2> QED BY <2>2, <2>5, <2>8 DEF a, p
<1>3. CASE i.step # 0 /\ LastStep(i, j) /\ i.stroke = Len(Strokes[j])
  <2>1. a = [i EXCEPT !.pc = "retire"]
    BY <1>3 DEF Advance
  <2>2. a.pc = "retire" /\ a.step = i.step /\ a.gen = i.gen /\ a.cur = i.cur /\ a.stroke = i.stroke
    BY <2>1, <1>1 DEF JobState
  <2>3. a \in JobState
    BY <2>1, <1>1 DEF JobState, Counters
  <2>5. Placed(a, j)
    BY <2>2, <2>3, <1>1 DEF Placed
  <2> HIDE DEF a
  <2> QED BY <2>2, <2>5, <1>3 DEF a
<1>4. CASE i.step # 0 /\ LastStep(i, j) /\ i.stroke # Len(Strokes[j])
  <2>1. a = [i EXCEPT !.pc = "do", !.stroke = i.stroke + 1, !.step = 1]
    BY <1>4 DEF Advance
  <2>2. a.pc = "do" /\ a.step = 1 /\ a.gen = i.gen /\ a.cur = i.cur /\ a.stroke = i.stroke + 1
    BY <2>1, <1>1 DEF JobState
  <2>3. a \in JobState
    <3>1. a = [pc |-> "do", gen |-> i.gen, stroke |-> i.stroke + 1, step |-> 1, cur |-> i.cur]
      BY <2>1, <1>1 DEF JobState
    <3>2. i.gen \in Nat /\ i.cur \in Key
      BY <1>1 DEF JobState
    <3> HIDE DEF a
    <3> QED BY <3>1, <3>2, <1>1 DEF JobState, Counters
  <2>4. a.stroke \in 1..Len(Strokes[j])
    BY <2>2, <1>1, <1>4
  <2>5. Strokes[j][a.stroke] \in Stroke
    <3>1. Strokes[j] \in Seq(Stroke)
      BY StrokesAssumption DEF Stroke
    <3> QED BY <3>1, <2>4
  <2>6. Len(PressScancode(Strokes[j][a.stroke])) \in Nat \ {0}
    BY <2>5, StrokeShape
  <2>7. Placed(a, j)
    BY <2>2, <2>3, <2>4, <2>6, <1>1 DEF Placed
  <2>8. Holds(a, j) = {}
    <3>1. Done(a) = 0
      BY <2>2 DEF Done
    <3> QED BY <2>2, <3>1, NothingPressed DEF Holds
  <2>9. Pressed(p, i.step) = {}
    <3>1. i.step = Len(p)
      BY <1>4 DEF LastStep
    <3> QED BY <3>1, StrokeEndsUp, StrokeOfJob
  <2> HIDE DEF a, p
  <2>10. Holds(a, j) = IF i.step = 0 THEN {} ELSE Pressed(p, i.step)
    BY <2>8, <2>9
  <2> QED BY <2>2, <2>7, <2>10 DEF a, p
<1> QED BY <1>2, <1>3, <1>4

----------------------------------------------------------------------------
(* Steps.                                                                  *)

\* What a step may not do, of any job.
HarmlessStep ==
  \A j \in Job : job'[j] # job[j] /\ job[j].gen \in 1..(lease.gen - 1)
    => lease' = lease /\ Visible' = Visible

StampStep == \A k \in TypedScan : akeys'[k].gen >= akeys[k].gen

StopStep ==
  \A j \in Job : /\ job[j].pc \in {"do", "check", "swap", "recheck", "refresh"}
                 /\ job'[j].pc = "retire"
                 /\ ~(job[j].stroke = Len(Strokes[j]) /\ LastStep(job[j], j))
    => job[j].gen < generation

StepSound == JobsInv' /\ HarmlessStep /\ StampStep /\ StopStep

\* Job j, and no other, goes on to n.
Moves(j, n) ==
  /\ Placed(n, j)
  /\ job' = [job EXCEPT ![j] = n]

LEMMA OneMoves ==
  ASSUME JobsInv, NEW j \in Job, NEW n, Moves(j, n)
  PROVE  /\ JobsPlaced'
         /\ job'[j] = n
         /\ \A i \in Job : i # j => job'[i] = job[i]
<1>1. job \in [Job -> JobState] /\ n \in JobState
  BY DEF JobsInv, JobsPlaced, Moves, Placed
<1>2. job' \in [Job -> JobState] /\ job'[j] = n /\ \A i \in Job : i # j => job'[i] = job[i]
  BY <1>1 DEF Moves
<1>3. \A i \in Job : Placed(job'[i], i)
  BY <1>2 DEF Moves, JobsInv, JobsPlaced
<1> QED BY <1>2, <1>3 DEF JobsPlaced

\* The generation, the keys and the owner stay what they are.
SameWords ==
  /\ generation' = generation /\ akeys' = akeys
  /\ lease' \in [gen : Nat, fresh : BOOLEAN] /\ lease'.gen = lease.gen

\* n follows job j's place with the same generation and a word that was seen.
Follows(j, n) ==
  /\ n.gen = job[j].gen
  /\ n.cur = job[j].cur \/ \E k \in TypedScan : n.cur = akeys[k]
  /\ n.pc \notin {"wait", "begin"}
  /\ n.pc # "done" => n.gen # 0

LEMMA QuietMove ==
  ASSUME JobsInv, NEW j \in Job, NEW n, Moves(j, n), SameWords, Follows(j, n),
         Sound(n, j), Shown(n, j), GameTyped',
         lease' = lease \/ job[j].gen = lease.gen,
         Typing(job[j]) /\ n.pc = "retire" =>
           (job[j].stroke = Len(Strokes[j]) /\ LastStep(job[j], j)) \/ job[j].gen < generation
  PROVE  StepSound
<1>1. JobsPlaced' /\ job'[j] = n /\ \A i \in Job : i # j => job'[i] = job[i]
  BY OneMoves
<1>2. WordsTyped'
  BY DEF JobsInv, WordsTyped, SameWords
<1>3. Visible' = Visible
  BY DEF Visible, SameWords
<1>4. \A i \in Job : job'[i].cur.gen = job[i].cur.gen
                     \/ \E k \in TypedScan : job'[i].cur.gen = akeys[k].gen
  BY <1>1 DEF Follows
<1>5. Generations'
  BY <1>1, <1>4 DEF JobsInv, Generations, SameWords, Follows
<1>6. ASSUME NEW g, Unseen(g) PROVE Unseen(g)'
  BY <1>4, <1>6 DEF Unseen, SameWords
<1>7. ASSUME NEW i \in Job PROVE Sound(job[i], i)' /\ Shown(job[i], i)'
  <2>1. Sound(job'[i], i) /\ Shown(job'[i], i)
    BY <1>1 DEF JobsInv
  <2>2. Sound(job[i], i)'
    BY <2>1, <1>6 DEF Sound, SameWords
  <2>3. Shown(job[i], i)'
    BY <2>1, <1>3 DEF Shown, SameWords
  <2> QED BY <2>2, <2>3
<1>8. HarmlessStep
  BY <1>1, <1>3 DEF HarmlessStep, JobsInv, WordsTyped
<1>9. StampStep
  BY DEF StampStep, SameWords, JobsInv, WordsTyped, Key
<1>10. StopStep
  <2> SUFFICES ASSUME NEW i \in Job, Typing(job[i]), job'[i].pc = "retire",
                      ~(job[i].stroke = Len(Strokes[i]) /\ LastStep(job[i], i))
               PROVE  job[i].gen < generation
    BY DEF StopStep, Typing
  <2>1. i = j
    BY <1>1 DEF Typing
  <2> QED BY <2>1, <1>1
<1> QED BY <1>1, <1>2, <1>5, <1>7, <1>8, <1>9, <1>10 DEF StepSound, JobsInv

\* The game's side and the heartbeat: nothing of a job changes.
LEMMA GameMove ==
  ASSUME JobsInv, job' = job, SameWords, GameTyped'
  PROVE  StepSound
<1>2. WordsTyped'
  BY DEF JobsInv, WordsTyped, SameWords
<1>3. Visible' = Visible
  BY DEF Visible, SameWords
<1>5. Generations'
  BY DEF JobsInv, Generations, SameWords
<1>6. ASSUME NEW g, Unseen(g) PROVE Unseen(g)'
  BY <1>6 DEF Unseen, SameWords
<1>7. ASSUME NEW i \in Job PROVE Sound(job[i], i)' /\ Shown(job[i], i)'
  <2>1. Sound(job'[i], i) /\ Shown(job'[i], i)
    BY DEF JobsInv
  <2>2. Sound(job[i], i)'
    BY <2>1, <1>6 DEF Sound, SameWords
  <2>3. Shown(job[i], i)'
    BY <2>1, <1>3 DEF Shown, SameWords
  <2> QED BY <2>2, <2>3
<1>8. HarmlessStep
  BY DEF HarmlessStep
<1>9. StampStep
  BY DEF StampStep, SameWords, JobsInv, WordsTyped, Key
<1>10. StopStep
  BY DEF StopStep
<1>11. JobsPlaced'
  BY DEF JobsInv, JobsPlaced
<1> QED BY <1>2, <1>5, <1>7, <1>8, <1>9, <1>10, <1>11 DEF StepSound, JobsInv

LEMMA HeartbeatTyped ==
  ASSUME JobsInv, Heartbeat, UNCHANGED <<dead, readVars>>
  PROVE  GameTyped'
<1>1. CASE jobRd' = jobRd
  BY <1>1 DEF JobsInv, GameTyped, readVars
<1>2. CASE jobRd' = [jobRd EXCEPT !.ahead = TRUE]
  BY <1>2 DEF JobsInv, GameTyped, readVars
<1> QED BY <1>1, <1>2 DEF Heartbeat

LEMMA GameUntouched ==
  ASSUME JobsInv, UNCHANGED <<dead, jobRd, readVars>>
  PROVE  GameTyped'
BY DEF JobsInv, GameTyped, readVars

----------------------------------------------------------------------------
(* What each step of a job does.                                           *)

\* The place of a job, when only its counter changes.
LEMMA CounterPlaced ==
  ASSUME JobsInv, NEW j \in Job, NEW c \in Counters, NEW n, n = [job[j] EXCEPT !.pc = c]
  PROVE  /\ Placed(n, j)
         /\ n.pc = c /\ n.gen = job[j].gen /\ n.stroke = job[j].stroke
         /\ n.step = job[j].step /\ n.cur = job[j].cur
         /\ Op(n, j) = Op(job[j], j)
<1>1. job[j] \in JobState /\ Placed(job[j], j)
  BY DEF JobsInv, JobsPlaced
<1>2. /\ n \in JobState /\ n.pc = c /\ n.gen = job[j].gen /\ n.stroke = job[j].stroke
      /\ n.step = job[j].step /\ n.cur = job[j].cur
  BY <1>1 DEF JobState
<1>3. Placed(n, j)
  BY <1>1, <1>2 DEF Placed
<1>4. Op(n, j) = Op(job[j], j)
  BY <1>2 DEF Op
<1> QED BY <1>2, <1>3, <1>4

LEMMA JobGoesMoves ==
  ASSUME NEW j \in Job, NEW c, JobGoes(j, c), JobsInv
  PROVE  job' = [job EXCEPT ![j] = [job[j] EXCEPT !.pc = c]]
BY DEF JobGoes

LEMMA GiveUpStep ==
  ASSUME JobsInv, NEW j \in Job, GiveUp(j)
  PROVE  StepSound
<1> DEFINE n == [job[j] EXCEPT !.pc = "done"]
<1>1. /\ Placed(n, j) /\ n.pc = "done" /\ n.gen = job[j].gen /\ n.cur = job[j].cur
  BY CounterPlaced DEF Counters
<1>2. job' = [job EXCEPT ![j] = n]
  BY JobGoesMoves DEF GiveUp
<1> HIDE DEF n
<1>3. SameWords /\ GameTyped' /\ lease' = lease /\ job[j].pc = "wait"
  BY GameUntouched DEF GiveUp, SameWords, JobsInv, WordsTyped, At
<1>4. Moves(j, n) /\ Follows(j, n)
  BY <1>1, <1>2 DEF Moves, Follows
<1>5. Sound(n, j) /\ Shown(n, j)
  BY <1>1 DEF Sound, Shown, AtKey, Typing
<1> QED BY <1>1, <1>3, <1>4, <1>5, QuietMove DEF Typing

\* A new generation is one that nobody has seen.
LEMMA TakeGenerationStep ==
  ASSUME JobsInv, NEW j \in Job, TakeGeneration(j)
  PROVE  StepSound
<1> DEFINE g == generation + 1
           n == [job[j] EXCEPT !.pc = "begin", !.gen = g]
<1>1. generation \in Nat /\ g \in Nat /\ generation' = g /\ g > generation
  BY DEF JobsInv, WordsTyped, TakeGeneration
<1>2. job[j] \in JobState /\ Placed(job[j], j) /\ job[j].pc = "wait" /\ job[j].step = 0
  BY DEF JobsInv, JobsPlaced, TakeGeneration, At, Sound
<1> HIDE DEF g
<1>3. /\ n \in JobState /\ n.pc = "begin" /\ n.gen = g /\ n.stroke = job[j].stroke
      /\ n.step = job[j].step /\ n.cur = job[j].cur
  BY <1>1, <1>2 DEF JobState, Counters
<1>4. Placed(n, j)
  BY <1>2, <1>3 DEF Placed
<1>5. job' = [job EXCEPT ![j] = n]
  BY DEF TakeGeneration, g
<1> HIDE DEF n
<1>6. Moves(j, n)
  BY <1>4, <1>5 DEF Moves
<1>7. JobsPlaced' /\ job'[j] = n /\ \A i \in Job : i # j => job'[i] = job[i]
  BY <1>6, OneMoves
<1>8. UNCHANGED <<lease, akeys, dead, jobRd, readVars>>
  BY DEF TakeGeneration
<1>9. WordsTyped' /\ GameTyped'
  BY <1>1, <1>8, GameUntouched DEF JobsInv, WordsTyped
<1>t. /\ lease.gen \in Nat /\ \A k \in TypedScan : akeys[k].gen \in Nat
      /\ \A i \in Job : job[i].gen \in Nat /\ job[i].cur.gen \in Nat
  BY DEF JobsInv, WordsTyped, JobsPlaced, JobState, Key
<1>10. Generations'
  BY <1>1, <1>3, <1>7, <1>8, <1>t DEF JobsInv, Generations
<1>11. \A i \in Job : job'[i].cur = job[i].cur
  BY <1>3, <1>7
<1>12. ASSUME NEW q, Unseen(q) PROVE Unseen(q)'
  BY <1>8, <1>11, <1>12 DEF Unseen
<1>13. Unseen(g)
  BY <1>1, <1>t DEF Unseen, JobsInv, Generations
<1>14. Visible' = Visible
  BY <1>8 DEF Visible
<1>15. ASSUME NEW i \in Job PROVE Sound(job[i], i)' /\ Shown(job[i], i)'
  <2>1. CASE i = j
    BY <2>1, <1>2, <1>3, <1>7, <1>12, <1>13 DEF Sound, Shown, AtKey, Typing
  <2>2. CASE i # j
    <3>1. Sound(job[i], i) /\ Shown(job[i], i)
      BY DEF JobsInv
    <3>2. job'[i] = job[i]
      BY <2>2, <1>7
    <3>3. job[i].gen < generation => job[i].gen < generation'
      BY <1>1, <1>t
    <3> QED BY <3>1, <3>2, <3>3, <1>8, <1>12, <1>14 DEF Sound, Shown
  <2> QED BY <2>1, <2>2
<1>16. HarmlessStep
  BY <1>8, <1>14 DEF HarmlessStep
<1>17. StampStep
  BY <1>8, <1>t DEF StampStep
<1>18. StopStep
  BY <1>3, <1>7 DEF StopStep
<1> QED BY <1>7, <1>9, <1>10, <1>15, <1>16, <1>17, <1>18 DEF StepSound, JobsInv

LEMMA BeginAutoTypeStep ==
  ASSUME JobsInv, NEW j \in Job, BeginAutoType(j)
  PROVE  StepSound
<1> DEFINE n == [job[j] EXCEPT !.pc = "do"]
           g == job[j].gen
<1>1. /\ Placed(n, j) /\ n.pc = "do" /\ n.gen = g /\ n.cur = job[j].cur /\ n.step = job[j].step
  BY CounterPlaced DEF Counters
<1>2. job' = [job EXCEPT ![j] = n]
  BY JobGoesMoves DEF BeginAutoType
<1> HIDE DEF n
<1>3. Moves(j, n)
  BY <1>1, <1>2 DEF Moves
<1>4. job[j].pc = "begin" /\ Sound(job[j], j) /\ job[j].step = 0 /\ Unseen(g)
  BY DEF BeginAutoType, At, JobsInv, Sound
<1>t. /\ lease.gen \in Nat /\ \A k \in TypedScan : akeys[k].gen \in Nat
      /\ \A i \in Job : job[i].gen \in Nat /\ job[i].cur.gen \in Nat
      /\ generation \in Nat /\ lease.gen <= generation /\ g <= generation /\ g # 0
  BY <1>4 DEF JobsInv, WordsTyped, JobsPlaced, JobState, Key, Generations
<1>5. UNCHANGED <<generation, akeys>> /\ GameTyped'
  BY HeartbeatTyped DEF BeginAutoType
<1>6. Holds(n, j) = {}
  BY <1>1, <1>4 DEF Holds
<1>7. CASE lease.gen >= g
  <2>1. lease' = lease
    BY <1>7 DEF BeginAutoType, LeaseAfterBegin
  <2>2. SameWords /\ Follows(j, n)
    BY <2>1, <1>1, <1>5, <1>t DEF SameWords, Follows, JobsInv, WordsTyped
  <2>3. Sound(n, j) /\ Shown(n, j)
    BY <1>1, <1>4, <1>7, <1>t DEF Sound, Shown, AtKey, Typing, Unseen
  <2> QED BY <2>1, <2>2, <2>3, <1>1, <1>3, <1>5, QuietMove
<1>8. CASE ~(lease.gen >= g)
  <2> DEFINE yes == TRUE
  <2>1. lease' = [gen |-> g, fresh |-> yes] /\ yes \in BOOLEAN
    BY <1>8 DEF BeginAutoType, LeaseAfterBegin
  <2> HIDE DEF yes
  <2>2. lease'.gen = g /\ WordsTyped'
    BY <2>1, <1>5, <1>t DEF JobsInv, WordsTyped
  <2>3. JobsPlaced' /\ job'[j] = n /\ \A i \in Job : i # j => job'[i] = job[i]
    BY <1>3, OneMoves
  <2>4. Generations'
    BY <2>2, <2>3, <1>1, <1>5, <1>t DEF JobsInv, Generations
  <2>5. Visible' = {}
    BY <2>2, <1>4, <1>5 DEF Visible, Unseen
  <2>6. \A i \in Job : job'[i].cur = job[i].cur
    BY <2>3, <1>1
  <2>7. ASSUME NEW i \in Job, i # j, job[i].pc = "begin" PROVE Unseen(job[i].gen)'
    <3>1. Unseen(job[i].gen) /\ job[i].gen # g
      BY <2>7, <1>t DEF JobsInv, Sound, Generations
    <3>2. job'[i] = job[i]
      BY <2>7, <2>3
    <3> QED BY <3>1, <3>2, <2>2, <2>6, <1>5 DEF Unseen
  <2>8. ASSUME NEW i \in Job PROVE Sound(job[i], i)' /\ Shown(job[i], i)'
    <3>1. CASE i = j
      BY <3>1, <2>2, <2>3, <2>5, <1>1, <1>4, <1>6 DEF Sound, Shown, AtKey, Typing
    <3>2. CASE i # j
      <4>1. Sound(job[i], i) /\ job'[i] = job[i] /\ job[i].cur.gen # g
        BY <3>2, <2>3, <1>4 DEF JobsInv, Unseen
      <4>2. Typing(job[i]) => job[i].gen # g /\ job[i].gen < generation
        <5> SUFFICES ASSUME Typing(job[i]) PROVE job[i].gen # g /\ job[i].gen < generation
          OBVIOUS
        <5>1. job[i].gen # g
          BY <3>2, <1>t DEF JobsInv, Generations
        <5>2. lease.gen # job[i].gen => job[i].gen < generation
          BY <4>1 DEF Sound
        <5>3. lease.gen = job[i].gen => job[i].gen < generation
          BY <1>8, <1>t
        <5> QED BY <5>1, <5>2, <5>3
      <4>3. Sound(job[i], i)'
        BY <4>1, <4>2, <2>2, <2>7, <3>2, <1>5 DEF Sound
      <4>4. Shown(job[i], i)'
        BY <4>1, <4>2, <2>2 DEF Shown
      <4> QED BY <4>3, <4>4
    <3> QED BY <3>1, <3>2
  <2>9. HarmlessStep
    <3> SUFFICES ASSUME NEW i \in Job, job'[i] # job[i], job[i].gen \in 1..(lease.gen - 1)
                 PROVE  FALSE
      BY DEF HarmlessStep
    <3>1. i = j
      BY <2>3
    <3> QED BY <3>1, <1>8, <1>t
  <2>10. StampStep
    BY <1>5, <1>t DEF StampStep
  <2>11. StopStep
    BY <2>3, <1>1 DEF StopStep
  <2> QED BY <2>2, <2>3, <2>4, <2>8, <2>9, <2>10, <2>11, <1>5 DEF StepSound, JobsInv
<1> QED BY <1>7, <1>8

LEMMA OpIsSet ==
  ASSUME NEW j \in Job, NEW i, Placed(i, j), Op(i, j) # Sleep
  PROVE  /\ i.step \in Nat \ {0}
         /\ Op(i, j) = PressScancode(Strokes[j][i.stroke])[i.step]
         /\ \E k \in TypedScan, d \in BOOLEAN : Op(i, j) = Set(k, d)
<1> DEFINE p == PressScancode(Strokes[j][i.stroke])
<1>1. Strokes[j][i.stroke] \in Stroke /\ Len(p) \in Nat \ {0}
  BY StrokeOfJob
<1>2. i.step # 0 /\ Op(i, j) = p[i.step] /\ i.step \in 1..Len(p)
  BY <1>1 DEF Op, Placed
<1>3. OnlySets(p)
  BY <1>1, StrokeShape
<1> HIDE DEF p
<1>4. \E k \in TypedScan, d \in BOOLEAN : p[i.step] = Set(k, d)
  BY <1>2, <1>3 DEF OnlySets
<1>5. i.step \in Nat \ {0}
  BY <1>1, <1>2
<1> QED BY <1>2, <1>4, <1>5 DEF p

LEMMA SleepIsNoSet ==
  ASSUME NEW j \in Job, NEW i, Placed(i, j), Op(i, j) = Sleep, i.step # 0
  PROVE  /\ i.step \in Nat \ {0}
         /\ PressScancode(Strokes[j][i.stroke])[i.step] = Sleep
<1>1. Len(PressScancode(Strokes[j][i.stroke])) \in Nat \ {0}
  BY StrokeOfJob
<1> QED BY <1>1 DEF Op, Placed

\* A job refreshes the lease and goes on, with what it had down still down.
LEMMA RefreshStep ==
  ASSUME JobsInv, NEW j \in Job, NEW next, RefreshAutoTypeLease(j, next),
         Typing(job[j]), Placed(next, j), next.pc \in {"do", "retire"},
         next.gen = job[j].gen, next.cur = job[j].cur,
         next.pc = "do" => Holds(next, j) = Holds(job[j], j),
         next.pc = "retire" => job[j].stroke = Len(Strokes[j]) /\ LastStep(job[j], j)
  PROVE  StepSound
<1>1. Sound(job[j], j) /\ Shown(job[j], j) /\ UNCHANGED <<generation, akeys, dead, readVars>>
  BY DEF JobsInv, RefreshAutoTypeLease
<1>2. job[j].gen \in Nat /\ job[j].gen # 0 /\ lease \in [gen : Nat, fresh : BOOLEAN]
  BY DEF JobsInv, JobsPlaced, JobState, Generations, Typing, WordsTyped
<1>3. CASE HasLease(job[j].gen)
  <2> DEFINE yes == TRUE
  <2>1. /\ lease' = [lease EXCEPT !.fresh = yes] /\ yes \in BOOLEAN
        /\ job' = [job EXCEPT ![j] = next] /\ Heartbeat
    BY <1>3 DEF RefreshAutoTypeLease
  <2> HIDE DEF yes
  <2>2. SameWords /\ GameTyped'
    BY <2>1, <1>1, <1>2, HeartbeatTyped DEF SameWords
  <2>3. Moves(j, next) /\ Follows(j, next)
    BY <2>1, <1>2 DEF Moves, Follows
  <2>4. lease.gen = job[j].gen
    BY <1>3 DEF HasLease
  <2>5. Sound(next, j)
    BY <2>4 DEF Sound, AtKey
  <2>6. Shown(next, j)
    BY <1>1, <2>4 DEF Shown, Typing
  <2> QED BY <2>2, <2>3, <2>4, <2>5, <2>6, QuietMove
<1>4. CASE ~HasLease(job[j].gen)
  <2> DEFINE n == [job[j] EXCEPT !.pc = "retire"]
  <2>1. /\ Placed(n, j) /\ n.pc = "retire" /\ n.gen = job[j].gen /\ n.cur = job[j].cur
    BY CounterPlaced DEF Counters
  <2>2. job' = [job EXCEPT ![j] = n] /\ UNCHANGED <<lease, jobRd>>
    BY <1>4, JobGoesMoves DEF RefreshAutoTypeLease
  <2> HIDE DEF n
  <2>3. SameWords /\ GameTyped'
    BY <2>2, <1>1, <1>2, GameUntouched DEF SameWords
  <2>4. Moves(j, n) /\ Follows(j, n)
    BY <2>1, <2>2, <1>2 DEF Moves, Follows
  <2>5. Sound(n, j) /\ Shown(n, j)
    BY <2>1 DEF Sound, Shown, AtKey, Typing
  <2>6. job[j].gen < generation
    BY <1>1, <1>4 DEF HasLease, Sound
  <2> QED BY <2>1, <2>2, <2>3, <2>4, <2>5, <2>6, QuietMove
<1> QED BY <1>3, <1>4

LEMMA SleepOnStep ==
  ASSUME JobsInv, NEW j \in Job, SleepOn(j)
  PROVE  StepSound
<1>1. Placed(job[j], j) /\ job[j].pc = "do" /\ Typing(job[j])
  BY DEF JobsInv, JobsPlaced, SleepOn, At, Typing
<1> QED BY <1>1, RefreshStep DEF SleepOn

LEMMA WakeUpStep ==
  ASSUME JobsInv, NEW j \in Job, WakeUp(j)
  PROVE  StepSound
<1> DEFINE p == PressScancode(Strokes[j][job[j].stroke])
           i == job[j]
<1>1. Placed(i, j) /\ i.pc = "do" /\ Typing(i) /\ Op(i, j) = Sleep
  BY DEF JobsInv, JobsPlaced, WakeUp, At, Typing
<1>2. Holds(i, j) = IF i.step = 0 THEN {} ELSE Pressed(p, i.step)
  <2>1. CASE i.step = 0
    BY <2>1 DEF Holds
  <2>2. CASE i.step # 0
    <3>1. i.step \in Nat \ {0} /\ p[i.step] = Sleep
      BY <1>1, <2>2, SleepIsNoSet
    <3>2. Holds(i, j) = Pressed(p, i.step - 1)
      BY <1>1, <2>2 DEF Holds, Done
    <3>3. Pressed(p, i.step) = Pressed(p, i.step - 1)
      BY <3>1, PressedSleep
    <3> QED BY <2>2, <3>2, <3>3
  <2> QED BY <2>1, <2>2
<1> DEFINE next == Advance(i, j)
<1>3. /\ Placed(next, j) /\ next.pc \in {"do", "retire"} /\ next.gen = i.gen /\ next.cur = i.cur
      /\ next.pc = "retire" => i.stroke = Len(Strokes[j]) /\ LastStep(i, j)
      /\ next.pc = "do" => Holds(next, j) = Holds(i, j)
  BY <1>1, <1>2, AdvancePlaced
<1>4. RefreshAutoTypeLease(j, next)
  BY DEF WakeUp
<1> HIDE DEF next
<1> QED BY <1>1, <1>3, <1>4, RefreshStep

LEMMA RefreshAfterSetStep ==
  ASSUME JobsInv, NEW j \in Job, RefreshAfterSet(j)
  PROVE  StepSound
<1> DEFINE p == PressScancode(Strokes[j][job[j].stroke])
           i == job[j]
<1>1. Placed(i, j) /\ i.pc = "refresh" /\ Typing(i)
  BY DEF JobsInv, JobsPlaced, RefreshAfterSet, At, Typing
<1>2. Holds(i, j) = IF i.step = 0 THEN {} ELSE Pressed(p, i.step)
  BY <1>1 DEF Holds, Done
<1> DEFINE next == Advance(i, j)
<1>3. /\ Placed(next, j) /\ next.pc \in {"do", "retire"} /\ next.gen = i.gen /\ next.cur = i.cur
      /\ next.pc = "retire" => i.stroke = Len(Strokes[j]) /\ LastStep(i, j)
      /\ next.pc = "do" => Holds(next, j) = Holds(i, j)
  BY <1>1, <1>2, AdvancePlaced
<1>4. RefreshAutoTypeLease(j, next)
  BY DEF RefreshAfterSet
<1> HIDE DEF next
<1> QED BY <1>1, <1>3, <1>4, RefreshStep

\* Between its lease checks a job shows what it showed.
LEMMA SameHolds ==
  ASSUME NEW j, NEW i, NEW n, n.stroke = i.stroke, n.step = i.step, Done(n) = Done(i)
  PROVE  Holds(n, j) = Holds(i, j)
BY DEF Holds

LEMMA LoadWordStep ==
  ASSUME JobsInv, NEW j \in Job, LoadWord(j)
  PROVE  StepSound
<1> DEFINE i == job[j]
<1>1. /\ Placed(i, j) /\ i \in JobState /\ i.pc = "do" /\ Typing(i) /\ Op(i, j) # Sleep
      /\ Sound(i, j) /\ Shown(i, j)
  BY DEF JobsInv, JobsPlaced, LoadWord, At, Typing
<1>2. PICK k \in TypedScan, d \in BOOLEAN : Op(i, j) = Set(k, d)
  BY <1>1, OpIsSet
<1>3. Op(i, j).key = k /\ i.step # 0
  BY <1>1, <1>2, OpIsSet DEF Set
<1>4. akeys[k] \in Key
  BY DEF JobsInv, WordsTyped
<1> DEFINE w == akeys[k]
           n == [i EXCEPT !.pc = "check", !.cur = w]
<1>5. job' = [job EXCEPT ![j] = n]
  BY <1>3 DEF LoadWord
<1> HIDE DEF w
<1>6. /\ n \in JobState /\ n.pc = "check" /\ n.gen = i.gen /\ n.stroke = i.stroke
      /\ n.step = i.step /\ n.cur = w
  BY <1>1, <1>4 DEF JobState, Counters, w
<1> HIDE DEF n
<1>7. Placed(n, j) /\ Op(n, j) = Op(i, j) /\ Done(n) = Done(i)
  BY <1>1, <1>6 DEF Placed, Op, Done
<1>8. SameWords /\ GameTyped' /\ lease' = lease
  BY GameUntouched DEF LoadWord, SameWords, JobsInv, WordsTyped
<1>9. i.gen # 0
  BY <1>1 DEF JobsInv, Generations
<1>10. Moves(j, n) /\ Follows(j, n)
  BY <1>5, <1>6, <1>7, <1>9 DEF Moves, Follows, w
<1>11. Holds(n, j) = Holds(i, j)
  BY <1>6, <1>7, SameHolds
<1>12. Sound(n, j)
  BY <1>1, <1>3, <1>6, <1>7 DEF Sound, Typing
<1>13. Shown(n, j)
  BY <1>1, <1>6, <1>11 DEF Shown, Typing
<1> QED BY <1>6, <1>8, <1>10, <1>12, <1>13, QuietMove

\* A job that checks a lease, and one that checks it again.
LEMMA CheckLeaseStep ==
  ASSUME JobsInv, NEW j \in Job, CheckLease(j)
  PROVE  StepSound
<1> DEFINE i == job[j]
           c == IF MaySet(i) THEN "swap" ELSE "retire"
           n == [i EXCEPT !.pc = c]
<1>1. /\ i.pc = "check" /\ Typing(i) /\ AtKey(i) /\ Sound(i, j) /\ Shown(i, j) /\ i.gen # 0
      /\ i \in JobState
  BY DEF JobsInv, JobsPlaced, CheckLease, At, Typing, AtKey, Generations
<1>2. c \in Counters
  BY DEF Counters
<1>3. job' = [job EXCEPT ![j] = n]
  BY JobGoesMoves DEF CheckLease
<1>4. c \in {"swap", "retire"} /\ (c = "swap" => MaySet(i)) /\ (c = "retire" => ~MaySet(i))
  OBVIOUS
<1> HIDE DEF c
<1>5. /\ Placed(n, j) /\ n.pc = c /\ n.gen = i.gen /\ n.stroke = i.stroke
      /\ n.step = i.step /\ n.cur = i.cur /\ Op(n, j) = Op(i, j)
  BY <1>2, CounterPlaced
<1> HIDE DEF n
<1>6. SameWords /\ GameTyped' /\ lease' = lease
  BY GameUntouched DEF CheckLease, SameWords, JobsInv, WordsTyped
<1>7. Moves(j, n) /\ Follows(j, n)
  BY <1>1, <1>3, <1>4, <1>5 DEF Moves, Follows
<1>8. Sound(n, j)
  BY <1>1, <1>4, <1>5 DEF Sound, Typing, AtKey, MaySet
<1>9. Shown(n, j)
  <2>1. CASE c = "swap"
    <3>1. Done(n) = Done(i)
      BY <2>1, <1>1, <1>5 DEF Done
    <3>2. Holds(n, j) = Holds(i, j)
      BY <3>1, <1>5, SameHolds
    <3> QED BY <3>2, <1>1, <1>5 DEF Shown
  <2>2. CASE c = "retire"
    BY <2>2, <1>5 DEF Shown, Typing
  <2> QED BY <2>1, <2>2, <1>4
<1>10. c = "retire" => i.gen < generation
  <2> SUFFICES ASSUME c = "retire" PROVE i.gen < generation
    OBVIOUS
  <2>1. ~(lease.gen = i.gen /\ i.cur.gen <= i.gen)
    BY <1>4 DEF MaySet
  <2>2. i.cur.gen <= generation /\ i.gen \in Nat /\ i.cur.gen \in Nat /\ generation \in Nat
    BY <1>1 DEF JobsInv, Generations, JobState, Key, WordsTyped
  <2> QED BY <2>1, <2>2, <1>1 DEF Sound
<1> QED BY <1>5, <1>6, <1>7, <1>8, <1>9, <1>10, QuietMove

LEMMA RecheckLeaseStep ==
  ASSUME JobsInv, NEW j \in Job, RecheckLease(j)
  PROVE  StepSound
<1> DEFINE i == job[j]
           c == IF lease.gen = i.gen THEN "refresh" ELSE "retire"
           n == [i EXCEPT !.pc = c]
<1>1. /\ i.pc = "recheck" /\ Typing(i) /\ AtKey(i) /\ Sound(i, j) /\ Shown(i, j) /\ i.gen # 0
      /\ i \in JobState
  BY DEF JobsInv, JobsPlaced, RecheckLease, At, Typing, AtKey, Generations
<1>2. c \in Counters
  BY DEF Counters
<1>3. job' = [job EXCEPT ![j] = n]
  BY JobGoesMoves DEF RecheckLease
<1>4. /\ c \in {"refresh", "retire"}
      /\ c = "refresh" => lease.gen = i.gen
      /\ c = "retire" => lease.gen # i.gen
  OBVIOUS
<1> HIDE DEF c
<1>5. /\ Placed(n, j) /\ n.pc = c /\ n.gen = i.gen /\ n.stroke = i.stroke
      /\ n.step = i.step /\ n.cur = i.cur /\ Op(n, j) = Op(i, j)
  BY <1>2, CounterPlaced
<1> HIDE DEF n
<1>6. SameWords /\ GameTyped' /\ lease' = lease
  BY GameUntouched DEF RecheckLease, SameWords, JobsInv, WordsTyped
<1>7. Moves(j, n) /\ Follows(j, n)
  BY <1>1, <1>3, <1>4, <1>5 DEF Moves, Follows
<1>8. Sound(n, j)
  BY <1>1, <1>4, <1>5 DEF Sound, Typing, AtKey
<1>9. Shown(n, j)
  <2>1. CASE c = "refresh"
    <3>1. Done(n) = Done(i)
      BY <2>1, <1>1, <1>5 DEF Done
    <3>2. Holds(n, j) = Holds(i, j)
      BY <3>1, <1>5, SameHolds
    <3> QED BY <3>2, <1>1, <1>5 DEF Shown
  <2>2. CASE c = "retire"
    BY <2>2, <1>5 DEF Shown, Typing
  <2> QED BY <2>1, <2>2, <1>4
<1>10. c = "retire" => i.gen < generation
  BY <1>1, <1>4 DEF Sound
<1> QED BY <1>5, <1>6, <1>7, <1>8, <1>9, <1>10, QuietMove

\* The compare-and-swap succeeds: the key is the owner's, or the owner's keys
\* stay what they are.
LEMMA SwapTakesStep ==
  ASSUME JobsInv, NEW j \in Job, SwapKey(j), SwapSucceeds(job[j], Op(job[j], j).key)
  PROVE  StepSound
<1> DEFINE i == job[j]
           n == [i EXCEPT !.pc = "recheck"]
<1>1. /\ Placed(i, j) /\ i \in JobState /\ i.pc = "swap" /\ Typing(i) /\ AtKey(i)
      /\ Sound(i, j) /\ Shown(i, j) /\ i.gen # 0 /\ Op(i, j) # Sleep
  BY DEF JobsInv, JobsPlaced, SwapKey, At, Typing, AtKey, Generations, Sound
<1>2. PICK k \in TypedScan, d \in BOOLEAN : Op(i, j) = Set(k, d)
  BY <1>1, OpIsSet
<1>3. (Op(i, j).key = k) /\ (Op(i, j).down = d)
  BY <1>2 DEF Set
<1> DEFINE p == PressScancode(Strokes[j][i.stroke])
<1>4. i.step \in Nat \ {0} /\ p[i.step] = Set(k, d)
  BY <1>1, <1>2, OpIsSet
<1> DEFINE w == [gen |-> i.gen, down |-> d]
<1>5. /\ akeys' = [akeys EXCEPT ![k] = w] /\ akeys[k] = i.cur /\ job' = [job EXCEPT ![j] = n]
      /\ UNCHANGED <<generation, lease, dead, jobRd, readVars>>
  BY <1>3 DEF SwapKey, SwapSucceeds
<1>6. w \in Key /\ w.gen = i.gen /\ (w.down = d)
  BY <1>1 DEF Key, JobState
<1> HIDE DEF w
<1>7. /\ Placed(n, j) /\ n.pc = "recheck" /\ n.gen = i.gen /\ n.stroke = i.stroke
      /\ n.step = i.step /\ n.cur = i.cur /\ Op(n, j) = Op(i, j)
  BY CounterPlaced DEF Counters
<1> HIDE DEF n
<1>8. Moves(j, n)
  BY <1>5, <1>7 DEF Moves
<1>9. JobsPlaced' /\ job'[j] = n /\ \A a \in Job : a # j => job'[a] = job[a]
  BY <1>8, OneMoves
<1>10. /\ akeys' \in [TypedScan -> Key] /\ akeys'[k] = w
       /\ \A c \in TypedScan : c # k => akeys'[c] = akeys[c]
  BY <1>5, <1>6 DEF JobsInv, WordsTyped
<1>11. WordsTyped' /\ GameTyped'
  BY <1>5, <1>10, GameUntouched DEF JobsInv, WordsTyped
<1>t. /\ lease.gen \in Nat /\ generation \in Nat /\ \A c \in TypedScan : akeys[c].gen \in Nat
      /\ \A a \in Job : job[a].gen \in Nat /\ job[a].cur.gen \in Nat
  BY DEF JobsInv, WordsTyped, JobsPlaced, JobState, Key
<1>12. \A a \in Job : job'[a].cur = job[a].cur /\ job'[a].gen = job[a].gen
  BY <1>7, <1>9
<1>13. Generations'
  <2>1. \A a \in Job : job'[a].pc \notin {"wait", "done"} => job[a].pc \notin {"wait", "done"}
    BY <1>1, <1>9
  <2>2. \A c \in TypedScan : akeys'[c].gen <= generation
    BY <1>6, <1>10 DEF JobsInv, Generations
  <2> QED BY <2>1, <2>2, <1>5, <1>12 DEF JobsInv, Generations
<1>14. ASSUME NEW a \in Job, job[a].pc = "begin" PROVE Unseen(job[a].gen)'
  <2>1. Unseen(job[a].gen) /\ a # j /\ job[a].gen # i.gen
    BY <1>1, <1>14 DEF JobsInv, Sound, Generations
  <2>2. job'[a] = job[a]
    BY <2>1, <1>9
  <2> QED BY <2>1, <2>2, <1>5, <1>6, <1>10, <1>12 DEF Unseen
\* The owner's view.
<1>15. lease.gen # i.gen => Visible' = Visible
  <2> SUFFICES ASSUME lease.gen # i.gen PROVE Visible' = Visible
    OBVIOUS
  <2>1. lease.gen = 0 \/ akeys[k].gen # lease.gen
    BY <1>1, <1>5 DEF Sound
  <2>2. \A c \in TypedScan : lease.gen # 0 =>
          (akeys'[c] = [gen |-> lease.gen, down |-> TRUE]
           <=> akeys[c] = [gen |-> lease.gen, down |-> TRUE])
    <3> SUFFICES ASSUME NEW c \in TypedScan, lease.gen # 0
                 PROVE  akeys'[c] = [gen |-> lease.gen, down |-> TRUE]
                        <=> akeys[c] = [gen |-> lease.gen, down |-> TRUE]
      OBVIOUS
    <3>1. CASE c = k
      BY <3>1, <2>1, <1>6, <1>10
    <3>2. CASE c # k
      BY <3>2, <1>10
    <3> QED BY <3>1, <3>2
  <2> QED BY <2>2, <1>5 DEF Visible
<1>16. lease.gen = i.gen => Visible' = Holds(n, j)
  <2> SUFFICES ASSUME lease.gen = i.gen PROVE Visible' = Holds(n, j)
    OBVIOUS
  <2>1. Visible = Pressed(p, i.step - 1)
    BY <1>1, <1>4 DEF Shown, Holds, Done
  <2>2. Holds(n, j) = Pressed(p, i.step)
    BY <1>4, <1>7 DEF Holds, Done
  <2>3. CASE d = TRUE
    <3>1. Pressed(p, i.step) = Pressed(p, i.step - 1) \cup {k}
      <4>1. p[i.step] = Set(k, TRUE) /\ i.step \in Nat \ {0}
        BY <2>3, <1>4
      <4> DEFINE m == i.step
      <4>2. k \in TypedScan /\ m \in Nat \ {0} /\ Presses(p, m, k)
        BY <1>2, <4>1 DEF Presses
      <4> HIDE DEF p, m
      <4>3. Pressed(p, m) = Pressed(p, m - 1) \cup {k}
        BY ONLY <4>2, PressedDown
      <4> QED BY <4>3 DEF m
    <3>2. w = [gen |-> lease.gen, down |-> TRUE]
      BY <2>3 DEF w
    <3>3. Visible' = Visible \cup {k}
      BY <3>2, <1>1, <1>5, <1>10 DEF Visible
    <3> QED BY <3>1, <3>3, <2>1, <2>2
  <2>4. CASE d = FALSE
    <3>1. Pressed(p, i.step) = Pressed(p, i.step - 1) \ {k}
      <4>1. p[i.step] = Set(k, FALSE) /\ i.step \in Nat \ {0}
        BY <2>4, <1>4
      <4> DEFINE m == i.step
      <4>2. k \in TypedScan /\ m \in Nat \ {0} /\ Lifts(p, m, k)
        BY <1>2, <4>1 DEF Lifts
      <4> HIDE DEF p, m
      <4>3. Pressed(p, m) = Pressed(p, m - 1) \ {k}
        BY ONLY <4>2, PressedUp
      <4> QED BY <4>3 DEF m
    <3>2. w # [gen |-> lease.gen, down |-> TRUE]
      <4>1. w.down # [gen |-> lease.gen, down |-> TRUE].down
        BY <2>4 DEF w
      <4> QED BY <4>1
    <3>3. Visible' = Visible \ {k}
      BY <3>2, <1>1, <1>5, <1>10 DEF Visible
    <3> QED BY <3>1, <3>3, <2>1, <2>2
  <2> QED BY <2>3, <2>4
<1>17. ASSUME NEW a \in Job PROVE Sound(job[a], a)' /\ Shown(job[a], a)'
  <2>1. CASE a = j
    <3>1. Sound(job[j], j)'
      BY <1>1, <1>5, <1>7, <1>9 DEF Sound, AtKey, Typing
    <3>2. Shown(job[j], j)'
      BY <1>5, <1>7, <1>9, <1>16 DEF Shown
    <3> QED BY <2>1, <3>1, <3>2
  <2>2. CASE a # j
    <3>1. Sound(job[a], a) /\ Shown(job[a], a) /\ job'[a] = job[a]
      BY <2>2, <1>9 DEF JobsInv
    <3>2. Sound(job[a], a)'
      BY <3>1, <1>5, <1>14 DEF Sound
    <3>3. Shown(job[a], a)'
      <4>1. Typing(job[a]) => job[a].gen # i.gen
        BY <1>1, <2>2 DEF JobsInv, Generations
      <4> QED BY <3>1, <4>1, <1>5, <1>15 DEF Shown
    <3> QED BY <3>2, <3>3
  <2> QED BY <2>1, <2>2
<1>18. HarmlessStep
  <2> SUFFICES ASSUME NEW a \in Job, job'[a] # job[a], job[a].gen \in 1..(lease.gen - 1)
               PROVE  Visible' = Visible
    BY <1>5 DEF HarmlessStep
  <2>1. a = j
    BY <1>9
  <2> QED BY <2>1, <1>t, <1>15
<1>19. StampStep
  <2>1. akeys[k].gen <= i.gen
    BY <1>1, <1>5 DEF Sound
  <2> QED BY <2>1, <1>6, <1>10, <1>t DEF StampStep
<1>20. StopStep
  <2>1. \A a \in Job : job'[a].pc = "retire" => job[a].pc = "retire"
    BY <1>7, <1>9
  <2> QED BY <2>1 DEF StopStep
<1> QED BY <1>9, <1>11, <1>13, <1>17, <1>18, <1>19, <1>20 DEF StepSound, JobsInv

LEMMA SwapFailsStep ==
  ASSUME JobsInv, NEW j \in Job, SwapKey(j), ~SwapSucceeds(job[j], Op(job[j], j).key)
  PROVE  StepSound
<1> DEFINE i == job[j]
<1>1. /\ Placed(i, j) /\ i \in JobState /\ i.pc = "swap" /\ Typing(i) /\ AtKey(i)
      /\ Sound(i, j) /\ Shown(i, j) /\ i.gen # 0 /\ Op(i, j) # Sleep
  BY DEF JobsInv, JobsPlaced, SwapKey, At, Typing, AtKey, Generations, Sound
<1>2. PICK k \in TypedScan, d \in BOOLEAN : Op(i, j) = Set(k, d)
  BY <1>1, OpIsSet
<1>3. Op(i, j).key = k
  BY <1>2 DEF Set
<1> DEFINE w == akeys[k]
           n == [i EXCEPT !.pc = "check", !.cur = w]
<1>4. w \in Key
  BY DEF JobsInv, WordsTyped
<1>5. job' = [job EXCEPT ![j] = n] /\ UNCHANGED <<generation, akeys, lease, dead, jobRd, readVars>>
  BY <1>3 DEF SwapKey
<1> HIDE DEF w
<1>6. /\ n \in JobState /\ n.pc = "check" /\ n.gen = i.gen /\ n.stroke = i.stroke
      /\ n.step = i.step /\ n.cur = w
  BY <1>1, <1>4 DEF JobState, Counters
<1> HIDE DEF n
<1>7. Placed(n, j) /\ Op(n, j) = Op(i, j) /\ Done(n) = Done(i)
  BY <1>1, <1>6 DEF Placed, Op, Done
<1>8. SameWords /\ GameTyped' /\ lease' = lease
  BY <1>5, GameUntouched DEF SameWords, JobsInv, WordsTyped
<1>10. Moves(j, n) /\ Follows(j, n)
  BY <1>1, <1>5, <1>6, <1>7 DEF Moves, Follows, w
<1>11. Holds(n, j) = Holds(i, j)
  BY <1>6, <1>7, SameHolds
<1>12. Sound(n, j)
  BY <1>1, <1>6, <1>7 DEF Sound, Typing, AtKey
<1>13. Shown(n, j)
  BY <1>1, <1>6, <1>11 DEF Shown, Typing
<1> QED BY <1>6, <1>8, <1>10, <1>12, <1>13, QuietMove

\* The owner lets the lease go; an older job leaves it.
LEMMA RetireAutoTypeStep ==
  ASSUME JobsInv, NEW j \in Job, RetireAutoType(j)
  PROVE  StepSound
<1> DEFINE n == [job[j] EXCEPT !.pc = "done"]
           g == job[j].gen
<1>1. /\ Placed(n, j) /\ n.pc = "done" /\ n.gen = g /\ n.cur = job[j].cur
  BY CounterPlaced DEF Counters
<1>2. job' = [job EXCEPT ![j] = n] /\ job[j].pc = "retire"
      /\ UNCHANGED <<generation, akeys, dead, jobRd, readVars>>
  BY JobGoesMoves DEF RetireAutoType, At
<1> HIDE DEF n
<1>3. Moves(j, n)
  BY <1>1, <1>2 DEF Moves
<1>4. GameTyped'
  BY <1>2, GameUntouched
<1>5. CASE lease.gen # g
  <2>1. lease' = lease
    BY <1>5 DEF RetireAutoType, LeaseAfterRetire
  <2>2. SameWords
    BY <2>1, <1>2 DEF SameWords, JobsInv, WordsTyped
  <2>3. Follows(j, n)
    BY <1>1 DEF Follows
  <2>4. Sound(n, j) /\ Shown(n, j)
    BY <1>1 DEF Sound, Shown, AtKey, Typing
  <2> QED BY <2>1, <2>2, <2>3, <2>4, <1>2, <1>3, <1>4, QuietMove DEF Typing
<1>6. CASE lease.gen = g
  <2>1. lease' = NoLease
    BY <1>6 DEF RetireAutoType, LeaseAfterRetire
  <2> DEFINE no == FALSE
  <2>2. lease' = [gen |-> 0, fresh |-> no] /\ no \in BOOLEAN
    BY <2>1 DEF NoLease
  <2> HIDE DEF no
  <2>3. lease'.gen = 0 /\ WordsTyped'
    BY <2>2, <1>2 DEF JobsInv, WordsTyped
  <2>4. JobsPlaced' /\ job'[j] = n /\ \A i \in Job : i # j => job'[i] = job[i]
    BY <1>3, OneMoves
  <2>t. /\ lease.gen \in Nat /\ generation \in Nat /\ \A c \in TypedScan : akeys[c].gen \in Nat
        /\ \A a \in Job : job[a].gen \in Nat /\ job[a].cur.gen \in Nat
    BY DEF JobsInv, WordsTyped, JobsPlaced, JobState, Key
  <2>5. \A i \in Job : job'[i].cur = job[i].cur /\ job'[i].gen = job[i].gen
    BY <2>4, <1>1
  <2>6. Generations'
    <3>1. \A a \in Job : job'[a].pc \notin {"wait", "done"} => job[a].pc \notin {"wait", "done"}
      BY <2>4, <1>1
    <3> QED BY <3>1, <2>3, <2>5, <2>t, <1>2 DEF JobsInv, Generations
  <2>7. ASSUME NEW i \in Job PROVE Sound(job[i], i)' /\ Shown(job[i], i)'
    <3>1. CASE i = j
      BY <3>1, <2>4, <1>1 DEF Sound, Shown, AtKey, Typing
    <3>2. CASE i # j
      <4>1. Sound(job[i], i) /\ job'[i] = job[i]
        BY <3>2, <2>4 DEF JobsInv
      <4>2. job[i].pc \notin {"wait", "done"} => job[i].gen # 0 /\ job[i].gen # g
        BY <3>2 DEF JobsInv, Generations
      <4>3. job[i].pc = "begin" => Unseen(job[i].gen)'
        BY <4>1, <4>2, <2>3, <2>5, <1>2 DEF Sound, Unseen
      <4>4. Typing(job[i]) => job[i].gen < generation
        BY <4>1, <4>2, <1>6 DEF Sound, Typing
      <4>5. Sound(job[i], i)'
        BY <4>1, <4>3, <4>4, <2>3, <1>2 DEF Sound
      <4>6. Shown(job[i], i)'
        BY <4>1, <4>2, <2>3 DEF Shown, Typing
      <4> QED BY <4>5, <4>6
    <3> QED BY <3>1, <3>2
  <2>8. HarmlessStep
    <3> SUFFICES ASSUME NEW i \in Job, job'[i] # job[i], job[i].gen \in 1..(lease.gen - 1)
                 PROVE  FALSE
      BY DEF HarmlessStep
    <3>1. i = j
      BY <2>4
    <3> QED BY <3>1, <1>6, <2>t
  <2>9. StampStep
    BY <1>2, <2>t DEF StampStep
  <2>10. StopStep
    <3>1. \A a \in Job : job'[a].pc = "retire" => job[a].pc = "retire"
      BY <1>1, <2>4
    <3> QED BY <3>1 DEF StopStep
  <2> QED BY <2>3, <2>4, <2>6, <2>7, <2>8, <2>9, <2>10, <1>4 DEF StepSound, JobsInv
<1> QED BY <1>5, <1>6

----------------------------------------------------------------------------
(* The game, and time.                                                     *)

LEMMA KillJobStep ==
  ASSUME JobsInv, NEW j \in Job, KillJob(j)
  PROVE  StepSound
<1>1. SameWords /\ job' = job
  BY DEF KillJob, SameWords, JobsInv, WordsTyped
<1>2. GameTyped'
  BY DEF KillJob, JobsInv, GameTyped, readVars
<1> QED BY <1>1, <1>2, GameMove

LEMMA LeaseLapsesStep ==
  ASSUME JobsInv, LeaseLapses
  PROVE  StepSound
<1> DEFINE no == FALSE
<1>1. /\ lease' = [lease EXCEPT !.fresh = no] /\ no \in BOOLEAN
      /\ lease \in [gen : Nat, fresh : BOOLEAN]
      /\ UNCHANGED <<generation, akeys, job, dead, jobRd, readVars>>
  BY DEF LeaseLapses, JobsInv, WordsTyped
<1> HIDE DEF no
<1>2. SameWords /\ GameTyped'
  BY <1>1, GameUntouched DEF SameWords
<1> QED BY <1>1, <1>2, GameMove

LEMMA ObserveTypedTyped ==
  ASSUME JobsInv, NEW keys \in SUBSET TypedScan, ObserveTyped(keys), dead' = dead
  PROVE  GameTyped'
<1> DEFINE new == keys \ (jobObserved \cup {Shift})
           more == {[key |-> k, shift |-> ShiftSeen(k, keys)] : k \in new}
<1>1. new \subseteq TypedScan /\ \A k \in new : ShiftSeen(k, keys) \in BOOLEAN
  BY DEF ShiftSeen
<1>2. more \subseteq [key : TypedScan, shift : BOOLEAN]
  BY <1>1
<1>3. jobObserved' = keys /\ typed' = typed \cup more
  BY DEF ObserveTyped
<1> HIDE DEF more, new
<1>4. jobRd' = NoPoll
  BY DEF ObserveTyped
<1> DEFINE no == FALSE
<1>5. jobRd' = [pc |-> "idle", gen |-> 0, left |-> {}, keys |-> {}, ahead |-> no] /\ no \in BOOLEAN
  BY <1>4 DEF NoPoll
<1> HIDE DEF no
<1>6. jobRd' \in [pc : {"idle", "sampled", "keys"}, gen : Nat, left : SUBSET TypedScan,
                  keys : SUBSET TypedScan, ahead : BOOLEAN]
  BY <1>5
<1> QED BY <1>2, <1>3, <1>6 DEF JobsInv, GameTyped

LEMMA LeastOfNaturals ==
  ASSUME NEW S \in SUBSET Nat, S # {}
  PROVE  Min(S) \in S
<1>1. PICK x \in S : \A y \in S : ~ (<<y, x>> \in OpToRel(<, Nat))
  BY NatLessThanWellFounded, WFMin
<1>2. ASSUME NEW y \in S, y < x PROVE FALSE
  <2>1. <<y, x>> \in Nat \X Nat /\ <<y, x>>[1] = y /\ <<y, x>>[2] = x
    OBVIOUS
  <2>2. <<y, x>> \in OpToRel(<, Nat)
    BY <2>1, <1>2, Zenon DEF OpToRel
  <2> QED BY <2>2, <1>1
<1>3. \A y \in S : x <= y
  BY <1>2
<1> QED BY <1>3 DEF Min

LEMMA PollStep ==
  ASSUME JobsInv, TypedPoll
  PROVE  StepSound
<1> DEFINE Poll == [pc : {"idle", "sampled", "keys"}, gen : Nat, left : SUBSET TypedScan,
                    keys : SUBSET TypedScan, ahead : BOOLEAN]
<1>1. jobRd \in Poll /\ lease.gen \in Nat
  BY DEF JobsInv, GameTyped, WordsTyped
<1>2. UNCHANGED <<generation, lease, akeys, job, dead>>
  BY DEF TypedPoll, SampleTime, LoadLease, ReadKey, EndRead
<1>3. SameWords
  BY <1>2 DEF SameWords, JobsInv, WordsTyped
<1>4. GameTyped'
  <2>1. CASE SampleTime
    <3>1. jobRd' \in Poll /\ UNCHANGED readVars
      BY <2>1, <1>1 DEF SampleTime
    <3> QED BY <3>1, <1>2 DEF JobsInv, GameTyped, readVars
  <2>2. CASE LoadLease /\ LeaseIsFresh
    <3>1. jobRd' \in Poll /\ UNCHANGED readVars
      BY <2>2, <1>1 DEF LoadLease
    <3> QED BY <3>1, <1>2 DEF JobsInv, GameTyped, readVars
  <2>3. CASE LoadLease /\ ~LeaseIsFresh
    BY <2>3, <1>2, ObserveTypedTyped DEF LoadLease
  <2>4. CASE ReadKey
    <3> DEFINE k == Min(jobRd.left)
               keys == IF akeys[k] = [gen |-> jobRd.gen, down |-> TRUE]
                       THEN jobRd.keys \cup {k} ELSE jobRd.keys
               left == jobRd.left \ {k}
    <3>1. k \in TypedScan
      BY <2>4, <1>1, LeastOfNaturals, TypedScanAssumption DEF ReadKey
    <3>2. keys \in SUBSET TypedScan /\ left \in SUBSET TypedScan
      BY <3>1, <1>1
    <3>3. jobRd' = [jobRd EXCEPT !.left = left, !.keys = keys] /\ UNCHANGED readVars
      BY <2>4 DEF ReadKey
    <3> HIDE DEF keys, left
    <3>4. jobRd' \in Poll
      BY <3>2, <3>3, <1>1
    <3> QED BY <3>3, <3>4, <1>2 DEF JobsInv, GameTyped, readVars
  <2>5. CASE EndRead
    <3>1. Snapshot \in SUBSET TypedScan
      BY <1>1 DEF Snapshot
    <3> QED BY <2>5, <3>1, <1>2, ObserveTypedTyped DEF EndRead
  <2> QED BY <2>1, <2>2, <2>3, <2>4, <2>5 DEF TypedPoll
<1> QED BY <1>2, <1>3, <1>4, GameMove

----------------------------------------------------------------------------

LEMMA InitJobsInv == JobsInit => JobsInv
<1> SUFFICES ASSUME JobsInit PROVE JobsInv
  OBVIOUS
<1> DEFINE no == FALSE
           w == [gen |-> 0, down |-> no]
           i == [pc |-> "wait", gen |-> 0, stroke |-> 1, step |-> 0, cur |-> w]
<1>1. /\ no \in BOOLEAN /\ generation = 0 /\ lease = [gen |-> 0, fresh |-> no]
      /\ akeys = [k \in TypedScan |-> w] /\ job = [j \in Job |-> i] /\ dead = {}
      /\ jobRd = [pc |-> "idle", gen |-> 0, left |-> {}, keys |-> {}, ahead |-> no]
      /\ jobObserved = {} /\ typed = {}
  BY DEF JobsInit, NoLease, NoPoll
<1> HIDE DEF no
<1>2. w \in Key /\ w.gen = 0
  BY <1>1 DEF Key
<1> HIDE DEF w
<1>3. i \in JobState /\ i.pc = "wait" /\ i.gen = 0 /\ i.stroke = 1 /\ i.step = 0 /\ i.cur = w
  BY <1>2 DEF JobState, Counters
<1> HIDE DEF i
<1>4. WordsTyped
  BY <1>1, <1>2 DEF WordsTyped
<1>5. GameTyped
  BY <1>1 DEF GameTyped
<1>6. JobsPlaced
  <2>1. ASSUME NEW j \in Job PROVE Placed(i, j)
    <3>1. Strokes[j] \in Seq(Stroke) /\ Strokes[j] # <<>>
      BY StrokesAssumption DEF Stroke
    <3>2. 1 \in DOMAIN Strokes[j] /\ Strokes[j][1] \in Stroke
      BY <3>1
    <3>3. Len(PressScancode(Strokes[j][1])) \in Nat \ {0}
      BY <3>2, StrokeShape
    <3> QED BY <3>2, <3>3, <1>3 DEF Placed
  <2> QED BY <2>1, <1>1, <1>3 DEF JobsPlaced
<1>7. Generations
  BY <1>1, <1>2, <1>3 DEF Generations
<1>8. ASSUME NEW j \in Job PROVE Sound(job[j], j) /\ Shown(job[j], j)
  <2>1. job[j] = i
    BY <1>1
  <2> QED BY <2>1, <1>3 DEF Sound, Shown, Typing, AtKey
<1> QED BY <1>4, <1>5, <1>6, <1>7, <1>8 DEF JobsInv

LEMMA JobsInvSound == JobsInv => JobsTypeOK /\ OwnersKeysVisible
<1> SUFFICES ASSUME JobsInv PROVE JobsTypeOK /\ OwnersKeysVisible
  OBVIOUS
<1>1. JobsTypeOK
  <2>1. \A j \in Job : /\ job[j].stroke \in DOMAIN Strokes[j]
                       /\ job[j].step \in 0..Len(PressScancode(Strokes[j][job[j].stroke]))
    BY DEF JobsInv, JobsPlaced, Placed
  <2> QED BY <2>1 DEF JobsTypeOK, JobsInv, WordsTyped, JobsPlaced, GameTyped, JobState, Counters
<1>2. OwnersKeysVisible
  <2> SUFFICES ASSUME NEW j \in Job, Typing(job[j]), job[j].gen = lease.gen
               PROVE  Visible = HeldBy(j)
    BY DEF OwnersKeysVisible, Typing
  <2>1. Visible = Holds(job[j], j)
    BY DEF JobsInv, Shown
  <2> QED BY <2>1 DEF Holds, Pressed, HeldBy
<1> QED BY <1>1, <1>2

LEMMA NextJobsInv == JobsInv /\ [JobsNext]_jobVars => StepSound
<1> SUFFICES ASSUME JobsInv, [JobsNext]_jobVars PROVE StepSound
  OBVIOUS
<1>1. ASSUME NEW j \in Job, JobStep(j) \/ GiveUp(j) \/ SleepOn(j) \/ KillJob(j)
      PROVE  StepSound
  <2>1. CASE SwapKey(j)
    BY <2>1, SwapTakesStep, SwapFailsStep
  <2>2. CASE TakeGeneration(j) \/ BeginAutoType(j) \/ WakeUp(j) \/ LoadWord(j)
    BY <2>2, TakeGenerationStep, BeginAutoTypeStep, WakeUpStep, LoadWordStep
  <2>3. CASE CheckLease(j) \/ RecheckLease(j) \/ RefreshAfterSet(j) \/ RetireAutoType(j)
    BY <2>3, CheckLeaseStep, RecheckLeaseStep, RefreshAfterSetStep, RetireAutoTypeStep
  <2>4. CASE GiveUp(j) \/ SleepOn(j) \/ KillJob(j)
    BY <2>4, GiveUpStep, SleepOnStep, KillJobStep
  <2> QED BY <1>1, <2>1, <2>2, <2>3, <2>4 DEF JobStep
<1>2. CASE LeaseLapses
  BY <1>2, LeaseLapsesStep
<1>3. CASE TypedPoll
  BY <1>3, PollStep
<1>4. CASE UNCHANGED jobVars
  <2>1. SameWords /\ GameTyped' /\ job' = job
    BY <1>4, GameUntouched DEF jobVars, SameWords, JobsInv, WordsTyped, readVars
  <2> QED BY <2>1, GameMove
<1> QED BY <1>1, <1>2, <1>3, <1>4 DEF JobsNext

\* However many auto-type jobs overlap, and however late or dead they are, the
\* buffer shows what the newest owner has down, no older job changes that or
\* takes the lease, no key goes back to an older owner, and no live job stops
\* early unless a newer one has started.
THEOREM AutoTypeAlwaysSound == JobsSpec => AutoTypeSound
<1>1. StepSound => JobsInv' /\ HarmlessStep /\ StampStep /\ StopStep
  BY DEF StepSound
<1>2. JobsInv /\ [JobsNext]_jobVars => JobsInv'
  BY <1>1, NextJobsInv
<1>3. JobsInv /\ [JobsNext]_jobVars => [HarmlessStep]_jobVars
  BY <1>1, NextJobsInv
<1>4. JobsInv /\ [JobsNext]_jobVars => [StampStep]_jobVars
  BY <1>1, NextJobsInv
<1>5. JobsInv /\ [JobsNext]_jobVars => [StopStep]_jobVars
  BY <1>1, NextJobsInv
<1>6. JobsSpec => [](JobsTypeOK /\ OwnersKeysVisible)
  BY <1>2, InitJobsInv, JobsInvSound, PTL DEF JobsSpec
<1>7. JobsSpec => OldJobsHarmless
  BY <1>2, <1>3, InitJobsInv, PTL DEF JobsSpec, OldJobsHarmless, HarmlessStep
<1>8. JobsSpec => StampsNeverFall
  BY <1>2, <1>4, InitJobsInv, PTL DEF JobsSpec, StampsNeverFall, StampStep
<1>9. JobsSpec => StopsOnlyIfSuperseded
  BY <1>2, <1>5, InitJobsInv, PTL DEF JobsSpec, StopsOnlyIfSuperseded, StopStep
<1> QED BY <1>6, <1>7, <1>8, <1>9 DEF AutoTypeSound, JobStepsSound
=============================================================================
