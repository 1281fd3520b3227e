------------------------- MODULE CharacterIdentity -------------------------
(***************************************************************************)
(* The identity of a game's character, which the proxy DLL learns from the *)
(* log file the game opens and publishes in shared memory (trusik/shm.rs)  *)
(* and Stonemite reads (trusik_shm.rs).  A field is torn while it is       *)
(* written: a reader then sees neither the old nor the new value.          *)
(***************************************************************************)
EXTENDS Integers, FiniteSets

CONSTANTS Identity,      \* <<character, server>> pairs found in log file names
          MaxAttempts,   \* tries of one read
          MaxLogins      \* bound: log files opened

Torn  == "torn"
Empty == ""

ASSUME IdentityBounds ==
  /\ MaxAttempts \in Nat \ {0} /\ MaxLogins \in Nat /\ IsFiniteSet(Identity)
  /\ \A i \in Identity : i = <<i[1], i[2]>> /\ {i[1], i[2]} \cap {Torn, Empty} = {}

VARIABLES info,     \* CharacterInfo: [generation, character, server]
          writer,   \* publish_identity: the identity still to store, and how far it is
          reader,   \* read_versioned_identity
          readBack, \* what read_character returned last
          logins

idVars == <<info, writer, reader, readBack, logins>>

NoWrite == [at |-> "idle", identity |-> <<Empty, Empty>>]
NoRead  == [at |-> "idle", before |-> 0, character |-> Empty, server |-> Empty, tries |-> 0]

\* hooked_create_file_w, write_character under its lock, up to the odd generation; an
\* identity that is already published changes nothing.
OpenLogFile(i) ==
  /\ writer = NoWrite /\ logins < MaxLogins /\ i # <<info.character, info.server>>
  /\ logins' = logins + 1
  /\ writer' = [at |-> "character", identity |-> i]
  /\ info' = [info EXCEPT !.generation = @ + 1]
  /\ UNCHANGED <<reader, readBack>>

\* A field is filled with zeros, then overwritten.
StoreField(name, value, next) ==
  /\ writer.at = name
  /\ \/ info[name] # Torn /\ info' = [info EXCEPT ![name] = Torn] /\ UNCHANGED writer
     \/ info[name] = Torn /\ info' = [info EXCEPT ![name] = value]
                          /\ writer' = [writer EXCEPT !.at = next]
  /\ UNCHANGED <<reader, readBack, logins>>
StoreCharacter == StoreField("character", writer.identity[1], "server")
StoreServer    == StoreField("server", writer.identity[2], "end")

EndPublish ==
  /\ writer.at = "end"
  /\ info' = [info EXCEPT !.generation = @ + 1]
  /\ writer' = NoWrite
  /\ UNCHANGED <<reader, readBack, logins>>

Odd(g) == g % 2 = 1

\* After the last try the read answers None.
Retried ==
  IF reader.tries + 1 >= MaxAttempts THEN NoRead
  ELSE [NoRead EXCEPT !.at = "generation", !.tries = reader.tries + 1]

ReadCharacter ==
  /\ reader.at = "idle"
  /\ reader' = [NoRead EXCEPT !.at = "generation"]
  /\ UNCHANGED <<info, writer, readBack, logins>>

ReadGeneration ==
  /\ reader.at = "generation"
  /\ reader' = IF Odd(info.generation) THEN Retried
               ELSE [reader EXCEPT !.at = "character", !.before = info.generation]
  /\ UNCHANGED <<info, writer, readBack, logins>>

ReadField(name, next) ==
  /\ reader.at = name
  /\ reader' = [reader EXCEPT !.at = next, ![name] = info[name]]
  /\ UNCHANGED <<info, writer, readBack, logins>>

\* Mutant: only a write still under way is noticed, not one that began and ended.
SameGenerationEven(before) == ~Odd(info.generation)

SameGeneration(before) == info.generation = before /\ ~Odd(info.generation)

\* Mutant: an identity that was read once is kept.
AcceptIdentityOnce ==
  /\ reader.at = "after"
  /\ IF SameGeneration(reader.before)
     THEN /\ reader' = NoRead
          /\ readBack' = IF reader.character = Empty \/ readBack # <<Empty, Empty>>
                         THEN readBack ELSE <<reader.character, reader.server>>
     ELSE reader' = Retried /\ UNCHANGED readBack
  /\ UNCHANGED <<info, writer, logins>>

AcceptIdentity ==
  /\ reader.at = "after"
  /\ IF SameGeneration(reader.before)
     THEN /\ reader' = NoRead
          /\ readBack' = IF reader.character = Empty THEN readBack
                         ELSE <<reader.character, reader.server>>
     ELSE reader' = Retried /\ UNCHANGED readBack
  /\ UNCHANGED <<info, writer, logins>>

IdInit ==
  /\ info = [generation |-> 0, character |-> Empty, server |-> Empty]
  /\ writer = NoWrite /\ reader = NoRead /\ readBack = <<Empty, Empty>> /\ logins = 0

WriterStep == StoreCharacter \/ StoreServer \/ EndPublish
ReaderStep ==
  \/ ReadCharacter \/ ReadGeneration
  \/ ReadField("character", "server") \/ ReadField("server", "after")
  \/ AcceptIdentity

IdNext == WriterStep \/ ReaderStep \/ \E i \in Identity : OpenLogFile(i)

IdSpec == IdInit /\ [][IdNext]_idVars

-----------------------------------------------------------------------------

\* Stonemite pairs a name only with the server it was published with: no tear of a
\* field and no mix of two logins gets through the generation (trusik_shm.rs:77-94).
IdentityWhole == readBack \in Identity \cup {<<Empty, Empty>>}

\* Reading again finds the identity published last, although tries may all fail while
\* a login is being written.
IdentityArrives == <>[](readBack = <<info.character, info.server>>)
=============================================================================
