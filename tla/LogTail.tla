------------------------------- MODULE LogTail -------------------------------
(***************************************************************************)
(* The byte-offset tailer of one EverQuest log (log_watcher/tailer.rs):    *)
(* the game appends to the file, truncates it or replaces it at any time,  *)
(* the worker reads it in bounded pieces, and complete lines leave with a  *)
(* generation and a sequence number.                                       *)
(*                                                                         *)
(* A byte is [nl, at]: whether it ends a line, and a serial number that is *)
(* never given twice.  Comparing bytes compares the serials, which assumes *)
(* that two different contents differ in the 64 bytes before an offset     *)
(* (every line of the game starts with its time).  The serials also let    *)
(* the properties speak of lines the code cannot tell apart.               *)
(***************************************************************************)
EXTENDS Integers, FiniteSets, Sequences, SequencesExt

CONSTANTS MaxLine,     \* MAX_LINE_BYTES
          SigBytes,    \* SIGNATURE_BYTES
          ChunkBytes,  \* READ_CHUNK_BYTES
          BudgetBytes, BudgetRecords,   \* ReadBudget
          FileId,      \* identities the file can belong to
          MaxBytes,    \* bound: bytes the game writes
          MaxFileFaults    \* bound: truncations, replacements, reassociations

ASSUME LogTailBounds ==
  /\ {MaxLine, SigBytes, ChunkBytes, BudgetBytes, BudgetRecords} \subseteq Nat \ {0}
  /\ MaxBytes \in Nat /\ MaxFileFaults \in Nat /\ FileId # {}

VARIABLES disk,      \* the file at the path: [exists, id, bytes]
          opened,    \* the file a read holds open, as it was until it was emptied
          refill,    \* what that file holds since it was emptied under the read
          written,   \* serial of the last byte written
          fileFaults,
          tail,      \* FileState, or Untracked
          budget,    \* [bytes, records] left to a read, or NotReading
          last,      \* the last record handed to the pipeline
          crossed    \* history: a read went on in a file emptied under it, unnoticed so far

tailVars == <<disk, opened, refill, written, fileFaults, tail, budget, last, crossed>>

NotReading == [bytes |-> -1, records |-> -1]
Untracked  == [tracked |-> FALSE]
reading    == budget # NotReading
Intact     == [emptied |-> FALSE, bytes |-> <<>>]
NoRecord   == [gen |-> 0, seq |-> -1, first |-> 0, end |-> 0]

Absent(s, g) ==
  [tracked |-> TRUE, source |-> s, initialized |-> FALSE, id |-> 0, offset |-> 0,
   pending |-> <<>>, discard |-> FALSE, sig |-> <<>>, gen |-> g, seq |-> 0]

Suffix(s, n) == SubSeq(s, IF Len(s) > n THEN Len(s) - n + 1 ELSE 1, Len(s))

-----------------------------------------------------------------------------
(* The game *)

Write(nl) ==
  /\ disk.exists /\ written < MaxBytes
  /\ written' = written + 1
  /\ disk' = [disk EXCEPT !.bytes = Append(@, [nl |-> nl, at |-> written + 1])]
  /\ opened' = IF opened.id = disk.id /\ ~refill.emptied THEN disk' ELSE opened
  /\ refill' = IF opened.id = disk.id /\ refill.emptied
               THEN [refill EXCEPT !.bytes = disk'.bytes] ELSE refill
  /\ UNCHANGED <<fileFaults, tail, budget, last, crossed>>

Fault ==
  /\ fileFaults < MaxFileFaults /\ fileFaults' = fileFaults + 1
  /\ UNCHANGED <<opened, written, tail, budget, last, crossed>>

\* The file is emptied in place, or goes away and comes back as another file; what is
\* written next may reach past the old offset.  A read that holds the file open goes on
\* in what is written next, a read of a file that went away does not.
Truncate ==
  /\ disk.exists /\ disk.bytes # <<>>
  /\ disk' = [disk EXCEPT !.bytes = <<>>]
  /\ refill' = IF opened.id = disk.id THEN [emptied |-> TRUE, bytes |-> <<>>] ELSE refill
  /\ Fault

Delete ==
  /\ disk.exists
  /\ disk' = [disk EXCEPT !.exists = FALSE] /\ UNCHANGED refill /\ Fault

Recreate ==
  /\ ~disk.exists
  /\ disk' = [exists |-> TRUE, id |-> disk.id + 1, bytes |-> <<>>]
  /\ UNCHANGED <<opened, refill, written, fileFaults, tail, budget, last, crossed>>

-----------------------------------------------------------------------------
(* LogTailer::sync_sources *)


\* initialize_at_end.  A file that ends inside a line is entered at its next line.
AtEnd(t) ==
  [t EXCEPT !.initialized = TRUE, !.id = disk.id, !.offset = Len(disk.bytes),
            !.pending = <<>>, !.sig = Suffix(disk.bytes, SigBytes),
            !.discard = disk.bytes # <<>> /\ ~Last(disk.bytes).nl]

Track(s) ==
  /\ ~tail.tracked
  /\ tail' = IF disk.exists THEN AtEnd(Absent(s, 0)) ELSE Absent(s, 0)
  /\ last' = NoRecord /\ crossed' = FALSE
  /\ UNCHANGED <<disk, opened, refill, written, fileFaults, budget>>

Untrack ==
  /\ tail.tracked /\ ~reading
  /\ tail' = Untracked
  /\ disk' = disk /\ fileFaults < MaxFileFaults /\ fileFaults' = fileFaults + 1
  /\ UNCHANGED <<opened, refill, written, budget, last, crossed>>

\* advance_generation.
NextGeneration(t) == [t EXCEPT !.gen = @ + 1, !.seq = 0]

\* The file now belongs to another character: a line begun under the old name is
\* given up.
Reassociate(s) ==
  /\ tail.tracked /\ ~reading /\ s # tail.source /\ fileFaults < MaxFileFaults
  /\ tail' = LET t == NextGeneration([tail EXCEPT !.source = s])
             IN IF t.pending # <<>> \/ t.discard
                THEN [t EXCEPT !.pending = <<>>, !.discard = TRUE] ELSE t
  /\ fileFaults' = fileFaults + 1
  /\ UNCHANGED <<disk, opened, refill, written, budget, last, crossed>>

-----------------------------------------------------------------------------
(* read_file *)

LineEnds(t) == {i \in DOMAIN t.pending : t.pending[i].nl}
FirstEnd(t) == CHOOSE i \in LineEnds(t) : \A j \in LineEnds(t) : i <= j
LineLen(t)  == FirstEnd(t) - 1
DropBytes(t, n)  == [t EXCEPT !.pending = SubSeq(@, n + 1, Len(@))]

\* A record too long is dropped and opens a new generation; one that has no end
\* yet is dropped up to its end.
Oversized(t) == LineEnds(t) # {} /\ LineLen(t) > MaxLine
Endless(t)   == LineEnds(t) = {} /\ Len(t.pending) > MaxLine

\* File::open and metadata, then the three ways to notice that the file is not the
\* one read before.
Changed ==
  \/ tail.id # disk.id
  \/ Len(disk.bytes) < tail.offset
  \/ /\ tail.sig # <<>>
     /\ SubSeq(disk.bytes, tail.offset - Len(tail.sig) + 1, tail.offset) # tail.sig

\* reset_generation.
FromByteZero(t) ==
  NextGeneration([t EXCEPT !.id = disk.id, !.offset = 0, !.pending = <<>>,
                           !.discard = FALSE, !.sig = <<>>])

\* A reader that starts over is told so, and forgets what it was given before.
BeginRead ==
  /\ tail.tracked /\ ~reading /\ disk.exists
  /\ IF ~tail.initialized
     THEN tail' = AtEnd(tail) /\ UNCHANGED <<budget, opened, refill, last, crossed>>
     ELSE /\ tail' = IF Changed THEN FromByteZero(tail) ELSE tail
          /\ opened' = disk /\ refill' = Intact
          /\ budget' = [bytes |-> BudgetBytes, records |-> BudgetRecords]
          /\ last' = IF crossed /\ Changed THEN NoRecord ELSE last
          /\ crossed' = (crossed /\ ~Changed)
  /\ UNCHANGED <<disk, written, fileFaults>>

\* extract_complete_lines, one record at a time.
Emit ==
  /\ reading /\ budget.records > 0
  /\ LineEnds(tail) # {} /\ ~Oversized(tail)
  /\ last' = [gen |-> tail.gen, seq |-> tail.seq, first |-> tail.pending[1].at,
              end |-> tail.pending[FirstEnd(tail)].at]
  /\ tail' = [DropBytes(tail, FirstEnd(tail)) EXCEPT !.seq = @ + 1]
  /\ budget' = [budget EXCEPT !.records = @ - 1]
  /\ UNCHANGED <<disk, opened, refill, written, fileFaults, crossed>>

DropOversized ==
  /\ reading /\ budget.records > 0 /\ Oversized(tail)
  /\ tail' = NextGeneration(DropBytes(tail, FirstEnd(tail)))
  /\ UNCHANGED <<disk, opened, refill, written, fileFaults, budget, last, crossed>>

DropEndless ==
  /\ reading /\ Endless(tail)
  /\ tail' = NextGeneration([tail EXCEPT !.pending = <<>>, !.discard = TRUE])
  /\ UNCHANGED <<disk, opened, refill, written, fileFaults, budget, last, crossed>>

Extracted == LineEnds(tail) = {} /\ ~Endless(tail)

\* append_bytes.
Appended(t, bytes) ==
  LET ends == {i \in DOMAIN bytes : bytes[i].nl}
      cut  == CHOOSE i \in ends : \A j \in ends : i <= j
  IN IF ~t.discard THEN [t EXCEPT !.pending = @ \o bytes]
     ELSE IF ends = {} THEN t
     ELSE [t EXCEPT !.discard = FALSE, !.pending = @ \o SubSeq(bytes, cut + 1, Len(bytes))]

Held      == IF refill.emptied THEN refill.bytes ELSE opened.bytes
Available == Len(Held) - tail.offset
ChunkLen  == CHOOSE n \in {ChunkBytes, budget.bytes, Available} :
               \A m \in {ChunkBytes, budget.bytes, Available} : n <= m

\* One turn of the read loop; the file may have grown since it was opened, or have been
\* emptied and written past the offset, which nothing here looks at.
ReadChunk ==
  /\ reading /\ Extracted /\ budget.records > 0 /\ budget.bytes > 0 /\ Available > 0
  /\ LET bytes == SubSeq(Held, tail.offset + 1, tail.offset + ChunkLen)
     IN tail' = Appended([tail EXCEPT !.offset = @ + ChunkLen,
                                      !.sig = Suffix(@ \o bytes, SigBytes)], bytes)
  /\ budget' = [budget EXCEPT !.bytes = @ - ChunkLen]
  /\ crossed' = (crossed \/ refill.emptied)
  /\ UNCHANGED <<disk, opened, refill, written, fileFaults, last>>

\* The read returns: end of file, budget used up, or an error.  more_work is what
\* is left; a stable end of file has nothing pending.
EndRead ==
  /\ reading /\ ~Endless(tail) /\ (LineEnds(tail) = {} \/ budget.records = 0)
  /\ Available <= 0 \/ budget.bytes = 0 \/ budget.records = 0
  /\ budget' = NotReading
  /\ opened' = [disk EXCEPT !.id = 0, !.bytes = <<>>] /\ refill' = Intact
  /\ UNCHANGED <<disk, written, fileFaults, tail, last, crossed>>

ReadFails ==
  /\ reading /\ Extracted /\ Available > 0 /\ fileFaults < MaxFileFaults
  /\ fileFaults' = fileFaults + 1
  /\ budget' = NotReading
  /\ opened' = [disk EXCEPT !.id = 0, !.bytes = <<>>] /\ refill' = Intact
  /\ UNCHANGED <<disk, written, tail, last, crossed>>

-----------------------------------------------------------------------------

TailInit ==
  /\ disk = [exists |-> TRUE, id |-> 1, bytes |-> <<>>]
  /\ opened = [exists |-> TRUE, id |-> 0, bytes |-> <<>>] /\ refill = Intact /\ crossed = FALSE
  /\ written = 0 /\ fileFaults = 0
  /\ tail = Untracked /\ budget = NotReading /\ last = NoRecord

TailNext ==
  \/ \E nl \in BOOLEAN : Write(nl)
  \/ Truncate \/ Delete \/ Recreate
  \/ \E s \in FileId : Track(s) \/ Reassociate(s)
  \/ Untrack
  \/ BeginRead \/ Emit \/ DropOversized \/ DropEndless \/ ReadChunk \/ EndRead \/ ReadFails

\* The worker keeps reading a tracked file: at the latest its reconciliation does.
ReadStep == BeginRead \/ Emit \/ DropOversized \/ DropEndless \/ ReadChunk \/ EndRead

TailSpec == TailInit /\ [][TailNext]_tailVars

-----------------------------------------------------------------------------

TailTypeOK ==
  /\ written \in 0 .. MaxBytes /\ fileFaults \in 0 .. MaxFileFaults
  /\ disk.exists \in BOOLEAN /\ disk.id \in Nat
  /\ tail.tracked =>
       /\ tail.offset \in Nat /\ tail.gen \in Nat /\ tail.seq \in Nat
       /\ Len(tail.sig) <= SigBytes /\ tail.source \in FileId
  /\ budget.bytes \in -1 .. BudgetBytes /\ budget.records \in -1 .. BudgetRecords

\* The signature is what stands before the offset in the file last read, and what
\* is pending are the last bytes read: a read continues where the other stopped.  It
\* does not when the file was emptied under a read that went on.
OffsetsTrue ==
  tail.tracked /\ tail.initialized /\ tail.id = disk.id
  /\ ~crossed /\ ~refill.emptied /\ (reading \/ ~Changed) =>
    LET before == SubSeq(disk.bytes, 1, tail.offset) IN
    /\ tail.offset <= Len(disk.bytes)
    /\ IsSuffix(tail.sig, before) /\ (tail.offset > 0 => tail.sig # <<>>)
    /\ IsSuffix(tail.pending, before)
    /\ tail.discard => tail.pending = <<>>

\* A record is one whole line of the file: it is preceded by a line end or by the
\* file's start, has no line end inside and no more than MaxLine bytes, whatever
\* was truncated, replaced or reassociated before, between reads or during one.  The
\* exception is what read_file cannot see: a read that goes on in a file emptied after
\* the read compared it joins the line it had begun to what it finds past its offset,
\* and nothing is promised until a later read notices, or the log is tracked anew.
WholeLines ==
  [][last' # last /\ last' # NoRecord /\ ~crossed =>
       \E i, j \in DOMAIN opened.bytes :
         /\ opened.bytes[i].at = last'.first /\ opened.bytes[j].at = last'.end
         /\ {k \in i .. j : opened.bytes[k].nl} = {j}
         /\ i = 1 \/ opened.bytes[i - 1].nl
         /\ j - i <= MaxLine]_tailVars

\* "exactly-once framing": no line is delivered twice, ids only grow, and within a
\* generation no line is left out, so a consumer that resets on a new generation
\* never builds on an incomplete history.  The exception is the same.
OnceAndInOrder ==
  [][last' # last /\ last' # NoRecord /\ ~crossed =>
       /\ last'.first > last.end
       /\ \/ last'.gen > last.gen
          \/ /\ last'.gen = last.gen /\ last'.seq = last.seq + 1
             /\ last.seq >= 0 =>
                  \E i \in DOMAIN opened.bytes :
                    opened.bytes[i].at = last.end /\ opened.bytes[i + 1].at = last'.first]_tailVars

\* Nothing complete stays behind: once the file is left alone every byte of it has
\* been read and every complete line extracted, however reads and budgets cut it.
CatchesUp ==
  <>[](tail.tracked /\ tail.initialized /\ disk.exists =>
         ~Changed /\ tail.offset = Len(disk.bytes) /\ LineEnds(tail) = {})

=============================================================================
