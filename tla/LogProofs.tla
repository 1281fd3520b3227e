------------------------------ MODULE LogProofs ------------------------------
(***************************************************************************)
(* From the log file to the overlay: which lines a read yields (LogTail),  *)
(* for any chunks, budgets, line lengths and file faults, the hand-over    *)
(* between the log worker and the owner thread (LogWorker), for any logs,  *)
(* lines, errors and batches, and any capacities, and what three overlay   *)
(* components keep of the lines: cast times (CastBars), deaths             *)
(* (CombatBadges) and unread notices (Notices).                            *)
(*                                                                         *)
(* The reads.  A tracked file is related to the bytes it was read from by  *)
(* Follows: signature and pending bytes are the last ones before the       *)
(* offset, the pending line begins where a line ended, and nothing after   *)
(* that place was ever delivered.  During a read this holds of the open    *)
(* file (Reads).  Between reads the file may be emptied or replaced, and   *)
(* then either it cannot be told from the one read, and is as long as      *)
(* the offset, or all its bytes are new (Rests): what is appended cannot   *)
(* complete an old signature, because no serial comes back.                *)
(* A file emptied during a read stands apart from what the read holds      *)
(* (Apart): as long as the read takes no bytes from it all goes on as      *)
(* before; once it does, unnoticed by the code, only the types and limits  *)
(* are left (Loose), until a later read sees that the file changed or the  *)
(* log is tracked anew.  The invariant is TailKept.                        *)
(*                                                                         *)
(* The hand-over has three independent parts.  The stream (Stream): a      *)
(* batch is made only when none is pending, and begins where the pipeline  *)
(* was, so that queue and pending batch always join up from what is shown  *)
(* to what was fed; taking batches from the front keeps that.  The wake-up *)
(* (WakeUp): the flag is up exactly while a message is on its way, and is  *)
(* taken down only by an acknowledgement that a drain and a look into the  *)
(* mailbox follow.  The reads (ReadPart): a path is added only when it     *)
(* does not wait already.                                                  *)
(*                                                                         *)
(* The cast times.  What was learned stays within its limits and one       *)
(* estimate to a key (Sane), the file holds it unless a save is due, and a *)
(* cast that runs is one that its client's character began (BeganAs), and  *)
(* between batches one of its class (FitsPersona): the batch that learns   *)
(* of a class drops the casts of another at its end (ReconciledFits).      *)
(* Casts that began as another character's are excepted.                   *)
(*                                                                         *)
(* The notices.  Each is about its newest unread line, and a press it      *)
(* holds is the newest one on its client's PiP, on that line (NoticeGood): *)
(* resolving other kinds keeps the newest line (RetainedKeeps), and all    *)
(* that replaces it takes the press back.                                  *)
(***************************************************************************)
EXTENDS LogTail, LogWorker, CastBars, CombatBadges, Notices, SequenceTheorems,
        FiniteSetTheorems, WellFoundedInduction, NaturalsInduction, TLAPS

(***************************************************************************)
(* LogTail                                                                 *)
(***************************************************************************)

Byte   == [nl : BOOLEAN, at : Nat]
File   == [exists : BOOLEAN, id : Nat, bytes : Seq(Byte)]
Record == [gen : Nat, seq : Nat \cup {-1}, first : Nat, end : Nat]
State   == [tracked : {TRUE}, source : FileId, initialized : BOOLEAN, id : Nat, offset : Nat,
           pending : Seq(Byte), discard : BOOLEAN, sig : Seq(Byte), gen : Nat, seq : Nat]
Budget == [bytes : 0 .. BudgetBytes, records : 0 .. BudgetRecords]
Refill == [emptied : BOOLEAN, bytes : Seq(Byte)]

\* A file's bytes in the order in which they were written, the last by then being top.
Ascending(b, top) ==
  /\ \A i, j \in DOMAIN b : i < j => b[i].at < b[j].at
  /\ \A i \in DOMAIN b : b[i].at \in 1 .. top

\* w are the last ones of the first n of b.
Closes(w, b, n) == Len(w) <= n /\ n <= Len(b) /\ \A k \in 1 .. Len(w) : w[k] = b[n - Len(w) + k]

\* All of b after the first n was written after the record r.
After(b, n, r) == \A i \in DOMAIN b : i > n => b[i].at > r.end

\* Where the line begins of which t has read a part.
Start(t) == t.offset - Len(t.pending)

\* t follows the file with the bytes b, of which r is the last record.
Follows(t, b, r) ==
  /\ Closes(t.sig, b, t.offset) /\ Closes(t.pending, b, t.offset)
  /\ t.discard = FALSE => Start(t) = 0 \/ b[Start(t)].nl = TRUE
  /\ After(b, Start(t), r)
  /\ r.gen = t.gen /\ r.seq >= 0 => /\ t.discard = FALSE /\ Start(t) > 0
                                    /\ b[Start(t)].at = r.end

\* What the state of a file is like, whatever became of the file.
Shape(t, top) ==
  /\ Len(t.pending) <= t.offset /\ Len(t.sig) <= t.offset /\ Len(t.sig) <= SigBytes
  /\ t.offset > 0 => Len(t.sig) > 0
  /\ t.discard = TRUE => t.pending = <<>> /\ t.offset > 0
  /\ \A k \in DOMAIN t.sig : t.sig[k].at <= top

\* Generations and sequence numbers: r came before what t gives next.
Numbered(t, r) ==
  /\ r.gen <= t.gen
  /\ r.gen = t.gen => t.seq = r.seq + 1 /\ (r.seq >= 0 => t.offset > 0)

\* As far as can be seen from t, d is the file it has read.
Standing(t, d) == t.id = d.id /\ Closes(t.sig, d.bytes, t.offset)

Types ==
  /\ written \in 0 .. MaxBytes /\ fileFaults \in 0 .. MaxFileFaults
  /\ disk \in File /\ disk.id > 0 /\ opened \in File
  /\ tail \in State \cup {Untracked}
  /\ budget \in Budget \cup {NotReading}
  /\ last \in Record /\ last.end <= written
  /\ Ascending(disk.bytes, written) /\ Ascending(opened.bytes, written)

Kept ==
  tail # Untracked =>
    /\ Shape(tail, written) /\ Numbered(tail, last) /\ tail.id <= disk.id
    /\ tail.initialized = FALSE => last = NoRecord /\ tail.offset = 0

\* What stands at the path is not what the read holds open: another file, or the same
\* one emptied since.
Apart == opened.id # disk.id \/ refill.emptied = TRUE

\* A read holds its file open, which is the one at the path or an earlier one.
Reads ==
  IF budget = NotReading THEN opened.id = 0 /\ opened.bytes = <<>>
  ELSE /\ tail # Untracked /\ tail.initialized = TRUE
       /\ tail.id = opened.id /\ opened.id > 0 /\ opened.id <= disk.id
       /\ Follows(tail, opened.bytes, last)
       /\ ~Apart => opened.bytes = disk.bytes
       /\ Apart =>
            /\ After(disk.bytes, 0, last)
            /\ \A i \in DOMAIN opened.bytes, j \in DOMAIN disk.bytes :
                 opened.bytes[i].at < disk.bytes[j].at

\* Between reads the file is still the one that was read, or is all new.
Rests ==
  tail # Untracked /\ tail.initialized = TRUE /\ budget = NotReading =>
    IF Standing(tail, disk) THEN Follows(tail, disk.bytes, last) ELSE After(disk.bytes, 0, last)

TailInv == Types /\ Kept /\ Reads /\ Rests

\* What holds even after a read went on in a file emptied under it.
Loose ==
  /\ written \in 0 .. MaxBytes /\ fileFaults \in 0 .. MaxFileFaults
  /\ disk \in File /\ disk.id > 0 /\ Ascending(disk.bytes, written)
  /\ opened \in File /\ refill \in Refill /\ crossed \in BOOLEAN
  /\ tail \in State \cup {Untracked} /\ budget \in Budget \cup {NotReading}
  /\ tail # Untracked => Len(tail.sig) <= SigBytes
  /\ IF budget = NotReading THEN opened.id = 0 /\ opened.bytes = <<>> /\ refill = Intact
     ELSE tail # Untracked /\ tail.initialized = TRUE

-----------------------------------------------------------------------------
(* Sequences of bytes *)

LEMMA LeastNatural ==
  ASSUME NEW S \in SUBSET Nat, S # {}
  PROVE  \E x \in S : \A y \in S : x <= y
<1>1. PICK x \in S : \A y \in S : ~ (<<y, x>> \in OpToRel(<, Nat))
  BY NatLessThanWellFounded, WFMin
<1>2. ASSUME NEW y \in S, y < x PROVE FALSE
  <2>1. <<y, x>> \in Nat \X Nat /\ <<y, x>>[1] = y /\ <<y, x>>[2] = x
    OBVIOUS
  <2>2. <<y, x>> \in OpToRel(<, Nat)
    BY <2>1, <1>2, Zenon DEF OpToRel
  <2> QED BY <2>2, <1>1
<1> QED BY <1>2

LEMMA PartIs ==
  ASSUME NEW T, NEW s \in Seq(T), NEW m \in Nat, NEW n \in Nat, m >= 1, m <= n + 1, n <= Len(s)
  PROVE  /\ SubSeq(s, m, n) \in Seq(T) /\ Len(SubSeq(s, m, n)) = n - m + 1
         /\ DOMAIN SubSeq(s, m, n) = 1 .. n - m + 1
         /\ \A k \in 1 .. n - m + 1 : SubSeq(s, m, n)[k] = s[m + k - 1]
OBVIOUS

LEMMA JoinedIs ==
  ASSUME NEW T, NEW s \in Seq(T), NEW t \in Seq(T)
  PROVE  /\ s \o t \in Seq(T) /\ Len(s \o t) = Len(s) + Len(t)
         /\ Len(s) \in Nat /\ Len(t) \in Nat
         /\ \A i \in 1 .. Len(s) : (s \o t)[i] = s[i]
         /\ \A i \in Len(s) + 1 .. Len(s) + Len(t) : (s \o t)[i] = t[i - Len(s)]
OBVIOUS

LEMMA SameSequence ==
  ASSUME NEW T, NEW s \in Seq(T), NEW t \in Seq(T), Len(s) = Len(t),
         \A i \in 1 .. Len(s) : s[i] = t[i]
  PROVE  s = t
OBVIOUS

\* The last bytes of what was read stay so when the file grows, when more is read and
\* when the first of them are dropped.
LEMMA ClosesGrows ==
  ASSUME NEW T, NEW w \in Seq(T), NEW b \in Seq(T), NEW n \in Nat, Closes(w, b, n), NEW x \in T
  PROVE  Closes(w, Append(b, x), n)
<1>1. PICK l \in Nat, m \in Nat : l = Len(b) /\ m = Len(w)
  OBVIOUS
<1>2. Len(Append(b, x)) = l + 1 /\ \A i \in 1 .. l : Append(b, x)[i] = b[i]
  BY <1>1
<1>3. m <= n /\ n <= l /\ \A k \in 1 .. m : w[k] = b[n - m + k]
  BY <1>1 DEF Closes
<1>4. \A k \in 1 .. m : n - m + k \in 1 .. l
  BY <1>1, <1>3
<1>5. \A k \in 1 .. m : w[k] = Append(b, x)[n - m + k]
  BY <1>2, <1>3, <1>4
<1> QED BY <1>1, <1>2, <1>3, <1>5 DEF Closes

LEMMA ClosesRead ==
  ASSUME NEW T, NEW w \in Seq(T), NEW b \in Seq(T), NEW n \in Nat, Closes(w, b, n),
         NEW k \in Nat, n + k <= Len(b)
  PROVE  Closes(w \o SubSeq(b, n + 1, n + k), b, n + k)
<1> DEFINE r == SubSeq(b, n + 1, n + k)
<1>1. PICK l \in Nat, m \in Nat : l = Len(b) /\ m = Len(w)
  OBVIOUS
<1>2. r \in Seq(T) /\ Len(r) = k /\ \A i \in 1 .. k : r[i] = b[n + i]
  <2>1. /\ r \in Seq(T) /\ Len(r) = n + k - (n + 1) + 1
        /\ \A i \in 1 .. n + k - (n + 1) + 1 : r[i] = b[n + 1 + i - 1]
    BY PartIs
  <2>2. n + k - (n + 1) + 1 = k /\ \A i \in 1 .. k : n + 1 + i - 1 = n + i
    OBVIOUS
  <2> HIDE DEF r
  <2> QED BY <2>1, <2>2
<1>3. m <= n /\ n <= l /\ \A i \in 1 .. m : w[i] = b[n - m + i]
  BY <1>1 DEF Closes
<1> HIDE DEF r
<1>4. /\ Len(w \o r) = m + k
      /\ \A i \in 1 .. m : (w \o r)[i] = w[i]
      /\ \A i \in m + 1 .. m + k : (w \o r)[i] = r[i - m]
  <2>1. /\ Len(w \o r) = Len(w) + Len(r)
        /\ \A i \in 1 .. Len(w) : (w \o r)[i] = w[i]
        /\ \A i \in Len(w) + 1 .. Len(w) + Len(r) : (w \o r)[i] = r[i - Len(w)]
    <3>1. r \in Seq(T)
      BY <1>2
    <3> QED BY ONLY w \in Seq(T), <3>1, JoinedIs
  <2>2. Len(w) = m /\ Len(r) = k
    BY <1>1, <1>2
  <2> QED BY ONLY <2>1, <2>2
<1>5. \A i \in 1 .. m + k : (w \o r)[i] = b[(n + k) - (m + k) + i]
  <2>1. TAKE i \in 1 .. m + k
  <2>2. (n + k) - (m + k) + i = n - m + i
    BY <1>1
  <2>3. CASE i \in 1 .. m
    BY <1>3, <1>4, <2>2, <2>3
  <2>4. CASE i \in m + 1 .. m + k
    <3>1. i - m \in 1 .. k /\ n + (i - m) = n - m + i
      BY <1>1, <2>4
    <3>2. (w \o r)[i] = b[n + (i - m)]
      BY <1>2, <1>4, <2>4, <3>1
    <3> QED BY <2>2, <3>1, <3>2
  <2>5. i \in 1 .. m \/ i \in m + 1 .. m + k
    BY <1>1
  <2> QED BY <2>3, <2>4, <2>5
<1>6. m + k <= n + k
  BY <1>1, <1>3
<1> QED BY <1>4, <1>5, <1>6 DEF Closes, r

LEMMA ClosesLess ==
  ASSUME NEW T, NEW w \in Seq(T), NEW b \in Seq(T), NEW n \in Nat, Closes(w, b, n),
         NEW j \in Nat, j <= Len(w)
  PROVE  /\ Closes(SubSeq(w, j + 1, Len(w)), b, n) /\ SubSeq(w, j + 1, Len(w)) \in Seq(T)
         /\ Len(SubSeq(w, j + 1, Len(w))) = Len(w) - j
<1> DEFINE r == SubSeq(w, j + 1, Len(w))
<1>1. PICK l \in Nat, m \in Nat : l = Len(b) /\ m = Len(w)
  OBVIOUS
<1>2. r \in Seq(T) /\ Len(r) = m - j /\ \A i \in 1 .. m - j : r[i] = w[j + i]
  <2>1. /\ r \in Seq(T) /\ Len(r) = m - (j + 1) + 1
        /\ \A i \in 1 .. m - (j + 1) + 1 : r[i] = w[j + 1 + i - 1]
    BY <1>1, PartIs
  <2>2. m - (j + 1) + 1 = m - j /\ \A i \in 1 .. m - j : j + 1 + i - 1 = j + i
    BY <1>1
  <2> HIDE DEF r
  <2> QED BY <2>1, <2>2
<1>3. m <= n /\ n <= l /\ \A i \in 1 .. m : w[i] = b[n - m + i]
  BY <1>1 DEF Closes
<1> HIDE DEF r
<1>4. \A i \in 1 .. m - j : r[i] = b[n - (m - j) + i]
  <2>1. TAKE i \in 1 .. m - j
  <2>2. j + i \in 1 .. m /\ n - m + (j + i) = n - (m - j) + i
    BY <1>1
  <2> QED BY <1>2, <1>3, <2>2
<1>5. m - j <= n
  BY <1>1, <1>3
<1> QED BY <1>1, <1>2, <1>3, <1>4, <1>5 DEF Closes, r

LEMMA ClosesItself ==
  ASSUME NEW T, NEW b \in Seq(T)
  PROVE  Closes(b, b, Len(b)) /\ \A n \in 0 .. Len(b) : Closes(<<>>, b, n)
BY DEF Closes

LEMMA SuffixIs ==
  ASSUME NEW T, NEW s \in Seq(T), NEW b \in Seq(T), NEW n \in Nat, Closes(s, b, n),
         NEW k \in Nat \ {0}
  PROVE  /\ Suffix(s, k) \in Seq(T) /\ Len(Suffix(s, k)) <= k
         /\ Len(s) > 0 => Len(Suffix(s, k)) > 0
         /\ Closes(Suffix(s, k), b, n)
<1>1. PICK m \in Nat : m = Len(s)
  OBVIOUS
<1> DEFINE j == IF m > k THEN m - k ELSE 0
<1>2. j \in Nat /\ j <= Len(s) /\ m - j <= k /\ (m > 0 => m - j > 0)
  BY <1>1
<1>3. Suffix(s, k) = SubSeq(s, j + 1, Len(s))
  BY <1>1 DEF Suffix
<1> HIDE DEF j
<1>4. /\ Closes(Suffix(s, k), b, n) /\ Suffix(s, k) \in Seq(T)
      /\ Len(Suffix(s, k)) = Len(s) - j
  BY <1>2, <1>3, ClosesLess
<1> QED BY <1>1, <1>2, <1>4

\* What the code compares is whether the signature still stands before the offset.
LEMMA ClosesIs ==
  ASSUME NEW T, NEW w \in Seq(T), NEW b \in Seq(T), NEW n \in Nat, n <= Len(b), Len(w) <= n
  PROVE  Closes(w, b, n) <=> SubSeq(b, n - Len(w) + 1, n) = w
<1> DEFINE r == SubSeq(b, n - Len(w) + 1, n)
<1>1. PICK m \in Nat : m = Len(w)
  OBVIOUS
<1>2. n - m + 1 \in Nat /\ n - m + 1 >= 1 /\ n - m + 1 <= n + 1 /\ n - (n - m + 1) + 1 = m
  BY <1>1
<1>3. r \in Seq(T) /\ Len(r) = m /\ \A i \in 1 .. m : r[i] = b[n - m + i]
  <2>1. /\ r \in Seq(T) /\ Len(r) = n - (n - m + 1) + 1
        /\ \A i \in 1 .. n - (n - m + 1) + 1 : r[i] = b[(n - m + 1) + i - 1]
    BY <1>1, <1>2, PartIs
  <2>2. \A i \in 1 .. m : (n - m + 1) + i - 1 = n - m + i
    BY <1>1
  <2> HIDE DEF r
  <2> QED BY <1>2, <2>1, <2>2
<1> HIDE DEF r
<1>4. Closes(w, b, n) <=> \A i \in 1 .. m : w[i] = b[n - m + i]
  BY <1>1 DEF Closes
<1>5. r = w <=> \A i \in 1 .. m : w[i] = r[i]
  BY <1>1, <1>3, SameSequence
<1> QED BY <1>3, <1>4, <1>5 DEF r

LEMMA ReversedIs ==
  ASSUME NEW T, NEW w \in Seq(T)
  PROVE  /\ Reverse(w) \in Seq(T) /\ Len(Reverse(w)) = Len(w)
         /\ \A k \in 1 .. Len(w) : Reverse(w)[k] = w[Len(w) - k + 1]
<1>1. PICK m \in Nat : m = Len(w)
  OBVIOUS
<1>2. \A k \in 1 .. m : m - k + 1 \in 1 .. m
  BY <1>1
<1>3. \A k \in 1 .. m : w[m - k + 1] \in T
  BY <1>1, <1>2
<1>4. Reverse(w) = [k \in 1 .. m |-> w[(m - k) + 1]]
  BY <1>1 DEF Reverse
<1>5. Reverse(w) \in [1 .. m -> T] /\ \A k \in 1 .. m : Reverse(w)[k] = w[m - k + 1]
  BY <1>3, <1>4
<1>6. Reverse(w) \in Seq(T)
  BY <1>1, <1>5
<1>7. DOMAIN Reverse(w) = 1 .. m
  BY <1>5
<1>8. Len(Reverse(w)) = m
  BY <1>1, <1>6, <1>7
<1> QED BY <1>1, <1>5, <1>6, <1>8

LEMMA ClosesSuffix ==
  ASSUME NEW T, NEW w \in Seq(T), NEW b \in Seq(T), NEW n \in Nat, Closes(w, b, n)
  PROVE  IsSuffix(w, SubSeq(b, 1, n))
<1> DEFINE c == SubSeq(b, 1, n)
           R == Reverse(w)
           S == Reverse(c)
<1>1. PICK m \in Nat, l \in Nat : m = Len(w) /\ l = Len(b)
  OBVIOUS
<1>2. m <= n /\ n <= l /\ \A k \in 1 .. m : w[k] = b[n - m + k]
  BY <1>1 DEF Closes
<1>3. c \in Seq(T) /\ Len(c) = n /\ \A k \in 1 .. n : c[k] = b[k]
  BY <1>1, <1>2, PartIs
<1> HIDE DEF c
<1>4. R \in Seq(T) /\ Len(R) = m /\ \A k \in 1 .. m : R[k] = w[m - k + 1]
  BY <1>1, ReversedIs
<1>5. S \in Seq(T) /\ Len(S) = n /\ \A k \in 1 .. n : S[k] = c[n - k + 1]
  BY <1>3, ReversedIs
<1> HIDE DEF R, S
<1>6. \A k \in 1 .. m : R[k] = S[k]
  <2>1. TAKE k \in 1 .. m
  <2>2. m - k + 1 \in 1 .. m /\ n - k + 1 \in 1 .. n /\ k \in 1 .. n /\ n - m + (m - k + 1) = n - k + 1
    BY <1>1, <1>2
  <2>3. w[m - k + 1] = b[n - k + 1]
    BY <1>2, <2>2
  <2> QED BY <1>3, <1>4, <1>5, <2>2, <2>3
<1>7. /\ SubSeq(R, 1, m) \in Seq(T) /\ Len(SubSeq(R, 1, m)) = m
      /\ \A k \in 1 .. m : SubSeq(R, 1, m)[k] = R[k]
  BY <1>1, <1>4, PartIs
<1>8. /\ SubSeq(S, 1, m) \in Seq(T) /\ Len(SubSeq(S, 1, m)) = m
      /\ \A k \in 1 .. m : SubSeq(S, 1, m)[k] = S[k]
  BY <1>1, <1>2, <1>5, PartIs
<1>9. SubSeq(R, 1, m) = SubSeq(S, 1, m)
  BY <1>6, <1>7, <1>8, SameSequence
<1> QED BY <1>2, <1>4, <1>5, <1>9 DEF IsSuffix, IsPrefix, R, S, c

-----------------------------------------------------------------------------
(* The states of a file *)

LEMMA StateIs ==
  ASSUME NEW t \in State
  PROVE  /\ t.tracked = TRUE /\ t.source \in FileId /\ t.initialized \in BOOLEAN /\ t.id \in Nat
         /\ t.offset \in Nat /\ t.pending \in Seq(Byte) /\ t.discard \in BOOLEAN
         /\ t.sig \in Seq(Byte) /\ t.gen \in Nat /\ t.seq \in Nat
BY DEF State

LEMMA Distinct ==
  /\ Untracked.tracked = FALSE /\ Untracked \notin State
  /\ \A x \in Budget : x # NotReading
<1>1. Untracked.tracked = FALSE
  BY DEF Untracked
<1>2. Untracked \notin State
  BY <1>1, StateIs
<1>3. ASSUME NEW x \in Budget PROVE x # NotReading
  <2>1. x.bytes \in 0 .. BudgetBytes
    BY DEF Budget
  <2>2. NotReading.bytes = -1
    BY DEF NotReading
  <2>3. BudgetBytes \in Nat
    BY LogTailBounds
  <2> QED BY <2>1, <2>2, <2>3
<1> QED BY <1>1, <1>2, <1>3

LEMMA AbsentIs ==
  ASSUME NEW s \in FileId, NEW u, u = Absent(s, 0)
  PROVE  /\ u \in State /\ u.source = s /\ u.initialized = FALSE /\ u.id = 0 /\ u.offset = 0
         /\ u.pending = <<>> /\ u.discard = FALSE /\ u.sig = <<>> /\ u.gen = 0 /\ u.seq = 0
BY DEF Absent, State

\* u is t at another place of a file, or with other numbers.
At(u, t, b, i, o, p, c, g) ==
  u = [t EXCEPT !.initialized = b, !.id = i, !.offset = o, !.pending = p, !.sig = g, !.discard = c]
IsAt(u, t, b, i, o, p, c, g) ==
  /\ u.source = t.source /\ u.initialized = b /\ u.id = i /\ u.offset = o /\ u.pending = p
  /\ u.discard = c /\ u.sig = g /\ u.gen = t.gen /\ u.seq = t.seq
Renumbered(u, t, n) == u = [t EXCEPT !.gen = n, !.seq = 0]

LEMMA RenumberedIs ==
  ASSUME NEW t \in State, NEW n \in Nat, NEW u, Renumbered(u, t, n)
  PROVE  /\ u \in State
         /\ u.source = t.source /\ u.initialized = t.initialized /\ u.id = t.id
         /\ u.offset = t.offset /\ u.pending = t.pending /\ u.discard = t.discard
         /\ u.sig = t.sig /\ u.gen = n /\ u.seq = 0
<1>1. u \in State
  BY DEF State, Renumbered
<1>2. /\ u.source = t.source /\ u.initialized = t.initialized /\ u.id = t.id
      /\ u.offset = t.offset /\ u.pending = t.pending /\ u.discard = t.discard
      /\ u.sig = t.sig /\ u.gen = n /\ u.seq = 0
  BY DEF State, Renumbered
<1> QED BY <1>1, <1>2

LEMMA NextGenerationIs ==
  ASSUME NEW t \in State, NEW u, u = NextGeneration(t)
  PROVE  /\ u \in State
         /\ u.source = t.source /\ u.initialized = t.initialized /\ u.id = t.id
         /\ u.offset = t.offset /\ u.pending = t.pending /\ u.discard = t.discard
         /\ u.sig = t.sig /\ u.gen = t.gen + 1 /\ u.seq = 0
<1>1. t.gen \in Nat
  BY StateIs
<1>2. PICK n \in Nat : n = t.gen + 1
  BY <1>1
<1>3. Renumbered(u, t, n)
  BY <1>2 DEF NextGeneration, Renumbered
<1> QED BY <1>2, <1>3, RenumberedIs

LEMMA PlacedAt ==
  ASSUME NEW t \in State, NEW i \in Nat, NEW o \in Nat, NEW p \in Seq(Byte), NEW c \in BOOLEAN,
         NEW g \in Seq(Byte), NEW b \in BOOLEAN, NEW u, At(u, t, b, i, o, p, c, g)
  PROVE  u \in State /\ IsAt(u, t, b, i, o, p, c, g)
<1>1. u \in State
  BY DEF State, At
<1>2. IsAt(u, t, b, i, o, p, c, g)
  BY DEF State, At, IsAt
<1> QED BY <1>1, <1>2

LEMMA AtEndIs ==
  ASSUME NEW t \in State, disk \in File, Suffix(disk.bytes, SigBytes) \in Seq(Byte),
         NEW u, u = AtEnd(t)
  PROVE  /\ u \in State
         /\ u.source = t.source /\ u.initialized = TRUE /\ u.id = disk.id
         /\ u.offset = Len(disk.bytes) /\ u.pending = <<>>
         /\ u.discard = (disk.bytes # <<>> /\ ~Last(disk.bytes).nl)
         /\ u.sig = Suffix(disk.bytes, SigBytes) /\ u.gen = t.gen /\ u.seq = t.seq
<1>1. disk.bytes \in Seq(Byte) /\ disk.id \in Nat
  BY DEF File
<1>2. PICK n \in Nat, i \in Nat : n = Len(disk.bytes) /\ i = disk.id
  BY <1>1
<1>3. PICK c \in BOOLEAN : c = (disk.bytes # <<>> /\ ~Last(disk.bytes).nl)
  OBVIOUS
<1>4. PICK g \in Seq(Byte) : g = Suffix(disk.bytes, SigBytes)
  OBVIOUS
<1>5. <<>> \in Seq(Byte) /\ TRUE \in BOOLEAN
  OBVIOUS
<1>6. At(u, t, TRUE, i, n, <<>>, c, g)
  BY <1>2, <1>3, <1>4 DEF AtEnd, At
<1>7. u \in State /\ IsAt(u, t, TRUE, i, n, <<>>, c, g)
  BY ONLY t \in State, n \in Nat, i \in Nat, c \in BOOLEAN, g \in Seq(Byte), <1>5, <1>6, PlacedAt
<1> QED BY <1>2, <1>3, <1>4, <1>7 DEF IsAt

LEMMA FromByteZeroIs ==
  ASSUME NEW t \in State, disk \in File, NEW u, u = FromByteZero(t)
  PROVE  /\ u \in State
         /\ u.source = t.source /\ u.initialized = t.initialized /\ u.id = disk.id
         /\ u.offset = 0 /\ u.pending = <<>> /\ u.discard = FALSE
         /\ u.sig = <<>> /\ u.gen = t.gen + 1 /\ u.seq = 0
<1>1. PICK i \in Nat : i = disk.id
  BY DEF File
<1>2. PICK v : v = [t EXCEPT !.id = i, !.offset = 0, !.pending = <<>>, !.discard = FALSE, !.sig = <<>>]
  OBVIOUS
<1>3. /\ v \in State
      /\ v.source = t.source /\ v.initialized = t.initialized /\ v.id = i /\ v.offset = 0
      /\ v.pending = <<>> /\ v.discard = FALSE /\ v.sig = <<>> /\ v.gen = t.gen
  <2>1. t.initialized \in BOOLEAN
    BY StateIs
  <2>3. <<>> \in Seq(Byte) /\ FALSE \in BOOLEAN /\ 0 \in Nat
    OBVIOUS
  <2>2. At(v, t, t.initialized, i, 0, <<>>, FALSE, <<>>)
    BY <1>2 DEF At, State
  <2>4. v \in State /\ IsAt(v, t, t.initialized, i, 0, <<>>, FALSE, <<>>)
    BY <2>1, <2>2, <2>3, PlacedAt
  <2> QED BY <2>4 DEF IsAt
<1>4. u = NextGeneration(v)
  BY <1>1, <1>2 DEF FromByteZero
<1> QED BY <1>1, <1>3, <1>4, NextGenerationIs

\* t with other pending bytes.
Keeps(u, t, p) == u = [t EXCEPT !.pending = p]

LEMMA KeepsIs ==
  ASSUME NEW t \in State, NEW p \in Seq(Byte), NEW u, Keeps(u, t, p)
  PROVE  /\ u \in State
         /\ u.source = t.source /\ u.initialized = t.initialized /\ u.id = t.id
         /\ u.offset = t.offset /\ u.pending = p /\ u.discard = t.discard
         /\ u.sig = t.sig /\ u.gen = t.gen /\ u.seq = t.seq
BY DEF Keeps, State

LEMMA DropBytesIs ==
  ASSUME NEW t \in State, NEW n, NEW u, u = DropBytes(t, n)
  PROVE  Keeps(u, t, SubSeq(t.pending, n + 1, Len(t.pending)))
BY DEF DropBytes, Keeps, State

\* Where the bytes of the line stand that is being read.
LEMMA Placed ==
  ASSUME NEW t \in State, NEW b \in Seq(Byte), NEW r, Follows(t, b, r)
  PROVE  /\ Len(t.pending) \in Nat /\ Len(b) \in Nat /\ t.offset <= Len(b)
         /\ Len(t.pending) <= t.offset /\ Start(t) \in Nat
         /\ Start(t) + Len(t.pending) = t.offset
         /\ \A k \in 1 .. Len(t.pending) : t.pending[k] = b[Start(t) + k]
<1>1. t.offset \in Nat /\ t.pending \in Seq(Byte)
  BY StateIs
<1>2. PICK m \in Nat, l \in Nat : m = Len(t.pending) /\ l = Len(b)
  BY <1>1
<1>3. m <= t.offset /\ t.offset <= l /\ \A k \in 1 .. m : t.pending[k] = b[t.offset - m + k]
  BY <1>2 DEF Follows, Closes
<1>4. Start(t) = t.offset - m
  BY <1>2 DEF Start
<1>5. Start(t) \in Nat /\ Start(t) + m = t.offset
  BY <1>1, <1>3, <1>4
<1> QED BY <1>2, <1>3, <1>4, <1>5

-----------------------------------------------------------------------------
(* What becomes of a file, and of what follows it *)

LEMMA ByteIs ==
  /\ \A x \in Byte : x.nl \in BOOLEAN /\ x.at \in Nat
  /\ \A r \in Record : /\ r.gen \in Nat /\ r.seq \in Nat \cup {-1}
                       /\ r.first \in Nat /\ r.end \in Nat
  /\ \A d \in File : d.exists \in BOOLEAN /\ d.id \in Nat /\ d.bytes \in Seq(Byte)
BY DEF Byte, Record, File

LEMMA AscendingGrows ==
  ASSUME NEW b \in Seq(Byte), NEW top \in Nat, Ascending(b, top), NEW x \in Byte, x.at = top + 1
  PROVE  Ascending(Append(b, x), top + 1)
<1>1. PICK l \in Nat : l = Len(b)
  OBVIOUS
<1> DEFINE a == Append(b, x)
<1>2. a \in Seq(Byte) /\ Len(a) = l + 1 /\ a[l + 1] = x /\ \A i \in 1 .. l : a[i] = b[i]
  BY <1>1
<1>3. DOMAIN a = 1 .. l + 1 /\ DOMAIN b = 1 .. l
  BY <1>1, <1>2
<1> HIDE DEF a
<1>4. /\ \A i, j \in 1 .. l : i < j => b[i].at < b[j].at
      /\ \A i \in 1 .. l : b[i].at \in 1 .. top
  BY <1>3 DEF Ascending
<1>5. \A i \in 1 .. l + 1 : i \in 1 .. l \/ i = l + 1
  BY <1>1
<1>6. \A i \in 1 .. l + 1 : a[i].at \in 1 .. top + 1
  BY <1>2, <1>4, <1>5
<1>7. ASSUME NEW i \in 1 .. l + 1, NEW j \in 1 .. l + 1, i < j PROVE a[i].at < a[j].at
  <2>1. i \in 1 .. l
    BY <1>1, <1>7
  <2>2. CASE j \in 1 .. l
    BY <1>2, <1>4, <1>7, <2>1, <2>2
  <2>3. CASE j = l + 1
    <3>1. a[j].at = top + 1 /\ a[i].at \in 1 .. top
      BY <1>2, <1>4, <2>1, <2>3
    <3> QED BY <3>1
  <2> QED BY <1>5, <2>2, <2>3
<1>8. Ascending(a, top + 1)
  BY <1>3, <1>6, <1>7 DEF Ascending
<1> QED BY <1>8 DEF a

LEMMA AscendingMore ==
  ASSUME NEW b, NEW top \in Nat, NEW more \in Nat, Ascending(b, top), top <= more
  PROVE  Ascending(b, more)
BY DEF Ascending

LEMMA ShapeMore ==
  ASSUME NEW t \in State, NEW top \in Nat, NEW more \in Nat, Shape(t, top), top <= more
  PROVE  Shape(t, more)
<1>1. t.sig \in Seq(Byte)
  BY StateIs
<1>2. \A k \in DOMAIN t.sig : t.sig[k] \in Byte
  BY <1>1
<1>3. \A k \in DOMAIN t.sig : t.sig[k].at \in Nat
  BY <1>2, ByteIs
<1> QED BY <1>3 DEF Shape

LEMMA FollowsGrows ==
  ASSUME NEW t \in State, NEW b \in Seq(Byte), NEW r, Follows(t, b, r),
         NEW x \in Byte, x.at > r.end
  PROVE  Follows(t, Append(b, x), r)
<1>1. PICK l \in Nat : l = Len(b)
  OBVIOUS
<1> DEFINE a == Append(b, x)
<1>2. a \in Seq(Byte) /\ Len(a) = l + 1 /\ a[l + 1] = x /\ \A i \in 1 .. l : a[i] = b[i]
  BY <1>1
<1>3. DOMAIN a = 1 .. l + 1 /\ DOMAIN b = 1 .. l
  BY <1>1, <1>2
<1>4. t.sig \in Seq(Byte) /\ t.pending \in Seq(Byte) /\ t.offset \in Nat
  BY StateIs
<1>5. Closes(t.sig, a, t.offset) /\ Closes(t.pending, a, t.offset)
  BY <1>4, ClosesGrows DEF Follows
<1> HIDE DEF a
<1>6. PICK s \in Nat : s = Start(t)
  BY Placed
<1>7. s <= l
  BY <1>1, <1>6, Placed, <1>4
<1>8. s > 0 => a[s] = b[s]
  BY <1>2, <1>7
<1>9. \A i \in 1 .. l : i > s => b[i].at > r.end
  BY <1>3, <1>6 DEF Follows, After
<1>10. \A i \in 1 .. l + 1 : i > s => a[i].at > r.end
  <2>1. \A i \in 1 .. l + 1 : i \in 1 .. l \/ i = l + 1
    BY <1>1
  <2> QED BY <1>2, <1>9, <2>1
<1>11. After(a, s, r)
  BY <1>3, <1>10 DEF After
<1>12. t.discard = FALSE => s = 0 \/ a[s].nl = TRUE
  BY <1>6, <1>8 DEF Follows
<1>13. r.gen = t.gen /\ r.seq >= 0 => t.discard = FALSE /\ s > 0 /\ a[s].at = r.end
  BY <1>6, <1>8 DEF Follows
<1> QED BY <1>5, <1>6, <1>11, <1>12, <1>13 DEF Follows, a

\* Nothing has been read of it.
LEMMA FollowsNothing ==
  ASSUME NEW t \in State, t.offset = 0, NEW top, Shape(t, top), NEW b \in Seq(Byte),
         NEW r, After(b, 0, r), r.gen = t.gen /\ r.seq >= 0 => t.offset > 0
  PROVE  Follows(t, b, r)
<1>1. t.sig \in Seq(Byte) /\ t.pending \in Seq(Byte)
  BY StateIs
<1>2. PICK m \in Nat, n \in Nat, l \in Nat : m = Len(t.sig) /\ n = Len(t.pending) /\ l = Len(b)
  BY <1>1
<1>3. m = 0 /\ n = 0
  BY <1>2 DEF Shape
<1>4. Start(t) = 0
  BY <1>2, <1>3 DEF Start
<1>5. Closes(t.sig, b, 0) /\ Closes(t.pending, b, 0)
  BY <1>2, <1>3 DEF Closes
<1> QED BY <1>4, <1>5 DEF Follows

LEMMA StandingShrinks ==
  ASSUME NEW t \in State, NEW b \in Seq(Byte), NEW x \in Byte, NEW top \in Nat, x.at > top,
         Shape(t, top), Closes(t.sig, Append(b, x), t.offset)
  PROVE  Closes(t.sig, b, t.offset)
<1>1. t.sig \in Seq(Byte) /\ t.offset \in Nat
  BY StateIs
<1>2. PICK m \in Nat, n \in Nat, l \in Nat : m = Len(t.sig) /\ n = t.offset /\ l = Len(b)
  BY <1>1
<1>3. /\ Len(Append(b, x)) = l + 1 /\ Append(b, x)[l + 1] = x
      /\ \A i \in 1 .. l : Append(b, x)[i] = b[i]
  BY <1>2
<1>4. m <= n /\ n <= l + 1 /\ \A k \in 1 .. m : t.sig[k] = Append(b, x)[n - m + k]
  BY <1>2, <1>3 DEF Closes
<1>5. (n > 0 => m > 0) /\ \A k \in 1 .. m : t.sig[k].at <= top
  <2>1. DOMAIN t.sig = 1 .. m
    BY <1>1, <1>2
  <2> QED BY <1>2, <2>1 DEF Shape
<1>6. n <= l
  <2>1. SUFFICES ASSUME n = l + 1 PROVE FALSE
    BY <1>2, <1>4
  <2>2. m \in 1 .. m /\ n - m + m = l + 1
    BY <1>2, <1>5, <2>1
  <2>3. t.sig[m] = x
    BY <1>3, <1>4, <2>2
  <2>4. t.sig[m].at <= top
    BY <1>5, <2>2
  <2>5. x.at \in Nat
    BY ByteIs
  <2> QED BY <2>3, <2>4, <2>5
<1>7. \A k \in 1 .. m : n - m + k \in 1 .. l
  <2>1. m <= n /\ n <= l /\ m \in Nat /\ n \in Nat /\ l \in Nat
    BY <1>2, <1>4, <1>6
  <2> QED BY ONLY <2>1
<1>8. \A k \in 1 .. m : t.sig[k] = b[n - m + k]
  BY <1>3, <1>4, <1>7
<1> QED BY <1>2, <1>4, <1>6, <1>8 DEF Closes

LEMMA ChangedIs ==
  ASSUME tail \in State, disk \in File, NEW top, Shape(tail, top)
  PROVE  Changed <=> ~Standing(tail, disk)
<1>1. tail.sig \in Seq(Byte) /\ tail.offset \in Nat /\ disk.bytes \in Seq(Byte)
  BY StateIs, ByteIs
<1>2. PICK m \in Nat, l \in Nat : m = Len(tail.sig) /\ l = Len(disk.bytes)
  BY <1>1
<1>3. m <= tail.offset /\ (tail.offset > 0 => m > 0)
  BY <1>2 DEF Shape
<1>4. CASE l < tail.offset
  <2>1. ~Closes(tail.sig, disk.bytes, tail.offset)
    BY <1>1, <1>2, <1>4 DEF Closes
  <2> QED BY <1>2, <1>4, <2>1 DEF Changed, Standing
<1>5. CASE tail.offset <= l
  <2>1. Closes(tail.sig, disk.bytes, tail.offset)
          <=> SubSeq(disk.bytes, tail.offset - Len(tail.sig) + 1, tail.offset) = tail.sig
    BY <1>1, <1>2, <1>3, <1>5, ClosesIs
  <2>2. CASE tail.sig = <<>>
    <3>1. m = 0
      BY <1>2, <2>2
    <3>2. Closes(tail.sig, disk.bytes, tail.offset)
      BY <1>1, <1>2, <1>5, <3>1 DEF Closes
    <3>3. ~(Len(disk.bytes) < tail.offset)
      BY <1>1, <1>2, <1>5
    <3> QED BY <2>2, <3>2, <3>3 DEF Changed, Standing
  <2>3. CASE tail.sig # <<>>
    <3>1. ~(Len(disk.bytes) < tail.offset)
      BY <1>1, <1>2, <1>5
    <3> QED BY <2>1, <2>3, <3>1 DEF Changed, Standing
  <2> QED BY <2>2, <2>3
<1> QED BY <1>1, <1>2, <1>4, <1>5

-----------------------------------------------------------------------------
(* The game's steps *)

LEMMA Facts ==
  ASSUME TailInv
  PROVE  /\ written \in Nat /\ fileFaults \in Nat
         /\ disk.bytes \in Seq(Byte) /\ disk.id \in Nat /\ disk.exists \in BOOLEAN
         /\ opened.bytes \in Seq(Byte) /\ opened.id \in Nat /\ opened.exists \in BOOLEAN
         /\ last.gen \in Nat /\ last.seq \in Nat \cup {-1} /\ last.first \in Nat /\ last.end \in Nat
         /\ last.end <= written
         /\ tail # Untracked => tail \in State /\ tail.tracked = TRUE
         /\ tail = Untracked => tail.tracked = FALSE /\ budget = NotReading
<1>1. Types
  BY DEF TailInv
<1>2. written \in Nat /\ fileFaults \in Nat
  BY <1>1, LogTailBounds DEF Types
<1>3. tail # Untracked => tail \in State /\ tail.tracked = TRUE
  BY <1>1, StateIs DEF Types
<1>4. tail = Untracked => tail.tracked = FALSE /\ budget = NotReading
  BY Distinct DEF TailInv, Reads
<1> QED BY <1>1, <1>2, <1>3, <1>4, ByteIs DEF Types

LEMMA LooseFacts ==
  ASSUME Loose
  PROVE  /\ written \in Nat /\ fileFaults \in Nat
         /\ disk.bytes \in Seq(Byte) /\ disk.id \in Nat /\ disk.exists \in BOOLEAN
         /\ opened.bytes \in Seq(Byte)
         /\ tail # Untracked => tail \in State /\ tail.tracked = TRUE
         /\ tail = Untracked => tail.tracked = FALSE /\ budget = NotReading
<1>1. written \in Nat /\ fileFaults \in Nat
  BY LogTailBounds DEF Loose
<1>2. tail # Untracked => tail \in State /\ tail.tracked = TRUE
  BY StateIs DEF Loose
<1>3. tail = Untracked => tail.tracked = FALSE /\ budget = NotReading
  BY Distinct DEF Loose
<1> QED BY <1>1, <1>2, <1>3, ByteIs DEF Loose

LEMMA WriteKeeps ==
  ASSUME Loose, TailInv, NEW nl \in BOOLEAN, Write(nl)
  PROVE  TailInv'
<1> DEFINE x == [nl |-> nl, at |-> written + 1]
           a == Append(disk.bytes, x)
<1>1. written \in Nat /\ last.end \in Nat /\ last.end <= written
  BY Facts
<1>2. x \in Byte /\ x.at = written + 1 /\ x.at > last.end
  BY <1>1 DEF Byte
<1>3. /\ written' = written + 1 /\ written' <= MaxBytes /\ fileFaults' = fileFaults
      /\ tail' = tail /\ budget' = budget /\ last' = last
      /\ opened' = IF opened.id = disk.id /\ ~refill.emptied THEN disk' ELSE opened
  BY <1>1, LogTailBounds DEF Write
<1>4. disk' \in File /\ disk'.id = disk.id /\ disk'.bytes = a
  <2>1. disk \in File /\ a \in Seq(Byte)
    <3>1. disk.bytes \in Seq(Byte)
      BY Facts
    <3> QED BY <1>2, <3>1 DEF TailInv, Types
  <2>2. disk' = [disk EXCEPT !.bytes = a]
    BY DEF Write
  <2> QED BY <2>1, <2>2 DEF File
<1> HIDE DEF x
<1>5. Ascending(a, written + 1)
  BY <1>1, <1>2, AscendingGrows, Facts DEF TailInv, Types
<1>0. refill.emptied \in BOOLEAN /\ refill'.emptied = refill.emptied
  <2>1. refill \in Refill
    BY DEF Loose
  <2>2. refill.emptied \in BOOLEAN
    BY <2>1 DEF Refill
  <2>3. refill' = refill \/ refill' = [refill EXCEPT !.bytes = disk'.bytes]
    BY DEF Write
  <2> QED BY <2>1, <2>2, <2>3 DEF Refill
<1>6. ~Apart => opened' = disk'
  BY <1>0, <1>3 DEF Apart
<1>7. Apart => opened' = opened
  BY <1>0, <1>3 DEF Apart
<1>14. Apart' <=> Apart
  <2>1. CASE Apart
    BY <1>0, <1>4, <1>7, <2>1 DEF Apart
  <2>2. CASE ~Apart
    BY <1>0, <1>4, <1>6, <2>2 DEF Apart
  <2> QED BY <2>1, <2>2
<1>8. Types'
  <2>1. opened' \in File /\ Ascending(opened'.bytes, written + 1)
    <3>1. Ascending(opened.bytes, written + 1)
      BY <1>1, AscendingMore DEF TailInv, Types
    <3> QED BY <1>4, <1>5, <1>6, <1>7, <3>1 DEF TailInv, Types
  <2>2. written' \in 0 .. MaxBytes
    BY <1>1, <1>3, LogTailBounds
  <2>3. last.end <= written + 1
    BY <1>1
  <2> QED BY <1>3, <1>4, <1>5, <2>1, <2>2, <2>3 DEF TailInv, Types
<1>9. Kept'
  <2>1. ASSUME tail # Untracked PROVE Shape(tail, written + 1)
    <3>1. tail \in State /\ Shape(tail, written)
      BY <2>1, Facts DEF TailInv, Kept
    <3>2. written + 1 \in Nat /\ written <= written + 1
      BY <1>1
    <3> QED BY <1>1, <3>1, <3>2, ShapeMore
  <2> QED BY <1>3, <1>4, <2>1 DEF TailInv, Kept
<1>10. ASSUME NEW b \in Seq(Byte), Follows(tail, b, last), tail # Untracked
       PROVE  Follows(tail, Append(b, x), last)
  BY <1>2, <1>10, Facts, FollowsGrows
<1>11. ASSUME After(disk.bytes, 0, last) PROVE After(a, 0, last)
  <2>1. PICK l \in Nat : l = Len(disk.bytes)
    BY Facts
  <2>2. DOMAIN disk.bytes = 1 .. l /\ DOMAIN a = 1 .. l + 1
    BY <2>1, <1>2, Facts
  <2>3. a[l + 1] = x /\ \A i \in 1 .. l : a[i] = disk.bytes[i]
    BY <2>1, Facts
  <2>4. \A i \in 1 .. l + 1 : i \in 1 .. l \/ i = l + 1
    BY <2>1
  <2>5. \A i \in 1 .. l : disk.bytes[i].at > last.end
    BY <1>11, <2>2 DEF After
  <2>6. \A i \in 1 .. l + 1 : a[i].at > last.end
    BY <1>2, <2>3, <2>4, <2>5
  <2> QED BY <2>2, <2>6 DEF After
<1>12. Reads'
  <2>1. CASE budget = NotReading
    <3>1. opened.id = 0 /\ opened.bytes = <<>> /\ disk.id > 0
      BY <2>1 DEF TailInv, Reads, Types
    <3> QED BY <1>3, <1>7, <2>1, <3>1 DEF Reads, Apart
  <2>2. CASE budget # NotReading /\ ~Apart
    <3>1. Follows(tail, a, last)
      BY <1>10, <2>2, Facts DEF TailInv, Reads
    <3>2. opened.id = disk.id
      BY <2>2 DEF Apart
    <3> QED BY <1>3, <1>4, <1>6, <1>14, <2>2, <3>1, <3>2 DEF TailInv, Reads
  <2>3. CASE budget # NotReading /\ Apart
    <3>1. After(a, 0, last)
      BY <1>11, <2>3 DEF TailInv, Reads
    <3>2. ASSUME NEW i \in DOMAIN opened.bytes, NEW j \in DOMAIN a
          PROVE  opened.bytes[i].at < a[j].at
      <4>1. PICK l \in Nat : l = Len(disk.bytes)
        BY Facts
      <4>2. /\ DOMAIN disk.bytes = 1 .. l /\ j \in 1 .. l + 1 /\ a[l + 1] = x
            /\ \A k \in 1 .. l : a[k] = disk.bytes[k]
        BY <4>1, <1>2, Facts
      <4>3. CASE j \in 1 .. l
        BY <2>3, <4>2, <4>3 DEF TailInv, Reads
      <4>4. CASE j = l + 1
        <5>1. opened.bytes[i].at \in 1 .. written
          BY DEF TailInv, Types, Ascending
        <5> QED BY <1>1, <1>2, <4>2, <4>4, <5>1
      <4> QED BY <4>1, <4>2, <4>3, <4>4
    <3> QED BY <1>3, <1>4, <1>7, <1>14, <2>3, <3>1, <3>2 DEF TailInv, Reads
  <2> QED BY <2>1, <2>2, <2>3
<1>13. Rests'
  <2>1. SUFFICES ASSUME tail # Untracked, tail.initialized = TRUE, budget = NotReading
                 PROVE  IF Standing(tail, disk') THEN Follows(tail, a, last) ELSE After(a, 0, last)
    BY <1>3, <1>4 DEF Rests
  <2>2. CASE Standing(tail, disk)
    <3>1. Follows(tail, a, last)
      BY <1>10, <2>1, <2>2, Facts DEF TailInv, Rests
    <3>2. Standing(tail, disk')
      BY <1>4, <2>2, <3>1 DEF Standing, Follows
    <3> QED BY <3>1, <3>2
  <2>3. CASE ~Standing(tail, disk)
    <3>1. After(a, 0, last)
      BY <1>11, <2>1, <2>3 DEF TailInv, Rests
    <3>2. ASSUME Standing(tail, disk') PROVE Standing(tail, disk)
      <4>1. Closes(tail.sig, Append(disk.bytes, x), tail.offset) /\ tail.id = disk.id
        BY <1>4, <3>2 DEF Standing
      <4>2. Shape(tail, written) /\ x.at > written
        BY <1>1, <1>2, <2>1 DEF TailInv, Kept
      <4>3. Closes(tail.sig, disk.bytes, tail.offset)
        BY <1>1, <1>2, <2>1, <4>1, <4>2, Facts, StandingShrinks
      <4> QED BY <4>1, <4>3 DEF Standing
    <3> QED BY <2>3, <3>1, <3>2
  <2> QED BY <2>2, <2>3
<1> QED BY <1>8, <1>9, <1>12, <1>13 DEF TailInv

\* All bytes of the file are gone: what rests has nothing to follow, and a read goes on
\* with what it holds open.
LEMMA TruncateKeeps ==
  ASSUME TailInv, Truncate
  PROVE  TailInv'
<1>1. /\ fileFaults < MaxFileFaults /\ fileFaults' = fileFaults + 1
      /\ written' = written /\ tail' = tail /\ budget' = budget /\ last' = last /\ opened' = opened
  BY DEF Truncate, Fault
<1>2. disk' \in File /\ disk'.id = disk.id /\ disk'.bytes = <<>>
  <2>1. disk \in File /\ disk' = [disk EXCEPT !.bytes = <<>>]
    BY DEF TailInv, Types, Truncate
  <2>2. <<>> \in Seq(Byte)
    OBVIOUS
  <2>3. PICK e \in Seq(Byte) : e = <<>>
    BY <2>2
  <2>4. disk' = [disk EXCEPT !.bytes = e]
    BY <2>1, <2>3
  <2>5. disk' \in File /\ disk'.id = disk.id /\ disk'.bytes = e
    BY <2>1, <2>3, <2>4 DEF File
  <2> QED BY <2>3, <2>5
<1>3. Ascending(<<>>, written) /\ After(<<>>, 0, last)
  BY DEF Ascending, After
<1>4. fileFaults + 1 \in 0 .. MaxFileFaults
  BY <1>1, LogTailBounds DEF TailInv, Types
<1>5. Types'
  BY <1>1, <1>2, <1>3, <1>4 DEF TailInv, Types
<1>6. Kept'
  BY <1>1, <1>2 DEF TailInv, Kept
<1>7. Reads'
  <2>1. CASE budget = NotReading
    BY <1>1, <2>1 DEF TailInv, Reads
  <2>2. CASE budget # NotReading
    <3>1. Apart'
      BY <1>1, <1>2 DEF Truncate, Apart
    <3>2. DOMAIN disk'.bytes = {}
      BY <1>2
    <3> QED BY <1>1, <1>2, <1>3, <2>2, <3>1, <3>2 DEF TailInv, Reads
  <2> QED BY <2>1, <2>2
<1>8. Rests'
  <2>1. SUFFICES ASSUME tail # Untracked, Standing(tail, disk')
                 PROVE  Follows(tail, <<>>, last)
    BY <1>1, <1>2, <1>3 DEF Rests
  <2>2. tail \in State /\ Shape(tail, written) /\ Numbered(tail, last)
    BY <2>1, Facts DEF TailInv, Kept
  <2>3. tail.offset = 0
    <3>1. tail.offset \in Nat
      BY <2>2, StateIs
    <3>2. Closes(tail.sig, <<>>, tail.offset)
      BY <1>2, <2>1 DEF Standing
    <3>3. tail.offset <= Len(<<>>)
      BY <3>2 DEF Closes
    <3> QED BY <3>1, <3>3
  <2>4. last.gen = tail.gen /\ last.seq >= 0 => tail.offset > 0
    BY <2>2 DEF Numbered
  <2>5. <<>> \in Seq(Byte)
    OBVIOUS
  <2> QED BY <1>3, <2>2, <2>3, <2>4, <2>5, FollowsNothing
<1> QED BY <1>5, <1>6, <1>7, <1>8 DEF TailInv

LEMMA DeleteKeeps ==
  ASSUME TailInv, Delete
  PROVE  TailInv'
<1>1. /\ fileFaults < MaxFileFaults /\ fileFaults' = fileFaults + 1
      /\ written' = written /\ tail' = tail /\ budget' = budget /\ last' = last /\ opened' = opened
      /\ refill' = refill
  BY DEF Delete, Fault
<1>2. disk' \in File /\ disk'.id = disk.id /\ disk'.bytes = disk.bytes
  BY DEF TailInv, Types, File, Delete
<1>3. fileFaults + 1 \in 0 .. MaxFileFaults
  BY <1>1, LogTailBounds DEF TailInv, Types
<1>4. Types'
  BY <1>1, <1>2, <1>3 DEF TailInv, Types
<1>5. Kept'
  BY <1>1, <1>2 DEF TailInv, Kept
<1>6. Reads'
  BY <1>1, <1>2 DEF TailInv, Reads, Apart
<1>7. Rests'
  BY <1>1, <1>2 DEF TailInv, Rests, Standing
<1> QED BY <1>4, <1>5, <1>6, <1>7 DEF TailInv

\* A file that takes the place of another has an identity of its own.
LEMMA RecreateKeeps ==
  ASSUME TailInv, Recreate
  PROVE  TailInv'
<1>1. /\ fileFaults' = fileFaults
      /\ written' = written /\ tail' = tail /\ budget' = budget /\ last' = last /\ opened' = opened
  BY DEF Recreate
<1>2. disk' \in File /\ disk'.id = disk.id + 1 /\ disk'.bytes = <<>> /\ disk.id \in Nat
  <2>1. disk.id \in Nat
    BY Facts
  <2> QED BY <2>1 DEF File, Recreate
<1>3. Ascending(<<>>, written) /\ After(<<>>, 0, last)
  BY DEF Ascending, After
<1>4. Types'
  BY <1>1, <1>2, <1>3 DEF TailInv, Types
<1>5. tail # Untracked => tail.id \in Nat /\ tail.id <= disk.id
  BY Facts, StateIs DEF TailInv, Kept
<1>6. Kept'
  BY <1>1, <1>2, <1>5 DEF TailInv, Kept
<1>7. Reads'
  <2>1. CASE budget = NotReading
    BY <1>1, <2>1 DEF TailInv, Reads
  <2>2. CASE budget # NotReading
    <3>1. opened.id \in Nat /\ opened.id <= disk.id /\ opened.id > 0
      BY <2>2, Facts DEF TailInv, Reads
    <3>2. opened.id # disk'.id /\ opened.id <= disk'.id
      BY <1>2, <3>1
    <3>3. DOMAIN disk'.bytes = {}
      BY <1>2
    <3>4. Apart'
      BY <1>1, <3>2 DEF Apart
    <3> QED BY <1>1, <1>2, <1>3, <2>2, <3>2, <3>3, <3>4 DEF TailInv, Reads
  <2> QED BY <2>1, <2>2
<1>8. Rests'
  <2>1. tail # Untracked => ~Standing(tail, disk')
    BY <1>2, <1>5 DEF Standing
  <2> QED BY <1>1, <1>2, <1>3, <2>1 DEF Rests
<1> QED BY <1>4, <1>6, <1>7, <1>8 DEF TailInv

-----------------------------------------------------------------------------
(* The steps that take up a file, or give it up *)

\* A file entered at its end is followed from there: inside a line, only from the next.
LEMMA AtEndSound ==
  ASSUME Loose, NEW t \in State, Numbered(t, NoRecord), NEW u, u = AtEnd(t)
  PROVE  /\ u \in State /\ u.initialized = TRUE /\ u.id = disk.id
         /\ Shape(u, written) /\ Numbered(u, NoRecord) /\ Follows(u, disk.bytes, NoRecord)
<1> DEFINE b == disk.bytes
           g == Suffix(b, SigBytes)
<1>1. b \in Seq(Byte) /\ disk \in File /\ SigBytes \in Nat \ {0} /\ written \in Nat
  BY LooseFacts, LogTailBounds DEF Loose
<1>2. PICK l \in Nat : l = Len(b)
  BY <1>1
<1>3. /\ g \in Seq(Byte) /\ Len(g) <= SigBytes /\ (Len(b) > 0 => Len(g) > 0)
      /\ Closes(g, b, Len(b))
  BY <1>1, <1>2, ClosesItself, SuffixIs
<1>4. /\ u \in State /\ u.initialized = TRUE /\ u.id = disk.id
      /\ u.offset = Len(b) /\ u.pending = <<>> /\ u.discard = (b # <<>> /\ ~Last(b).nl)
      /\ u.sig = g /\ u.gen = t.gen /\ u.seq = t.seq
  BY <1>1, <1>3, AtEndIs
<1> HIDE DEF g
<1>5. PICK m \in Nat : m = Len(g)
  BY <1>3
<1>6. NoRecord.gen = 0 /\ NoRecord.seq = -1 /\ t.gen \in Nat
  BY StateIs DEF NoRecord
<1>7. Numbered(u, NoRecord)
  BY <1>4, <1>6 DEF Numbered
<1>8. Closes(<<>>, b, Len(b))
  BY <1>1, <1>2, ClosesItself
<1>9. b # <<>> <=> l > 0
  BY <1>1, <1>2
<1>10. Shape(u, written)
  <2>1. m <= l /\ \A k \in 1 .. m : g[k] = b[l - m + k]
    BY <1>2, <1>3, <1>5 DEF Closes
  <2>2. \A k \in 1 .. m : l - m + k \in DOMAIN b
    BY <1>1, <1>2, <2>1
  <2>3. \A i \in DOMAIN b : b[i].at \in 1 .. written
    BY DEF Loose, Ascending
  <2>4. \A k \in 1 .. m : g[k].at \in 1 .. written
    BY <2>1, <2>2, <2>3
  <2>5. \A k \in DOMAIN g : g[k].at <= written
    BY <1>1, <1>3, <1>5, <2>4
  <2>6. Len(<<>>) = 0
    OBVIOUS
  <2>7. Len(u.pending) <= u.offset /\ Len(u.sig) <= u.offset /\ Len(u.sig) <= SigBytes
    BY <1>2, <1>3, <1>4, <1>5, <2>1, <2>6
  <2>8. u.offset > 0 => Len(u.sig) > 0
    BY <1>3, <1>4
  <2>9. u.discard = TRUE => u.pending = <<>> /\ u.offset > 0
    <3>1. SUFFICES ASSUME u.discard = TRUE PROVE l > 0
      BY <1>2, <1>4
    <3>2. b # <<>>
      BY <1>4, <3>1, Zenon
    <3> QED BY <1>9, <3>2
  <2>10. \A k \in DOMAIN u.sig : u.sig[k].at <= written
    BY <1>4, <2>5
  <2> QED BY <2>7, <2>8, <2>9, <2>10 DEF Shape
<1>11. Start(u) = l
  BY <1>2, <1>4 DEF Start
<1>12. After(b, l, NoRecord)
  <2>1. DOMAIN b = 1 .. l
    BY <1>1, <1>2
  <2> QED BY <1>2, <2>1 DEF After
<1>13. u.discard = FALSE => l = 0 \/ b[l].nl = TRUE
  <2>1. SUFFICES ASSUME u.discard = FALSE, l # 0 PROVE b[l].nl = TRUE
    BY Zenon
  <2>2. Last(b) = b[l]
    BY <1>2 DEF Last
  <2>3. b[l] \in Byte
    BY <1>1, <1>2, <2>1
  <2>4. b[l].nl \in BOOLEAN
    BY <2>3, ByteIs
  <2>5. b # <<>>
    BY <1>2, <1>9, <2>1
  <2>6. ~(b # <<>> /\ ~Last(b).nl)
    BY <1>4, <2>1, Zenon
  <2> QED BY <2>2, <2>4, <2>5, <2>6
<1>14. Follows(u, b, NoRecord)
  BY <1>3, <1>4, <1>6, <1>8, <1>11, <1>12, <1>13 DEF Follows
<1> QED BY <1>4, <1>7, <1>10, <1>14

LEMMA NoRecordIs ==
  /\ NoRecord \in Record /\ NoRecord.gen = 0 /\ NoRecord.seq = -1 /\ NoRecord.end = 0
BY DEF NoRecord, Record

LEMMA TrackKeeps ==
  ASSUME Loose, NEW s \in FileId, Track(s)
  PROVE  TailInv'
<1>1. /\ tail.tracked # TRUE /\ last' = NoRecord
      /\ tail' = IF disk.exists THEN AtEnd(Absent(s, 0)) ELSE Absent(s, 0)
      /\ disk' = disk /\ opened' = opened /\ written' = written
      /\ fileFaults' = fileFaults /\ budget' = budget
  BY DEF Track
<1>2. tail = Untracked /\ budget = NotReading
  <2>1. tail = Untracked
    BY <1>1, StateIs DEF Loose
  <2> QED BY <2>1 DEF Loose
<1>3. PICK t : t = Absent(s, 0)
  OBVIOUS
<1>4. /\ t \in State /\ t.initialized = FALSE /\ t.id = 0 /\ t.offset = 0
      /\ t.pending = <<>> /\ t.discard = FALSE /\ t.sig = <<>> /\ t.gen = 0 /\ t.seq = 0
  BY <1>3, AbsentIs
<1>5. Numbered(t, NoRecord)
  BY <1>4, NoRecordIs DEF Numbered
<1>6. last' \in Record /\ last'.end <= written
  BY <1>1, NoRecordIs, LooseFacts
<1>7. Reads'
  BY <1>1, <1>2 DEF Loose, Reads
<1>10. Ascending(opened.bytes, written)
  BY <1>2 DEF Loose, Ascending
<1>8. CASE disk.exists
  <2>1. PICK u : u = AtEnd(t)
    OBVIOUS
  <2>2. tail' = u
    BY <1>1, <1>3, <1>8, <2>1
  <2>3. /\ u \in State /\ u.initialized = TRUE /\ u.id = disk.id
        /\ Shape(u, written) /\ Numbered(u, NoRecord) /\ Follows(u, disk.bytes, NoRecord)
    BY <1>4, <1>5, <2>1, AtEndSound
  <2>4. Types'
    BY <1>1, <1>6, <1>10, <2>2, <2>3 DEF Loose, Types
  <2>5. Kept'
    BY <1>1, <2>2, <2>3, LooseFacts DEF Kept
  <2>6. Standing(u, disk)
    BY <2>3 DEF Standing, Follows
  <2>7. Rests'
    BY <1>1, <2>2, <2>3, <2>6 DEF Rests
  <2> QED BY <1>7, <2>4, <2>5, <2>7 DEF TailInv
<1>9. CASE ~disk.exists
  <2>1. tail' = t
    BY <1>1, <1>3, <1>9
  <2>2. Types'
    BY <1>1, <1>4, <1>6, <1>10, <2>1 DEF Loose, Types
  <2>3. Shape(t, written)
    <3>1. SigBytes \in Nat
      BY LogTailBounds
    <3>2. Len(<<>>) = 0 /\ DOMAIN <<>> = {}
      OBVIOUS
    <3> QED BY <1>4, <3>1, <3>2 DEF Shape
  <2>4. Kept'
    BY <1>1, <1>4, <1>5, <2>1, <2>3, LooseFacts DEF Kept
  <2>5. Rests'
    BY <1>4, <2>1 DEF Rests
  <2> QED BY <1>7, <2>2, <2>4, <2>5 DEF TailInv
<1> QED BY <1>8, <1>9

LEMMA UntrackKeeps ==
  ASSUME TailInv, Untrack
  PROVE  TailInv'
<1>1. /\ tail' = Untracked /\ budget = NotReading /\ budget' = budget
      /\ disk' = disk /\ opened' = opened /\ written' = written /\ last' = last
      /\ fileFaults < MaxFileFaults /\ fileFaults' = fileFaults + 1
  BY DEF Untrack, reading
<1>2. fileFaults + 1 \in 0 .. MaxFileFaults
  BY <1>1, LogTailBounds DEF TailInv, Types
<1>3. Types'
  BY <1>1, <1>2 DEF TailInv, Types
<1>4. Kept' /\ Rests'
  BY <1>1 DEF Kept, Rests
<1>5. Reads'
  BY <1>1 DEF TailInv, Reads
<1> QED BY <1>3, <1>4, <1>5 DEF TailInv

\* The line that was begun under the old name is given up, up to its end.
LEMMA ReassociateKeeps ==
  ASSUME TailInv, NEW s \in FileId, Reassociate(s)
  PROVE  TailInv'
<1>1. /\ budget = NotReading /\ budget' = budget
      /\ disk' = disk /\ opened' = opened /\ written' = written /\ last' = last
      /\ fileFaults < MaxFileFaults /\ fileFaults' = fileFaults + 1
      /\ tail.tracked = TRUE
  BY Facts DEF Reassociate, reading
<1>2. /\ tail # Untracked /\ tail \in State
      /\ Shape(tail, written) /\ Numbered(tail, last) /\ tail.id <= disk.id
      /\ tail.initialized = FALSE => last = NoRecord /\ tail.offset = 0
  BY <1>1, Facts DEF TailInv, Kept
<1>3. /\ tail.offset \in Nat /\ tail.pending \in Seq(Byte) /\ tail.sig \in Seq(Byte)
      /\ tail.gen \in Nat /\ tail.discard \in BOOLEAN
  BY <1>2, StateIs
<1>4. PICK v : v = [tail EXCEPT !.source = s]
  OBVIOUS
<1>5. /\ v \in State /\ v.initialized = tail.initialized /\ v.id = tail.id /\ v.offset = tail.offset
      /\ v.pending = tail.pending /\ v.discard = tail.discard /\ v.sig = tail.sig
      /\ v.gen = tail.gen
  BY <1>2, <1>4 DEF State
<1>6. PICK t : t = NextGeneration(v)
  OBVIOUS
<1>7. /\ t \in State /\ t.initialized = tail.initialized /\ t.id = tail.id /\ t.offset = tail.offset
      /\ t.pending = tail.pending /\ t.discard = tail.discard /\ t.sig = tail.sig
      /\ t.gen = tail.gen + 1 /\ t.seq = 0
  BY <1>5, <1>6, NextGenerationIs
<1>8. PICK u : u = tail'
  OBVIOUS
<1>9. u = IF t.pending # <<>> \/ t.discard THEN [t EXCEPT !.pending = <<>>, !.discard = TRUE] ELSE t
  BY <1>4, <1>6, <1>8 DEF Reassociate
<1>10. /\ u \in State /\ u.initialized = tail.initialized /\ u.id = tail.id
       /\ u.offset = tail.offset /\ u.sig = tail.sig /\ u.gen = tail.gen + 1 /\ u.seq = 0
       /\ \/ u.pending = tail.pending /\ u.discard = tail.discard
          \/ u.pending = <<>> /\ u.discard = TRUE /\ tail.offset > 0
  <2>1. CASE t.pending # <<>> \/ t.discard = TRUE
    <3>1. u = [t EXCEPT !.pending = <<>>, !.discard = TRUE]
      BY <1>9, <2>1
    <3>2. /\ u \in State /\ IsAt(u, t, t.initialized, t.id, t.offset, <<>>, TRUE, t.sig)
      <4>1. /\ t.initialized \in BOOLEAN /\ t.id \in Nat /\ t.offset \in Nat /\ t.sig \in Seq(Byte)
        BY <1>7, StateIs
      <4>2. <<>> \in Seq(Byte) /\ TRUE \in BOOLEAN
        OBVIOUS
      <4>3. At(u, t, t.initialized, t.id, t.offset, <<>>, TRUE, t.sig)
        BY <1>7, <3>1 DEF At, State
      <4> QED BY <1>7, <4>1, <4>2, <4>3, PlacedAt
    <3>3. tail.offset > 0
      <4>1. CASE tail.pending # <<>>
        <5>1. PICK m \in Nat : m = Len(tail.pending) /\ m > 0
          BY <1>3, <4>1
        <5> QED BY <1>2, <1>3, <5>1 DEF Shape
      <4>2. CASE tail.discard = TRUE
        BY <1>2, <4>2 DEF Shape
      <4> QED BY <1>7, <2>1, <4>1, <4>2
    <3> QED BY <1>7, <3>2, <3>3 DEF IsAt
  <2>2. CASE ~(t.pending # <<>> \/ t.discard = TRUE)
    <3>1. u = t
      <4>1. t.discard \in BOOLEAN
        BY <1>7, StateIs
      <4> QED BY <1>9, <2>2, <4>1
    <3> QED BY <1>7, <3>1
  <2> QED BY <2>1, <2>2
<1>11. Types'
  <2>1. fileFaults + 1 \in 0 .. MaxFileFaults
    BY <1>1, LogTailBounds DEF TailInv, Types
  <2> QED BY <1>1, <1>8, <1>10, <2>1 DEF TailInv, Types
<1>12. Shape(u, written)
  <2>1. Len(<<>>) = 0
    OBVIOUS
  <2> QED BY <1>2, <1>3, <1>10, <2>1 DEF Shape
<1>13. last.gen \in Nat /\ last.gen < tail.gen + 1
  BY <1>2, <1>3, Facts DEF Numbered
<1>14. Kept'
  <2>1. Numbered(u, last)
    BY <1>3, <1>10, <1>13 DEF Numbered
  <2> QED BY <1>1, <1>2, <1>8, <1>10, <1>12, <2>1 DEF Kept
<1>15. Reads'
  BY <1>1 DEF TailInv, Reads
<1>16. ASSUME Follows(tail, disk.bytes, last) PROVE Follows(u, disk.bytes, last)
  <2>1. disk.bytes \in Seq(Byte)
    BY Facts
  <2>2. PICK n \in Nat, o \in Nat : n = Start(tail) /\ o = tail.offset
    BY <1>2, <1>3, <1>16, <2>1, Placed
  <2>3. n <= o /\ o <= Len(disk.bytes)
    <3>1. PICK m \in Nat : m = Len(tail.pending)
      BY <1>3
    <3>2. n + m = o
      BY <1>2, <1>16, <2>1, <2>2, <3>1, Placed
    <3>3. o <= Len(disk.bytes)
      BY <1>2, <1>16, <2>1, <2>2, Placed
    <3> QED BY <2>2, <3>1, <3>2, <3>3
  <2>4. CASE u.pending = tail.pending /\ u.discard = tail.discard
    <3>1. Start(u) = Start(tail)
      BY <1>10, <2>4 DEF Start
    <3> QED BY <1>3, <1>10, <1>13, <1>16, <2>4, <3>1 DEF Follows
  <2>5. CASE u.pending = <<>> /\ u.discard = TRUE
    <3>1. Start(u) = o
      BY <1>10, <2>2, <2>5 DEF Start
    <3>2. After(disk.bytes, o, last)
      <4>1. After(disk.bytes, n, last)
        BY <1>16, <2>2 DEF Follows
      <4>2. \A i \in DOMAIN disk.bytes : i \in Nat
        BY <2>1
      <4> QED BY <2>2, <2>3, <4>1, <4>2 DEF After
    <3>3. Closes(<<>>, disk.bytes, o)
      BY <2>1, <2>2, <2>3, ClosesItself
    <3> QED BY <1>3, <1>10, <1>13, <1>16, <2>2, <2>5, <3>1, <3>2, <3>3 DEF Follows
  <2> QED BY <1>10, <2>4, <2>5
<1>17. Rests'
  <2>1. Standing(u, disk) <=> Standing(tail, disk)
    BY <1>10 DEF Standing
  <2> QED BY <1>1, <1>2, <1>8, <1>10, <1>16, <2>1 DEF TailInv, Rests
<1> QED BY <1>11, <1>14, <1>15, <1>17 DEF TailInv

-----------------------------------------------------------------------------
(* The steps of a read *)

\* A step inside a read leaves the files alone.
LEMMA ReadingKeeps ==
  ASSUME TailInv, budget # NotReading,
         disk' = disk, opened' = opened, refill' = refill, written' = written,
         fileFaults' = fileFaults, budget' \in Budget, last' \in Record, last'.end <= written,
         Apart => After(disk.bytes, 0, last'),
         tail' \in State, tail'.initialized = TRUE, tail'.id = tail.id,
         Shape(tail', written), Numbered(tail', last'), Follows(tail', opened.bytes, last')
  PROVE  TailInv'
<1>1. budget' # NotReading
  BY Distinct
<1>2. tail' # Untracked
  BY Distinct
<1>3. Types'
  BY DEF TailInv, Types
<1>4. tail'.id <= disk.id
  BY Facts DEF TailInv, Kept
<1>5. Kept'
  BY <1>4 DEF Kept
<1>6. Reads'
  <2>1. Apart' <=> Apart
    BY DEF Apart
  <2> QED BY <1>1, <1>2, <2>1 DEF TailInv, Reads
<1>7. Rests'
  BY <1>1 DEF Rests
<1> QED BY <1>3, <1>5, <1>6, <1>7 DEF TailInv

\* What a step inside a read can rely on.
LEMMA InRead ==
  ASSUME TailInv, reading
  PROVE  /\ budget # NotReading /\ budget \in Budget
         /\ tail \in State /\ tail.initialized = TRUE
         /\ Shape(tail, written) /\ Numbered(tail, last)
         /\ opened.bytes \in Seq(Byte) /\ Follows(tail, opened.bytes, last)
         /\ Apart => After(disk.bytes, 0, last)
<1>1. budget # NotReading /\ budget \in Budget
  BY DEF TailInv, Types, reading
<1>2. tail \in State /\ tail # Untracked
  BY <1>1, Facts DEF TailInv, Reads
<1> QED BY <1>1, <1>2, Facts DEF TailInv, Reads, Kept

LEMMA FirstEndIs ==
  ASSUME NEW t \in State, LineEnds(t) # {}
  PROVE  /\ FirstEnd(t) \in Nat /\ FirstEnd(t) >= 1 /\ FirstEnd(t) <= Len(t.pending)
         /\ t.pending[FirstEnd(t)].nl = TRUE
         /\ \A k \in 1 .. FirstEnd(t) - 1 : t.pending[k].nl = FALSE
<1>1. t.pending \in Seq(Byte)
  BY StateIs
<1>2. PICK m \in Nat : m = Len(t.pending)
  BY <1>1
<1>3. DOMAIN t.pending = 1 .. m
  BY <1>1, <1>2
<1>4. LineEnds(t) \in SUBSET Nat
  BY <1>3 DEF LineEnds
<1>5. \E i \in LineEnds(t) : \A j \in LineEnds(t) : i <= j
  BY <1>4, LeastNatural
<1>6. PICK e : e = FirstEnd(t)
  OBVIOUS
<1>7. e \in LineEnds(t) /\ \A j \in LineEnds(t) : e <= j
  BY <1>5, <1>6 DEF FirstEnd
<1>8. \A k \in 1 .. m : t.pending[k].nl \in BOOLEAN
  <2>1. \A k \in 1 .. m : t.pending[k] \in Byte
    BY <1>1, <1>2
  <2> QED BY <2>1, ByteIs
<1>9. e \in 1 .. m /\ t.pending[e].nl = TRUE
  BY <1>3, <1>7, <1>8 DEF LineEnds
<1>10. ASSUME NEW k \in 1 .. e - 1 PROVE t.pending[k].nl = FALSE
  <2>1. k \in 1 .. m /\ ~(e <= k)
    BY <1>2, <1>9
  <2>2. k \notin LineEnds(t)
    BY <1>7, <2>1
  <2> QED BY <1>3, <1>8, <2>1, <2>2 DEF LineEnds
<1>11. e \in Nat /\ e >= 1 /\ e <= Len(t.pending)
  BY <1>2, <1>9
<1>12. \A k \in 1 .. e - 1 : t.pending[k].nl = FALSE
  BY <1>10
<1> QED BY <1>6, <1>9, <1>11, <1>12, Zenon

\* The first n pending bytes leave: the next line begins after them.
LEMMA DropsBytes ==
  ASSUME NEW t \in State, NEW b \in Seq(Byte), NEW r, Follows(t, b, r),
         NEW n \in Nat, n <= Len(t.pending), NEW u, u = DropBytes(t, n)
  PROVE  /\ u \in State
         /\ u.source = t.source /\ u.initialized = t.initialized /\ u.id = t.id
         /\ u.offset = t.offset /\ u.discard = t.discard
         /\ u.sig = t.sig /\ u.gen = t.gen /\ u.seq = t.seq
         /\ Closes(u.pending, b, t.offset) /\ Len(u.pending) <= t.offset
         /\ Start(u) = Start(t) + n
<1>1. PICK p : p = SubSeq(t.pending, n + 1, Len(t.pending))
  OBVIOUS
<1>2. t.pending \in Seq(Byte) /\ t.offset \in Nat
  BY StateIs
<1>3. PICK m \in Nat : m = Len(t.pending)
  BY <1>2
<1>4. Closes(t.pending, b, t.offset)
  BY DEF Follows
<1>5. p \in Seq(Byte) /\ Closes(p, b, t.offset) /\ Len(p) = m - n
  BY <1>1, <1>2, <1>3, <1>4, ClosesLess
<1>6. Keeps(u, t, p)
  BY <1>1, DropBytesIs
<1>7. /\ u \in State
      /\ u.source = t.source /\ u.initialized = t.initialized /\ u.id = t.id
      /\ u.offset = t.offset /\ u.pending = p /\ u.discard = t.discard
      /\ u.sig = t.sig /\ u.gen = t.gen /\ u.seq = t.seq
  BY <1>5, <1>6, KeepsIs
<1>8. m <= t.offset /\ Start(t) = t.offset - m
  BY <1>3, Placed DEF Start
<1>9. Len(p) <= t.offset /\ Start(u) = t.offset - (m - n)
  BY <1>2, <1>3, <1>5, <1>7, <1>8 DEF Start
<1>10. t.offset - (m - n) = t.offset - m + n
  BY <1>2, <1>3
<1> QED BY <1>5, <1>7, <1>8, <1>9, <1>10

LEMMA AfterLess ==
  ASSUME NEW b \in Seq(Byte), NEW n \in Nat, NEW m \in Nat, n <= m, NEW r, After(b, n, r)
  PROVE  After(b, m, r)
<1>1. \A i \in DOMAIN b : i \in Nat
  OBVIOUS
<1> QED BY <1>1 DEF After

\* A generation of its own: nothing joins up with an earlier record.
LEMMA FollowsAnew ==
  ASSUME NEW t \in State, NEW b \in Seq(Byte), NEW r \in Record, Follows(t, b, r), Numbered(t, r),
         NEW u \in State, u.offset = t.offset, u.sig = t.sig, u.gen = t.gen + 1, u.seq = 0,
         Closes(u.pending, b, t.offset), NEW m \in Nat, Start(u) = m, Start(t) <= m,
         u.discard = FALSE => m = 0 \/ b[m].nl = TRUE
  PROVE  Follows(u, b, r) /\ Numbered(u, r)
<1>1. r.gen \in Nat /\ t.gen \in Nat
  BY ByteIs, StateIs
<1>2. r.gen # u.gen /\ r.gen <= u.gen
  BY <1>1 DEF Numbered
<1>3. Start(t) \in Nat
  BY Placed
<1>4. After(b, m, r)
  BY <1>3, AfterLess DEF Follows
<1> QED BY <1>2, <1>4 DEF Follows, Numbered

LEMMA BeginReadKeeps ==
  ASSUME Loose, TailInv, crossed = FALSE, BeginRead
  PROVE  TailInv'
<1>1. /\ budget = NotReading /\ tail.tracked = TRUE
      /\ disk' = disk /\ written' = written /\ fileFaults' = fileFaults /\ last' = last
  BY Facts DEF BeginRead, reading
<1>2. /\ tail # Untracked /\ tail \in State
      /\ Shape(tail, written) /\ Numbered(tail, last) /\ tail.id <= disk.id
      /\ tail.initialized = FALSE => last = NoRecord /\ tail.offset = 0
  BY <1>1, Facts DEF TailInv, Kept
<1>3. tail.initialized \in BOOLEAN /\ tail.gen \in Nat /\ disk \in File /\ disk.bytes \in Seq(Byte)
  BY <1>2, StateIs, Facts DEF TailInv, Types
<1>4. CASE tail.initialized = FALSE
  <2>1. last = NoRecord /\ tail' = AtEnd(tail) /\ budget' = budget /\ opened' = opened
    BY <1>2, <1>4 DEF BeginRead
  <2>2. PICK u : u = AtEnd(tail)
    OBVIOUS
  <2>3. Numbered(tail, NoRecord)
    BY <1>2, <2>1
  <2>4. /\ u \in State /\ u.initialized = TRUE /\ u.id = disk.id
        /\ Shape(u, written) /\ Numbered(u, NoRecord) /\ Follows(u, disk.bytes, NoRecord)
    BY <1>2, <2>2, <2>3, AtEndSound
  <2>5. Types'
    BY <1>1, <2>1, <2>2, <2>4 DEF TailInv, Types
  <2>6. Kept'
    BY <1>1, <2>1, <2>2, <2>4, Facts DEF Kept
  <2>7. Reads'
    BY <1>1, <2>1 DEF TailInv, Reads
  <2>8. Standing(u, disk)
    BY <2>4 DEF Standing, Follows
  <2>9. Rests'
    BY <1>1, <2>1, <2>2, <2>4, <2>8 DEF Rests
  <2> QED BY <2>5, <2>6, <2>7, <2>9 DEF TailInv
<1>5. CASE tail.initialized = TRUE
  <2>1. /\ tail' = IF Changed THEN FromByteZero(tail) ELSE tail
        /\ opened' = disk /\ budget' = [bytes |-> BudgetBytes, records |-> BudgetRecords]
    BY <1>5 DEF BeginRead
  <2>2. budget' \in Budget /\ budget' # NotReading
    <3>1. budget' \in Budget
      BY <2>1, LogTailBounds DEF Budget
    <3> QED BY <3>1, Distinct
  <2>3. PICK u : u = tail'
    OBVIOUS
  <2>4. /\ u \in State /\ u.initialized = TRUE /\ u.id = disk.id
        /\ Shape(u, written) /\ Numbered(u, last) /\ Follows(u, disk.bytes, last)
    <3>1. CASE Standing(tail, disk)
      <4>1. u = tail
        BY <1>2, <1>3, <2>1, <2>3, <3>1, ChangedIs
      <4>2. Follows(tail, disk.bytes, last)
        BY <1>1, <1>2, <1>5, <3>1 DEF TailInv, Rests
      <4> QED BY <1>2, <1>5, <3>1, <4>1, <4>2 DEF Standing
    <3>2. CASE ~Standing(tail, disk)
      <4>1. u = FromByteZero(tail)
        BY <1>2, <1>3, <2>1, <2>3, <3>2, ChangedIs
      <4>2. /\ u \in State /\ u.initialized = TRUE /\ u.id = disk.id
            /\ u.offset = 0 /\ u.pending = <<>> /\ u.discard = FALSE
            /\ u.sig = <<>> /\ u.gen = tail.gen + 1 /\ u.seq = 0
        BY <1>2, <1>3, <1>5, <4>1, FromByteZeroIs
      <4>3. After(disk.bytes, 0, last)
        BY <1>1, <1>2, <1>5, <3>2 DEF TailInv, Rests
      <4>4. Shape(u, written)
        <5>1. SigBytes \in Nat
          BY LogTailBounds
        <5>2. Len(<<>>) = 0 /\ DOMAIN <<>> = {}
          OBVIOUS
        <5> QED BY <4>2, <5>1, <5>2 DEF Shape
      <4>5. last.gen \in Nat /\ last.gen # u.gen /\ last.gen <= u.gen
        <5>1. last.gen \in Nat /\ last.gen <= tail.gen
          BY <1>2, Facts DEF Numbered
        <5> QED BY <1>3, <4>2, <5>1
      <4>6. Numbered(u, last)
        BY <4>5 DEF Numbered
      <4>7. Follows(u, disk.bytes, last)
        BY <1>3, <4>2, <4>3, <4>4, <4>5, FollowsNothing
      <4> QED BY <4>2, <4>4, <4>6, <4>7
    <3> QED BY <3>1, <3>2
  <2>5. Types'
    BY <1>1, <1>3, <2>1, <2>2, <2>3, <2>4 DEF TailInv, Types
  <2>6. disk.id \in Nat /\ disk.id > 0 /\ disk.id <= disk.id
    <3>1. disk.id \in Nat /\ disk.id > 0
      BY Facts DEF TailInv, Types
    <3> QED BY <3>1
  <2>7. Kept'
    BY <1>1, <2>3, <2>4, <2>6 DEF Kept
  <2>8. u # Untracked
    BY <2>4, Distinct
  <2>11. ~Apart'
    BY <1>1, <1>5, <2>1 DEF Apart, BeginRead, Intact
  <2>9. Reads'
    BY <1>1, <2>1, <2>2, <2>3, <2>4, <2>6, <2>8, <2>11 DEF Reads
  <2>10. Rests'
    BY <2>2 DEF Rests
  <2> QED BY <2>5, <2>7, <2>9, <2>10 DEF TailInv
<1> QED BY <1>3, <1>4, <1>5

\* Of the properties of each step, what a record says of the lines of the open file.
LineStep ==
  last' # last /\ last' # NoRecord /\ ~crossed =>
    \E i, j \in DOMAIN opened.bytes :
      /\ opened.bytes[i].at = last'.first /\ opened.bytes[j].at = last'.end
      /\ {k \in i .. j : opened.bytes[k].nl} = {j}
      /\ i = 1 \/ opened.bytes[i - 1].nl
      /\ j - i <= MaxLine

OrderStep ==
  last' # last /\ last' # NoRecord /\ ~crossed =>
    /\ last'.first > last.end
    /\ \/ last'.gen > last.gen
       \/ /\ last'.gen = last.gen /\ last'.seq = last.seq + 1
          /\ last.seq >= 0 =>
               \E i \in DOMAIN opened.bytes :
                 opened.bytes[i].at = last.end /\ opened.bytes[i + 1].at = last'.first

\* Where the record stands that is extracted.
LEMMA EmitPlaces ==
  ASSUME TailInv, Emit
  PROVE  \E s \in Nat, e \in Nat, l \in Nat :
           /\ e >= 1 /\ s + e <= l /\ l = Len(opened.bytes)
           /\ s = Start(tail) /\ e = FirstEnd(tail) /\ e <= Len(tail.pending)
           /\ last'.first = opened.bytes[s + 1].at /\ last'.end = opened.bytes[s + e].at
           /\ opened.bytes[s + e].nl = TRUE
           /\ \A k \in s + 1 .. s + e - 1 : opened.bytes[k].nl = FALSE
           /\ e - 1 <= MaxLine /\ tail.discard = FALSE
<1> DEFINE b == opened.bytes
<1>1. /\ reading /\ LineEnds(tail) # {} /\ ~Oversized(tail)
      /\ last' = [gen |-> tail.gen, seq |-> tail.seq, first |-> tail.pending[1].at,
                  end |-> tail.pending[FirstEnd(tail)].at]
  BY DEF Emit
<1>2. /\ tail \in State /\ Shape(tail, written) /\ b \in Seq(Byte) /\ Follows(tail, b, last)
  BY <1>1, InRead
<1>3. tail.offset \in Nat /\ tail.pending \in Seq(Byte) /\ tail.discard \in BOOLEAN
  BY <1>2, StateIs
<1>4. PICK e \in Nat, s \in Nat, l \in Nat, m \in Nat, o \in Nat :
         /\ e = FirstEnd(tail) /\ s = Start(tail) /\ l = Len(b) /\ m = Len(tail.pending)
         /\ o = tail.offset
  BY <1>1, <1>2, <1>3, FirstEndIs, Placed
<1>5. /\ e >= 1 /\ e <= m /\ tail.pending[e].nl = TRUE
      /\ \A k \in 1 .. e - 1 : tail.pending[k].nl = FALSE
  BY <1>1, <1>2, <1>4, FirstEndIs
<1>6. o <= l /\ s + m = o /\ \A k \in 1 .. m : tail.pending[k] = b[s + k]
  BY <1>2, <1>4, Placed
<1>7. tail.pending[1] = b[s + 1] /\ tail.pending[e] = b[s + e]
  <2>1. 1 \in 1 .. m /\ e \in 1 .. m
    BY <1>4, <1>5
  <2> QED BY <1>6, <2>1
<1>8. last'.first = b[s + 1].at /\ last'.end = b[s + e].at
  BY <1>1, <1>4, <1>7
<1>9. ASSUME NEW k \in s + 1 .. s + e - 1 PROVE b[k].nl = FALSE
  <2>1. e <= m /\ s \in Nat /\ e \in Nat /\ m \in Nat
    BY <1>4, <1>5
  <2>2. k - s \in 1 .. e - 1 /\ k - s \in 1 .. m /\ s + (k - s) = k
    BY ONLY <2>1, k \in s + 1 .. s + e - 1
  <2> QED BY <1>5, <1>6, <2>2
<1>10. e - 1 <= MaxLine
  <2>1. ~(LineLen(tail) > MaxLine) /\ LineLen(tail) = e - 1
    BY <1>1, <1>4 DEF Oversized, LineLen
  <2>2. MaxLine \in Nat /\ e \in Nat
    BY <1>4, LogTailBounds
  <2> QED BY ONLY <2>1, <2>2
<1>11. tail.discard = FALSE
  <2>1. tail.pending # <<>>
    BY <1>3, <1>4, <1>5
  <2> QED BY <1>2, <1>3, <2>1 DEF Shape
<1>12. s + e <= l
  <2>1. s \in Nat /\ e \in Nat /\ l \in Nat /\ m \in Nat /\ o \in Nat
    BY <1>4
  <2>2. e <= m /\ s + m = o /\ o <= l
    BY <1>5, <1>6
  <2> QED BY ONLY <2>1, <2>2
<1> QED BY <1>4, <1>5, <1>7, <1>8, <1>9, <1>10, <1>11, <1>12

\* The record is a whole line, and comes where it should.
LEMMA EmitSound ==
  ASSUME TailInv, Emit
  PROVE  LineStep /\ OrderStep
<1> DEFINE b == opened.bytes
<1>1. PICK s \in Nat, e \in Nat, l \in Nat :
           /\ e >= 1 /\ s + e <= l /\ l = Len(b)
           /\ s = Start(tail) /\ e = FirstEnd(tail) /\ e <= Len(tail.pending)
           /\ last'.first = b[s + 1].at /\ last'.end = b[s + e].at
           /\ b[s + e].nl = TRUE
           /\ \A k \in s + 1 .. s + e - 1 : b[k].nl = FALSE
           /\ e - 1 <= MaxLine /\ tail.discard = FALSE
  BY EmitPlaces
<1>2. /\ tail \in State /\ Numbered(tail, last) /\ b \in Seq(Byte) /\ Follows(tail, b, last)
  BY InRead DEF Emit
<1>3. DOMAIN b = 1 .. l
  BY <1>1, <1>2
<1>4. last'.gen = tail.gen /\ last'.seq = tail.seq
  BY DEF Emit
<1>5. s = 0 \/ b[s].nl = TRUE
  BY <1>1, <1>2 DEF Follows
<1>6. LineStep
  <2>1. s + 1 \in DOMAIN b /\ s + e \in DOMAIN b /\ (s + e) - (s + 1) <= MaxLine
    <3>1. MaxLine \in Nat /\ s \in Nat /\ e \in Nat /\ l \in Nat
      BY LogTailBounds
    <3>2. e >= 1 /\ s + e <= l /\ e - 1 <= MaxLine
      BY <1>1
    <3>3. s + 1 \in 1 .. l /\ s + e \in 1 .. l /\ (s + e) - (s + 1) <= MaxLine
      BY ONLY <3>1, <3>2
    <3> QED BY <1>3, <3>3
  <2>2. {k \in s + 1 .. s + e : b[k].nl} = {s + e}
    <3>0. s \in Nat /\ e \in Nat /\ e >= 1
      BY <1>1
    <3>1. \A k \in s + 1 .. s + e : k = s + e \/ k \in s + 1 .. s + e - 1
      BY ONLY <3>0
    <3>2. s + e \in s + 1 .. s + e
      BY ONLY <3>0
    <3> QED BY <1>1, <3>1, <3>2
  <2>3. s + 1 = 1 \/ b[(s + 1) - 1].nl
    <3>1. (s + 1) - 1 = s
      BY <1>1
    <3> QED BY <1>5, <3>1
  <2> QED BY <1>1, <2>1, <2>2, <2>3 DEF LineStep
<1>7. OrderStep
  <2>1. last'.first > last.end
    <3>1. s + 1 \in DOMAIN b /\ s + 1 > s
      BY <1>1, <1>3
    <3> QED BY <1>1, <1>2, <3>1 DEF Follows, After
  <2>2. last.gen \in Nat /\ tail.gen \in Nat /\ last.gen <= tail.gen
    BY <1>2, Facts, StateIs DEF Numbered
  <2>3. CASE last.gen = tail.gen
    <3>1. last'.seq = last.seq + 1
      BY <1>2, <1>4, <2>3 DEF Numbered
    <3>2. ASSUME last.seq >= 0
          PROVE  \E i \in DOMAIN b : b[i].at = last.end /\ b[i + 1].at = last'.first
      <4>1. s > 0 /\ b[s].at = last.end
        BY <1>1, <1>2, <2>3, <3>2 DEF Follows
      <4>2. s \in DOMAIN b
        BY <1>1, <1>3, <4>1
      <4> QED BY <1>1, <4>1, <4>2
    <3> QED BY <1>4, <2>1, <2>3, <3>1, <3>2 DEF OrderStep
  <2>4. CASE last.gen # tail.gen
    <3>1. last'.gen > last.gen
      BY <1>4, <2>2, <2>4
    <3> QED BY <2>1, <3>1 DEF OrderStep
  <2> QED BY <2>3, <2>4
<1> QED BY <1>6, <1>7

\* t with the next sequence number.
Renumbers(u, t, q) == u = [t EXCEPT !.seq = q]

LEMMA CountsIs ==
  ASSUME NEW t \in State, NEW q \in Nat, NEW u, Renumbers(u, t, q)
  PROVE  /\ u \in State
         /\ u.source = t.source /\ u.initialized = t.initialized /\ u.id = t.id
         /\ u.offset = t.offset /\ u.pending = t.pending /\ u.discard = t.discard
         /\ u.sig = t.sig /\ u.gen = t.gen /\ u.seq = q
<1>1. u \in State
  BY DEF Renumbers, State
<1>2. /\ u.source = t.source /\ u.initialized = t.initialized /\ u.id = t.id
      /\ u.offset = t.offset /\ u.pending = t.pending /\ u.discard = t.discard
      /\ u.sig = t.sig /\ u.gen = t.gen /\ u.seq = q
  BY DEF Renumbers, State
<1> QED BY <1>1, <1>2

\* What a read may still take.
LEMMA BudgetIs ==
  ASSUME NEW x \in Budget, NEW n \in Nat
  PROVE  /\ x.bytes \in 0 .. BudgetBytes /\ x.records \in 0 .. BudgetRecords
         /\ n <= x.bytes => [x EXCEPT !.bytes = @ - n] \in Budget
         /\ n <= x.records => [x EXCEPT !.records = @ - n] \in Budget
<1>1. x.bytes \in 0 .. BudgetBytes /\ x.records \in 0 .. BudgetRecords
  BY DEF Budget
<1>2. BudgetBytes \in Nat /\ BudgetRecords \in Nat
  BY LogTailBounds
<1>3. ASSUME n <= x.bytes PROVE [x EXCEPT !.bytes = @ - n] \in Budget
  <2>1. x.bytes - n \in 0 .. BudgetBytes
    BY <1>1, <1>2, <1>3
  <2> QED BY <2>1 DEF Budget
<1>4. ASSUME n <= x.records PROVE [x EXCEPT !.records = @ - n] \in Budget
  <2>1. x.records - n \in 0 .. BudgetRecords
    BY <1>1, <1>2, <1>4
  <2> QED BY <2>1 DEF Budget
<1> QED BY <1>1, <1>3, <1>4

LEMMA EmitKeeps ==
  ASSUME TailInv, Emit
  PROVE  TailInv'
<1> DEFINE b == opened.bytes
<1>1. PICK s \in Nat, e \in Nat, l \in Nat :
           /\ e >= 1 /\ s + e <= l /\ l = Len(b)
           /\ s = Start(tail) /\ e = FirstEnd(tail) /\ e <= Len(tail.pending)
           /\ last'.first = b[s + 1].at /\ last'.end = b[s + e].at
           /\ b[s + e].nl = TRUE
           /\ \A k \in s + 1 .. s + e - 1 : b[k].nl = FALSE
           /\ e - 1 <= MaxLine /\ tail.discard = FALSE
  BY EmitPlaces
<1>2. /\ budget # NotReading /\ budget \in Budget
      /\ tail \in State /\ tail.initialized = TRUE
      /\ Shape(tail, written) /\ Numbered(tail, last)
      /\ b \in Seq(Byte) /\ Follows(tail, b, last)
  BY InRead DEF Emit
<1>3. DOMAIN b = 1 .. l
  BY <1>1, <1>2
<1>4. /\ disk' = disk /\ opened' = opened /\ written' = written /\ fileFaults' = fileFaults
      /\ refill' = refill
      /\ budget' = [budget EXCEPT !.records = @ - 1] /\ budget.records > 0
      /\ tail' = [DropBytes(tail, e) EXCEPT !.seq = @ + 1]
      /\ last' = [gen |-> tail.gen, seq |-> tail.seq, first |-> tail.pending[1].at,
                  end |-> tail.pending[FirstEnd(tail)].at]
  BY <1>1 DEF Emit
<1>5. budget' \in Budget
  <2>1. budget.records \in Nat /\ 1 <= budget.records
    <3>1. budget.records \in 0 .. BudgetRecords /\ BudgetRecords \in Nat
      BY <1>2, LogTailBounds DEF Budget
    <3> QED BY <1>4, <3>1
  <2> QED BY <1>2, <1>4, <2>1, BudgetIs
<1>6. /\ tail.offset \in Nat /\ tail.pending \in Seq(Byte) /\ tail.gen \in Nat /\ tail.seq \in Nat
      /\ tail.sig \in Seq(Byte)
  BY <1>2, StateIs
<1>7. last'.gen = tail.gen /\ last'.seq = tail.seq
  BY <1>4
<1>8. s + e \in DOMAIN b /\ s + 1 \in DOMAIN b
  <2>1. s + e \in 1 .. l /\ s + 1 \in 1 .. l
    <3>1. s \in Nat /\ e \in Nat /\ l \in Nat /\ e >= 1 /\ s + e <= l
      BY <1>1
    <3> QED BY ONLY <3>1
  <2> QED BY ONLY <2>1, <1>3
<1>9. /\ last'.first \in Nat /\ last'.end \in Nat /\ last'.end <= written
  <2>1. b[s + e].at \in 1 .. written /\ b[s + 1].at \in 1 .. written /\ written \in Nat
    BY <1>8, Facts DEF TailInv, Types, Ascending
  <2>2. b[s + e].at \in Nat /\ b[s + e].at <= written /\ b[s + 1].at \in Nat
    BY <2>1
  <2>3. last'.first = b[s + 1].at /\ last'.end = b[s + e].at
    BY <1>1
  <2> QED BY ONLY <2>2, <2>3
<1>10. last' \in Record
  BY <1>4, <1>6, <1>9 DEF Record
<1>11. PICK v : v = DropBytes(tail, e)
  OBVIOUS
<1>12. /\ v \in State /\ v.initialized = TRUE /\ v.id = tail.id
       /\ v.offset = tail.offset /\ v.discard = FALSE
       /\ v.sig = tail.sig /\ v.gen = tail.gen /\ v.seq = tail.seq
       /\ Closes(v.pending, b, tail.offset) /\ Len(v.pending) <= tail.offset
       /\ Start(v) = s + e
  <2>1. e \in Nat /\ e <= Len(tail.pending)
    BY <1>1
  <2>2. /\ v \in State /\ v.initialized = tail.initialized /\ v.id = tail.id
        /\ v.offset = tail.offset /\ v.discard = tail.discard
        /\ v.sig = tail.sig /\ v.gen = tail.gen /\ v.seq = tail.seq
        /\ Closes(v.pending, b, tail.offset) /\ Len(v.pending) <= tail.offset
        /\ Start(v) = Start(tail) + e
    BY <1>2, <1>11, <2>1, DropsBytes
  <2> QED BY <1>1, <1>2, <2>2
<1>13. PICK u : u = tail'
  OBVIOUS
<1>14. /\ u \in State /\ u.initialized = TRUE /\ u.id = tail.id
       /\ u.offset = tail.offset /\ u.discard = FALSE /\ u.pending = v.pending
       /\ u.sig = tail.sig /\ u.gen = tail.gen /\ u.seq = tail.seq + 1
  <2>1. PICK q \in Nat : q = tail.seq + 1
    BY <1>6
  <2>2. Renumbers(u, v, q)
    BY <1>4, <1>11, <1>12, <1>13, <2>1 DEF Renumbers
  <2> QED BY <1>12, <2>1, <2>2, CountsIs
<1>15. Start(u) = s + e
  BY <1>12, <1>14 DEF Start
<1>16. tail.offset > 0
  <2>1. PICK m \in Nat : m = Len(tail.pending) /\ m >= 1
    BY <1>1, <1>6
  <2> QED BY <1>2, <1>6, <2>1 DEF Shape
<1>17. Shape(u, written)
  BY <1>2, <1>12, <1>14 DEF Shape
<1>18. Numbered(u, last')
  BY <1>6, <1>7, <1>14, <1>16 DEF Numbered
<1>19. Follows(u, b, last')
  <2>1. After(b, s + e, last')
    <3>1. ASSUME NEW i \in DOMAIN b, i > s + e PROVE b[i].at > last'.end
      <4>1. b[s + e].at < b[i].at
        BY <1>8, <3>1 DEF TailInv, Types, Ascending
      <4>2. b[i] \in Byte
        BY <1>2
      <4>3. b[i].at \in Nat
        BY <4>2, ByteIs
      <4> QED BY <1>1, <1>9, <4>1, <4>3
    <3> QED BY <3>1 DEF After
  <2>2. s + e > 0
    BY <1>1
  <2> QED BY <1>1, <1>2, <1>12, <1>14, <1>15, <2>1, <2>2 DEF Follows
<1>20. ASSUME Apart PROVE After(disk.bytes, 0, last')
  <2>1. \A j \in DOMAIN disk.bytes : b[s + e].at < disk.bytes[j].at
    BY <1>2, <1>8, <1>20 DEF TailInv, Reads
  <2>2. \A j \in DOMAIN disk.bytes : disk.bytes[j].at \in 1 .. written
    BY DEF TailInv, Types, Ascending
  <2> QED BY <1>1, <1>9, <2>1, <2>2, Facts DEF After
<1> QED BY <1>2, <1>4, <1>5, <1>9, <1>10, <1>13, <1>14, <1>17, <1>18, <1>19, <1>20, ReadingKeeps

LEMMA LastKept ==
  ASSUME TailInv
  PROVE  last \in Record /\ last.end <= written
BY DEF TailInv, Types

\* A record too long is dropped up to its end, and what follows is a generation of its own.
LEMMA DropOversizedKeeps ==
  ASSUME TailInv, DropOversized
  PROVE  TailInv'
<1> DEFINE b == opened.bytes
<1>1. /\ reading /\ LineEnds(tail) # {} /\ budget' = budget /\ last' = last
      /\ disk' = disk /\ opened' = opened /\ written' = written /\ fileFaults' = fileFaults
      /\ refill' = refill
      /\ tail' = NextGeneration(DropBytes(tail, FirstEnd(tail)))
  BY DEF DropOversized, Oversized
<1>2. /\ budget # NotReading /\ budget \in Budget
      /\ tail \in State /\ tail.initialized = TRUE
      /\ Shape(tail, written) /\ Numbered(tail, last)
      /\ b \in Seq(Byte) /\ Follows(tail, b, last)
      /\ Apart => After(disk.bytes, 0, last)
  BY <1>1, InRead
<1>3. tail.pending \in Seq(Byte) /\ tail.offset \in Nat /\ tail.discard \in BOOLEAN
  BY <1>2, StateIs
<1>4. PICK e \in Nat, m \in Nat, s \in Nat :
         e = FirstEnd(tail) /\ m = Len(tail.pending) /\ s = Start(tail)
  BY <1>1, <1>2, <1>3, FirstEndIs, Placed
<1>5. e >= 1 /\ e <= m /\ tail.pending[e].nl = TRUE
  BY <1>1, <1>2, <1>4, FirstEndIs
<1>6. b[s + e].nl = TRUE
  <2>1. e \in 1 .. m
    BY <1>4, <1>5
  <2> QED BY <1>2, <1>4, <1>5, <2>1, Placed
<1>7. PICK v : v = DropBytes(tail, e)
  OBVIOUS
<1>8. /\ v \in State /\ v.initialized = TRUE /\ v.id = tail.id
      /\ v.offset = tail.offset /\ v.discard = tail.discard
      /\ v.sig = tail.sig /\ v.gen = tail.gen /\ v.seq = tail.seq
      /\ Closes(v.pending, b, tail.offset) /\ Len(v.pending) <= tail.offset
      /\ Start(v) = s + e
  BY <1>2, <1>4, <1>5, <1>7, DropsBytes
<1>9. PICK u : u = tail'
  OBVIOUS
<1>10. /\ u \in State /\ u.initialized = TRUE /\ u.id = tail.id
       /\ u.offset = tail.offset /\ u.pending = v.pending /\ u.discard = tail.discard
       /\ u.sig = tail.sig /\ u.gen = tail.gen + 1 /\ u.seq = 0
  <2>1. u = NextGeneration(v)
    BY <1>1, <1>4, <1>7, <1>9
  <2> HIDE DEF b
  <2> QED BY <1>8, <2>1, NextGenerationIs
<1>11. Start(u) = s + e
  BY <1>8, <1>10 DEF Start
<1>12. tail.discard = FALSE
  <2>1. tail.pending # <<>>
    BY <1>3, <1>4, <1>5
  <2> QED BY <1>2, <1>3, <2>1 DEF Shape
<1>13. Shape(u, written)
  BY <1>2, <1>8, <1>10, <1>12 DEF Shape
<1>14. Follows(u, b, last) /\ Numbered(u, last)
  <2>1. s + e \in Nat /\ s <= s + e
    BY <1>4
  <2> QED BY <1>2, <1>4, <1>6, <1>8, <1>10, <1>11, <2>1, LastKept, FollowsAnew
<1> QED BY <1>1, <1>2, <1>9, <1>10, <1>13, <1>14, LastKept, ReadingKeeps

\* One that has no end yet is dropped with all that is still to come of it.
LEMMA DropEndlessKeeps ==
  ASSUME TailInv, DropEndless
  PROVE  TailInv'
<1> DEFINE b == opened.bytes
<1>1. /\ reading /\ Len(tail.pending) > MaxLine /\ budget' = budget /\ last' = last
      /\ disk' = disk /\ opened' = opened /\ written' = written /\ fileFaults' = fileFaults
      /\ refill' = refill
      /\ tail' = NextGeneration([tail EXCEPT !.pending = <<>>, !.discard = TRUE])
  BY DEF DropEndless, Endless
<1>2. /\ budget # NotReading /\ budget \in Budget
      /\ tail \in State /\ tail.initialized = TRUE
      /\ Shape(tail, written) /\ Numbered(tail, last)
      /\ b \in Seq(Byte) /\ Follows(tail, b, last)
      /\ Apart => After(disk.bytes, 0, last)
  BY <1>1, InRead
<1>3. /\ tail.pending \in Seq(Byte) /\ tail.offset \in Nat /\ tail.id \in Nat /\ tail.sig \in Seq(Byte)
      /\ tail.initialized \in BOOLEAN
  BY <1>2, StateIs
<1>4. PICK m \in Nat, s \in Nat, o \in Nat :
         m = Len(tail.pending) /\ s = Start(tail) /\ o = tail.offset
  BY <1>2, <1>3, Placed
<1>5. s + m = o /\ m > 0
  <2>1. MaxLine \in Nat
    BY LogTailBounds
  <2> QED BY <1>1, <1>2, <1>4, <2>1, Placed
<1>6. PICK v : v = [tail EXCEPT !.pending = <<>>, !.discard = TRUE]
  OBVIOUS
<1>7. v \in State /\ IsAt(v, tail, tail.initialized, tail.id, tail.offset, <<>>, TRUE, tail.sig)
  <2>1. <<>> \in Seq(Byte) /\ TRUE \in BOOLEAN
    OBVIOUS
  <2>2. At(v, tail, tail.initialized, tail.id, tail.offset, <<>>, TRUE, tail.sig)
    BY <1>2, <1>6 DEF At, State
  <2> QED BY <1>2, <1>3, <2>1, <2>2, PlacedAt
<1>8. PICK u : u = tail'
  OBVIOUS
<1>9. /\ u \in State /\ u.initialized = TRUE /\ u.id = tail.id
      /\ u.offset = tail.offset /\ u.pending = <<>> /\ u.discard = TRUE
      /\ u.sig = tail.sig /\ u.gen = tail.gen + 1 /\ u.seq = 0
  <2>1. u = NextGeneration(v)
    BY <1>1, <1>6, <1>8
  <2> QED BY <1>2, <1>7, <2>1, NextGenerationIs DEF IsAt
<1>10. Start(u) = o
  BY <1>4, <1>9 DEF Start
<1>11. o <= Len(b) /\ Closes(<<>>, b, o)
  <2>1. o <= Len(b) /\ Len(b) \in Nat
    BY <1>2, <1>4, Placed
  <2> QED BY <1>2, <1>4, <2>1, ClosesItself
<1>12. Shape(u, written)
  <2>1. Len(<<>>) = 0
    OBVIOUS
  <2> QED BY <1>2, <1>4, <1>5, <1>9, <2>1 DEF Shape
<1>13. Follows(u, b, last) /\ Numbered(u, last)
  <2>1. s <= o
    BY <1>4, <1>5
  <2> QED BY <1>2, <1>4, <1>9, <1>10, <1>11, <2>1, LastKept, FollowsAnew
<1> QED BY <1>1, <1>2, <1>8, <1>9, <1>12, <1>13, LastKept, ReadingKeeps

\* A turn of the read loop takes what the budget, the chunk and the file allow.
LEMMA ChunkLenIs ==
  ASSUME budget \in Budget, budget.bytes > 0, Available \in Nat, Available > 0
  PROVE  /\ ChunkLen \in Nat /\ ChunkLen > 0 /\ ChunkLen <= budget.bytes /\ ChunkLen <= Available
<1> DEFINE S == {ChunkBytes, budget.bytes, Available}
<1>1. ChunkBytes \in Nat /\ ChunkBytes > 0 /\ budget.bytes \in Nat
  BY LogTailBounds DEF Budget
<1>2. S \in SUBSET Nat /\ S # {} /\ \A n \in S : n > 0
  BY <1>1
<1>3. \E n \in S : \A m \in S : n <= m
  BY <1>2, LeastNatural
<1>4. ChunkLen \in S /\ \A m \in S : ChunkLen <= m
  BY <1>3 DEF ChunkLen
<1>5. ChunkLen \in Nat /\ ChunkLen > 0
  BY <1>2, <1>4
<1>6. budget.bytes \in S /\ Available \in S
  OBVIOUS
<1> QED BY <1>4, <1>5, <1>6

\* t with other pending bytes, and nothing to be given up.
Resumes(u, t, p) == u = [t EXCEPT !.discard = FALSE, !.pending = p]

LEMMA ResumesIs ==
  ASSUME NEW t \in State, NEW p \in Seq(Byte), NEW u, Resumes(u, t, p)
  PROVE  u \in State /\ IsAt(u, t, t.initialized, t.id, t.offset, p, FALSE, t.sig)
<1>1. u \in State
  BY DEF Resumes, State
<1>2. IsAt(u, t, t.initialized, t.id, t.offset, p, FALSE, t.sig)
  BY DEF Resumes, State, IsAt
<1> QED BY <1>1, <1>2

\* u is t with these bytes, or with those of them that follow the end of a line given up.
Takes(u, t, bytes) ==
  /\ u.initialized = t.initialized /\ u.id = t.id
  /\ u.offset = t.offset /\ u.sig = t.sig /\ u.gen = t.gen /\ u.seq = t.seq
  /\ \/ t.discard = FALSE /\ u.discard = FALSE /\ u.pending = t.pending \o bytes
     \/ t.discard = TRUE /\ u.discard = TRUE /\ u.pending = t.pending
     \/ /\ t.discard = TRUE /\ u.discard = FALSE
        /\ \E cut \in Nat :
             /\ cut >= 1 /\ cut <= Len(bytes) /\ bytes[cut].nl = TRUE
             /\ u.pending = t.pending \o SubSeq(bytes, cut + 1, Len(bytes))

LEMMA AppendedIs ==
  ASSUME NEW t \in State, NEW bytes, bytes \in Seq(Byte), NEW u, u = Appended(t, bytes)
  PROVE  u \in State /\ Takes(u, t, bytes)
<1> DEFINE ends == {i \in DOMAIN bytes : bytes[i].nl}
<1>1. PICK cut : cut = CHOOSE i \in ends : \A j \in ends : i <= j
  OBVIOUS
<1>2. u = IF ~t.discard THEN [t EXCEPT !.pending = @ \o bytes]
          ELSE IF ends = {} THEN t
          ELSE [t EXCEPT !.discard = FALSE, !.pending = @ \o SubSeq(bytes, cut + 1, Len(bytes))]
  BY <1>1 DEF Appended
<1>0. t.discard \in BOOLEAN
  BY StateIs
<1>3. /\ t.pending \in Seq(Byte) /\ t.initialized \in BOOLEAN /\ t.id \in Nat
      /\ t.offset \in Nat /\ t.sig \in Seq(Byte)
  BY StateIs
<1>4. PICK l \in Nat : l = Len(bytes)
  OBVIOUS
<1>5. DOMAIN bytes = 1 .. l /\ \A i \in 1 .. l : bytes[i].nl \in BOOLEAN
  <2>1. \A i \in 1 .. l : bytes[i] \in Byte
    BY <1>4
  <2> QED BY <1>4, <2>1, ByteIs
<1>6. CASE t.discard = FALSE
  <2>1. PICK p : p = t.pending \o bytes
    OBVIOUS
  <2>5. p \in Seq(Byte)
    BY <1>3, <2>1, JoinedIs
  <2>2. u = [t EXCEPT !.pending = t.pending \o bytes]
    BY <1>2, <1>6
  <2>3. Keeps(u, t, p)
    BY <2>1, <2>2 DEF Keeps
  <2> HIDE DEF ends
  <2>4. /\ u \in State
        /\ u.source = t.source /\ u.initialized = t.initialized /\ u.id = t.id
        /\ u.offset = t.offset /\ u.pending = p /\ u.discard = t.discard
        /\ u.sig = t.sig /\ u.gen = t.gen /\ u.seq = t.seq
    BY <2>3, <2>5, KeepsIs
  <2> QED BY <1>6, <2>1, <2>4 DEF Takes
<1>7. CASE t.discard = TRUE /\ ends = {}
  <2>1. u = t
    BY <1>2, <1>7
  <2> QED BY <1>7, <2>1 DEF Takes
<1>8. CASE t.discard = TRUE /\ ends # {}
  <2>1. ends \in SUBSET Nat
    BY <1>5
  <2>2. \E i \in ends : \A j \in ends : i <= j
    BY <1>8, <2>1, LeastNatural
  <2>3. cut \in ends
    BY <1>1, <2>2
  <2>4. cut \in 1 .. l /\ bytes[cut].nl = TRUE
    BY <1>5, <2>3
  <2>5. u = [t EXCEPT !.discard = FALSE, !.pending = t.pending \o SubSeq(bytes, cut + 1, Len(bytes))]
    BY <1>2, <1>8
  <2> HIDE DEF ends
  <2>6. SubSeq(bytes, cut + 1, Len(bytes)) \in Seq(Byte)
    <3>1. cut + 1 \in Nat /\ cut + 1 >= 1 /\ cut + 1 <= l + 1
      BY <1>4, <2>4
    <3> QED BY <1>4, <3>1, PartIs
  <2>7. PICK p : p = t.pending \o SubSeq(bytes, cut + 1, Len(bytes))
    OBVIOUS
  <2>12. p \in Seq(Byte)
    BY <1>3, <2>6, <2>7, JoinedIs
  <2>8. Resumes(u, t, p)
    BY <2>5, <2>7 DEF Resumes
  <2>9. u \in State /\ IsAt(u, t, t.initialized, t.id, t.offset, p, FALSE, t.sig)
    BY <2>8, <2>12, ResumesIs
  <2>11. cut \in Nat /\ cut >= 1 /\ cut <= Len(bytes)
    BY <1>4, <2>4
  <2> QED BY <1>8, <2>4, <2>7, <2>9, <2>11 DEF Takes, IsAt
<1> QED BY <1>0, <1>6, <1>7, <1>8

\* Further bytes are read: they end the line begun, or are the end of one given up.
LEMMA ReadChunkKeeps ==
  ASSUME TailInv, refill.emptied = FALSE, ReadChunk
  PROVE  TailInv'
<1> DEFINE b == opened.bytes
<1>1. /\ reading /\ last' = last /\ budget.bytes > 0 /\ Available > 0
      /\ disk' = disk /\ opened' = opened /\ written' = written /\ fileFaults' = fileFaults
      /\ refill' = refill
      /\ budget' = [budget EXCEPT !.bytes = @ - ChunkLen]
  BY DEF ReadChunk
<1>2. /\ budget # NotReading /\ budget \in Budget
      /\ tail \in State /\ tail.initialized = TRUE
      /\ Shape(tail, written) /\ Numbered(tail, last)
      /\ b \in Seq(Byte) /\ Follows(tail, b, last)
      /\ Apart => After(disk.bytes, 0, last)
  BY <1>1, InRead
<1>3. /\ tail.pending \in Seq(Byte) /\ tail.offset \in Nat /\ tail.id \in Nat /\ tail.sig \in Seq(Byte)
      /\ tail.initialized \in BOOLEAN /\ tail.discard \in BOOLEAN
  BY <1>2, StateIs
<1>4. PICK l \in Nat, o \in Nat, s \in Nat :
         l = Len(b) /\ o = tail.offset /\ s = Start(tail)
  BY <1>2, <1>3, Placed
<1>5. o <= l /\ s <= o
  <2>1. PICK m \in Nat : m = Len(tail.pending)
    BY <1>3
  <2>2. o <= l /\ s + m = o
    BY <1>2, <1>4, <2>1, Placed
  <2> QED BY <1>4, <2>1, <2>2
<1>29. Held = b
  BY DEF Held
<1>6. Available = l - o /\ Available \in Nat
  BY <1>4, <1>5, <1>29 DEF Available
<1>7. PICK c \in Nat : c = ChunkLen /\ c > 0 /\ c <= budget.bytes /\ c <= Available
  BY <1>1, <1>2, <1>6, ChunkLenIs
<1>8. o + c <= l
  BY <1>4, <1>6, <1>7
<1>9. PICK bytes : bytes = SubSeq(b, o + 1, o + c)
  OBVIOUS
<1>10. bytes \in Seq(Byte) /\ Len(bytes) = c
  <2>1. /\ o + 1 \in Nat /\ o + c \in Nat /\ o + 1 >= 1 /\ o + 1 <= o + c + 1
        /\ (o + c) - (o + 1) + 1 = c
    BY <1>4, <1>7
  <2>2. o + c <= Len(b)
    BY <1>4, <1>8
  <2>3. PICK m \in Nat, n \in Nat : m = o + 1 /\ n = o + c
    BY <2>1
  <2>4. m >= 1 /\ m <= n + 1 /\ n <= Len(b) /\ n - m + 1 = c
    BY <2>1, <2>2, <2>3
  <2>5. bytes = SubSeq(b, m, n)
    BY <1>9, <2>3
  <2>6. SubSeq(b, m, n) \in Seq(Byte) /\ Len(SubSeq(b, m, n)) = n - m + 1
    BY <1>2, <2>3, <2>4, PartIs
  <2> QED BY <2>4, <2>5, <2>6
<1>11. \A w \in Seq(Byte) : Closes(w, b, o) => Closes(w \o bytes, b, o + c)
  BY <1>2, <1>4, <1>7, <1>8, <1>9, ClosesRead
<1>12. Closes(tail.sig, b, o) /\ Closes(tail.pending, b, o)
  BY <1>2, <1>4 DEF Follows
<1>13. PICK g : g = Suffix(tail.sig \o bytes, SigBytes)
  OBVIOUS
<1>14. /\ g \in Seq(Byte) /\ Len(g) <= SigBytes /\ Len(g) > 0 /\ Closes(g, b, o + c)
  <2>1. PICK h \in Seq(Byte) : h = tail.sig \o bytes
    BY <1>3, <1>10, JoinedIs
  <2>2. Closes(h, b, o + c)
    BY <1>3, <1>11, <1>12, <2>1
  <2>3. Len(h) > 0
    <3>1. Len(h) = Len(tail.sig) + Len(bytes) /\ Len(tail.sig) \in Nat
      BY <1>3, <1>10, <2>1, JoinedIs
    <3> QED BY <1>7, <1>10, <3>1
  <2>4. o + c \in Nat /\ SigBytes \in Nat \ {0}
    BY <1>4, <1>7, LogTailBounds
  <2> QED BY <1>2, <1>13, <2>1, <2>2, <2>3, <2>4, SuffixIs
<1>15. PICK v : v = [tail EXCEPT !.offset = o + c, !.sig = g]
  OBVIOUS
<1>16. v \in State /\ IsAt(v, tail, tail.initialized, tail.id, o + c, tail.pending, tail.discard, g)
  <2>1. o + c \in Nat
    BY <1>4, <1>7
  <2>2. At(v, tail, tail.initialized, tail.id, o + c, tail.pending, tail.discard, g)
    BY <1>2, <1>15 DEF At, State
  <2> QED BY <1>2, <1>3, <1>14, <2>1, <2>2, PlacedAt
<1>17. PICK u : u = tail'
  OBVIOUS
<1>18. u = Appended(v, bytes)
  BY <1>4, <1>7, <1>9, <1>13, <1>15, <1>17, <1>29 DEF ReadChunk
<1>19. /\ u \in State /\ u.initialized = TRUE /\ u.id = tail.id /\ u.offset = o + c /\ u.sig = g
       /\ u.gen = tail.gen /\ u.seq = tail.seq
       /\ \/ tail.discard = FALSE /\ u.discard = FALSE /\ u.pending = tail.pending \o bytes
          \/ tail.discard = TRUE /\ u.discard = TRUE /\ u.pending = tail.pending
          \/ /\ tail.discard = TRUE /\ u.discard = FALSE
             /\ \E cut \in Nat :
                  /\ cut >= 1 /\ cut <= Len(bytes) /\ bytes[cut].nl = TRUE
                  /\ u.pending = tail.pending \o SubSeq(bytes, cut + 1, Len(bytes))
  <2>1. /\ v.initialized = TRUE /\ v.id = tail.id /\ v.offset = o + c /\ v.sig = g
        /\ v.gen = tail.gen /\ v.seq = tail.seq /\ v.discard = tail.discard
        /\ v.pending = tail.pending
    BY <1>2, <1>16 DEF IsAt
  <2>2. u \in State /\ Takes(u, v, bytes)
    BY <1>10, <1>16, <1>18, AppendedIs
  <2> QED BY <2>1, <2>2 DEF Takes
<1>20. tail.discard = TRUE => tail.pending = <<>>
  BY <1>2 DEF Shape
<1>21. Closes(<<>>, b, o) /\ Closes(<<>>, b, o + c) /\ Closes(bytes, b, o + c)
  <2>1. o \in 0 .. Len(b) /\ o + c \in 0 .. Len(b)
    BY <1>4, <1>5, <1>7, <1>8
  <2>2. Closes(<<>>, b, o) /\ Closes(<<>>, b, o + c)
    BY <1>2, <2>1, ClosesItself
  <2>3. <<>> \in Seq(Byte) /\ <<>> \o bytes = bytes
    BY <1>10
  <2>4. Closes(<<>> \o bytes, b, o + c)
    BY <1>11, <2>2, <2>3
  <2> QED BY <2>2, <2>3, <2>4
\* Where the line begins that is pending now.
<1>22. \E n \in Nat : /\ n = Start(u) /\ s <= n /\ n <= o + c /\ Closes(u.pending, b, o + c)
                      /\ Len(u.pending) <= o + c
                      /\ u.discard = TRUE => u.pending = <<>>
                      /\ u.discard = FALSE => n = 0 \/ b[n].nl = TRUE
                      /\ tail.discard = FALSE => n = s /\ u.discard = FALSE
  <2>1. CASE tail.discard = FALSE /\ u.discard = FALSE /\ u.pending = tail.pending \o bytes
    <3>1. Closes(u.pending, b, o + c)
      BY <1>3, <1>11, <1>12, <2>1
    <3>2. PICK m \in Nat : m = Len(tail.pending)
      BY <1>3
    <3>3. Len(u.pending) = m + c
      BY <1>3, <1>10, <2>1, <3>2, JoinedIs
    <3>4. s + m = o
      BY <1>2, <1>4, <3>2, Placed
    <3>5. Start(u) = s /\ m + c <= o + c
      <4>1. PICK w \in Nat : w = Len(u.pending) /\ w = m + c
        BY <1>7, <3>2, <3>3
      <4>2. Start(u) = o + c - w
        BY <1>19, <4>1 DEF Start
      <4>3. s \in Nat /\ o \in Nat /\ c \in Nat /\ m \in Nat
        BY <1>4, <1>7, <3>2
      <4> QED BY ONLY <3>4, <4>1, <4>2, <4>3
    <3>6. s = 0 \/ b[s].nl = TRUE
      BY <1>2, <1>4, <2>1 DEF Follows
    <3>7. s <= s /\ s <= o + c
      BY <1>4, <1>5, <1>7
    <3> QED BY <2>1, <3>1, <3>3, <3>5, <3>6, <3>7, <1>4
  <2>2. CASE tail.discard = TRUE /\ u.discard = TRUE /\ u.pending = tail.pending
    <3>1. u.pending = <<>>
      BY <1>20, <2>2
    <3>2. Len(u.pending) = 0
      BY <3>1
    <3>3. Start(u) = o + c /\ o + c \in Nat /\ s <= o + c /\ 0 <= o + c /\ o + c <= o + c
      BY <1>4, <1>5, <1>7, <1>19, <3>2 DEF Start
    <3> QED BY <1>21, <2>2, <3>1, <3>2, <3>3
  <2>3. CASE /\ tail.discard = TRUE /\ u.discard = FALSE
             /\ \E cut \in Nat :
                  /\ cut >= 1 /\ cut <= Len(bytes) /\ bytes[cut].nl = TRUE
                  /\ u.pending = tail.pending \o SubSeq(bytes, cut + 1, Len(bytes))
    <3>1. PICK cut \in Nat :
            /\ cut >= 1 /\ cut <= Len(bytes) /\ bytes[cut].nl = TRUE
            /\ u.pending = tail.pending \o SubSeq(bytes, cut + 1, Len(bytes))
      BY <2>3
    <3>2. PICK q : q = SubSeq(bytes, cut + 1, Len(bytes))
      OBVIOUS
    <3>3. o + c \in Nat
      BY <1>4, <1>7
    <3>4. /\ Closes(q, b, o + c) /\ q \in Seq(Byte) /\ Len(q) = c - cut
      BY <1>2, <1>10, <1>21, <3>1, <3>2, <3>3, ClosesLess
    <3>5. u.pending = q
      <4>1. u.pending = <<>> \o q
        BY <1>20, <2>3, <3>1, <3>2
      <4> QED BY <3>4, <4>1
    <3>6. Start(u) = o + cut /\ o + cut \in Nat /\ s <= o + cut /\ o + cut <= o + c /\ c - cut <= o + c
      <4>1. Start(u) = (o + c) - (c - cut)
        BY <1>19, <3>4, <3>5 DEF Start
      <4>2. cut <= c /\ s <= o
        BY <1>5, <1>10, <3>1
      <4>3. o \in Nat /\ c \in Nat /\ s \in Nat /\ cut \in Nat
        BY <1>4, <1>7, <3>1
      <4> QED BY ONLY <4>1, <4>2, <4>3
    <3>7. b[o + cut] = bytes[cut]
      <4>1. \A k \in 1 .. Len(bytes) : bytes[k] = b[(o + c) - Len(bytes) + k]
        BY <1>21 DEF Closes
      <4>2. cut \in 1 .. Len(bytes)
        BY <1>10, <3>1
      <4>3. (o + c) - Len(bytes) + cut = o + cut
        BY <1>4, <1>10, <3>1
      <4> QED BY <4>1, <4>2, <4>3
    <3> QED BY <2>3, <3>1, <3>4, <3>5, <3>6, <3>7
  <2> QED BY <1>19, <2>1, <2>2, <2>3
<1>23. PICK n \in Nat : /\ n = Start(u) /\ s <= n /\ n <= o + c /\ Closes(u.pending, b, o + c)
                        /\ Len(u.pending) <= o + c
                        /\ u.discard = TRUE => u.pending = <<>>
                        /\ u.discard = FALSE => n = 0 \/ b[n].nl = TRUE
                        /\ tail.discard = FALSE => n = s /\ u.discard = FALSE
  BY <1>22
<1>24. Follows(u, b, last)
  <2>1. After(b, s, last)
    BY <1>2, <1>4 DEF Follows
  <2>2. After(b, n, last)
    BY <1>2, <1>4, <1>23, <2>1, AfterLess
  <2>3. ASSUME last.gen = u.gen, last.seq >= 0
        PROVE  u.discard = FALSE /\ n > 0 /\ b[n].at = last.end
    <3>1. tail.discard = FALSE /\ s > 0 /\ b[s].at = last.end
      BY <1>2, <1>4, <1>19, <2>3 DEF Follows
    <3> QED BY <1>23, <3>1
  <2> QED BY <1>14, <1>19, <1>23, <2>2, <2>3 DEF Follows
<1>25. o + c > 0
  BY <1>4, <1>7
<1>26. Numbered(u, last)
  BY <1>2, <1>19, <1>25 DEF Numbered
<1>27. Shape(u, written)
  <2>1. PICK m \in Nat : m = Len(g)
    BY <1>14
  <2>2. m <= o + c /\ \A k \in 1 .. m : g[k] = b[(o + c) - m + k]
    BY <1>14, <2>1 DEF Closes
  <2>3. \A k \in 1 .. m : (o + c) - m + k \in DOMAIN b
    <3>1. DOMAIN b = 1 .. l
      BY <1>2, <1>4
    <3>2. TAKE k \in 1 .. m
    <3>3. (o + c) - m + k \in 1 .. l
      <4>1. o \in Nat /\ c \in Nat /\ m \in Nat /\ l \in Nat /\ m <= o + c /\ o + c <= l
        BY <1>4, <1>7, <1>8, <2>1, <2>2
      <4> QED BY ONLY <4>1, k \in 1 .. m
    <3> QED BY <3>1, <3>3
  <2>4. \A i \in DOMAIN b : b[i].at \in 1 .. written
    BY DEF TailInv, Types, Ascending
  <2>5. \A k \in 1 .. m : g[k].at \in 1 .. written
    BY <2>2, <2>3, <2>4
  <2>6. \A k \in DOMAIN g : g[k].at <= written
    <3>1. DOMAIN g = 1 .. m
      BY <1>14, <2>1
    <3> QED BY <2>5, <3>1, Facts
  <2> QED BY <1>14, <1>19, <1>23, <1>25, <2>1, <2>2, <2>6 DEF Shape
<1>28. budget' \in Budget
  BY <1>1, <1>2, <1>7, BudgetIs
<1> QED BY <1>1, <1>2, <1>17, <1>19, <1>24, <1>26, <1>27, <1>28, LastKept, ReadingKeeps

Lets(f, d, p) == f = [d EXCEPT !.id = 0, !.bytes = p]

LEMMA LetGo ==
  ASSUME NEW d \in File, NEW p \in Seq(Byte), NEW f, Lets(f, d, p)
  PROVE  f \in File
BY DEF Lets, File

\* A signature read of the file held open does not stand in bytes that are all newer.
LEMMA ApartIsSeen ==
  ASSUME TailInv, reading, Apart, Closes(tail.sig, disk.bytes, tail.offset)
  PROVE  tail.offset = 0
<1> DEFINE b == opened.bytes
           d == disk.bytes
<1>1. /\ tail \in State /\ Shape(tail, written) /\ b \in Seq(Byte) /\ d \in Seq(Byte)
      /\ Closes(tail.sig, b, tail.offset)
  BY InRead, Facts DEF Follows
<1>2. tail.sig \in Seq(Byte) /\ tail.offset \in Nat
  BY <1>1, StateIs
<1>3. PICK m \in Nat, o \in Nat, l \in Nat, k \in Nat :
        m = Len(tail.sig) /\ o = tail.offset /\ l = Len(b) /\ k = Len(d)
  BY <1>1, <1>2
<1>4. /\ m <= o /\ o <= l /\ o <= k
      /\ \A i \in 1 .. m : tail.sig[i] = b[o - m + i] /\ tail.sig[i] = d[o - m + i]
  BY <1>1, <1>3 DEF Closes
<1>5. SUFFICES ASSUME o > 0 PROVE FALSE
  BY <1>3
<1>6. m > 0
  BY <1>1, <1>3, <1>5 DEF Shape
<1>7. m \in 1 .. m /\ o - m + m = o /\ o \in 1 .. l /\ o \in 1 .. k
  BY <1>3, <1>4, <1>5, <1>6
<1>8. b[o] = d[o]
  BY <1>4, <1>7
<1>9. o \in DOMAIN b /\ o \in DOMAIN d
  BY <1>1, <1>3, <1>7
<1>10. b[o].at < d[o].at
  BY <1>9 DEF TailInv, Reads, reading
<1>11. b[o].at \in 1 .. written
  BY <1>9 DEF TailInv, Types, Ascending
<1> QED BY <1>8, <1>10, <1>11

\* The file is let go: it is still the one at the path, or what is there is all new.
LEMMA ClosingKeeps ==
  ASSUME TailInv, reading, disk' = disk, written' = written, tail' = tail, last' = last,
         fileFaults' \in 0 .. MaxFileFaults, budget' = NotReading,
         opened' = [disk EXCEPT !.id = 0, !.bytes = <<>>]
  PROVE  TailInv'
<1>1. /\ tail \in State /\ tail.initialized = TRUE /\ budget # NotReading
      /\ Follows(tail, opened.bytes, last)
  BY InRead
<1>2. opened' \in File /\ opened'.id = 0 /\ opened'.bytes = <<>>
  <2>1. <<>> \in Seq(Byte)
    OBVIOUS
  <2>2. PICK p : p = <<>>
    OBVIOUS
  <2>3. p \in Seq(Byte)
    BY <2>1, <2>2
  <2>4. opened' = [disk EXCEPT !.id = 0, !.bytes = p] /\ disk \in File
    BY <2>2 DEF TailInv, Types
  <2>5. opened' \in File
    BY <2>3, <2>4, LetGo DEF Lets
  <2>6. opened'.id = 0 /\ opened'.bytes = p
    BY <2>4 DEF File
  <2> QED BY <2>2, <2>5, <2>6
<1>3. Ascending(<<>>, written)
  BY DEF Ascending
<1>4. Types'
  BY <1>2, <1>3 DEF TailInv, Types
<1>5. Kept'
  BY DEF TailInv, Kept
<1>6. Reads'
  BY <1>2 DEF Reads
<1>7. Rests'
  <2>1. tail.id = opened.id
    BY <1>1 DEF TailInv, Reads
  <2>2. CASE ~Apart
    <3>1. opened.bytes = disk.bytes /\ opened.id = disk.id
      BY <1>1, <2>2 DEF TailInv, Reads, Apart
    <3>2. Standing(tail, disk)
      BY <1>1, <2>1, <2>2, <3>1 DEF Standing, Follows
    <3> QED BY <1>1, <3>1, <3>2 DEF Rests
  <2>3. CASE Apart
    <3>1. After(disk.bytes, 0, last)
      BY <1>1, <2>3 DEF TailInv, Reads
    <3>2. ASSUME Standing(tail, disk) PROVE Follows(tail, disk.bytes, last)
      <4>1. tail.offset = 0
        BY <2>3, <3>2, ApartIsSeen DEF Standing
      <4>2. Shape(tail, written) /\ Numbered(tail, last) /\ disk.bytes \in Seq(Byte)
        BY InRead, Facts
      <4>3. last.gen = tail.gen /\ last.seq >= 0 => tail.offset > 0
        BY <4>2 DEF Numbered
      <4> QED BY <1>1, <3>1, <4>1, <4>2, <4>3, FollowsNothing
    <3> QED BY <3>1, <3>2 DEF Rests
  <2> QED BY <2>2, <2>3
<1> QED BY <1>4, <1>5, <1>6, <1>7 DEF TailInv

LEMMA EndReadKeeps ==
  ASSUME TailInv, EndRead \/ ReadFails
  PROVE  TailInv'
<1>1. CASE EndRead
  <2>1. fileFaults' \in 0 .. MaxFileFaults
    BY <1>1 DEF EndRead, TailInv, Types
  <2> QED BY <1>1, <2>1, ClosingKeeps DEF EndRead
<1>2. CASE ReadFails
  <2>1. fileFaults' \in 0 .. MaxFileFaults
    BY <1>2, LogTailBounds DEF ReadFails, TailInv, Types
  <2> QED BY <1>2, <2>1, ClosingKeeps DEF ReadFails
<1> QED BY <1>1, <1>2

-----------------------------------------------------------------------------
(* What holds whatever a read finds *)

LEMMA LooseIdle ==
  ASSUME Loose, budget = NotReading, budget' = budget,
         disk' = disk, opened' = opened, refill' = refill, written' = written,
         fileFaults' \in 0 .. MaxFileFaults, crossed' \in BOOLEAN,
         tail' \in State, Len(tail'.sig) <= SigBytes
  PROVE  Loose'
BY DEF Loose

LEMMA LooseRead ==
  ASSUME Loose, reading, budget' \in Budget,
         disk' = disk, opened' = opened, refill' = refill, written' = written,
         fileFaults' = fileFaults, crossed' \in BOOLEAN,
         tail' \in State, tail'.initialized = TRUE, Len(tail'.sig) <= SigBytes
  PROVE  Loose'
<1>1. budget' # NotReading /\ tail' # Untracked /\ budget # NotReading
  BY Distinct DEF reading
<1> QED BY <1>1 DEF Loose

\* What a step inside a read can rely on.
LEMMA InLoose ==
  ASSUME Loose, reading
  PROVE  /\ budget \in Budget /\ tail \in State /\ tail.initialized = TRUE
         /\ Len(tail.sig) <= SigBytes
BY DEF Loose, reading

LEMMA WriteLoose ==
  ASSUME Loose, NEW nl \in BOOLEAN, Write(nl)
  PROVE  Loose'
<1> DEFINE x == [nl |-> nl, at |-> written + 1]
           a == Append(disk.bytes, x)
<1>1. /\ written' = written + 1 /\ written < MaxBytes /\ fileFaults' = fileFaults
      /\ tail' = tail /\ budget' = budget /\ crossed' = crossed
      /\ disk' = [disk EXCEPT !.bytes = a]
      /\ opened' = IF opened.id = disk.id /\ ~refill.emptied THEN disk' ELSE opened
      /\ refill' = IF opened.id = disk.id /\ refill.emptied
                   THEN [refill EXCEPT !.bytes = disk'.bytes] ELSE refill
  BY DEF Write
<1>2. written \in Nat /\ disk.bytes \in Seq(Byte) /\ written' \in 0 .. MaxBytes
  <2>1. written \in Nat /\ disk.bytes \in Seq(Byte)
    BY LooseFacts
  <2> QED BY <1>1, <2>1, LogTailBounds
<1>3. x \in Byte /\ x.at = written + 1
  BY <1>2 DEF Byte
<1> HIDE DEF x
<1>4. a \in Seq(Byte)
  BY <1>2, <1>3
<1>5. Ascending(a, written')
  BY <1>1, <1>2, <1>3, AscendingGrows DEF Loose
<1> HIDE DEF a
<1>6. disk' \in File /\ disk'.id = disk.id /\ disk'.bytes = a
  <2>1. disk \in File
    BY DEF Loose
  <2> QED BY <1>1, <1>4, <2>1 DEF File
<1>7. opened' \in File
  BY <1>1, <1>6 DEF Loose
<1>8. refill' \in Refill
  <2>1. refill \in Refill
    BY DEF Loose
  <2>2. [refill EXCEPT !.bytes = disk'.bytes] \in Refill
    BY <1>4, <1>6, <2>1 DEF Refill
  <2> QED BY <1>1, <2>1, <2>2
<1>9. ASSUME budget = NotReading
      PROVE  opened' = opened /\ refill' = refill /\ opened.id = 0 /\ opened.bytes = <<>>
             /\ refill = Intact
  <2>1. opened.id = 0 /\ opened.bytes = <<>> /\ refill = Intact /\ disk.id > 0
    BY <1>9 DEF Loose
  <2>2. opened.id # disk.id
    BY <2>1
  <2> QED BY <1>1, <2>1, <2>2
<1> QED BY <1>1, <1>2, <1>5, <1>6, <1>7, <1>8, <1>9 DEF Loose

LEMMA EmptiedLoose ==
  ASSUME Loose, Truncate \/ Delete \/ Recreate
  PROVE  Loose'
<1>1. /\ written' = written /\ fileFaults' \in 0 .. MaxFileFaults /\ opened' = opened
      /\ tail' = tail /\ budget' = budget /\ crossed' = crossed
  <2>1. fileFaults < MaxFileFaults => fileFaults + 1 \in 0 .. MaxFileFaults
    BY LogTailBounds DEF Loose
  <2> QED BY <2>1 DEF Loose, Truncate, Delete, Recreate, Fault
<1>2. disk \in File /\ disk.id \in Nat /\ disk.id > 0
  BY LooseFacts DEF Loose
<1>3. disk' \in File /\ disk'.id > 0 /\ Ascending(disk'.bytes, written)
  <2>1. PICK e : e = <<>>
    OBVIOUS
  <2>2. e \in Seq(Byte) /\ Ascending(e, written)
    BY <2>1 DEF Ascending
  <2>3. CASE Truncate
    <3>1. disk' = [disk EXCEPT !.bytes = e]
      BY <2>1, <2>3 DEF Truncate
    <3> HIDE <2>3
    <3> QED BY <1>2, <2>2, <3>1 DEF File
  <2>4. CASE Delete
    <3>1. disk' = [disk EXCEPT !.exists = FALSE]
      BY <2>4 DEF Delete
    <3>2. disk' \in File /\ disk'.id = disk.id /\ disk'.bytes = disk.bytes
      BY <1>2, <3>1 DEF File
    <3> QED BY <1>2, <3>2 DEF Loose
  <2>5. CASE Recreate
    <3>1. disk' = [exists |-> TRUE, id |-> disk.id + 1, bytes |-> e]
      BY <2>1, <2>5 DEF Recreate
    <3> QED BY <1>2, <2>2, <3>1 DEF File
  <2> QED BY <2>3, <2>4, <2>5
<1>4. refill' = refill \/ (opened.id = disk.id /\ refill' = [emptied |-> TRUE, bytes |-> <<>>])
  BY DEF Truncate, Delete, Recreate
<1>5. refill' \in Refill
  <2>1. <<>> \in Seq(Byte)
    OBVIOUS
  <2>2. PICK p \in Seq(Byte) : p = <<>>
    BY <2>1
  <2>3. [emptied |-> TRUE, bytes |-> p] \in Refill
    BY DEF Refill
  <2>4. refill \in Refill
    BY DEF Loose
  <2> QED BY <1>4, <2>2, <2>3, <2>4
<1>6. budget = NotReading => refill' = refill
  BY <1>2, <1>4 DEF Loose
<1> QED BY <1>1, <1>3, <1>5, <1>6 DEF Loose

LEMMA AtEndLoose ==
  ASSUME Loose, NEW t \in State, NEW u, u = AtEnd(t)
  PROVE  u \in State /\ Len(u.sig) <= SigBytes
<1>1. disk.bytes \in Seq(Byte) /\ disk \in File /\ SigBytes \in Nat \ {0}
  BY LooseFacts, LogTailBounds DEF Loose
<1>2. PICK l \in Nat : l = Len(disk.bytes)
  BY <1>1
<1>3. Closes(disk.bytes, disk.bytes, l)
  BY <1>1, <1>2, ClosesItself
<1>4. Suffix(disk.bytes, SigBytes) \in Seq(Byte) /\ Len(Suffix(disk.bytes, SigBytes)) <= SigBytes
  BY <1>1, <1>3, SuffixIs
<1> QED BY <1>1, <1>4, AtEndIs

LEMMA TrackLoose ==
  ASSUME Loose, NEW s \in FileId, Track(s)
  PROVE  Loose'
<1>1. PICK t : t = Absent(s, 0)
  OBVIOUS
<1>2. t \in State /\ t.sig = <<>>
  BY <1>1, AbsentIs
<1>3. tail' = t \/ tail' = AtEnd(t)
  BY <1>1 DEF Track
<1>4. tail' \in State /\ Len(tail'.sig) <= SigBytes
  <2>1. Len(<<>>) = 0 /\ SigBytes \in Nat
    BY LogTailBounds
  <2> QED BY <1>2, <1>3, <2>1, AtEndLoose
<1>5. budget = NotReading
  <2>1. tail = Untracked
    BY LooseFacts DEF Track
  <2> QED BY <2>1, LooseFacts
<1>6. fileFaults \in 0 .. MaxFileFaults
  BY DEF Loose
<1> QED BY <1>4, <1>5, <1>6, LooseIdle DEF Track

LEMMA UntrackLoose ==
  ASSUME Loose, Untrack
  PROVE  Loose'
<1>1. fileFaults + 1 \in 0 .. MaxFileFaults
  BY LogTailBounds DEF Untrack, Loose
<1> QED BY <1>1 DEF Untrack, Loose, reading

LEMMA ReassociateLoose ==
  ASSUME Loose, NEW s \in FileId, Reassociate(s)
  PROVE  Loose'
<1>1. /\ budget = NotReading /\ budget' = budget /\ disk' = disk /\ opened' = opened
      /\ refill' = refill /\ written' = written /\ crossed' = crossed
      /\ fileFaults < MaxFileFaults /\ fileFaults' = fileFaults + 1 /\ tail.tracked = TRUE
  BY LooseFacts DEF Reassociate, reading
<1>2. tail \in State /\ Len(tail.sig) <= SigBytes
  BY <1>1, LooseFacts DEF Loose
<1>3. PICK v : v = [tail EXCEPT !.source = s]
  OBVIOUS
<1>4. v \in State /\ v.sig = tail.sig
  BY <1>2, <1>3 DEF State
<1>5. PICK t : t = NextGeneration(v)
  OBVIOUS
<1>6. t \in State /\ t.sig = tail.sig
  BY <1>4, <1>5, NextGenerationIs
<1>7. tail' = t \/ tail' = [t EXCEPT !.pending = <<>>, !.discard = TRUE]
  BY <1>3, <1>5 DEF Reassociate
<1>8. ASSUME NEW u, u = [t EXCEPT !.pending = <<>>, !.discard = TRUE]
      PROVE  u \in State /\ u.sig = t.sig
  <2>1. t.initialized \in BOOLEAN /\ t.id \in Nat /\ t.offset \in Nat /\ t.sig \in Seq(Byte)
    BY <1>6, StateIs
  <2>2. <<>> \in Seq(Byte) /\ TRUE \in BOOLEAN
    OBVIOUS
  <2>3. At(u, t, t.initialized, t.id, t.offset, <<>>, TRUE, t.sig)
    BY <1>6, <1>8 DEF At, State
  <2>4. u \in State /\ IsAt(u, t, t.initialized, t.id, t.offset, <<>>, TRUE, t.sig)
    BY <1>6, <2>1, <2>2, <2>3, PlacedAt
  <2> QED BY <2>4 DEF IsAt
<1>9. tail' \in State /\ Len(tail'.sig) <= SigBytes
  BY <1>2, <1>6, <1>7, <1>8
<1>10. fileFaults + 1 \in 0 .. MaxFileFaults /\ crossed \in BOOLEAN
  BY <1>1, LogTailBounds DEF Loose
<1> QED BY <1>1, <1>9, <1>10, LooseIdle

LEMMA BeginReadLoose ==
  ASSUME Loose, BeginRead
  PROVE  Loose'
<1>1. /\ budget = NotReading /\ tail # Untracked /\ tail \in State /\ tail.initialized \in BOOLEAN
      /\ Len(tail.sig) <= SigBytes
      /\ disk' = disk /\ written' = written /\ fileFaults' = fileFaults
  <2>1. budget = NotReading /\ tail # Untracked /\ tail \in State
    BY LooseFacts DEF BeginRead, reading
  <2> QED BY <2>1, StateIs DEF BeginRead, Loose
<1>2. CASE tail.initialized = FALSE
  <2>1. /\ tail' = AtEnd(tail) /\ budget' = budget /\ opened' = opened /\ refill' = refill
        /\ crossed' = crossed
    BY <1>2 DEF BeginRead
  <2>2. tail' \in State /\ Len(tail'.sig) <= SigBytes
    BY <1>1, <2>1, AtEndLoose
  <2>3. fileFaults \in 0 .. MaxFileFaults /\ crossed \in BOOLEAN
    BY DEF Loose
  <2> QED BY <1>1, <2>1, <2>2, <2>3, LooseIdle
<1>3. CASE tail.initialized = TRUE
  <2>1. /\ tail' = IF Changed THEN FromByteZero(tail) ELSE tail
        /\ opened' = disk /\ budget' = [bytes |-> BudgetBytes, records |-> BudgetRecords]
        /\ refill' = Intact /\ crossed' = (crossed /\ ~Changed)
    BY <1>3 DEF BeginRead
  <2>2. budget' \in Budget /\ budget' # NotReading
    <3>1. budget' \in Budget
      BY <2>1, LogTailBounds DEF Budget
    <3> QED BY <3>1, Distinct
  <2>3. tail' \in State /\ Len(tail'.sig) <= SigBytes /\ tail'.initialized = TRUE
    <3>1. disk \in File
      BY DEF Loose
    <3>2. SigBytes \in Nat /\ Len(<<>>) = 0
      BY LogTailBounds
    <3>3. CASE Changed
      <4>1. tail' = FromByteZero(tail)
        BY <2>1, <3>3
      <4>2. tail' \in State /\ tail'.sig = <<>> /\ tail'.initialized = tail.initialized
        BY <1>1, <3>1, <4>1, FromByteZeroIs
      <4> QED BY <1>3, <3>2, <4>2
    <3>4. CASE ~Changed
      BY <1>1, <1>3, <2>1, <3>4
    <3> QED BY <3>3, <3>4
  <2>4. tail' # Untracked
    BY <2>3, Distinct
  <2>5. refill' \in Refill /\ crossed' \in BOOLEAN
    <3>1. <<>> \in Seq(Byte)
      OBVIOUS
    <3> QED BY <2>1, <3>1 DEF Intact, Refill
  <2> QED BY <1>1, <2>1, <2>2, <2>3, <2>4, <2>5 DEF Loose
<1> QED BY <1>1, <1>2, <1>3

LEMMA DropsLoose ==
  ASSUME NEW t \in State, LineEnds(t) # {}, NEW u, u = DropBytes(t, FirstEnd(t))
  PROVE  u \in State /\ u.initialized = t.initialized /\ u.sig = t.sig /\ u.seq = t.seq
<1>1. t.pending \in Seq(Byte)
  BY StateIs
<1>2. PICK e \in Nat, m \in Nat : e = FirstEnd(t) /\ m = Len(t.pending) /\ e <= m
  <2>1. FirstEnd(t) \in Nat /\ FirstEnd(t) <= Len(t.pending)
    BY FirstEndIs
  <2>2. Len(t.pending) \in Nat
    BY <1>1
  <2> QED BY <2>1, <2>2
<1>3. PICK p : p = SubSeq(t.pending, e + 1, m)
  OBVIOUS
<1>4. p \in Seq(Byte)
  <2>1. e + 1 \in Nat /\ e + 1 >= 1 /\ e + 1 <= m + 1
    BY <1>2
  <2> QED BY <1>1, <1>2, <1>3, <2>1, PartIs
<1>5. Keeps(u, t, p)
  BY <1>2, <1>3, DropBytesIs
<1> QED BY <1>4, <1>5, KeepsIs

LEMMA EmitLoose ==
  ASSUME Loose, Emit
  PROVE  Loose'
<1>1. /\ reading /\ LineEnds(tail) # {} /\ budget.records > 0
      /\ disk' = disk /\ opened' = opened /\ refill' = refill /\ written' = written
      /\ fileFaults' = fileFaults /\ crossed' = crossed
      /\ budget' = [budget EXCEPT !.records = @ - 1]
      /\ tail' = [DropBytes(tail, FirstEnd(tail)) EXCEPT !.seq = @ + 1]
  BY DEF Emit
<1>2. /\ budget \in Budget /\ tail \in State /\ tail.initialized = TRUE
      /\ Len(tail.sig) <= SigBytes /\ crossed \in BOOLEAN /\ tail.seq \in Nat
  <2>1. budget \in Budget /\ tail \in State /\ tail.initialized = TRUE /\ Len(tail.sig) <= SigBytes
    BY <1>1, InLoose
  <2> QED BY <2>1, StateIs DEF Loose
<1>3. PICK v : v = DropBytes(tail, FirstEnd(tail))
  OBVIOUS
<1>4. v \in State /\ v.initialized = TRUE /\ v.sig = tail.sig /\ v.seq = tail.seq
  BY <1>1, <1>2, <1>3, DropsLoose
<1>5. PICK q \in Nat : q = tail.seq + 1
  BY <1>2
<1>6. PICK u : u = tail'
  OBVIOUS
<1>7. Renumbers(u, v, q)
  BY <1>1, <1>3, <1>4, <1>5, <1>6 DEF Renumbers
<1>8. u \in State /\ u.initialized = TRUE /\ u.sig = tail.sig
  BY <1>4, <1>7, CountsIs
<1>9. budget' \in Budget
  <2>1. budget.records \in Nat /\ 1 <= budget.records
    <3>1. budget.records \in 0 .. BudgetRecords /\ BudgetRecords \in Nat
      BY <1>2, LogTailBounds DEF Budget
    <3> QED BY <1>1, <3>1
  <2> QED BY <1>1, <1>2, <2>1, BudgetIs
<1> QED BY <1>1, <1>2, <1>6, <1>8, <1>9, LooseRead

LEMMA DropsLooseToo ==
  ASSUME Loose, DropOversized \/ DropEndless
  PROVE  Loose'
<1>1. /\ reading /\ budget' = budget
      /\ disk' = disk /\ opened' = opened /\ refill' = refill /\ written' = written
      /\ fileFaults' = fileFaults /\ crossed' = crossed
  BY DEF DropOversized, DropEndless
<1>2. /\ budget \in Budget /\ tail \in State /\ tail.initialized = TRUE
      /\ Len(tail.sig) <= SigBytes /\ crossed \in BOOLEAN
  <2>1. budget \in Budget /\ tail \in State /\ tail.initialized = TRUE /\ Len(tail.sig) <= SigBytes
    BY <1>1, InLoose
  <2> QED BY <2>1 DEF Loose
<1>3. \E v \in State : /\ v.initialized = TRUE /\ v.sig = tail.sig
                       /\ tail' = NextGeneration(v)
  <2>1. CASE DropOversized
    <3>1. PICK v : v = DropBytes(tail, FirstEnd(tail))
      OBVIOUS
    <3>2. LineEnds(tail) # {} /\ tail' = NextGeneration(v)
      BY <2>1, <3>1 DEF DropOversized, Oversized
    <3>3. v \in State /\ v.initialized = TRUE /\ v.sig = tail.sig
      BY <1>2, <3>1, <3>2, DropsLoose
    <3> QED BY <3>2, <3>3
  <2>2. CASE DropEndless
    <3>1. PICK v : v = [tail EXCEPT !.pending = <<>>, !.discard = TRUE]
      OBVIOUS
    <3>2. tail' = NextGeneration(v)
      BY <2>2, <3>1 DEF DropEndless
    <3>3. v \in State /\ IsAt(v, tail, tail.initialized, tail.id, tail.offset, <<>>, TRUE, tail.sig)
      <4>1. /\ tail.initialized \in BOOLEAN /\ tail.id \in Nat /\ tail.offset \in Nat
            /\ tail.sig \in Seq(Byte)
        BY <1>2, StateIs
      <4>2. <<>> \in Seq(Byte) /\ TRUE \in BOOLEAN
        OBVIOUS
      <4>3. At(v, tail, tail.initialized, tail.id, tail.offset, <<>>, TRUE, tail.sig)
        BY <1>2, <3>1 DEF At, State
      <4> QED BY <1>2, <4>1, <4>2, <4>3, PlacedAt
    <3> QED BY <1>2, <3>2, <3>3 DEF IsAt
  <2> QED BY <2>1, <2>2
<1>4. tail' \in State /\ tail'.initialized = TRUE /\ tail'.sig = tail.sig
  BY <1>3, NextGenerationIs
<1> QED BY <1>1, <1>2, <1>4, LooseRead

LEMMA ReadChunkLoose ==
  ASSUME Loose, ReadChunk
  PROVE  Loose'
<1> DEFINE b == Held
<1>1. /\ reading /\ budget.bytes > 0 /\ Available > 0
      /\ disk' = disk /\ opened' = opened /\ refill' = refill /\ written' = written
      /\ fileFaults' = fileFaults /\ crossed' = (crossed \/ refill.emptied)
      /\ budget' = [budget EXCEPT !.bytes = @ - ChunkLen]
  BY DEF ReadChunk
<1>2. /\ budget \in Budget /\ tail \in State /\ tail.initialized = TRUE
      /\ Len(tail.sig) <= SigBytes
  BY <1>1, InLoose
<1>3. /\ tail.pending \in Seq(Byte) /\ tail.offset \in Nat /\ tail.id \in Nat /\ tail.sig \in Seq(Byte)
      /\ tail.initialized \in BOOLEAN /\ tail.discard \in BOOLEAN
  BY <1>2, StateIs
<1>4. b \in Seq(Byte)
  <2>1. refill \in Refill /\ opened.bytes \in Seq(Byte)
    BY LooseFacts DEF Loose
  <2>2. refill.bytes \in Seq(Byte)
    BY <2>1 DEF Refill
  <2> QED BY <2>1, <2>2 DEF Held
<1>5. PICK l \in Nat, o \in Nat : l = Len(b) /\ o = tail.offset
  BY <1>3, <1>4
<1>6. Available = l - o /\ Available \in Nat
  <2>1. Available = l - o
    BY <1>5 DEF Available
  <2> QED BY <1>1, <1>5, <2>1
<1>7. PICK c \in Nat : c = ChunkLen /\ c > 0 /\ c <= budget.bytes /\ c <= Available
  BY <1>1, <1>2, <1>6, ChunkLenIs
<1>9. PICK bytes : bytes = SubSeq(b, o + 1, o + c)
  OBVIOUS
<1>10. bytes \in Seq(Byte)
  <2>1. PICK m \in Nat, n \in Nat : m = o + 1 /\ n = o + c
    BY <1>5, <1>7
  <2>2. m >= 1 /\ m <= n + 1 /\ n <= l
    <3>1. o \in Nat /\ c \in Nat /\ l \in Nat /\ c <= l - o
      BY <1>5, <1>6, <1>7
    <3> QED BY ONLY <2>1, <3>1
  <2> QED BY <1>4, <1>5, <1>9, <2>1, <2>2, PartIs
<1> HIDE DEF b
<1>11. PICK h \in Seq(Byte) : h = tail.sig \o bytes
  BY <1>3, <1>10, JoinedIs
<1>12. PICK g : g = Suffix(h, SigBytes)
  OBVIOUS
<1>13. g \in Seq(Byte) /\ Len(g) <= SigBytes
  <2>1. PICK k \in Nat : k = Len(h)
    OBVIOUS
  <2>2. Closes(h, h, k)
    BY <2>1, ClosesItself
  <2>3. SigBytes \in Nat \ {0}
    BY LogTailBounds
  <2> QED BY <1>12, <2>2, <2>3, SuffixIs
<1>15. PICK v : v = [tail EXCEPT !.offset = o + c, !.sig = g]
  OBVIOUS
<1>16. v \in State /\ IsAt(v, tail, tail.initialized, tail.id, o + c, tail.pending, tail.discard, g)
  <2>1. o + c \in Nat
    BY <1>5, <1>7
  <2>2. At(v, tail, tail.initialized, tail.id, o + c, tail.pending, tail.discard, g)
    BY <1>2, <1>15 DEF At, State
  <2> QED BY <1>2, <1>3, <1>13, <2>1, <2>2, PlacedAt
<1>17. PICK u : u = tail'
  OBVIOUS
<1>18. u = Appended(v, bytes)
  BY <1>5, <1>7, <1>9, <1>11, <1>12, <1>15, <1>17 DEF ReadChunk, b
<1>19. u \in State /\ u.initialized = TRUE /\ u.sig = g
  <2>1. u \in State /\ Takes(u, v, bytes)
    BY <1>10, <1>16, <1>18, AppendedIs
  <2> QED BY <1>2, <1>16, <2>1 DEF Takes, IsAt
<1>20. crossed' \in BOOLEAN
  <2>1. refill \in Refill /\ crossed \in BOOLEAN
    BY DEF Loose
  <2> QED BY <1>1, <2>1 DEF Refill
<1>21. budget' \in Budget
  BY <1>1, <1>2, <1>7, BudgetIs
<1> QED BY <1>1, <1>2, <1>13, <1>17, <1>19, <1>20, <1>21, LooseRead

LEMMA EndReadLoose ==
  ASSUME Loose, EndRead \/ ReadFails
  PROVE  Loose'
<1>1. /\ disk' = disk /\ written' = written /\ tail' = tail /\ crossed' = crossed
      /\ fileFaults' \in 0 .. MaxFileFaults /\ budget' = NotReading
      /\ opened' = [disk EXCEPT !.id = 0, !.bytes = <<>>] /\ refill' = Intact
  <2>1. fileFaults < MaxFileFaults => fileFaults + 1 \in 0 .. MaxFileFaults
    BY LogTailBounds DEF Loose
  <2> QED BY <2>1 DEF Loose, EndRead, ReadFails
<1>2. opened' \in File /\ opened'.id = 0 /\ opened'.bytes = <<>>
  <2>1. PICK p : p = <<>>
    OBVIOUS
  <2>2. p \in Seq(Byte) /\ disk \in File
    BY <2>1 DEF Loose
  <2>3. opened' = [disk EXCEPT !.id = 0, !.bytes = p]
    BY <1>1, <2>1
  <2>4. opened' \in File
    BY <2>2, <2>3, LetGo DEF Lets
  <2>5. opened'.id = 0 /\ opened'.bytes = p
    BY <2>2, <2>3 DEF File
  <2> QED BY <2>1, <2>4, <2>5
<1>3. refill' \in Refill
  <2>1. <<>> \in Seq(Byte)
    OBVIOUS
  <2> QED BY <1>1, <2>1 DEF Intact, Refill
<1> QED BY <1>1, <1>2, <1>3 DEF Loose

LEMMA LooseNext == Loose /\ [TailNext]_tailVars => Loose'
<1> SUFFICES ASSUME Loose, [TailNext]_tailVars PROVE Loose'
  OBVIOUS
<1>1. CASE UNCHANGED tailVars
  BY <1>1 DEF tailVars, Loose
<1>2. CASE TailNext
  <2>1. CASE \E nl \in BOOLEAN : Write(nl)
    BY <2>1, WriteLoose
  <2>2. CASE Truncate \/ Delete \/ Recreate
    BY <2>2, EmptiedLoose
  <2>3. CASE \E s \in FileId : Track(s) \/ Reassociate(s)
    BY <2>3, TrackLoose, ReassociateLoose
  <2>4. CASE Untrack \/ BeginRead
    BY <2>4, UntrackLoose, BeginReadLoose
  <2>5. CASE Emit \/ DropOversized \/ DropEndless \/ ReadChunk
    BY <2>5, EmitLoose, DropsLooseToo, ReadChunkLoose
  <2>6. CASE EndRead \/ ReadFails
    BY <2>6, EndReadLoose
  <2> QED BY <1>2, <2>1, <2>2, <2>3, <2>4, <2>5, <2>6 DEF TailNext
<1> QED BY <1>1, <1>2

\* A read that notices the change starts over, with all it finds new.
LEMMA NoticedKeeps ==
  ASSUME Loose, crossed = TRUE, BeginRead, crossed' # TRUE
  PROVE  TailInv'
<1>1. /\ budget = NotReading /\ tail # Untracked /\ tail \in State /\ tail.initialized = TRUE
      /\ disk' = disk /\ written' = written /\ fileFaults' = fileFaults
      /\ tail' = FromByteZero(tail) /\ opened' = disk /\ refill' = Intact /\ last' = NoRecord
      /\ budget' = [bytes |-> BudgetBytes, records |-> BudgetRecords]
  <2>1. budget = NotReading /\ tail # Untracked /\ tail \in State
    BY LooseFacts DEF BeginRead, reading
  <2>2. tail.initialized \in BOOLEAN
    BY <2>1, StateIs
  <2>3. tail.initialized = TRUE
    BY <2>2 DEF BeginRead
  <2>4. Changed
    BY <2>3 DEF BeginRead
  <2> QED BY <2>1, <2>3, <2>4 DEF BeginRead
<1>2. budget' \in Budget /\ budget' # NotReading
  <2>1. budget' \in Budget
    BY <1>1, LogTailBounds DEF Budget
  <2> QED BY <2>1, Distinct
<1>3. PICK u : u = tail'
  OBVIOUS
<1>4. /\ disk \in File /\ disk.bytes \in Seq(Byte) /\ disk.id \in Nat /\ disk.id > 0
      /\ written \in Nat /\ Ascending(disk.bytes, written)
  BY LooseFacts DEF Loose
<1>5. /\ u \in State /\ u.initialized = TRUE /\ u.id = disk.id
      /\ u.offset = 0 /\ u.pending = <<>> /\ u.discard = FALSE
      /\ u.sig = <<>> /\ u.gen = tail.gen + 1 /\ u.seq = 0
  BY <1>1, <1>3, <1>4, FromByteZeroIs
<1>6. After(disk.bytes, 0, NoRecord)
  <2>1. \A i \in DOMAIN disk.bytes : disk.bytes[i].at \in 1 .. written
    BY <1>4 DEF Ascending
  <2> QED BY <1>4, <2>1, NoRecordIs DEF After
<1>7. Shape(u, written)
  <2>1. SigBytes \in Nat
    BY LogTailBounds
  <2>2. Len(<<>>) = 0 /\ DOMAIN <<>> = {}
    OBVIOUS
  <2> QED BY <1>5, <2>1, <2>2 DEF Shape
<1>8. tail.gen \in Nat
  BY <1>1, StateIs
<1>9. Numbered(u, NoRecord)
  BY <1>5, <1>8, NoRecordIs DEF Numbered
<1>10. Follows(u, disk.bytes, NoRecord)
  BY <1>4, <1>5, <1>6, <1>7, <1>9, NoRecordIs, FollowsNothing
<1>11. Types'
  BY <1>1, <1>2, <1>3, <1>4, <1>5, NoRecordIs DEF Loose, Types
<1>12. Kept'
  BY <1>1, <1>3, <1>4, <1>5, <1>7, <1>9 DEF Kept
<1>13. ~Apart'
  BY <1>1 DEF Apart, Intact
<1>14. u # Untracked
  BY <1>5, Distinct
<1>15. Reads'
  BY <1>1, <1>2, <1>3, <1>4, <1>5, <1>10, <1>13, <1>14 DEF Reads
<1>16. Rests'
  BY <1>2 DEF Rests
<1> QED BY <1>11, <1>12, <1>15, <1>16 DEF TailInv

-----------------------------------------------------------------------------
(* The theorem *)

\* A read that went on in an emptied file excepts all but what is loose.
TailKept == Loose /\ (crossed = TRUE \/ TailInv)

LEMMA TailInitInv == TailInit => TailKept
<1> SUFFICES ASSUME TailInit PROVE Loose /\ TailInv
  BY DEF TailKept
<1>1. <<>> \in Seq(Byte)
  OBVIOUS
<1>2. disk \in File /\ opened \in File /\ disk.id = 1 /\ opened.id = 0
      /\ disk.bytes = <<>> /\ opened.bytes = <<>>
  BY <1>1 DEF TailInit, File
<1>3. Ascending(<<>>, 0)
  BY DEF Ascending
<1>4. 0 \in 0 .. MaxBytes /\ 0 \in 0 .. MaxFileFaults
  BY LogTailBounds
<1>5. Types
  BY <1>2, <1>3, <1>4, NoRecordIs DEF TailInit, Types
<1>6. Kept /\ Rests
  BY DEF TailInit, Kept, Rests
<1>7. Reads
  BY <1>2 DEF TailInit, Reads
<1>8. Loose
  <2>1. refill \in Refill
    BY <1>1 DEF TailInit, Intact, Refill
  <2>2. tail = Untracked /\ budget = NotReading /\ refill = Intact /\ crossed = FALSE
    BY DEF TailInit
  <2>3. written = 0 /\ fileFaults = 0
    BY DEF TailInit
  <2>4. disk.id > 0 /\ Ascending(disk.bytes, written)
    BY <1>2, <1>3, <2>3
  <2>5. crossed \in BOOLEAN /\ tail \in State \cup {Untracked}
        /\ budget \in Budget \cup {NotReading} /\ (tail # Untracked => Len(tail.sig) <= SigBytes)
    BY <2>2
  <2>6. written \in 0 .. MaxBytes /\ fileFaults \in 0 .. MaxFileFaults
    BY <1>4, <2>3
  <2> QED BY <1>2, <2>1, <2>2, <2>4, <2>5, <2>6 DEF Loose
<1> QED BY <1>5, <1>6, <1>7, <1>8 DEF TailInv

\* A step that leaves nothing excepted keeps the rest.
LEMMA TailStepInv ==
  ASSUME Loose, TailInv, crossed = FALSE, crossed' # TRUE, TailNext
  PROVE  TailInv'
<1>1. CASE \E nl \in BOOLEAN : Write(nl)
  BY <1>1, WriteKeeps
<1>2. CASE Truncate \/ Delete \/ Recreate
  BY <1>2, TruncateKeeps, DeleteKeeps, RecreateKeeps
<1>3. CASE \E s \in FileId : Track(s) \/ Reassociate(s)
  BY <1>3, TrackKeeps, ReassociateKeeps
<1>4. CASE Untrack \/ BeginRead
  BY <1>4, UntrackKeeps, BeginReadKeeps
<1>5. CASE Emit \/ DropOversized \/ DropEndless
  BY <1>5, EmitKeeps, DropOversizedKeeps, DropEndlessKeeps
<1>6. CASE ReadChunk
  <2>1. refill.emptied \in BOOLEAN
    <3>1. refill \in Refill
      BY DEF Loose
    <3> QED BY <3>1 DEF Refill
  <2>2. refill.emptied = FALSE
    BY <1>6, <2>1 DEF ReadChunk
  <2> QED BY <1>6, <2>2, ReadChunkKeeps
<1>7. CASE EndRead \/ ReadFails
  BY <1>7, EndReadKeeps
<1> QED BY <1>1, <1>2, <1>3, <1>4, <1>5, <1>6, <1>7 DEF TailNext

LEMMA TailNextInv == TailKept /\ [TailNext]_tailVars => TailKept'
<1> SUFFICES ASSUME TailKept, [TailNext]_tailVars, crossed' # TRUE PROVE TailInv'
  <2>1. TailKept => Loose
    BY DEF TailKept
  <2>2. TailKept' <=> Loose' /\ (crossed' = TRUE \/ TailInv')
    BY DEF TailKept
  <2> QED BY <2>1, <2>2, LooseNext
<1>0. Loose /\ crossed \in BOOLEAN
  BY DEF TailKept, Loose
<1>1. CASE UNCHANGED tailVars
  <2>1. TailInv /\ UNCHANGED tailVars
    BY <1>1 DEF TailKept, tailVars
  <2> QED BY <2>1 DEF tailVars, TailInv, Types, Kept, Reads, Apart, Rests, Standing
<1>2. CASE TailNext /\ crossed = FALSE
  BY <1>0, <1>2, TailStepInv DEF TailKept
<1>3. CASE TailNext /\ crossed = TRUE
  <2>1. (\E s \in FileId : Track(s)) \/ BeginRead
    BY <1>3 DEF TailNext, Write, Truncate, Fault, Delete, Recreate, Untrack, Reassociate,
                Emit, DropOversized, DropEndless, ReadChunk, EndRead, ReadFails
  <2> QED BY <1>0, <1>3, <2>1, TrackKeeps, NoticedKeeps
<1> QED BY <1>0, <1>1, <1>2, <1>3

\* Only a record extracted, or a file tracked or read anew, changes the last record.
LEMMA TailNextSound == TailKept /\ [TailNext]_tailVars => LineStep /\ OrderStep
<1> SUFFICES ASSUME TailKept, [TailNext]_tailVars, ~crossed PROVE LineStep /\ OrderStep
  BY DEF LineStep, OrderStep
<1>0. TailInv
  BY DEF TailKept
<1>1. CASE Emit
  BY <1>0, <1>1, EmitSound
<1>2. CASE last' = last \/ last' = NoRecord
  BY <1>2 DEF LineStep, OrderStep
<1>3. CASE TailNext /\ ~Emit
  <2>1. last' = last \/ last' = NoRecord
    BY <1>3 DEF TailNext, Write, Truncate, Fault, Delete, Recreate, Track, Untrack, Reassociate,
                BeginRead, DropOversized, DropEndless, ReadChunk, EndRead, ReadFails
  <2> QED BY <1>2, <2>1
<1>4. CASE UNCHANGED tailVars
  BY <1>2, <1>4 DEF tailVars
<1> QED BY <1>1, <1>3, <1>4

LEMMA LooseTypeOK == Loose => TailTypeOK
<1> SUFFICES ASSUME Loose PROVE TailTypeOK
  OBVIOUS
<1>1. tail.tracked =>
        /\ tail.offset \in Nat /\ tail.gen \in Nat /\ tail.seq \in Nat
        /\ Len(tail.sig) <= SigBytes /\ tail.source \in FileId
  <2>1. CASE tail = Untracked
    BY <2>1, LooseFacts
  <2>2. CASE tail # Untracked
    BY <2>2, LooseFacts, StateIs DEF Loose
  <2> QED BY <2>1, <2>2
<1>2. budget.bytes \in -1 .. BudgetBytes /\ budget.records \in -1 .. BudgetRecords
  <2>1. BudgetBytes \in Nat /\ BudgetRecords \in Nat
    BY LogTailBounds
  <2>2. CASE budget = NotReading
    BY <2>1, <2>2 DEF NotReading
  <2>3. CASE budget \in Budget
    <3>1. budget.bytes \in 0 .. BudgetBytes /\ budget.records \in 0 .. BudgetRecords
      BY <2>3 DEF Budget
    <3> QED BY <2>1, <3>1
  <2> QED BY <2>2, <2>3 DEF Loose
<1> QED BY <1>1, <1>2, LooseFacts DEF TailTypeOK, Loose

LEMMA TailInvSound == TailKept => TailTypeOK /\ OffsetsTrue
<1> SUFFICES ASSUME TailKept PROVE TailTypeOK /\ OffsetsTrue
  OBVIOUS
<1>1. TailTypeOK
  BY LooseTypeOK DEF TailKept
<1>2. OffsetsTrue
  <2>1. SUFFICES ASSUME tail.tracked, tail.initialized, tail.id = disk.id, TailInv,
                        ~refill.emptied, reading \/ ~Changed
                 PROVE  LET before == SubSeq(disk.bytes, 1, tail.offset) IN
                        /\ tail.offset <= Len(disk.bytes)
                        /\ IsSuffix(tail.sig, before) /\ (tail.offset > 0 => tail.sig # <<>>)
                        /\ IsSuffix(tail.pending, before)
                        /\ tail.discard => tail.pending = <<>>
    BY DEF OffsetsTrue, TailKept
  <2>2. tail # Untracked
    BY <2>1, Facts
  <2>3. tail \in State /\ Shape(tail, written) /\ disk.bytes \in Seq(Byte) /\ disk \in File
    BY <2>1, <2>2, Facts DEF TailInv, Kept, Types
  <2>4. /\ tail.sig \in Seq(Byte) /\ tail.pending \in Seq(Byte) /\ tail.offset \in Nat
        /\ tail.discard \in BOOLEAN /\ tail.initialized = TRUE
    BY <2>1, <2>3, StateIs
  <2>5. Follows(tail, disk.bytes, last)
    <3>1. CASE reading
      <4>1. opened.bytes = disk.bytes
        <5>1. tail.id = opened.id
          BY <2>1, <3>1 DEF TailInv, Reads, reading
        <5>2. ~Apart
          BY <2>1, <5>1 DEF Apart
        <5> QED BY <2>1, <3>1, <5>2 DEF TailInv, Reads, reading
      <4> QED BY <2>1, <3>1, <4>1, InRead
    <3>2. CASE ~reading
      <4>1. Standing(tail, disk)
        BY <2>1, <2>3, <3>2, ChangedIs
      <4> QED BY <2>1, <2>2, <2>4, <3>2, <4>1 DEF TailInv, Rests, reading
    <3> QED BY <3>1, <3>2
  <2>6. tail.offset <= Len(disk.bytes)
    BY <2>3, <2>5, Placed
  <2>7. IsSuffix(tail.sig, SubSeq(disk.bytes, 1, tail.offset))
    BY <2>3, <2>4, <2>5, ClosesSuffix DEF Follows
  <2>8. IsSuffix(tail.pending, SubSeq(disk.bytes, 1, tail.offset))
    BY <2>3, <2>4, <2>5, ClosesSuffix DEF Follows
  <2>9. tail.offset > 0 => tail.sig # <<>>
    <3>1. Len(<<>>) = 0
      OBVIOUS
    <3> QED BY <2>3, <3>1 DEF Shape
  <2>10. tail.discard => tail.pending = <<>>
    BY <2>3, <2>4 DEF Shape
  <2> QED BY <2>6, <2>7, <2>8, <2>9, <2>10
<1> QED BY <1>1, <1>2

\* Every record handed to the pipeline is one whole line of the open file, given once and in
\* order, and a read always continues where the last one stopped: the safety part of TailSound.
\* This excepts what follows a read that went on in a file emptied and filled again past its
\* offset after the read had compared it, up to the read that notices.
THEOREM LinesOnceAndWhole ==
  TailSpec => [](TailTypeOK /\ OffsetsTrue) /\ WholeLines /\ OnceAndInOrder
<1>1. TailSpec => []TailKept
  BY TailInitInv, TailNextInv, PTL DEF TailSpec
<1>2. TailKept /\ [TailNext]_tailVars => [LineStep]_tailVars /\ [OrderStep]_tailVars
  BY TailNextSound
<1>3. TailSpec => [][LineStep]_tailVars /\ [][OrderStep]_tailVars
  BY <1>1, <1>2, PTL DEF TailSpec
<1>4. [][LineStep]_tailVars => WholeLines
  BY PTL DEF LineStep, WholeLines
<1>5. [][OrderStep]_tailVars => OnceAndInOrder
  BY PTL DEF OrderStep, OnceAndInOrder
<1> QED BY <1>1, <1>3, <1>4, <1>5, TailInvSound, PTL

(***************************************************************************)
(* Notices                                                                 *)
(***************************************************************************)

Unread == Nat \X Kind

\* A notice n of a client whose newest press is `press': it is about its newest unread
\* line, and a press it holds is that one, on an invitation that still offers its buttons.
NoticeGood(n, press) ==
  /\ n \in Entry /\ Len(n.unread) \in 1 .. MaxUnread
  /\ n.kind = Last(n.unread)[2]
  /\ n.actions = TRUE => n.kind = "groupInvite"
  /\ n.pressed # "none" => n.actions = TRUE /\ press = <<Last(n.unread)[1], n.pressed>>

NoticeFits(n, press) == n # NoEntry => NoticeGood(n, press)

\* g holds what is left of each prefix of u.
Retentions(g, u, kind, n) ==
  g = [i \in 0 .. n |-> IF i = 0 THEN <<>>
                        ELSE IF u[i][2] # kind THEN Append(g[i - 1], u[i]) ELSE g[i - 1]]

LEMMA RetentionsExist ==
  ASSUME NEW u, NEW kind, NEW n \in Nat
  PROVE  \E g : Retentions(g, u, kind, n)
<1> DEFINE S == {m \in Nat : ~ \E g : Retentions(g, u, kind, m)}
           Next(old, i) == IF u[i][2] # kind THEN Append(old, u[i]) ELSE old
<1>1. ASSUME NEW m \in S, \A k \in S : m <= k PROVE FALSE
  <2>1. m \in Nat /\ ~ \E g : Retentions(g, u, kind, m)
    BY <1>1
  <2>2. CASE m = 0
    <3> DEFINE g == [i \in 0 .. 0 |-> <<>>]
    <3>1. g = [i \in 0 .. 0 |-> IF i = 0 THEN <<>> ELSE Next(g[i - 1], i)]
      <4>1. \A i \in 0 .. 0 : i = 0
        OBVIOUS
      <4> QED BY <4>1
    <3>2. Retentions(g, u, kind, 0)
      BY <3>1 DEF Retentions
    <3> QED BY <2>1, <2>2, <3>2
  <2>3. CASE m # 0
    <3>1. m - 1 \in Nat /\ ~(m <= m - 1)
      BY <2>1, <2>3
    <3>2. PICK h : Retentions(h, u, kind, m - 1)
      BY <1>1, <3>1
    <3> DEFINE g == [i \in 0 .. m |-> IF i = m THEN Next(h[m - 1], m) ELSE h[i]]
    <3>3. /\ \A i \in 0 .. m - 1 : i \in 0 .. m /\ i # m /\ (i # 0 => i - 1 \in 0 .. m - 1)
          /\ \A i \in 0 .. m : i # m => i \in 0 .. m - 1
          /\ m \in 0 .. m /\ m - 1 \in 0 .. m - 1
      BY <2>1, <3>1
    <3>5. \A i \in 0 .. m - 1 : h[i] = IF i = 0 THEN <<>> ELSE Next(h[i - 1], i)
      BY <3>2 DEF Retentions
    <3> HIDE DEF Next
    <3>4. g[m] = Next(h[m - 1], m) /\ \A i \in 0 .. m - 1 : g[i] = h[i]
      BY <3>3
    <3>6. DOMAIN g = 0 .. m /\ g = [i \in 0 .. m |-> g[i]]
      OBVIOUS
    <3> HIDE DEF g
    <3>7. \A i \in 0 .. m : g[i] = IF i = 0 THEN <<>> ELSE Next(g[i - 1], i)
      BY <2>3, <3>3, <3>4, <3>5
    <3>8. g = [i \in 0 .. m |-> IF i = 0 THEN <<>> ELSE Next(g[i - 1], i)]
      BY <3>6, <3>7
    <3>9. Retentions(g, u, kind, m)
      BY <3>8 DEF Retentions, Next
    <3> QED BY <2>1, <3>9
  <2> QED BY <2>2, <2>3
<1>2. S = {}
  <2>1. S \in SUBSET Nat
    OBVIOUS
  <2> HIDE DEF S
  <2> QED BY <1>1, <2>1, LeastNatural
<1> QED BY <1>2

\* What is left of the unread notices are some of them, and the newest is among them
\* unless it is of the kind that goes.
LEMMA RetainedKeeps ==
  ASSUME NEW u \in Seq(Unread), NEW kind
  PROVE  /\ Retained(u, kind) \in Seq(Unread)
         /\ Len(Retained(u, kind)) <= Len(u)
         /\ u # <<>> /\ Last(u)[2] # kind =>
              Retained(u, kind) # <<>> /\ Last(Retained(u, kind)) = Last(u)
<1>1. PICK n \in Nat : n = Len(u)
  OBVIOUS
<1>2. \A i \in 1 .. n : u[i] \in Unread
  BY <1>1
<1>3. PICK g : Retentions(g, u, kind, n) /\ Retained(u, kind) = g[n]
  <2>1. \E g : Retentions(g, u, kind, n)
    BY RetentionsExist
  <2> DEFINE a == CHOOSE g : Retentions(g, u, kind, n)
  <2>2. Retentions(a, u, kind, n)
    BY <2>1
  <2>3. Retained(u, kind) = a[n]
    BY <1>1 DEF Retained, Retentions
  <2> QED BY <2>2, <2>3
<1>4. \A i \in 0 .. n : g[i] = IF i = 0 THEN <<>>
                               ELSE IF u[i][2] # kind THEN Append(g[i - 1], u[i]) ELSE g[i - 1]
  BY <1>3 DEF Retentions
<1> DEFINE P(i) == g[i] \in Seq(Unread) /\ Len(g[i]) <= i
           S == {i \in 0 .. n : ~P(i)}
<1>5. P(0)
  <2>1. 0 \in 0 .. n
    BY <1>1
  <2>2. g[0] = <<>>
    BY <1>4, <2>1
  <2> QED BY <2>2
<1>6. ASSUME NEW i \in S, \A k \in S : i <= k PROVE FALSE
  <2>1. i \in 1 .. n /\ i - 1 \in 0 .. n /\ ~(i <= i - 1) /\ i # 0 /\ i \in 0 .. n
    BY <1>1, <1>5, <1>6
  <2>2. P(i - 1)
    BY <1>6, <2>1
  <2>3. g[i] = IF u[i][2] # kind THEN Append(g[i - 1], u[i]) ELSE g[i - 1]
    BY <1>4, <2>1
  <2>4. u[i] \in Unread
    BY <1>2, <2>1
  <2>5. P(i)
    BY <2>1, <2>2, <2>3, <2>4, AppendProperties
  <2> QED BY <1>6, <2>5
<1>7. S = {}
  <2>1. S \in SUBSET Nat
    OBVIOUS
  <2> HIDE DEF S
  <2> QED BY <1>6, <2>1, LeastNatural
<1>8. P(n) /\ (n # 0 => P(n - 1))
  BY <1>1, <1>7
<1>9. ASSUME u # <<>>, Last(u)[2] # kind
      PROVE  g[n] # <<>> /\ Last(g[n]) = Last(u)
  <2>1. n \in 0 .. n /\ n # 0 /\ n \in 1 .. n /\ Last(u) = u[n]
    BY <1>1, <1>9 DEF Last
  <2>2. g[n] = Append(g[n - 1], u[n])
    BY <2>1, <1>4, <1>9
  <2>3. g[n - 1] \in Seq(Unread) /\ u[n] \in Unread
    BY <1>2, <1>8, <2>1
  <2> QED BY <2>1, <2>2, <2>3, AppendProperties DEF Last
<1> QED BY <1>1, <1>3, <1>8, <1>9

\* A record of all fields is an entry, and an entry has its fields.
LEMMA EntryFields ==
  ASSUME NEW n
  PROVE  n \in Entry <=>
           /\ n = [kind |-> n.kind, age |-> n.age, actions |-> n.actions, unread |-> n.unread,
                   hovered |-> n.hovered, pressed |-> n.pressed,
                   previewPressed |-> n.previewPressed, animationDone |-> n.animationDone,
                   previewDone |-> n.previewDone]
           /\ n.kind \in Kind /\ n.age \in 0 .. PreviewDuration /\ n.actions \in BOOLEAN
           /\ n.unread \in Seq(Unread) /\ n.hovered \in Button \cup {"none"}
           /\ n.pressed \in Button \cup {"none"} /\ n.previewPressed \in BOOLEAN
           /\ n.animationDone \in BOOLEAN /\ n.previewDone \in BOOLEAN
BY DEF Entry, Unread

LEMMA EntryIsNoNoEntry == NoEntry \notin Entry
BY DEF NoEntry, Entry, Kind

\* A new notice of a client that has nothing, or a sound notice.
LEMMA PushFits ==
  ASSUME NEW old, NEW press, NoticeFits(old, press), NEW kind \in Kind, NEW id \in Nat,
         NEW actions \in BOOLEAN, actions = TRUE => kind = "groupInvite"
  PROVE  NoticeGood(Push(old, kind, id, actions), press)
<1> DEFINE u == IF old = NoEntry THEN <<>> ELSE old.unread
           v == IF Len(u) = MaxUnread THEN Tail(u) ELSE u
           n == Push(old, kind, id, actions)
<1>1. u \in Seq(Unread) /\ Len(u) <= MaxUnread /\ MaxUnread \in Nat \ {0}
  BY NoticeBounds, EntryFields DEF NoticeFits, NoticeGood
<1>2. n = [kind |-> kind, age |-> 0, actions |-> actions, unread |-> Append(v, <<id, kind>>),
           hovered |-> "none", pressed |-> "none", previewPressed |-> FALSE,
           animationDone |-> FALSE, previewDone |-> FALSE]
  BY DEF Push
<1> HIDE DEF u, n
<1>3. v \in Seq(Unread) /\ Len(v) < MaxUnread
  <2>1. CASE Len(u) = MaxUnread
    BY <1>1, <2>1, HeadTailProperties
  <2>2. CASE Len(u) # MaxUnread
    BY <1>1, <2>2
  <2> QED BY <2>1, <2>2
<1> HIDE DEF v
<1>4. <<id, kind>> \in Unread
  BY DEF Unread
<1>5. /\ n.unread \in Seq(Unread) /\ Len(n.unread) \in 1 .. MaxUnread
      /\ Last(n.unread) = <<id, kind>>
  <2>1. n.unread = Append(v, <<id, kind>>)
    BY <1>2
  <2>2. Len(v) \in Nat
    BY <1>3
  <2> QED BY <2>1, <2>2, <1>1, <1>3, <1>4, AppendProperties DEF Last
<1>6. n \in Entry
  <2>1. /\ n.kind = kind /\ n.age = 0 /\ n.actions = actions /\ n.hovered = "none"
        /\ n.pressed = "none" /\ n.previewPressed = FALSE /\ n.animationDone = FALSE
        /\ n.previewDone = FALSE
    BY <1>2
  <2>2. 0 \in 0 .. PreviewDuration
    BY NoticeBounds
  <2>3. n = [kind |-> n.kind, age |-> n.age, actions |-> n.actions, unread |-> n.unread,
             hovered |-> n.hovered, pressed |-> n.pressed,
             previewPressed |-> n.previewPressed, animationDone |-> n.animationDone,
             previewDone |-> n.previewDone]
    BY <1>2
  <2> QED BY <1>5, <2>1, <2>2, <2>3, EntryFields
<1> QED BY <1>2, <1>5, <1>6 DEF NoticeGood, n

\* n with other values of what the pointer, the animation and a refusal change.
Touched(n, age, actions, hovered, pressed, previewPressed, animationDone, previewDone) ==
  [kind |-> n.kind, age |-> age, actions |-> actions, unread |-> n.unread,
   hovered |-> hovered, pressed |-> pressed, previewPressed |-> previewPressed,
   animationDone |-> animationDone, previewDone |-> previewDone]

\* Values an entry may have.
Fitting(age, actions, hovered, pressed, previewPressed, animationDone, previewDone) ==
  /\ age \in 0 .. PreviewDuration /\ actions \in BOOLEAN
  /\ hovered \in Button \cup {"none"} /\ pressed \in Button \cup {"none"}
  /\ previewPressed \in BOOLEAN /\ animationDone \in BOOLEAN /\ previewDone \in BOOLEAN

LEMMA TouchedEntry ==
  ASSUME NEW n, n \in Entry, NEW age, NEW actions, NEW hovered, NEW pressed,
         NEW previewPressed, NEW animationDone, NEW previewDone,
         Fitting(age, actions, hovered, pressed, previewPressed, animationDone, previewDone),
         NEW m, m = Touched(n, age, actions, hovered, pressed, previewPressed,
                            animationDone, previewDone)
  PROVE  m \in Entry /\ m.kind = n.kind /\ m.unread = n.unread /\ m.pressed = pressed
         /\ m.actions = actions
<1>1. m = [kind |-> n.kind, age |-> age, actions |-> actions, unread |-> n.unread,
           hovered |-> hovered, pressed |-> pressed, previewPressed |-> previewPressed,
           animationDone |-> animationDone, previewDone |-> previewDone]
  BY DEF Touched
<1>2. /\ m.kind = n.kind /\ m.age = age /\ m.actions = actions /\ m.unread = n.unread
      /\ m.hovered = hovered /\ m.pressed = pressed /\ m.previewPressed = previewPressed
      /\ m.animationDone = animationDone /\ m.previewDone = previewDone
  BY <1>1
<1>3. n.kind \in Kind /\ n.unread \in Seq(Unread)
  BY EntryFields
<1>4. m = [kind |-> m.kind, age |-> m.age, actions |-> m.actions, unread |-> m.unread,
           hovered |-> m.hovered, pressed |-> m.pressed,
           previewPressed |-> m.previewPressed, animationDone |-> m.animationDone,
           previewDone |-> m.previewDone]
  BY <1>1
<1>5. m \in Entry
  <2>1. /\ age \in 0 .. PreviewDuration /\ actions \in BOOLEAN
        /\ hovered \in Button \cup {"none"} /\ pressed \in Button \cup {"none"}
        /\ previewPressed \in BOOLEAN /\ animationDone \in BOOLEAN /\ previewDone \in BOOLEAN
    BY DEF Fitting
  <2> QED BY <1>2, <1>3, <1>4, <2>1, EntryFields
<1> QED BY <1>2, <1>5

\* These values make no press up, and take the buttons of none.
Harmless(n, age, actions, hovered, pressed, previewPressed, animationDone, previewDone) ==
  /\ age \in 0 .. PreviewDuration /\ actions \in {n.actions, FALSE}
  /\ hovered \in Button \cup {"none"} /\ pressed \in {n.pressed, "none"}
  /\ {previewPressed, animationDone, previewDone} \subseteq BOOLEAN
  /\ pressed # "none" => actions = n.actions

LEMMA TouchedFits ==
  ASSUME NEW n, NEW press, NoticeGood(n, press), NEW age, NEW actions, NEW hovered,
         NEW pressed, NEW previewPressed, NEW animationDone, NEW previewDone,
         Harmless(n, age, actions, hovered, pressed, previewPressed,
                  animationDone, previewDone)
  PROVE  NoticeGood(Touched(n, age, actions, hovered, pressed, previewPressed,
                            animationDone, previewDone), press)
<1>1. PICK m : m = Touched(n, age, actions, hovered, pressed, previewPressed,
                           animationDone, previewDone)
  OBVIOUS
<1>2. n.pressed \in Button \cup {"none"} /\ n.actions \in BOOLEAN /\ n \in Entry
  BY EntryFields DEF NoticeGood
<1>3. Fitting(age, actions, hovered, pressed, previewPressed, animationDone, previewDone)
  BY <1>2 DEF Harmless, Fitting
<1>4. m \in Entry /\ m.kind = n.kind /\ m.unread = n.unread /\ m.pressed = pressed
      /\ m.actions = actions
  BY <1>1, <1>2, <1>3, TouchedEntry
<1>5. NoticeGood(m, press)
  BY <1>4 DEF NoticeGood, Harmless
<1> QED BY <1>1, <1>5

\* What is left of a notice of which some unread lines went.
LEMMA FinishedFits ==
  ASSUME NEW n, NEW press, n \in Entry, Len(n.unread) <= MaxUnread
  PROVE  NoticeFits(FinishCurrentPreview(n), press)
<1> DEFINE m == FinishCurrentPreview(n)
<1>1. CASE n.unread = <<>>
  BY <1>1 DEF FinishCurrentPreview, NoticeFits
<1>2. CASE n.unread # <<>>
  <2>1. n.unread \in Seq(Unread) /\ Len(n.unread) \in 1 .. MaxUnread
    BY <1>2, EntryFields, NoticeBounds
  <2>2. Last(n.unread) \in Unread
    BY <2>1 DEF Last
  <2>3. m = [kind |-> Last(n.unread)[2], age |-> n.age, actions |-> FALSE,
             unread |-> n.unread, hovered |-> "none", pressed |-> "none",
             previewPressed |-> FALSE, animationDone |-> TRUE, previewDone |-> TRUE]
    <3>1. n = [kind |-> n.kind, age |-> n.age, actions |-> n.actions, unread |-> n.unread,
               hovered |-> n.hovered, pressed |-> n.pressed,
               previewPressed |-> n.previewPressed, animationDone |-> n.animationDone,
               previewDone |-> n.previewDone]
      BY EntryFields
    <3> QED BY <1>2, <3>1 DEF FinishCurrentPreview
  <2> HIDE DEF m
  <2>4. Last(n.unread)[2] \in Kind
    BY <2>2 DEF Unread
  <2>5. m \in Entry
    BY <2>1, <2>3, <2>4, EntryFields
  <2>6. m.kind = Last(n.unread)[2] /\ m.unread = n.unread /\ m.pressed = "none"
        /\ m.actions = FALSE
    BY <2>3
  <2>7. NoticeGood(m, press)
    BY <2>1, <2>5, <2>6 DEF NoticeGood
  <2> QED BY <2>7 DEF NoticeFits, m
<1> QED BY <1>1, <1>2

LEMMA UnreadChanged ==
  ASSUME NEW n, n \in Entry, NEW u \in Seq(Unread)
  PROVE  LET m == [n EXCEPT !.unread = u]
         IN  /\ m \in Entry /\ m.unread = u /\ m.kind = n.kind
             /\ m.pressed = n.pressed /\ m.actions = n.actions
<1> DEFINE m == [n EXCEPT !.unread = u]
<1>1. m = [kind |-> n.kind, age |-> n.age, actions |-> n.actions, unread |-> u,
           hovered |-> n.hovered, pressed |-> n.pressed,
           previewPressed |-> n.previewPressed, animationDone |-> n.animationDone,
           previewDone |-> n.previewDone]
  BY EntryFields
<1> HIDE DEF m
<1>2. m \in Entry
  BY <1>1, EntryFields
<1> QED BY <1>1, <1>2 DEF m

LEMMA DismissFits ==
  ASSUME NEW n, NEW press, NoticeFits(n, press)
  PROVE  NoticeFits(DismissInvite(n), press)
<1>1. CASE n = NoEntry \/ n.kind # "groupInvite"
  BY <1>1 DEF DismissInvite
<1>2. CASE n # NoEntry /\ n.kind = "groupInvite"
  <2> DEFINE m == [n EXCEPT !.unread = Front(@)]
  <2>1. n \in Entry /\ Len(n.unread) \in 1 .. MaxUnread
    BY <1>2 DEF NoticeFits, NoticeGood
  <2>2. n.unread \in Seq(Unread) /\ Len(n.unread) \in Nat /\ MaxUnread \in Nat
    BY <2>1, EntryFields, NoticeBounds
  <2>3. Front(n.unread) \in Seq(Unread) /\ Len(Front(n.unread)) <= MaxUnread
    <3> DEFINE k == Len(n.unread)
    <3>1. \A i \in 1 .. k - 1 : n.unread[i] \in Unread
      BY <2>2
    <3>2. k - 1 \in Int /\ 1 \in Int
      BY <2>2
    <3>3. /\ SubSeq(n.unread, 1, k - 1) \in Seq(Unread)
          /\ Len(SubSeq(n.unread, 1, k - 1)) = IF 1 <= k - 1 THEN k - 1 - 1 + 1 ELSE 0
      BY <3>1, <3>2, SubSeqProperties
    <3> QED BY <2>1, <2>2, <3>3 DEF Front
  <2>4. m \in Entry /\ m.unread = Front(n.unread)
    BY <2>1, <2>3, UnreadChanged
  <2>5. DismissInvite(n) = FinishCurrentPreview(m)
    BY <1>2 DEF DismissInvite
  <2> QED BY <2>3, <2>4, <2>5, FinishedFits
<1> QED BY <1>1, <1>2

\* Lines of a kind go; a press stays only where the newest line stays.
LEMMA ResolveFits ==
  ASSUME NEW n, NEW press, NoticeFits(n, press), NEW kind
  PROVE  NoticeFits(ResolveKind(n, kind), press)
<1>1. CASE n = NoEntry
  BY <1>1 DEF ResolveKind
<1>2. CASE n # NoEntry
  <2> DEFINE u == Retained(n.unread, kind)
             m == [n EXCEPT !.unread = u]
  <2>1. NoticeGood(n, press)
    BY <1>2 DEF NoticeFits
  <2>2. n \in Entry /\ n.unread \in Seq(Unread) /\ n.unread # <<>>
        /\ Len(n.unread) \in 1 .. MaxUnread /\ MaxUnread \in Nat
    BY <2>1, EntryFields, NoticeBounds DEF NoticeGood
  <2>3. /\ u \in Seq(Unread) /\ Len(u) <= Len(n.unread) /\ Len(u) \in Nat
        /\ Last(n.unread)[2] # kind => u # <<>> /\ Last(u) = Last(n.unread)
    BY <2>2, RetainedKeeps
  <2>4. ResolveKind(n, kind) = IF n.kind = kind THEN FinishCurrentPreview(m)
                               ELSE IF m.unread = <<>> THEN NoEntry ELSE m
    BY <1>2 DEF ResolveKind
  <2> HIDE DEF u
  <2>5. m \in Entry /\ m.unread = u /\ m.kind = n.kind /\ m.pressed = n.pressed
        /\ m.actions = n.actions
    BY <2>2, <2>3, UnreadChanged
  <2>6. Len(u) <= MaxUnread
    BY <2>2, <2>3
  <2> HIDE DEF m
  <2>7. CASE n.kind = kind
    BY <2>4, <2>5, <2>6, <2>7, FinishedFits
  <2>8. CASE n.kind # kind
    <3>1. u # <<>> /\ Last(u) = Last(n.unread)
      BY <2>1, <2>3, <2>8 DEF NoticeGood
    <3>2. Len(u) \in 1 .. MaxUnread
      BY <2>3, <2>6, <3>1
    <3>3. NoticeGood(m, press)
      BY <2>1, <2>5, <3>1, <3>2 DEF NoticeGood
    <3>4. ResolveKind(n, kind) = m
      BY <2>4, <2>5, <2>8, <3>1
    <3> QED BY <3>3, <3>4 DEF NoticeFits
  <2> QED BY <2>7, <2>8
<1> QED BY <1>1, <1>2

-----------------------------------------------------------------------------
(* The notices of all clients *)

Focused ==
  /\ attached \subseteq Box /\ selected \in attached /\ keyboard \in attached \cup {Nobody}
  /\ repaint \subseteq Box /\ policy \in Policies

NoticesFit ==
  /\ notices = [p \in Box |-> notices[p]] /\ pressedOn = [p \in Box |-> pressedOn[p]]
  /\ \A p \in Box : NoticeFits(notices[p], pressedOn[p])
                    /\ (notices[p] # NoEntry => p \in attached)

PointsCounted ==
  /\ aaPoints = [p \in Box |-> aaPoints[p]]
  /\ \A p \in Box : aaPoints[p] \in Nat /\ aaPoints[p] < policy.aaPer

Serials == spent \in [events : Nat, inputs : Nat, reloads : Nat]

NoticesInv == Focused /\ NoticesFit /\ PointsCounted /\ Serials /\ ActsOnPressed

LEMMA SpendKeeps ==
  ASSUME Serials, NEW what \in {"events", "inputs", "reloads"}, Spend(what)
  PROVE  Serials'
BY DEF Serials, Spend

\* The notice of one client changes.
LEMMA OneFits ==
  ASSUME NoticesFit, NEW p \in Box, NEW n, NoticeFits(n, pressedOn[p]),
         notices' = [notices EXCEPT ![p] = n], pressedOn' = pressedOn,
         n # NoEntry => p \in attached',
         \A q \in Box \ {p} : q \in attached => q \in attached'
  PROVE  NoticesFit'
<1>1. notices' = [q \in Box |-> notices'[q]] /\ notices'[p] = n
      /\ \A q \in Box \ {p} : notices'[q] = notices[q]
  BY DEF NoticesFit
<1>2. pressedOn' = [q \in Box |-> pressedOn'[q]]
  BY DEF NoticesFit
<1>3. ASSUME NEW q \in Box
      PROVE  NoticeFits(notices'[q], pressedOn'[q]) /\ (notices'[q] # NoEntry => q \in attached')
  <2>1. CASE q = p
    BY <1>1, <2>1
  <2>2. CASE q # p
    BY <1>1, <2>2 DEF NoticesFit
  <2> QED BY <2>1, <2>2
<1>4. \A q \in Box : NoticeFits(notices[q], pressedOn[q])' =
                     NoticeFits(notices'[q], pressedOn'[q])
  BY DEF NoticeFits, NoticeGood, Entry, Kind, Button, NoEntry
<1> QED BY <1>1, <1>2, <1>3, <1>4 DEF NoticesFit

\* Each notice changes by itself.
LEMMA AllFit ==
  ASSUME NoticesFit, notices' = [p \in Box |-> notices'[p]],
         UNCHANGED <<pressedOn, attached>>,
         \A p \in Box : notices[p] = NoEntry => notices'[p] = NoEntry,
         \A p \in Box : notices[p] # NoEntry => NoticeFits(notices'[p], pressedOn[p])
  PROVE  NoticesFit'
<1>1. \A q \in Box : NoticeFits(notices[q], pressedOn[q])' =
                     NoticeFits(notices'[q], pressedOn'[q])
  BY DEF NoticeFits, NoticeGood, Entry, Kind, Button, NoEntry
<1>2. ASSUME NEW q \in Box
      PROVE  NoticeFits(notices'[q], pressedOn'[q]) /\ (notices'[q] # NoEntry => q \in attached')
  BY DEF NoticesFit, NoticeFits
<1> QED BY <1>1, <1>2 DEF NoticesFit

LEMMA SameFit == NoticesFit /\ UNCHANGED <<notices, pressedOn, attached>> => NoticesFit'
BY DEF NoticesFit, NoticeFits, NoticeGood

\* A log source is that of an attached client, or of none.
LEMMA SourceAttached ==
  ASSUME attached \subseteq Box, NEW source
  PROVE  PidForLogSource(source) # Nobody =>
           PidForLogSource(source) \in Box /\ PidForLogSource(source) \in attached
<1>0. PICK p : p = PidForLogSource(source)
  OBVIOUS
<1>1. CASE source \in Box
  <2>1. p = IF source \in attached THEN source ELSE Nobody
    BY <1>0, <1>1, Zenon DEF PidForLogSource
  <2>2. p = Nobody \/ p \in attached
    BY <2>1, Zenon
  <2> QED BY <1>0, <2>2
<1>2. CASE source \notin Box
  <2> DEFINE matches == Namesakes \cap attached
  <2>0. p = IF Cardinality(matches) = 1 THEN CHOOSE q \in matches : TRUE ELSE Nobody
    BY <1>0, <1>2, Zenon DEF PidForLogSource
  <2>1. CASE Cardinality(matches) = 1
    <3>1. matches # {}
      BY <2>1, FS_EmptySet
    <3>2. PICK q : q = CHOOSE x \in matches : TRUE
      OBVIOUS
    <3>3. q \in matches
      BY <3>1, <3>2
    <3>4. p = q
      BY <2>0, <2>1, <3>2, Zenon
    <3> QED BY <1>0, <3>3, <3>4
  <2>2. CASE Cardinality(matches) # 1
    <3>1. p = Nobody
      BY <2>0, <2>2, Zenon
    <3> QED BY <1>0, <3>1
  <2> QED BY <2>1, <2>2
<1> QED BY <1>1, <1>2

LEMMA ApplyToPidKeeps ==
  ASSUME NoticesFit, Serials, NEW p \in Box, p \in attached, NEW kind \in Kind,
         ApplyToPid(p, kind), UNCHANGED <<pressedOn, attached>>
  PROVE  NoticesFit' /\ (repaint \subseteq Box => repaint' \subseteq Box)
<1>1. CASE keyboard = p /\ notices' = [notices EXCEPT ![p] = NoEntry]
           /\ UNCHANGED <<ticking, repaint>>
  <2>1. NoticeFits(NoEntry, pressedOn[p])
    BY DEF NoticeFits
  <2> QED BY <1>1, <2>1, OneFits
<1>2. CASE UNCHANGED <<notices, ticking, repaint>>
  BY <1>2, SameFit
<1>3. ASSUME NEW available \in BOOLEAN,
             notices' = [notices EXCEPT ![p] =
                  Push(@, kind, spent.events + 1, kind = "groupInvite" /\ available)],
             repaint' = repaint \cup ({p} \cap Labelled)
      PROVE  NoticesFit' /\ (repaint \subseteq Box => repaint' \subseteq Box)
  <2>1. PICK actions \in BOOLEAN : actions = (kind = "groupInvite" /\ available)
    OBVIOUS
  <2>2. spent.events + 1 \in Nat
    BY DEF Serials
  <2>3. PICK n : n = Push(notices[p], kind, spent.events + 1, actions)
    OBVIOUS
  <2>4. notices' = [notices EXCEPT ![p] = n]
    BY <1>3, <2>1, <2>3
  <2>5. NoticeFits(notices[p], pressedOn[p])
    BY DEF NoticesFit
  <2>6. NoticeGood(n, pressedOn[p])
    BY <2>1, <2>2, <2>3, <2>5, PushFits
  <2>7. NoticeFits(n, pressedOn[p])
    BY <2>6 DEF NoticeFits
  <2>8. NoticesFit'
    BY <2>4, <2>7, OneFits
  <2> QED BY <2>8, <1>3
<1> QED BY <1>1, <1>2, <1>3 DEF ApplyToPid

-----------------------------------------------------------------------------
(* The steps *)

LEMMA BoundsAre == Nobody \notin Box /\ PreviewDuration \in Nat
BY NoticeBounds

LEMMA LogEventKeeps == NoticesInv /\ ApplyLogEvent => NoticesInv'
<1> SUFFICES ASSUME NoticesInv, ApplyLogEvent PROVE NoticesInv'
  OBVIOUS
<1>0. Focused /\ NoticesFit /\ PointsCounted /\ Serials /\ ActsOnPressed
      /\ UNCHANGED <<attached, selected, keyboard, policy, pressedOn, acted>>
  BY DEF NoticesInv, ApplyLogEvent
<1>1. attached \subseteq Box /\ repaint \subseteq Box
  BY <1>0 DEF Focused
<1>2. ASSUME NEW source, NEW kind \in Kind, Apply(source, kind), Spend("events")
      PROVE  NoticesFit' /\ PointsCounted' /\ Serials' /\ repaint' \subseteq Box
  <2> DEFINE p == PidForLogSource(source)
  <2>1. ApplyToPid(p, kind) /\ UNCHANGED aaPoints /\ p # Nobody
    BY <1>2 DEF Apply
  <2>2. p \in Box /\ p \in attached
    BY <1>1, <2>1, SourceAttached
  <2> HIDE DEF p
  <2>3. NoticesFit' /\ repaint' \subseteq Box
    BY <1>0, <1>1, <2>1, <2>2, ApplyToPidKeeps
  <2>4. PointsCounted'
    BY <1>0, <2>1 DEF PointsCounted
  <2> QED BY <1>0, <1>2, <2>3, <2>4, SpendKeeps
<1>3. ASSUME NEW source, ApplyAaGain(source), Spend("events")
      PROVE  NoticesFit' /\ PointsCounted' /\ Serials' /\ repaint' \subseteq Box
  <2> DEFINE p == PidForLogSource(source)
  <2>1. /\ p # Nobody
        /\ \/ /\ aaPoints[p] + 1 < policy.aaPer
              /\ aaPoints' = [aaPoints EXCEPT ![p] = aaPoints[p] + 1]
              /\ UNCHANGED <<notices, ticking, repaint>>
           \/ /\ aaPoints' = [aaPoints EXCEPT ![p] = 0]
              /\ ApplyToPid(p, "aaGain")
    BY <1>3 DEF ApplyAaGain
  <2>2. p \in Box /\ p \in attached
    BY <1>1, <2>1, SourceAttached
  <2> HIDE DEF p
  <2>3. PointsCounted'
    <3>1. PICK k \in Nat : k = aaPoints[p]
      BY <1>0, <2>2 DEF PointsCounted
    <3>2. policy.aaPer \in Nat /\ k < policy.aaPer /\ policy'.aaPer = policy.aaPer
      BY <1>0, <2>2, <3>1, NoticeBounds DEF PointsCounted, Focused, Policies
    <3>3. PICK c \in Nat : c < policy.aaPer /\ aaPoints' = [aaPoints EXCEPT ![p] = c]
      BY <2>1, <3>1, <3>2
    <3> QED BY <1>0, <2>2, <3>2, <3>3 DEF PointsCounted
  <2>4. "aaGain" \in Kind
    BY DEF Kind
  <2>5. NoticesFit' /\ repaint' \subseteq Box
    <3>1. CASE UNCHANGED <<notices, ticking, repaint>>
      BY <1>0, <1>1, <3>1, SameFit
    <3>2. CASE ApplyToPid(p, "aaGain")
      BY <1>0, <1>1, <2>2, <2>4, <3>2, ApplyToPidKeeps
    <3> QED BY <2>1, <3>1, <3>2
  <2> QED BY <1>0, <1>3, <2>3, <2>5, SpendKeeps
<1>4. ASSUME NEW source, NEW kind \in Kind, Resolve(source, kind), UNCHANGED spent
      PROVE  NoticesFit' /\ PointsCounted' /\ Serials' /\ repaint' \subseteq Box
  <2> DEFINE p == PidForLogSource(source)
             n == ResolveKind(notices[p], kind)
  <2>1. /\ p # Nobody /\ notices' = [notices EXCEPT ![p] = n] /\ UNCHANGED aaPoints
        /\ repaint' = repaint \cup ({p} \cap Labelled)
    BY <1>4 DEF Resolve
  <2>2. p \in Box /\ p \in attached
    BY <1>1, <2>1, SourceAttached
  <2> HIDE DEF p
  <2>3. NoticeFits(notices[p], pressedOn[p])
    BY <1>0, <2>2 DEF NoticesFit
  <2>4. NoticeFits(n, pressedOn[p])
    BY <2>3, ResolveFits
  <2> HIDE DEF n
  <2>5. NoticesFit'
    BY <1>0, <2>1, <2>2, <2>4, OneFits
  <2>6. PointsCounted' /\ Serials'
    BY <1>0, <1>4, <2>1 DEF PointsCounted, Serials
  <2> QED BY <1>1, <2>1, <2>2, <2>5, <2>6
<1>5. NoticesFit' /\ PointsCounted' /\ Serials' /\ repaint' \subseteq Box
  BY <1>2, <1>3, <1>4 DEF ApplyLogEvent
<1>6. Focused' /\ ActsOnPressed'
  BY <1>0, <1>5 DEF Focused, ActsOnPressed, Policies, Kind
<1> QED BY <1>5, <1>6 DEF NoticesInv

\* A step that leaves the clients, the points, the settings and what was acted on.
LEMMA QuietKeeps ==
  ASSUME NoticesInv, NoticesFit', Serials', repaint' \subseteq Box, ActsOnPressed',
         UNCHANGED <<attached, selected, keyboard, aaPoints, policy>>
  PROVE  NoticesInv'
BY DEF NoticesInv, Focused, PointsCounted, Policies, Kind

\* A notice of a client, written out.
LEMMA NoticeIs ==
  ASSUME NoticesFit, NEW p \in Box, notices[p] # NoEntry
  PROVE  LET n == notices[p]
         IN  /\ NoticeGood(n, pressedOn[p]) /\ p \in attached
             /\ n = Touched(n, n.age, n.actions, n.hovered, n.pressed, n.previewPressed,
                            n.animationDone, n.previewDone)
             /\ n.age \in 0 .. PreviewDuration /\ n.actions \in BOOLEAN
             /\ n.hovered \in Button \cup {"none"} /\ n.pressed \in Button \cup {"none"}
             /\ n.previewPressed \in BOOLEAN /\ n.animationDone \in BOOLEAN
             /\ n.previewDone \in BOOLEAN
<1>1. NoticeGood(notices[p], pressedOn[p]) /\ p \in attached
  BY DEF NoticesFit, NoticeFits
<1> QED BY <1>1, EntryFields DEF NoticeGood, Touched

LEMMA TickKeeps == NoticesInv /\ NoticeTick => NoticesInv'
<1> SUFFICES ASSUME NoticesInv, NoticeTick PROVE NoticesInv'
  OBVIOUS
<1> DEFINE shown == {p \in Labelled : notices[p] # NoEntry}
<1>1. /\ Focused /\ NoticesFit /\ Serials /\ ActsOnPressed
      /\ repaint' = repaint \cup {p \in shown : RedrawnByTick(notices[p])}
      /\ notices' = [p \in Box |-> IF p \in shown THEN Ticked(notices[p]) ELSE notices[p]]
      /\ UNCHANGED <<attached, selected, keyboard, aaPoints, policy, pressedOn, acted, spent>>
  BY DEF NoticesInv, NoticeTick
<1>2. shown \subseteq Box /\ repaint' \subseteq Box
  BY <1>1 DEF Labelled, Focused
<1>3. ASSUME NEW p \in Box, notices[p] # NoEntry PROVE NoticeFits(notices'[p], pressedOn[p])
  <2>1. CASE p \in shown
    <3>1. PICK animationDone \in BOOLEAN :
             animationDone = (notices[p].animationDone \/ ~Animating(notices[p]))
      OBVIOUS
    <3>2. PICK previewDone \in BOOLEAN :
             previewDone = (notices[p].previewDone \/ ~PreviewVisible(notices[p]))
      OBVIOUS
    <3>3. PICK n : n = notices[p]
      OBVIOUS
    <3>4. /\ NoticeGood(n, pressedOn[p])
          /\ n = Touched(n, n.age, n.actions, n.hovered, n.pressed, n.previewPressed,
                         n.animationDone, n.previewDone)
          /\ n.age \in 0 .. PreviewDuration /\ n.actions \in BOOLEAN
          /\ n.hovered \in Button \cup {"none"} /\ n.pressed \in Button \cup {"none"}
          /\ n.previewPressed \in BOOLEAN
      BY <1>1, <1>3, <3>3, NoticeIs
    <3>5. Ticked(n) = [n EXCEPT !.animationDone = animationDone, !.previewDone = previewDone]
      BY <3>1, <3>2, <3>3 DEF Ticked
    <3>6. Ticked(n) = Touched(n, n.age, n.actions, n.hovered, n.pressed, n.previewPressed,
                              animationDone, previewDone)
      BY <3>4, <3>5 DEF Touched
    <3>7. NoticeGood(Touched(n, n.age, n.actions, n.hovered, n.pressed, n.previewPressed,
                             animationDone, previewDone), pressedOn[p])
      <4>1. Harmless(n, n.age, n.actions, n.hovered, n.pressed, n.previewPressed,
                     animationDone, previewDone)
        BY <3>4 DEF Harmless
      <4> QED BY ONLY <3>4, <4>1, TouchedFits
    <3>8. NoticeGood(Ticked(n), pressedOn[p])
      BY <3>6, <3>7
    <3> QED BY <1>1, <2>1, <3>3, <3>8 DEF NoticeFits
  <2>2. CASE p \notin shown
    BY <1>1, <2>2 DEF NoticesFit
  <2> QED BY <2>1, <2>2
<1>4. /\ notices' = [p \in Box |-> notices'[p]]
      /\ \A p \in Box : notices[p] = NoEntry => notices'[p] = NoEntry
  BY <1>1
<1>5. NoticesFit'
  BY <1>1, <1>3, <1>4, AllFit
<1> QED BY <1>1, <1>2, <1>5, QuietKeeps DEF Serials, ActsOnPressed

LEMMA GrowKeeps == NoticesInv /\ Grow => NoticesInv'
<1> SUFFICES ASSUME NoticesInv, Grow PROVE NoticesInv'
  OBVIOUS
<1>1. /\ Focused /\ NoticesFit /\ Serials /\ ActsOnPressed
      /\ notices' = [p \in Box |->
           IF notices[p] # NoEntry /\ notices[p].age < PreviewDuration
           THEN [notices[p] EXCEPT !.age = notices[p].age + 1] ELSE notices[p]]
      /\ UNCHANGED <<attached, selected, keyboard, aaPoints, policy, repaint, pressedOn,
                     acted, spent>>
  BY DEF NoticesInv, Grow
<1>2. ASSUME NEW p \in Box, notices[p] # NoEntry PROVE NoticeFits(notices'[p], pressedOn[p])
  <2>1. CASE notices[p].age < PreviewDuration
    <3>1. PICK n : n = notices[p]
      OBVIOUS
    <3>2. /\ NoticeGood(n, pressedOn[p])
          /\ n = Touched(n, n.age, n.actions, n.hovered, n.pressed, n.previewPressed,
                         n.animationDone, n.previewDone)
          /\ n.age \in 0 .. PreviewDuration /\ n.actions \in BOOLEAN
          /\ n.hovered \in Button \cup {"none"} /\ n.pressed \in Button \cup {"none"}
          /\ n.previewPressed \in BOOLEAN /\ n.animationDone \in BOOLEAN
          /\ n.previewDone \in BOOLEAN
      BY <1>1, <1>2, <3>1, NoticeIs
    <3>3. n.age + 1 \in 0 .. PreviewDuration
      BY <2>1, <3>1, <3>2, BoundsAre
    <3>4. [n EXCEPT !.age = n.age + 1] =
             Touched(n, n.age + 1, n.actions, n.hovered, n.pressed, n.previewPressed,
                     n.animationDone, n.previewDone)
      BY <3>2 DEF Touched
    <3>5. NoticeGood(Touched(n, n.age + 1, n.actions, n.hovered, n.pressed,
                             n.previewPressed, n.animationDone, n.previewDone), pressedOn[p])
      <4>1. Harmless(n, n.age + 1, n.actions, n.hovered, n.pressed, n.previewPressed,
                     n.animationDone, n.previewDone)
        BY <3>2, <3>3 DEF Harmless
      <4> QED BY ONLY <3>2, <4>1, TouchedFits
    <3>6. NoticeGood([n EXCEPT !.age = n.age + 1], pressedOn[p])
      BY <3>4, <3>5
    <3> QED BY <1>1, <1>2, <2>1, <3>1, <3>6 DEF NoticeFits
  <2>2. CASE ~(notices[p].age < PreviewDuration)
    BY <1>1, <2>2 DEF NoticesFit
  <2> QED BY <2>1, <2>2
<1>3. /\ notices' = [p \in Box |-> notices'[p]]
      /\ \A p \in Box : notices[p] = NoEntry => notices'[p] = NoEntry
  BY <1>1
<1>4. NoticesFit'
  BY <1>1, <1>2, <1>3, AllFit
<1>5. repaint' \subseteq Box
  BY <1>1 DEF Focused
<1> QED BY <1>1, <1>4, <1>5, QuietKeeps DEF Serials, ActsOnPressed

LEMMA PaintKeeps == ASSUME NoticesInv, NEW p \in Box, PaintLabel(p) PROVE NoticesInv'
<1>1. /\ Focused /\ NoticesFit /\ Serials /\ ActsOnPressed /\ repaint' = repaint \ {p}
      /\ UNCHANGED <<attached, selected, keyboard, notices, aaPoints, policy, pressedOn,
                     acted, spent>>
  BY DEF NoticesInv, PaintLabel
<1>2. NoticesFit' /\ repaint' \subseteq Box
  BY <1>1, SameFit DEF Focused
<1> QED BY <1>1, <1>2, QuietKeeps DEF Serials, ActsOnPressed

LEMMA HitIs ==
  ASSUME NEW p, NEW point \in Point
  PROVE  /\ Hit(p, point) \in Point /\ AsButton(Hit(p, point)) \in Button \cup {"none"}
         /\ Hit(p, point) # "outside" => notices[p] # NoEntry /\ notices[p].actions # FALSE
BY DEF Hit, AsButton, Point, Button

LEMMA HoverKeeps ==
  ASSUME NoticesInv, NEW p \in Box, NEW point \in Point, UpdateInviteHover(p, point)
  PROVE  NoticesInv'
<1> DEFINE hovered == AsButton(Hit(p, point))
<1>1. /\ Focused /\ NoticesFit /\ Serials /\ ActsOnPressed /\ notices[p] # NoEntry
      /\ notices' = [notices EXCEPT ![p].hovered = hovered]
      /\ repaint' = repaint \cup {p} /\ Spend("inputs")
      /\ UNCHANGED <<attached, selected, keyboard, aaPoints, policy, pressedOn, acted>>
  BY DEF NoticesInv, UpdateInviteHover
<1>2. hovered \in Button \cup {"none"}
  BY HitIs
<1> HIDE DEF hovered
<1>3. PICK n : n = notices[p]
  OBVIOUS
<1>4. /\ NoticeGood(n, pressedOn[p]) /\ p \in attached
      /\ n = Touched(n, n.age, n.actions, n.hovered, n.pressed, n.previewPressed,
                     n.animationDone, n.previewDone)
      /\ n.age \in 0 .. PreviewDuration /\ n.actions \in BOOLEAN
      /\ n.pressed \in Button \cup {"none"} /\ n.previewPressed \in BOOLEAN
      /\ n.animationDone \in BOOLEAN /\ n.previewDone \in BOOLEAN
  BY <1>1, <1>3, NoticeIs
<1>5. PICK m : m = [n EXCEPT !.hovered = hovered]
  OBVIOUS
<1>6. m = Touched(n, n.age, n.actions, hovered, n.pressed, n.previewPressed,
                  n.animationDone, n.previewDone)
  BY <1>4, <1>5 DEF Touched
<1>7. NoticeFits(m, pressedOn[p])
  <2>1. Harmless(n, n.age, n.actions, hovered, n.pressed, n.previewPressed,
                 n.animationDone, n.previewDone)
    BY <1>2, <1>4 DEF Harmless
  <2> QED BY <1>4, <1>6, <2>1, TouchedFits DEF NoticeFits
<1>8. notices' = [notices EXCEPT ![p] = m]
  BY <1>1, <1>3, <1>5
<1>9. NoticesFit' /\ repaint' \subseteq Box
  BY <1>1, <1>4, <1>7, <1>8, OneFits DEF Focused
<1> QED BY <1>1, <1>9, SpendKeeps, QuietKeeps DEF ActsOnPressed

LEMMA ClearKeeps ==
  ASSUME NoticesInv, NEW p \in Box, ClearInviteInteraction(p) PROVE NoticesInv'
<1>1. PICK n : n = notices[p]
  OBVIOUS
<1>2. PICK m : m = IF n.hovered # "none" THEN [n EXCEPT !.hovered = "none"]
                   ELSE IF n.pressed # "none" THEN [n EXCEPT !.pressed = "none"]
                   ELSE [n EXCEPT !.previewPressed = FALSE]
  OBVIOUS
<1>3. /\ Focused /\ NoticesFit /\ Serials /\ ActsOnPressed /\ n # NoEntry
      /\ notices' = [notices EXCEPT ![p] = m]
      /\ repaint' = repaint \cup {p} /\ Spend("inputs")
      /\ UNCHANGED <<attached, selected, keyboard, aaPoints, policy, pressedOn, acted>>
  BY <1>1, <1>2 DEF NoticesInv, ClearInviteInteraction
<1>4. /\ NoticeGood(n, pressedOn[p]) /\ p \in attached
      /\ n = Touched(n, n.age, n.actions, n.hovered, n.pressed, n.previewPressed,
                     n.animationDone, n.previewDone)
      /\ n.age \in 0 .. PreviewDuration /\ n.actions \in BOOLEAN
      /\ n.hovered \in Button \cup {"none"} /\ n.pressed \in Button \cup {"none"}
      /\ n.previewPressed \in BOOLEAN
      /\ n.animationDone \in BOOLEAN /\ n.previewDone \in BOOLEAN
  BY <1>1, <1>3, NoticeIs
<1>5. PICK hovered \in {n.hovered, "none"} : \E pressed \in {n.pressed, "none"} :
         \E previewPressed \in {n.previewPressed, FALSE} :
            m = [n EXCEPT !.hovered = hovered, !.pressed = pressed,
                          !.previewPressed = previewPressed]
  <2>1. CASE n.hovered # "none"
    <3>1. m = [n EXCEPT !.hovered = "none", !.pressed = n.pressed,
                        !.previewPressed = n.previewPressed]
      BY <1>2, <1>4, <2>1 DEF Touched
    <3> QED BY <3>1
  <2>2. CASE n.hovered = "none" /\ n.pressed # "none"
    <3>1. m = [n EXCEPT !.hovered = n.hovered, !.pressed = "none",
                        !.previewPressed = n.previewPressed]
      BY <1>2, <1>4, <2>2 DEF Touched
    <3> QED BY <3>1
  <2>3. CASE n.hovered = "none" /\ n.pressed = "none"
    <3>1. m = [n EXCEPT !.hovered = n.hovered, !.pressed = n.pressed,
                        !.previewPressed = FALSE]
      BY <1>2, <1>4, <2>3 DEF Touched
    <3> QED BY <3>1
  <2> QED BY <2>1, <2>2, <2>3
<1>6. PICK pressed \in {n.pressed, "none"}, previewPressed \in {n.previewPressed, FALSE} :
         m = [n EXCEPT !.hovered = hovered, !.pressed = pressed,
                       !.previewPressed = previewPressed]
  BY <1>5
<1>7. m = Touched(n, n.age, n.actions, hovered, pressed, previewPressed,
                  n.animationDone, n.previewDone)
  BY <1>4, <1>6 DEF Touched
<1>8. NoticeFits(m, pressedOn[p])
  <2>1. hovered \in Button \cup {"none"} /\ previewPressed \in BOOLEAN
    BY <1>4, <1>6
  <2>2. NoticeGood(Touched(n, n.age, n.actions, hovered, pressed, previewPressed,
                           n.animationDone, n.previewDone), pressedOn[p])
    <3>1. Harmless(n, n.age, n.actions, hovered, pressed, previewPressed,
                   n.animationDone, n.previewDone)
      BY <1>4, <1>6, <2>1 DEF Harmless
    <3> QED BY ONLY <1>4, <3>1, TouchedFits
  <2> QED BY <1>7, <2>2 DEF NoticeFits
<1>9. NoticesFit' /\ repaint' \subseteq Box
  BY <1>3, <1>4, <1>8, OneFits DEF Focused
<1> QED BY <1>3, <1>9, SpendKeeps, QuietKeeps DEF ActsOnPressed

LEMMA PressKeeps ==
  ASSUME NoticesInv, NEW p \in Box, NEW point \in Point, PressInviteAction(p, point)
  PROVE  NoticesInv'
<1> DEFINE button == AsButton(Hit(p, point))
<1>1. PICK n : n = notices[p]
  OBVIOUS
<1>2. PICK m : m = [n EXCEPT !.previewPressed = TRUE, !.hovered = button, !.pressed = button]
  OBVIOUS
<1>3. PICK press : press = <<Last(n.unread)[1], button>>
  OBVIOUS
<1>4. /\ Focused /\ NoticesFit /\ Serials /\ ActsOnPressed /\ Hit(p, point) # "outside"
      /\ notices' = [notices EXCEPT ![p] = m]
      /\ pressedOn' = [pressedOn EXCEPT ![p] = press]
      /\ repaint' = repaint \cup {p} /\ Spend("inputs")
      /\ UNCHANGED <<attached, selected, keyboard, aaPoints, policy, acted>>
  BY <1>1, <1>2, <1>3 DEF NoticesInv, PressInviteAction
<1>5. button \in Button \cup {"none"} /\ n # NoEntry /\ n.actions # FALSE
  BY <1>1, <1>4, HitIs
<1> HIDE DEF button
<1>6. /\ NoticeGood(n, pressedOn[p]) /\ p \in attached
      /\ n = Touched(n, n.age, n.actions, n.hovered, n.pressed, n.previewPressed,
                     n.animationDone, n.previewDone)
      /\ n.age \in 0 .. PreviewDuration /\ n.actions \in BOOLEAN
      /\ n.animationDone \in BOOLEAN /\ n.previewDone \in BOOLEAN
  BY <1>1, <1>4, <1>5, NoticeIs
<1>7. PICK pressing \in BOOLEAN : m = Touched(n, n.age, n.actions, button, button, pressing,
                                            n.animationDone, n.previewDone)
  <2>1. m = Touched(n, n.age, n.actions, button, button, TRUE,
                    n.animationDone, n.previewDone)
    BY <1>2, <1>6 DEF Touched
  <2> QED BY <2>1
<1>8. m \in Entry /\ m.kind = n.kind /\ m.unread = n.unread /\ m.pressed = button
      /\ m.actions = n.actions
  <2>1. Fitting(n.age, n.actions, button, button, pressing, n.animationDone, n.previewDone)
    BY <1>5, <1>6 DEF Fitting
  <2>2. n \in Entry
    BY <1>6 DEF NoticeGood
  <2> QED BY ONLY <1>7, <2>1, <2>2, TouchedEntry
<1>9. NoticeGood(m, press)
  BY <1>3, <1>5, <1>6, <1>8 DEF NoticeGood
<1>10. notices'[p] = m /\ pressedOn'[p] = press
       /\ notices' = [q \in Box |-> notices'[q]] /\ pressedOn' = [q \in Box |-> pressedOn'[q]]
       /\ \A q \in Box \ {p} : notices'[q] = notices[q] /\ pressedOn'[q] = pressedOn[q]
  BY <1>4 DEF NoticesFit
<1>11. ASSUME NEW q \in Box
       PROVE  NoticeFits(notices'[q], pressedOn'[q]) /\ (notices'[q] # NoEntry => q \in attached')
  <2>1. CASE q = p
    BY <1>4, <1>6, <1>9, <1>10, <2>1 DEF NoticeFits
  <2>2. CASE q # p
    BY <1>4, <1>10, <2>2 DEF NoticesFit
  <2> QED BY <2>1, <2>2
<1>12. \A q \in Box : NoticeFits(notices[q], pressedOn[q])' =
                      NoticeFits(notices'[q], pressedOn'[q])
  BY DEF NoticeFits, NoticeGood, Entry, Kind, Button, NoEntry
<1>13. NoticesFit'
  BY <1>10, <1>11, <1>12 DEF NoticesFit
<1>14. repaint' \subseteq Box
  BY <1>4 DEF Focused
<1> QED BY <1>4, <1>13, <1>14, SpendKeeps, QuietKeeps DEF ActsOnPressed

LEMMA ReleaseKeeps ==
  ASSUME NoticesInv, NEW p \in Box, NEW point \in Point, ReleaseInviteAction(p, point)
  PROVE  NoticesInv'
<1> DEFINE button == AsButton(Hit(p, point))
<1>1. PICK n : n = notices[p]
  OBVIOUS
<1>2. PICK released : released =
         [n EXCEPT !.previewPressed = FALSE, !.pressed = "none", !.hovered = button]
  OBVIOUS
<1>3. PICK refused : refused =
         [n EXCEPT !.previewPressed = FALSE, !.pressed = "none", !.hovered = "none",
                   !.actions = FALSE]
  OBVIOUS
<1>4. /\ Focused /\ NoticesFit /\ Serials /\ ActsOnPressed /\ n # NoEntry
      /\ repaint' = repaint \cup {p}
      /\ \/ notices' = [notices EXCEPT ![p] = released] /\ UNCHANGED acted
         \/ /\ button # "none" /\ button = n.pressed
            /\ acted' = <<<<Last(n.unread)[1], button>>, pressedOn[p]>>
            /\ \/ notices' = [notices EXCEPT ![p] = DismissInvite(released)]
               \/ notices' = [notices EXCEPT ![p] = refused]
      /\ UNCHANGED <<attached, selected, keyboard, aaPoints, policy, pressedOn, spent>>
  BY <1>1, <1>2, <1>3 DEF NoticesInv, ReleaseInviteAction
<1>5. button \in Button \cup {"none"}
  BY HitIs
<1> HIDE DEF button
<1>6. /\ NoticeGood(n, pressedOn[p]) /\ p \in attached
      /\ n = Touched(n, n.age, n.actions, n.hovered, n.pressed, n.previewPressed,
                     n.animationDone, n.previewDone)
      /\ n.age \in 0 .. PreviewDuration /\ n.actions \in BOOLEAN
      /\ n.animationDone \in BOOLEAN /\ n.previewDone \in BOOLEAN
  BY <1>1, <1>4, NoticeIs
<1>7. NoticeFits(released, pressedOn[p])
  <2>1. released = Touched(n, n.age, n.actions, button, "none", FALSE,
                           n.animationDone, n.previewDone)
    BY <1>2, <1>6 DEF Touched
  <2>2. Harmless(n, n.age, n.actions, button, "none", FALSE, n.animationDone, n.previewDone)
    BY <1>5, <1>6 DEF Harmless
  <2> QED BY <1>6, <2>1, <2>2, TouchedFits DEF NoticeFits
<1>8. NoticeFits(refused, pressedOn[p])
  <2>1. refused = Touched(n, n.age, FALSE, "none", "none", FALSE,
                          n.animationDone, n.previewDone)
    BY <1>3, <1>6 DEF Touched
  <2>2. Harmless(n, n.age, FALSE, "none", "none", FALSE, n.animationDone, n.previewDone)
    BY <1>6 DEF Harmless
  <2> QED BY <1>6, <2>1, <2>2, TouchedFits DEF NoticeFits
<1>9. NoticeFits(DismissInvite(released), pressedOn[p])
  BY <1>7, DismissFits
<1>10. PICK m : m \in {released, refused, DismissInvite(released)}
                /\ notices' = [notices EXCEPT ![p] = m]
  BY <1>4
<1>11. NoticesFit'
  BY <1>4, <1>6, <1>7, <1>8, <1>9, <1>10, OneFits
<1>12. ActsOnPressed'
  <2>1. CASE UNCHANGED acted
    BY <1>4, <2>1 DEF ActsOnPressed
  <2>2. CASE /\ button # "none" /\ button = n.pressed
             /\ acted' = <<<<Last(n.unread)[1], button>>, pressedOn[p]>>
    <3>1. pressedOn[p] = <<Last(n.unread)[1], button>>
      BY <1>6, <2>2 DEF NoticeGood
    <3> QED BY <2>2, <3>1 DEF ActsOnPressed
  <2> QED BY <1>4, <2>1, <2>2
<1>13. repaint' \subseteq Box
  BY <1>4 DEF Focused
<1> QED BY <1>4, <1>11, <1>12, <1>13, QuietKeeps DEF Serials

LEMMA MoveFocusKeeps == NoticesInv /\ MoveFocus => NoticesInv'
<1> SUFFICES ASSUME NoticesInv, MoveFocus PROVE NoticesInv'
  OBVIOUS
<1>1. /\ Focused /\ NoticesFit /\ PointsCounted /\ Serials /\ ActsOnPressed /\ Spend("inputs")
      /\ keyboard' \in attached \cup {Nobody}
      /\ UNCHANGED <<attached, selected, notices, aaPoints, policy, repaint, pressedOn, acted>>
  BY DEF NoticesInv, MoveFocus, Focused
<1>2. Focused'
  BY <1>1 DEF Focused, Policies, Kind
<1>3. NoticesFit' /\ Serials'
  BY <1>1, SameFit, SpendKeeps
<1>4. PointsCounted' /\ ActsOnPressed'
  BY <1>1 DEF PointsCounted, ActsOnPressed
<1> QED BY <1>2, <1>3, <1>4 DEF NoticesInv

LEMMA PollFocusKeeps == NoticesInv /\ PollFocus => NoticesInv'
<1> SUFFICES ASSUME NoticesInv, PollFocus PROVE NoticesInv'
  OBVIOUS
<1>1. /\ Focused /\ NoticesFit /\ PointsCounted /\ Serials /\ ActsOnPressed
      /\ keyboard # Nobody /\ notices' = [notices EXCEPT ![keyboard] = NoEntry]
      /\ selected' = keyboard
      /\ repaint' = IF selected = keyboard THEN repaint ELSE attached \ {keyboard}
      /\ UNCHANGED <<attached, keyboard, aaPoints, policy, pressedOn, acted, spent>>
  BY DEF NoticesInv, PollFocus
<1>2. keyboard \in attached /\ keyboard \in Box
  BY <1>1 DEF Focused
<1>3. Focused'
  BY <1>1, <1>2 DEF Focused, Policies, Kind
<1>4. NoticeFits(NoEntry, pressedOn[keyboard])
  BY DEF NoticeFits
<1>5. NoticesFit'
  BY <1>1, <1>2, <1>4, OneFits
<1>6. PointsCounted' /\ ActsOnPressed' /\ Serials'
  BY <1>1 DEF PointsCounted, ActsOnPressed, Serials
<1> QED BY <1>3, <1>5, <1>6 DEF NoticesInv

LEMMA PollClientsKeeps == ASSUME NoticesInv, NEW p \in Box, PollClients(p) PROVE NoticesInv'
<1>1. /\ Focused /\ NoticesFit /\ PointsCounted /\ Serials /\ ActsOnPressed
      /\ Spend("reloads") /\ repaint' = attached' \ {selected'}
      /\ UNCHANGED <<policy, pressedOn, acted>>
  BY DEF NoticesInv, PollClients
<1>2. policy.aaPer \in Nat \ {0} /\ policy'.aaPer = policy.aaPer
  BY <1>1, NoticeBounds DEF Focused, Policies
<1>3. CASE /\ p \in attached /\ attached # {p} /\ attached' = attached \ {p}
           /\ notices' = [notices EXCEPT ![p] = NoEntry]
           /\ aaPoints' = [aaPoints EXCEPT ![p] = 0]
           /\ keyboard' = IF keyboard = p THEN Nobody ELSE keyboard
           /\ selected' \in IF selected = p THEN attached' ELSE {selected}
  <2>1. Focused'
    BY <1>1, <1>3 DEF Focused, Policies, Kind
  <2>2. NoticeFits(NoEntry, pressedOn[p])
    BY DEF NoticeFits
  <2>3. NoticesFit'
    BY <1>1, <1>3, <2>2, OneFits
  <2>4. PointsCounted'
    BY <1>1, <1>2, <1>3 DEF PointsCounted
  <2>5. ActsOnPressed' /\ Serials'
    BY <1>1, SpendKeeps DEF ActsOnPressed
  <2> QED BY <2>1, <2>3, <2>4, <2>5 DEF NoticesInv
<1>4. CASE /\ p \notin attached /\ attached' = attached \cup {p}
           /\ UNCHANGED <<notices, aaPoints, keyboard, selected>>
  <2>1. Focused'
    BY <1>1, <1>4 DEF Focused, Policies, Kind
  <2>2. notices[p] = NoEntry /\ notices' = [notices EXCEPT ![p] = NoEntry]
    BY <1>1, <1>4 DEF NoticesFit
  <2>3. NoticeFits(NoEntry, pressedOn[p])
    BY DEF NoticeFits
  <2>4. NoticesFit'
    BY <1>1, <1>4, <2>2, <2>3, OneFits
  <2>5. PointsCounted' /\ ActsOnPressed' /\ Serials'
    BY <1>1, <1>4, SpendKeeps DEF PointsCounted, ActsOnPressed
  <2> QED BY <2>1, <2>4, <2>5 DEF NoticesInv
<1> QED BY <1>3, <1>4 DEF PollClients

LEMMA ReloadKeeps ==
  ASSUME NoticesInv, NEW new \in Policies, ReloadSettings(new) PROVE NoticesInv'
<1>1. /\ Focused /\ NoticesFit /\ PointsCounted /\ Serials /\ ActsOnPressed
      /\ Spend("reloads") /\ policy' = new /\ repaint' = Labelled
      /\ \/ aaPoints' = aaPoints /\ policy.aaPer = new.aaPer
         \/ aaPoints' = [p \in Box |-> 0]
      /\ notices' \in {notices, [p \in Box |-> NoEntry]}
      /\ UNCHANGED <<attached, selected, keyboard, pressedOn, acted>>
  BY DEF NoticesInv, ReloadSettings
<1>2. Policies' = Policies
  BY DEF Policies, Kind
<1>3. Focused'
  BY <1>1, <1>2 DEF Focused, Labelled
<1>4. NoticesFit'
  <2>1. CASE notices' = notices
    BY <1>1, <2>1, SameFit
  <2>2. CASE notices' = [p \in Box |-> NoEntry]
    <3>1. notices' = [p \in Box |-> notices'[p]] /\ \A p \in Box : notices'[p] = NoEntry
      BY <2>2
    <3>2. \A p \in Box : NoticeFits(notices'[p], pressedOn[p])
      BY <3>1 DEF NoticeFits
    <3> QED BY <1>1, <3>1, <3>2, AllFit
  <2> QED BY <1>1, <2>1, <2>2
<1>5. PointsCounted'
  <2>1. new.aaPer \in Nat \ {0}
    BY NoticeBounds DEF Policies
  <2> QED BY <1>1, <2>1 DEF PointsCounted
<1>6. ActsOnPressed' /\ Serials'
  BY <1>1, SpendKeeps DEF ActsOnPressed
<1> QED BY <1>3, <1>4, <1>5, <1>6 DEF NoticesInv

LEMMA NoticesInitInv == NoticesInit => NoticesInv
<1> SUFFICES ASSUME NoticesInit PROVE NoticesInv
  OBVIOUS
<1>1. Max(AaLevels) \in AaLevels
  <2>1. PICK most \in AaLevels : \A level \in AaLevels : most >= level
    <3>1. PICK most \in AaLevels : \A level \in AaLevels : level <= most
      BY NoticeBounds
    <3>2. most \in Int /\ \A level \in AaLevels : level \in Int
      BY NoticeBounds
    <3> QED BY <3>1, <3>2
  <2> QED BY <2>1 DEF Max
<1>2. policy \in Policies /\ policy.aaPer \in Nat \ {0}
  BY <1>1, NoticeBounds DEF NoticesInit, Policies
<1>3. Focused
  BY <1>2 DEF NoticesInit, Focused
<1>4. NoticesFit
  BY DEF NoticesInit, NoticesFit, NoticeFits
<1>5. PointsCounted
  BY <1>2 DEF NoticesInit, PointsCounted
<1>6. Serials /\ ActsOnPressed
  BY DEF NoticesInit, Serials, ActsOnPressed
<1> QED BY <1>3, <1>4, <1>5, <1>6 DEF NoticesInv

LEMMA NoticesNextKeeps == NoticesInv /\ [NoticesNext]_noticeVars => NoticesInv'
<1> SUFFICES ASSUME NoticesInv, [NoticesNext]_noticeVars PROVE NoticesInv'
  OBVIOUS
<1>1. CASE UNCHANGED noticeVars
  <2>1. Focused /\ NoticesFit /\ Serials /\ ActsOnPressed
        /\ UNCHANGED <<attached, selected, keyboard, notices, aaPoints, policy, repaint,
                       pressedOn, acted, spent>>
    BY <1>1 DEF noticeVars, NoticesInv
  <2>2. NoticesFit' /\ repaint' \subseteq Box
    BY <2>1, SameFit DEF Focused
  <2> QED BY <2>1, <2>2, QuietKeeps DEF Serials, ActsOnPressed
<1>2. CASE ApplyLogEvent
  BY <1>2, LogEventKeeps
<1>3. CASE NoticeTick
  BY <1>3, TickKeeps
<1>4. CASE Grow
  BY <1>4, GrowKeeps
<1>5. CASE MoveFocus
  BY <1>5, MoveFocusKeeps
<1>6. CASE PollFocus
  BY <1>6, PollFocusKeeps
<1>7. ASSUME NEW p \in Box, PaintLabel(p) PROVE NoticesInv'
  BY <1>7, PaintKeeps
<1>8. ASSUME NEW p \in Box, ClearInviteInteraction(p) PROVE NoticesInv'
  BY <1>8, ClearKeeps
<1>9. ASSUME NEW p \in Box, PollClients(p) PROVE NoticesInv'
  BY <1>9, PollClientsKeeps
<1>10. ASSUME NEW p \in Box, NEW point \in Point, UpdateInviteHover(p, point)
       PROVE  NoticesInv'
  BY <1>10, HoverKeeps
<1>11. ASSUME NEW p \in Box, NEW point \in Point, PressInviteAction(p, point)
       PROVE  NoticesInv'
  BY <1>11, PressKeeps
<1>12. ASSUME NEW p \in Box, NEW point \in Point, ReleaseInviteAction(p, point)
       PROVE  NoticesInv'
  BY <1>12, ReleaseKeeps
<1>13. ASSUME NEW new \in Policies, ReloadSettings(new) PROVE NoticesInv'
  BY <1>13, ReloadKeeps
<1> QED BY <1>1, <1>2, <1>3, <1>4, <1>5, <1>6, <1>7, <1>8, <1>9, <1>10, <1>11, <1>12, <1>13
        DEF NoticesNext

LEMMA NoticesInvSound == NoticesInv => NoticesSound
<1> SUFFICES ASSUME NoticesInv PROVE NoticesSound
  OBVIOUS
<1>1. Focused /\ NoticesFit /\ PointsCounted /\ ActsOnPressed
  BY DEF NoticesInv
<1>2. ASSUME NEW p \in Box PROVE aaPoints[p] \in 0 .. (policy.aaPer - 1)
  <2>1. policy.aaPer \in Nat
    BY <1>1, NoticeBounds DEF Focused, Policies
  <2> QED BY <1>1, <2>1 DEF PointsCounted
<1>3. \A p \in Box : notices[p] # NoEntry => NoticeGood(notices[p], pressedOn[p])
                                            /\ p \in attached
  BY <1>1 DEF NoticesFit, NoticeFits
<1>4. NoticesTypeOK
  BY <1>1, <1>2, <1>3 DEF NoticesTypeOK, Focused, NoticeGood
<1>5. CurrentIsNewest
  <2>1. ASSUME NEW p \in Box, notices[p] # NoEntry, notices[p].pressed # "none"
        PROVE  notices[p].actions
    <3>1. notices[p].actions = TRUE
      BY <1>3, <2>1 DEF NoticeGood
    <3> QED BY <3>1
  <2>2. ASSUME NEW p \in Box, notices[p] # NoEntry
        PROVE  /\ notices[p].kind = Last(notices[p].unread)[2]
               /\ notices[p].pressed # "none" => notices[p].kind = "groupInvite"
    BY <1>3, <2>2 DEF NoticeGood
  <2> QED BY <2>1, <2>2 DEF CurrentIsNewest
<1> QED BY <1>1, <1>4, <1>5 DEF NoticesSound

\* What a client's preview is about is its newest unread notice, at most MAX_TRACKED_UNREAD
\* are kept, and an Accept or Dismiss is carried out for the notice and the button last
\* pressed on that client's PiP, whatever arrives, is resolved, dismissed or refused
\* meanwhile, for any clients, sources, durations and limits (notifications.rs: push,
\* resolve_kind, finish_current_preview, press_invite_action, release_invite_action).
THEOREM NoticesAlwaysSound == NoticesSpec => []NoticesSound
<1> QED BY NoticesInitInv, NoticesNextKeeps, NoticesInvSound, PTL DEF NoticesSpec

\* A painted preview whose notice goes is redrawn, painted over, off the strip, or that of
\* the client with the keyboard.
Redrawn(p) ==
  onScreen[p] = "preview" /\ notices[p] # NoEntry /\ notices'[p] = NoEntry
    => p \in repaint' \/ onScreen'[p] # "preview" \/ p \notin Labelled' \/ keyboard = p

\* Only the notice of one client changes, and it has a redraw request, or no PiP, or the
\* keyboard.
LEMMA OneRedrawn ==
  ASSUME NEW p, NEW n, notices' = [notices EXCEPT ![p] = n], NoticesFit,
         p \in repaint' \/ p \notin Labelled' \/ keyboard = p
  PROVE  \A q \in Box : Redrawn(q)
<1>1. ASSUME NEW q \in Box, q # p PROVE notices'[q] = notices[q]
  BY <1>1 DEF NoticesFit
<1> QED BY <1>1 DEF Redrawn

LEMMA SameRedrawn == ASSUME UNCHANGED notices PROVE \A q \in Box : Redrawn(q)
BY DEF Redrawn

LEMMA LogEventRedraws ==
  ASSUME NoticesInv, ApplyLogEvent PROVE \A q \in Box : Redrawn(q)
<1>1. NoticesFit /\ UNCHANGED <<attached, selected>>
  BY DEF NoticesInv, ApplyLogEvent
<1>2. Labelled' = Labelled
  BY <1>1 DEF Labelled
<1>3. ASSUME NEW p, NEW kind, ApplyToPid(p, kind) PROVE \A q \in Box : Redrawn(q)
  <2>1. CASE keyboard = p /\ notices' = [notices EXCEPT ![p] = NoEntry]
    BY <1>1, <2>1, OneRedrawn
  <2>2. CASE UNCHANGED notices
    BY <2>2, SameRedrawn
  <2>3. ASSUME NEW available \in BOOLEAN,
               notices' = [notices EXCEPT ![p] =
                    Push(@, kind, spent.events + 1, kind = "groupInvite" /\ available)],
               repaint' = repaint \cup ({p} \cap Labelled)
        PROVE  \A q \in Box : Redrawn(q)
    <3>1. PICK n : notices' = [notices EXCEPT ![p] = n]
      BY <2>3
    <3>2. p \in repaint' \/ p \notin Labelled'
      BY <1>2, <2>3
    <3> QED BY <1>1, <3>1, <3>2, OneRedrawn
  <2> QED BY <1>3, <2>1, <2>2, <2>3 DEF ApplyToPid
<1>4. ASSUME NEW source, NEW kind, Resolve(source, kind) PROVE \A q \in Box : Redrawn(q)
  <2> DEFINE p == PidForLogSource(source)
  <2>1. /\ notices' = [notices EXCEPT ![p] = ResolveKind(notices[p], kind)]
        /\ repaint' = repaint \cup ({p} \cap Labelled)
    BY <1>4 DEF Resolve
  <2> HIDE DEF p
  <2>2. p \in repaint' \/ p \notin Labelled'
    BY <1>2, <2>1
  <2> QED BY <1>1, <2>1, <2>2, OneRedrawn
<1>5. ASSUME NEW source, NEW kind, Apply(source, kind) PROVE \A q \in Box : Redrawn(q)
  BY <1>3, <1>5 DEF Apply
<1>6. ASSUME NEW source, ApplyAaGain(source) PROVE \A q \in Box : Redrawn(q)
  <2>1. UNCHANGED notices \/ ApplyToPid(PidForLogSource(source), "aaGain")
    BY <1>6 DEF ApplyAaGain
  <2> QED BY <1>3, <2>1, SameRedrawn
<1> QED BY <1>4, <1>5, <1>6 DEF ApplyLogEvent

\* An entry with other values is an entry.
LEMMA TickLeavesEntries ==
  ASSUME NoticesInv, NoticeTick \/ Grow PROVE \A q \in Box : Redrawn(q)
<1>1. ASSUME NEW q \in Box, notices[q] # NoEntry PROVE notices'[q] # NoEntry
  <2>1. NoticesFit
    BY DEF NoticesInv
  <2>2. PICK n : n = notices[q]
    OBVIOUS
  <2>3. n = Touched(n, n.age, n.actions, n.hovered, n.pressed, n.previewPressed,
                    n.animationDone, n.previewDone) /\ n.kind \in Kind
    BY <1>1, <2>1, <2>2, NoticeIs, EntryFields DEF NoticeGood
  <2>4. /\ [n EXCEPT !.age = n.age + 1].kind = n.kind
        /\ Ticked(n).kind = n.kind
    <3>1. "kind" \in DOMAIN n
      BY <2>3 DEF Touched
    <3> QED BY <3>1 DEF Ticked
  <2>5. notices'[q] \in {n, Ticked(n), [n EXCEPT !.age = n.age + 1]}
    <3>1. CASE NoticeTick
      BY <2>2, <3>1 DEF NoticeTick
    <3>2. CASE Grow
      BY <2>2, <3>2 DEF Grow
    <3> QED BY <3>1, <3>2
  <2>6. notices'[q].kind \in Kind
    BY <2>3, <2>4, <2>5
  <2>7. NoEntry.kind \notin Kind
    BY DEF NoEntry, Kind
  <2> QED BY <2>6, <2>7
<1> QED BY <1>1 DEF Redrawn

\* A painted preview whose notice is resolved, dismissed, dropped with its client or by a
\* settings reload gets a redraw; only the client that takes the keyboard may be without
\* (notifications.rs: resolve_for_source, execute_invite_action, remove_client,
\* apply_config).
THEOREM DroppedPreviewsRedrawn == NoticesSpec => PreviewsRedrawn
<1>1. ASSUME NoticesInv, [NoticesNext]_noticeVars PROVE \A q \in Box : Redrawn(q)
  <2>0. NoticesFit
    BY <1>1 DEF NoticesInv
  <2>1. CASE UNCHANGED noticeVars
    BY <2>1, SameRedrawn DEF noticeVars
  <2>2. CASE ApplyLogEvent
    BY <1>1, <2>2, LogEventRedraws
  <2>3. CASE NoticeTick \/ Grow
    BY <1>1, <2>3, TickLeavesEntries
  <2>4. CASE MoveFocus
    BY <2>4, SameRedrawn DEF MoveFocus
  <2>5. CASE PollFocus
    <3>1. notices' = [notices EXCEPT ![keyboard] = NoEntry]
      BY <2>5 DEF PollFocus
    <3> QED BY <2>0, <3>1, OneRedrawn
  <2>6. ASSUME NEW p \in Box, PaintLabel(p) PROVE \A q \in Box : Redrawn(q)
    BY <2>6, SameRedrawn DEF PaintLabel
  <2>7. ASSUME NEW p \in Box, ClearInviteInteraction(p) PROVE \A q \in Box : Redrawn(q)
    <3>1. (\E n : notices' = [notices EXCEPT ![p] = n]) /\ p \in repaint'
      BY <2>7 DEF ClearInviteInteraction
    <3> QED BY <2>0, <3>1, OneRedrawn
  <2>8. ASSUME NEW p \in Box, PollClients(p) PROVE \A q \in Box : Redrawn(q)
    <3>1. CASE UNCHANGED notices
      BY <3>1, SameRedrawn
    <3>2. CASE attached' = attached \ {p} /\ notices' = [notices EXCEPT ![p] = NoEntry]
      <4>1. p \notin Labelled'
        BY <3>2 DEF Labelled
      <4> QED BY <2>0, <3>2, <4>1, OneRedrawn
    <3> QED BY <2>8, <3>1, <3>2 DEF PollClients
  <2>9. ASSUME NEW p \in Box, NEW point \in Point, UpdateInviteHover(p, point)
        PROVE  \A q \in Box : Redrawn(q)
    <3>1. /\ notices' = [notices EXCEPT ![p].hovered = AsButton(Hit(p, point))]
          /\ p \in repaint'
      BY <2>9 DEF UpdateInviteHover
    <3>2. PICK n : notices' = [notices EXCEPT ![p] = n]
      BY <3>1
    <3> QED BY <2>0, <3>1, <3>2, OneRedrawn
  <2>10. ASSUME NEW p \in Box, NEW point \in Point, PressInviteAction(p, point)
         PROVE  \A q \in Box : Redrawn(q)
    <3> DEFINE button == AsButton(Hit(p, point))
    <3>1. /\ notices' = [notices EXCEPT ![p].previewPressed = TRUE, ![p].hovered = button,
                                        ![p].pressed = button]
          /\ p \in repaint'
      BY <2>10 DEF PressInviteAction
    <3> HIDE DEF button
    <3>2. PICK n : n = [notices[p] EXCEPT !.previewPressed = TRUE, !.hovered = button,
                                          !.pressed = button]
      OBVIOUS
    <3>3. notices' = [notices EXCEPT ![p] = n]
      BY <3>1, <3>2
    <3> QED BY <2>0, <3>1, <3>3, OneRedrawn
  <2>11. ASSUME NEW p \in Box, NEW point \in Point, ReleaseInviteAction(p, point)
         PROVE  \A q \in Box : Redrawn(q)
    <3>1. (\E n : notices' = [notices EXCEPT ![p] = n]) /\ p \in repaint'
      BY <2>11 DEF ReleaseInviteAction
    <3> QED BY <2>0, <3>1, OneRedrawn
  <2>12. ASSUME NEW new \in Policies, ReloadSettings(new) PROVE \A q \in Box : Redrawn(q)
    <3>1. repaint' = Labelled /\ Labelled' = Labelled
      BY <2>12 DEF ReloadSettings, Labelled
    <3> QED BY <3>1 DEF Redrawn
  <2> QED BY <1>1, <2>1, <2>2, <2>3, <2>4, <2>5, <2>6, <2>7, <2>8, <2>9, <2>10, <2>11, <2>12
          DEF NoticesNext
<1>2. ASSUME NoticesInv, [NoticesNext]_noticeVars
      PROVE  [\A p \in Box : onScreen[p] = "preview" /\ notices[p] # NoEntry
                             /\ notices'[p] = NoEntry
                => p \in repaint' \/ onScreen'[p] # "preview" \/ p \notin Labelled'
                   \/ keyboard = p]_noticeVars
  BY <1>1, <1>2 DEF Redrawn
<1> QED BY <1>2, NoticesInitInv, NoticesNextKeeps, PTL DEF NoticesSpec, PreviewsRedrawn

(***************************************************************************)
(* LogWorker                                                               *)
(***************************************************************************)

USE LogWorkerBounds

Places == {"top", "collect", "reconcile", "tick", "flush", "work", "gone"}

\* The games and what the worker reads of them.
GameTypes ==
  /\ lines \in 0 .. MaxLines /\ unread \in [Path -> Nat] /\ \A p \in Path : unread[p] <= lines
  /\ tracked \in SUBSET Path /\ changed \in SUBSET Path /\ desired \in SUBSET Path
  /\ force \in BOOLEAN /\ reconDue \in BOOLEAN /\ stop \in BOOLEAN
  /\ pc \in Places

\* The paths that wait for a read.
ReadPart == ready \in Seq(Path) /\ ReadySound

\* The stream of batches.
Stream ==
  /\ version \in Nat /\ shownLines \in Nat
  /\ queue \in Seq(Batch) /\ Len(queue) <= QueueCap
  /\ pendingOutput \in Seq(Batch) /\ Len(pendingOutput) <= 1
  /\ pc = "work" => pendingOutput = NoBatch
  /\ LinesConserved

\* The wake-up: a message is on its way exactly while the flag says so.
WakeUp ==
  /\ posted \in BOOLEAN /\ messages \in Nat /\ urgent \in BOOLEAN
  /\ uiPc \in {"idle", "drain", "take"}
  /\ pendingSnap \in Nat /\ snapshotBox \in Nat
  /\ ~posted => messages = 0
  /\ posted => messages = 1 \/ stop
  /\ messages <= 1
  /\ queue # <<>> => posted \/ uiPc = "drain" \/ stop
  /\ snapshotBox > 0 => posted \/ uiPc # "idle" \/ stop

LogInv == GameTypes /\ ReadPart /\ Stream /\ WakeUp

-----------------------------------------------------------------------------
(* Suffixes and concatenations, by index *)

\* c is q without its first n elements; a is q followed by r.
Drops(c, q, n) == n \in 0 .. Len(q) /\ c = SubSeq(q, n + 1, Len(q))
Joins(a, q, r) == a = q \o r

LEMMA Remaining ==
  ASSUME NEW S, NEW q \in Seq(S), NEW n, NEW c, Drops(c, q, n)
  PROVE  /\ c \in Seq(S) /\ Len(c) = Len(q) - n
         /\ \A k \in 1 .. Len(q) - n : c[k] = q[k + n]
<1>1. PICK l \in Nat : l = Len(q)
  OBVIOUS
<1>2. n \in Nat /\ n <= l /\ c = SubSeq(q, n + 1, l)
  BY <1>1 DEF Drops
<1>3. PICK m \in Nat : m = n + 1
  BY <1>2
<1>4. m >= 1 /\ m <= l + 1 /\ c = SubSeq(q, m, l)
  BY <1>1, <1>2, <1>3
<1>5. /\ c \in Seq(S) /\ Len(c) = l - m + 1
      /\ \A k \in 1 .. l - m + 1 : c[k] = q[m + k - 1]
  BY <1>1, <1>4, PartIs
<1>6. Len(c) = l - n
  BY <1>1, <1>2, <1>3, <1>5
<1>7. l - m + 1 = l - n
  BY ONLY <1>1, <1>2, <1>3
<1>8. \A k \in 1 .. l - n : m + k - 1 = k + n
  <2>1. TAKE k \in 1 .. l - n
  <2> QED BY ONLY <2>1, <1>1, <1>2, <1>3
<1>9. \A k \in 1 .. l - n : c[k] = q[k + n]
  BY <1>5, <1>7, <1>8
<1> QED BY <1>1, <1>5, <1>6, <1>9

LEMMA Joined ==
  ASSUME NEW S, NEW q \in Seq(S), NEW r \in Seq(S), NEW a, Joins(a, q, r)
  PROVE  /\ a \in Seq(S) /\ Len(a) = Len(q) + Len(r)
         /\ \A j \in 1 .. Len(q) : a[j] = q[j]
         /\ \A j \in 1 .. Len(r) : a[Len(q) + j] = r[j]
<1>1. PICK m \in Nat, k \in Nat : m = Len(q) /\ k = Len(r)
  OBVIOUS
<1>2. /\ a \in Seq(S) /\ Len(a) = m + k
      /\ \A i \in 1 .. m + k : a[i] = IF i <= m THEN q[i] ELSE r[i - m]
  BY <1>1, ConcatProperties DEF Joins
<1>3. \A j \in 1 .. m : j \in 1 .. m + k /\ j <= m
  BY <1>1
<1>4. \A j \in 1 .. k : m + j \in 1 .. m + k /\ ~(m + j <= m) /\ (m + j) - m = j
  BY <1>1
<1>5. \A j \in 1 .. m : a[j] = q[j]
  BY <1>2, <1>3
<1>6. \A j \in 1 .. k : a[m + j] = r[j]
  BY <1>2, <1>4
<1> QED BY <1>1, <1>2, <1>5, <1>6

-----------------------------------------------------------------------------
(* Sequences of distinct elements *)

\* SetToSeq lists a finite set, each element once.
LEMMA SetToSeqLists ==
  ASSUME NEW S, IsFiniteSet(S)
  PROVE  /\ SetToSeq(S) \in Seq(S)
         /\ IsInjective(SetToSeq(S))
         /\ ToSet(SetToSeq(S)) = S
<1>1. Cardinality(S) \in Nat /\ ExistsBijection(1 .. Cardinality(S), S)
  BY FS_CardinalityType
<1>2. PICK g \in [1 .. Cardinality(S) -> S] : IsInjective(g)
  BY <1>1 DEF ExistsBijection, Bijection, Injection
<1> DEFINE f == SetToSeq(S)
<1>3. f \in [1 .. Cardinality(S) -> S] /\ IsInjective(f)
  BY <1>2 DEF SetToSeq
<1> HIDE DEF f
<1>4. f \in Injection(1 .. Cardinality(S), S)
  BY <1>3 DEF Injection
<1>5. Cardinality(1 .. Cardinality(S)) = Cardinality(S)
  BY <1>1, FS_Interval
<1>6. f \in Surjection(1 .. Cardinality(S), S)
  BY <1>4, <1>5, FS_Injection
<1>7. f \in Seq(S)
  BY <1>1, <1>3
<1>8. ToSet(f) = S
  BY <1>3, <1>6 DEF Surjection, ToSet
<1> QED BY <1>3, <1>7, <1>8 DEF f

\* Appending new distinct elements keeps a sequence free of repetitions.
LEMMA ConcatInjective ==
  ASSUME NEW S, NEW r \in Seq(S), NEW t \in Seq(S), IsInjective(r), IsInjective(t),
         ToSet(r) \cap ToSet(t) = {}
  PROVE  /\ r \o t \in Seq(S) /\ IsInjective(r \o t)
         /\ ToSet(r \o t) = ToSet(r) \cup ToSet(t)
<1> DEFINE c == r \o t
<1>1. PICK m \in Nat, n \in Nat : m = Len(r) /\ n = Len(t)
  OBVIOUS
<1>2. /\ c \in Seq(S) /\ Len(c) = m + n
      /\ \A i \in 1 .. m : c[i] = r[i]
      /\ \A i \in m + 1 .. m + n : c[i] = t[i - m]
  BY <1>1
<1> HIDE DEF c
<1>3. DOMAIN c = 1 .. m + n /\ DOMAIN r = 1 .. m /\ DOMAIN t = 1 .. n
  BY <1>1, <1>2
<1>4. \A i \in 1 .. m : c[i] \in ToSet(r)
  BY <1>2, <1>3 DEF ToSet
<1>5. \A i \in m + 1 .. m + n : i - m \in 1 .. n
  OBVIOUS
<1>6. \A i \in m + 1 .. m + n : c[i] \in ToSet(t)
  BY <1>2, <1>3, <1>5 DEF ToSet
<1>7. \A i \in 1 .. m + n : i \in 1 .. m \/ i \in m + 1 .. m + n
  OBVIOUS
<1>8. ASSUME NEW i \in 1 .. m + n, NEW j \in 1 .. m + n, c[i] = c[j] PROVE i = j
  <2>1. CASE i \in 1 .. m /\ j \in 1 .. m
    BY <1>2, <1>3, <1>8, <2>1 DEF IsInjective
  <2>2. CASE i \in m + 1 .. m + n /\ j \in m + 1 .. m + n
    <3>1. t[i - m] = t[j - m]
      BY <1>2, <1>8, <2>2
    <3>2. i - m = j - m
      BY <1>3, <1>5, <2>2, <3>1 DEF IsInjective
    <3> QED BY <3>2
  <2> QED BY <1>4, <1>6, <1>7, <1>8, <2>1, <2>2
<1>9. \A x \in ToSet(t) : x \in ToSet(c)
  <2> SUFFICES ASSUME NEW i \in 1 .. n PROVE t[i] \in ToSet(c)
    BY <1>3 DEF ToSet
  <2>1. i + m \in m + 1 .. m + n /\ (i + m) - m = i /\ i + m \in 1 .. m + n
    OBVIOUS
  <2>2. c[i + m] = t[i]
    BY <1>2, <2>1
  <2> QED BY <1>3, <2>1, <2>2 DEF ToSet
<1>10. \A x \in ToSet(r) : x \in ToSet(c)
  <2>1. \A i \in 1 .. m : i \in 1 .. m + n
    OBVIOUS
  <2> QED BY <1>2, <1>3, <2>1 DEF ToSet
<1>11. \A x \in ToSet(c) : x \in ToSet(r) \cup ToSet(t)
  <2> SUFFICES ASSUME NEW i \in 1 .. m + n PROVE c[i] \in ToSet(r) \cup ToSet(t)
    BY <1>3 DEF ToSet
  <2> QED BY <1>4, <1>6, <1>7
<1>12. IsInjective(c)
  BY <1>3, <1>8 DEF IsInjective
<1>13. ToSet(c) = ToSet(r) \cup ToSet(t)
  BY <1>9, <1>10, <1>11
<1> QED BY <1>2, <1>12, <1>13 DEF c

\* schedule keeps every waiting path once and adds the others.
LEMMA ScheduledLists ==
  ASSUME NEW r \in Seq(Path), IsInjective(r), NEW paths, paths \subseteq Path
  PROVE  /\ Scheduled(r, paths) \in Seq(Path) /\ IsInjective(Scheduled(r, paths))
         /\ ToSet(Scheduled(r, paths)) = ToSet(r) \cup paths
<1> DEFINE new == paths \ ToSet(r)
<1>1. IsFiniteSet(new)
  BY FS_Subset
<1>2. SetToSeq(new) \in Seq(new) /\ IsInjective(SetToSeq(new)) /\ ToSet(SetToSeq(new)) = new
  BY <1>1, SetToSeqLists
<1>3. SetToSeq(new) \in Seq(Path)
  BY <1>2, SeqMonotonic
<1>4. ToSet(r) \cap ToSet(SetToSeq(new)) = {}
  BY <1>2
<1>5. ToSet(r) \cup ToSet(SetToSeq(new)) = ToSet(r) \cup paths
  BY <1>2
<1>6. Scheduled(r, paths) = r \o SetToSeq(new)
  BY DEF Scheduled
<1> HIDE DEF new
<1> QED BY <1>2, <1>3, <1>4, <1>5, <1>6, ConcatInjective

\* What is left behind the i-th element.
LEMMA SuffixInjective ==
  ASSUME NEW S, NEW r \in Seq(S), IsInjective(r), NEW i \in DOMAIN r
  PROVE  LET rest == SubSeq(r, i + 1, Len(r)) IN
         /\ rest \in Seq(S) /\ IsInjective(rest) /\ r[i] \notin ToSet(rest)
         /\ ToSet(rest) \subseteq ToSet(r)
<1> DEFINE rest == SubSeq(r, i + 1, Len(r))
<1>1. PICK n \in Nat : n = Len(r)
  OBVIOUS
<1>2. i \in 1 .. n /\ DOMAIN r = 1 .. n
  BY <1>1
<1>3. /\ rest \in Seq(S) /\ Len(rest) = n - i
      /\ \A k \in 1 .. n - i : rest[k] = r[k + i]
  <2>1. Drops(rest, r, i)
    BY <1>1, <1>2 DEF Drops
  <2> HIDE DEF rest
  <2>2. /\ rest \in Seq(S) /\ Len(rest) = Len(r) - i
        /\ \A k \in 1 .. Len(r) - i : rest[k] = r[k + i]
    BY <2>1, Remaining
  <2> QED BY <1>1, <2>2
<1> HIDE DEF rest
<1>4. DOMAIN rest = 1 .. n - i
  BY <1>2, <1>3
<1>5. \A k \in 1 .. n - i : k + i \in 1 .. n /\ k + i # i
  BY <1>2
<1>6. \A k, l \in 1 .. n - i : k + i = l + i => k = l
  BY <1>2
<1>7. IsInjective(rest)
  <2>1. ASSUME NEW k \in 1 .. n - i, NEW l \in 1 .. n - i, rest[k] = rest[l] PROVE k = l
    <3>1. r[k + i] = r[l + i] /\ k + i \in DOMAIN r /\ l + i \in DOMAIN r
      BY <1>2, <1>3, <1>5, <2>1
    <3>2. k + i = l + i
      BY <3>1 DEF IsInjective
    <3> QED BY <1>6, <3>2
  <2> QED BY <1>4, <2>1 DEF IsInjective
<1>8. r[i] \notin ToSet(rest)
  BY <1>2, <1>3, <1>4, <1>5 DEF IsInjective, ToSet
<1>9. ToSet(rest) \subseteq ToSet(r)
  BY <1>2, <1>3, <1>4, <1>5 DEF ToSet
<1> QED BY <1>3, <1>7, <1>8, <1>9 DEF rest

-----------------------------------------------------------------------------
(* Initially, and what the invariant implies *)

LEMMA InitLogInv == LogInit => LogInv
<1> SUFFICES ASSUME LogInit PROVE LogInv
  OBVIOUS
<1>1. GameTypes
  <2>1. unread \in [Path -> Nat] /\ \A p \in Path : unread[p] <= lines
    BY DEF LogInit
  <2>2. /\ lines \in 0 .. MaxLines /\ tracked \in SUBSET Path /\ changed \in SUBSET Path
        /\ desired \in SUBSET Path /\ pc \in Places
    BY DEF LogInit, Places
  <2>3. force \in BOOLEAN /\ reconDue \in BOOLEAN /\ stop \in BOOLEAN
    BY DEF LogInit
  <2> QED BY <2>1, <2>2, <2>3 DEF GameTypes
<1>2. ready = <<>> /\ origin = <<>>
  BY DEF LogInit
<1>3. DOMAIN ready = {} /\ DOMAIN origin = {} /\ ready \in Seq(Path)
  BY <1>2
<1>4. ReadPart
  BY <1>3 DEF ReadPart, ReadySound, IsInjective, ToSet
<1>5. Stream
  BY DEF LogInit, Stream, LinesConserved, InTransit, NoBatch
<1>6. WakeUp
  <2>1. posted = FALSE /\ urgent = FALSE
    BY DEF LogInit
  <2>2. /\ messages = 0 /\ pendingSnap = 0 /\ snapshotBox = 0 /\ queue = <<>>
        /\ uiPc = "idle"
    BY DEF LogInit
  <2>3. posted \in BOOLEAN /\ urgent \in BOOLEAN /\ (posted => messages = 1 \/ stop)
    BY <2>1
  <2> QED BY <2>2, <2>3 DEF WakeUp
<1> QED BY <1>1, <1>4, <1>5, <1>6 DEF LogInv

LEMMA LogInvImpliesSound == LogInv => WorkerSound
<1> SUFFICES ASSUME LogInv PROVE WorkerSound
  OBVIOUS
<1> USE DEF LogInv
<1>1. LogTypeOK
  <2>1. unread \in [Path -> 0 .. MaxLines]
    BY DEF GameTypes
  <2> QED BY <2>1 DEF LogTypeOK, GameTypes, ReadPart, Stream, WakeUp, Places
<1>2. WakeUpPending
  BY DEF WakeUpPending, WakeUp
<1> QED BY <1>1, <1>2 DEF WorkerSound, ReadPart, Stream

-----------------------------------------------------------------------------
(* The stream of batches *)

Contiguous(q, from, upto) ==
  /\ \A i \in DOMAIN q : /\ q[i].after = IF i = 1 THEN from ELSE q[i - 1].upto
                        /\ q[i].upto >= q[i].after
  /\ upto = IF q = <<>> THEN from ELSE q[Len(q)].upto

LEMMA ContiguousAppend ==
  ASSUME NEW q \in Seq(Batch), NEW from \in Nat, NEW upto \in Nat, Contiguous(q, from, upto),
         NEW n \in Nat
  PROVE  Contiguous(q \o <<OwnedBatch(upto, n)>>, from, upto + n)
<1> DEFINE b == OwnedBatch(upto, n)
           c == q \o <<b>>
<1>1. PICK m \in Nat : m = Len(q)
  OBVIOUS
<1>2. b \in Batch /\ b.after = upto /\ b.upto = upto + n /\ b.upto >= b.after
  BY DEF Batch, OwnedBatch
<1> HIDE DEF b
<1>3. /\ c \in Seq(Batch) /\ Len(c) = m + 1 /\ c[m + 1] = b
      /\ \A i \in 1 .. m : c[i] = q[i]
  BY <1>1, <1>2
<1> HIDE DEF c
<1>4. DOMAIN c = 1 .. m + 1 /\ DOMAIN q = 1 .. m /\ c # <<>>
  BY <1>1, <1>3
<1>5. ASSUME NEW i \in 1 .. m
      PROVE  /\ c[i].after = IF i = 1 THEN from ELSE c[i - 1].upto
             /\ c[i].upto >= c[i].after
  <2>1. i = 1 \/ i - 1 \in 1 .. m
    OBVIOUS
  <2> QED BY <1>3, <1>4, <2>1 DEF Contiguous
<1>6. c[m + 1].after = IF m + 1 = 1 THEN from ELSE c[m].upto
  <2>1. CASE m = 0
    <3>1. q = <<>>
      BY <1>1, <2>1, EmptySeq
    <3>2. from = upto
      BY <3>1 DEF Contiguous
    <3> QED BY <1>2, <1>3, <2>1, <3>2
  <2>2. CASE m # 0
    BY <1>1, <1>2, <1>3, <2>2 DEF Contiguous
  <2> QED BY <2>1, <2>2
<1>7. \A i \in 1 .. m + 1 : i \in 1 .. m \/ (i = m + 1 /\ i - 1 = m)
  OBVIOUS
<1>8. \A i \in DOMAIN c : /\ c[i].after = IF i = 1 THEN from ELSE c[i - 1].upto
                          /\ c[i].upto >= c[i].after
  BY <1>2, <1>3, <1>4, <1>5, <1>6, <1>7
<1>9. upto + n = c[Len(c)].upto
  BY <1>2, <1>3
<1> QED BY <1>4, <1>8, <1>9 DEF Contiguous, c, b

\* What the first n batches showed and the rest go on where they end.
LEMMA ContiguousSuffix ==
  ASSUME NEW q \in Seq(Batch), NEW from \in Nat, NEW upto \in Nat, Contiguous(q, from, upto),
         NEW n \in 1 .. Len(q)
  PROVE  Contiguous(SubSeq(q, n + 1, Len(q)), q[n].upto, upto)
<1> DEFINE c == SubSeq(q, n + 1, Len(q))
<1>1. PICK m \in Nat : m = Len(q)
  OBVIOUS
<1>2. n \in 1 .. m /\ DOMAIN q = 1 .. m
  BY <1>1
<1>3. /\ c \in Seq(Batch) /\ Len(c) = m - n
      /\ \A k \in 1 .. m - n : c[k] = q[k + n]
  <2>1. Drops(c, q, n)
    BY <1>1, <1>2 DEF Drops
  <2> HIDE DEF c
  <2>2. q \in Seq(Batch)
    OBVIOUS
  <2>3. /\ c \in Seq(Batch) /\ Len(c) = Len(q) - n
        /\ \A k \in 1 .. Len(q) - n : c[k] = q[k + n]
    BY ONLY <2>1, <2>2, Remaining, SMTT(30)
  <2> QED BY <1>1, <2>3
<1> HIDE DEF c
<1>4. DOMAIN c = 1 .. m - n /\ (c = <<>> <=> m = n)
  BY <1>2, <1>3
<1>5. ASSUME NEW k \in 1 .. m - n
      PROVE  /\ c[k].after = IF k = 1 THEN q[n].upto ELSE c[k - 1].upto
             /\ c[k].upto >= c[k].after
  <2>1. k + n \in 1 .. m /\ k + n # 1 /\ k + n - 1 = (k - 1) + n
    <3>1. m \in Nat /\ n \in 1 .. m /\ k \in 1 .. m - n
      BY <1>2
    <3> QED BY ONLY <3>1
  <2>2. q[k + n].after = q[k + n - 1].upto /\ q[k + n].upto >= q[k + n].after
    <3>1. \A i \in 1 .. m : i # 1 => q[i].after = q[i - 1].upto /\ q[i].upto >= q[i].after
      BY <1>2 DEF Contiguous
    <3>2. PICK i \in 1 .. m : i = k + n /\ i # 1
      BY <2>1
    <3>3. q[i].after = q[i - 1].upto /\ q[i].upto >= q[i].after
      BY ONLY <3>1, <3>2
    <3> QED BY ONLY <3>2, <3>3
  <2>3. CASE k = 1
    <3>1. q[k + n - 1] = q[n]
      BY <2>3, <1>2
    <3> QED BY <1>3, <2>2, <2>3, <3>1
  <2>4. CASE k # 1
    <3>1. k - 1 \in 1 .. m - n
      BY <2>4, <1>2
    <3>2. c[k - 1] = q[k + n - 1]
      BY <1>3, <2>1, <3>1
    <3> QED BY <1>3, <2>2, <2>4, <3>2
  <2> QED BY <2>3, <2>4
<1>6. upto = IF c = <<>> THEN q[n].upto ELSE c[Len(c)].upto
  <2>1. upto = q[m].upto
    BY <1>1, <1>2 DEF Contiguous
  <2>2. CASE m = n
    BY <1>4, <2>1, <2>2
  <2>3. CASE m # n
    <3>1. m - n \in 1 .. m - n /\ (m - n) + n = m
      BY <1>2, <2>3
    <3>2. c[Len(c)] = q[m]
      BY <1>3, <3>1
    <3> QED BY <1>4, <2>1, <2>3, <3>2
  <2> QED BY <2>2, <2>3
<1> QED BY <1>4, <1>5, <1>6 DEF Contiguous, c

-----------------------------------------------------------------------------
(* The parts that most steps leave alone *)

GameView  == <<lines, unread, tracked, changed, desired, force, reconDue, stop, pc>>
StreamView == <<version, shownLines, queue, pendingOutput, pc>>
WakeView  == <<posted, messages, urgent, uiPc, pendingSnap, snapshotBox, queue, stop>>

LEMMA SameRead == ReadPart /\ UNCHANGED <<ready, origin>> => ReadPart'
  BY DEF ReadPart, ReadySound
LEMMA SameStream ==
  ASSUME Stream, UNCHANGED <<version, shownLines, queue, pendingOutput>>,
         pc' = "work" => pc = "work"
  PROVE  Stream'
  BY DEF Stream, LinesConserved, InTransit, NoBatch
LEMMA SameWake == WakeUp /\ UNCHANGED WakeView => WakeUp'
  BY DEF WakeUp, WakeView

\* LinesConserved in the terms of the lemmas above.
LEMMA ConservedContiguous ==
  LinesConserved <=> Contiguous(queue \o pendingOutput, shownLines, version)
  BY DEF LinesConserved, InTransit, Contiguous

-----------------------------------------------------------------------------
(* The games and the watcher *)

LEMMA WriteLineKeeps ==
  ASSUME LogInv, NEW p \in Path, WriteLine(p) PROVE LogInv'
<1>1. GameTypes'
  <2>1. lines' \in 0 .. MaxLines /\ lines' = lines + 1
    BY DEF WriteLine, LogInv, GameTypes
  <2>2. unread' \in [Path -> Nat] /\ \A q \in Path : unread'[q] <= lines'
    <3>1. unread' = [unread EXCEPT ![p] = @ + 1]
      BY DEF WriteLine
    <3>2. unread \in [Path -> Nat] /\ lines \in Nat /\ \A q \in Path : unread[q] <= lines
      BY DEF LogInv, GameTypes
    <3> QED BY <2>1, <3>1, <3>2
  <2>3. UNCHANGED <<tracked, desired, reconDue, stop, pc>>
    BY DEF WriteLine, srcVars, readVars
  <2>4. changed' \in SUBSET Path /\ force' \in BOOLEAN
    BY DEF WriteLine, RecordPath, wakeVars, LogInv, GameTypes
  <2> QED BY <2>1, <2>2, <2>3, <2>4 DEF LogInv, GameTypes
<1>2. UNCHANGED <<readVars, outVars, postVars, snapVars, uiVars, stop, pc>>
  BY DEF WriteLine
<1>3. UNCHANGED <<ready, origin>> /\ UNCHANGED WakeView
  BY <1>2 DEF readVars, outVars, postVars, snapVars, uiVars, WakeView
<1>4. UNCHANGED <<version, shownLines, queue, pendingOutput, pc>>
  BY <1>2 DEF outVars, snapVars, uiVars
<1> QED BY <1>1, <1>3, <1>4, SameRead, SameStream, SameWake DEF LogInv

LEMMA WatcherReportsKeeps ==
  ASSUME LogInv, WatcherReports PROVE LogInv'
<1>1. GameTypes'
  <2>1. UNCHANGED <<lines, unread, tracked, changed, desired, reconDue, stop, pc>> /\ force' = TRUE
    BY DEF WatcherReports, srcVars, readVars
  <2> QED BY <2>1 DEF LogInv, GameTypes
<1>2. UNCHANGED <<readVars, outVars, postVars, snapVars, uiVars, stop, pc>>
  BY DEF WatcherReports
<1>3. UNCHANGED <<ready, origin>> /\ UNCHANGED WakeView
  BY <1>2 DEF readVars, outVars, postVars, snapVars, uiVars, WakeView
<1>4. UNCHANGED <<version, shownLines, queue, pendingOutput, pc>>
  BY <1>2 DEF outVars, snapVars, uiVars
<1> QED BY <1>1, <1>3, <1>4, SameRead, SameStream, SameWake DEF LogInv

LEMMA TimePassesKeeps ==
  ASSUME LogInv, TimePasses PROVE LogInv'
<1>1. GameTypes'
  <2>1. UNCHANGED <<lines, unread, tracked, changed, desired, force, stop, pc>> /\ reconDue' = TRUE
    BY DEF TimePasses, gameVars, wakeVars, srcVars
  <2> QED BY <2>1 DEF LogInv, GameTypes
<1>3. UNCHANGED <<ready, origin>> /\ UNCHANGED WakeView
  BY DEF TimePasses, outVars, postVars, uiVars, WakeView
<1>4. UNCHANGED <<version, shownLines, queue, pendingOutput, pc>>
  BY DEF TimePasses, outVars, uiVars
<1> QED BY <1>1, <1>3, <1>4, SameRead, SameStream, SameWake DEF LogInv

-----------------------------------------------------------------------------
(* The worker, up to its output *)

LEMMA WorkerStopsKeeps ==
  ASSUME LogInv, WorkerStops PROVE LogInv'
<1>1. GameTypes'
  <2>1. UNCHANGED <<lines, unread, tracked, changed, desired, force, reconDue, stop>> /\ pc' \in Places
    BY DEF WorkerStops, gameVars, wakeVars, srcVars, readVars, Places
  <2> QED BY <2>1 DEF LogInv, GameTypes
<1>2. UNCHANGED <<ready, origin>> /\ UNCHANGED WakeView
  BY DEF WorkerStops, readVars, outVars, postVars, snapVars, uiVars, WakeView
<1>3. UNCHANGED <<version, shownLines, queue, pendingOutput>> /\ pc' # "work"
  BY DEF WorkerStops, outVars, snapVars, uiVars
<1> QED BY <1>1, <1>2, <1>3, SameRead, SameStream, SameWake DEF LogInv

LEMMA ApplySourcesKeeps ==
  ASSUME LogInv, ApplySources PROVE LogInv'
<1>1. GameTypes'
  <2>1. UNCHANGED <<lines, changed, desired, force, reconDue, stop>> /\ pc' \in Places
    BY DEF ApplySources, wakeVars, Places
  <2>2. tracked' \in SUBSET Path
    BY DEF ApplySources, LogInv, GameTypes
  <2>3. unread' \in [Path -> Nat] /\ \A p \in Path : unread'[p] <= lines
    <3>1. unread' = unread \/ unread' = [p \in Path |-> IF p \in desired \ tracked THEN 0 ELSE unread[p]]
      BY DEF ApplySources
    <3>2. unread \in [Path -> Nat] /\ lines \in Nat /\ \A q \in Path : unread[q] <= lines
      BY DEF LogInv, GameTypes
    <3> QED BY <3>1, <3>2
  <2> QED BY <2>1, <2>2, <2>3 DEF LogInv, GameTypes
<1>2. UNCHANGED <<ready, origin>> /\ UNCHANGED WakeView
  BY DEF ApplySources, outVars, postVars, snapVars, uiVars, WakeView
<1>3. UNCHANGED <<version, shownLines, queue, pendingOutput>> /\ pc' # "work"
  BY DEF ApplySources, outVars, snapVars, uiVars
<1> QED BY <1>1, <1>2, <1>3, SameRead, SameStream, SameWake DEF LogInv

LEMMA ScheduledKeeps ==
  ASSUME ReadPart, NEW paths, paths \subseteq Path, NEW kind,
         ready' = Scheduled(ready, paths), origin' = ScheduledAs(origin, paths, kind)
  PROVE  ReadPart'
<1>1. ready \in Seq(Path) /\ IsInjective(ready) /\ ToSet(ready) = DOMAIN origin
  BY DEF ReadPart, ReadySound
<1>2. ready' \in Seq(Path) /\ IsInjective(ready') /\ ToSet(ready') = ToSet(ready) \cup paths
  BY <1>1, ScheduledLists
<1>3. DOMAIN origin' = DOMAIN origin \cup paths
  BY DEF ScheduledAs
<1> QED BY <1>1, <1>2, <1>3 DEF ReadPart, ReadySound

LEMMA CollectWatcherActivityKeeps ==
  ASSUME LogInv, CollectWatcherActivity PROVE LogInv'
<1>1. GameTypes'
  <2>1. UNCHANGED <<lines, unread, tracked, desired, force, reconDue, stop>> /\ pc' \in Places
        /\ changed' = {}
    BY DEF CollectWatcherActivity, gameVars, srcVars, Places
  <2> QED BY <2>1 DEF LogInv, GameTypes
<1>2. ReadPart'
  <2>1. changed \cap tracked \subseteq Path
    BY DEF LogInv, GameTypes
  <2> QED BY <2>1, ScheduledKeeps DEF CollectWatcherActivity, LogInv
<1>3. UNCHANGED WakeView
  BY DEF CollectWatcherActivity, postVars, snapVars, uiVars, WakeView
<1>4. UNCHANGED <<version, shownLines, queue, pendingOutput>> /\ pc' # "work"
  BY DEF CollectWatcherActivity, snapVars, uiVars
<1> QED BY <1>1, <1>2, <1>3, <1>4, SameStream, SameWake DEF LogInv

LEMMA MaybeReconcileKeeps ==
  ASSUME LogInv, MaybeReconcile PROVE LogInv'
<1>1. GameTypes'
  <2>1. UNCHANGED <<lines, unread, tracked, desired, changed, stop>> /\ pc' \in Places
        /\ force' = FALSE
    BY DEF MaybeReconcile, gameVars, srcVars, Places
  <2>2. reconDue' \in BOOLEAN
    BY DEF MaybeReconcile, LogInv, GameTypes
  <2> QED BY <2>1, <2>2 DEF LogInv, GameTypes
<1>2. ReadPart'
  <2>1. tracked \subseteq Path
    BY DEF LogInv, GameTypes
  <2>2. CASE UNCHANGED <<ready, origin>>
    BY <2>2, SameRead DEF LogInv
  <2>3. CASE ~UNCHANGED <<ready, origin>>
    <3>1. ready' = Scheduled(ready, tracked) /\ origin' = ScheduledAs(origin, tracked, "reconciliation")
      BY <2>3 DEF MaybeReconcile
    <3> QED BY <2>1, <3>1, ScheduledKeeps DEF LogInv
  <2> QED BY <2>2, <2>3
<1>3. UNCHANGED WakeView
  BY DEF MaybeReconcile, outVars, postVars, snapVars, uiVars, WakeView
<1>4. UNCHANGED <<version, shownLines, queue, pendingOutput>> /\ pc' # "work"
  BY DEF MaybeReconcile, outVars, snapVars, uiVars
<1> QED BY <1>1, <1>2, <1>3, <1>4, SameStream, SameWake DEF LogInv

-----------------------------------------------------------------------------
(* The wake-up *)

\* A snapshot goes to the mailbox with a message.
LEMMA AcceptUpdateKeeps ==
  ASSUME WakeUp, NEW v \in Nat, NEW immediate \in BOOLEAN, AcceptUpdate(v, immediate),
         UNCHANGED <<queue, uiPc, stop>>
  PROVE  WakeUp'
<1> DEFINE snap == IF v > 0 THEN v ELSE pendingSnap
           now  == urgent \/ (v > 0 /\ immediate)
<1>1. snap \in Nat /\ now \in BOOLEAN
  BY DEF WakeUp
<1>2. CASE snap > 0 /\ (now \/ publishDue)
  <2>1. pendingSnap' = 0 /\ urgent' = FALSE /\ snapshotBox' = snap /\ posted' = TRUE
        /\ messages' = IF posted THEN messages ELSE messages + 1
    BY <1>2 DEF AcceptUpdate, Post
  <2>2. messages' \in Nat /\ messages' <= 1 /\ (messages' = 1 \/ stop)
    BY <2>1 DEF WakeUp
  <2> HIDE DEF snap
  <2> QED BY <1>1, <2>1, <2>2 DEF WakeUp
<1>3. CASE ~(snap > 0 /\ (now \/ publishDue))
  <2>1. pendingSnap' = snap /\ urgent' = now /\ UNCHANGED <<snapshotBox, posted, messages>>
    BY <1>3 DEF AcceptUpdate, postVars
  <2> HIDE DEF snap, now
  <2> QED BY <1>1, <2>1 DEF WakeUp
<1> QED BY <1>2, <1>3

\* What changes the queue and posts, or only shortens it, keeps the wake-up.
LEMMA PostKeeps ==
  ASSUME WakeUp, Post, UNCHANGED <<urgent, pendingSnap, snapshotBox, stop>>,
         uiPc' \in {"idle", "drain", "take"}
  PROVE  WakeUp'
<1>1. posted' = TRUE /\ messages' = IF posted THEN messages ELSE messages + 1
  BY DEF Post
<1>2. messages' \in Nat /\ messages' <= 1 /\ (messages' = 1 \/ stop)
  BY <1>1 DEF WakeUp
<1> QED BY <1>1, <1>2 DEF WakeUp

-----------------------------------------------------------------------------
(* The worker's output *)

LEMMA WorkerTickKeeps ==
  ASSUME LogInv, WorkerTick PROVE LogInv'
<1>1. GameTypes'
  <2>1. UNCHANGED <<lines, unread, tracked, changed, desired, force, reconDue, stop>> /\ pc' \in Places
    BY DEF WorkerTick, gameVars, wakeVars, srcVars, readVars, Places
  <2> QED BY <2>1 DEF LogInv, GameTypes
<1>2. UNCHANGED <<ready, origin>> /\ UNCHANGED <<queue, uiPc, stop>>
  BY DEF WorkerTick, readVars, outVars, uiVars
<1>3. UNCHANGED <<version, shownLines, queue, pendingOutput>> /\ pc' # "work"
  BY DEF WorkerTick, outVars, uiVars
<1>4. WakeUp'
  <2>1. AcceptUpdate(0, FALSE)
    BY DEF WorkerTick
  <2> QED BY <1>2, <2>1, AcceptUpdateKeeps DEF LogInv
<1> QED BY <1>1, <1>2, <1>3, <1>4, SameRead, SameStream DEF LogInv

LEMMA FlushPendingOutputKeeps ==
  ASSUME LogInv, FlushPendingOutput PROVE LogInv'
<1>1. GameTypes'
  <2>1. UNCHANGED <<lines, unread, tracked, changed, desired, force, reconDue, stop>> /\ pc' \in Places
    BY DEF FlushPendingOutput, gameVars, wakeVars, srcVars, readVars, Places
  <2> QED BY <2>1 DEF LogInv, GameTypes
<1>2. UNCHANGED <<ready, origin>> /\ UNCHANGED <<urgent, pendingSnap, snapshotBox, uiPc, stop>>
      /\ UNCHANGED <<version, shownLines>>
  BY DEF FlushPendingOutput, readVars, snapVars, uiVars
<1>3. Stream
  BY DEF LogInv
<1>4. CASE UNCHANGED <<queue, pendingOutput, postVars>>
  <2>1. pc' = "work" => pendingOutput = NoBatch
    BY <1>4 DEF FlushPendingOutput, NoBatch
  <2>2. Stream'
    BY <1>2, <1>3, <1>4, <2>1 DEF Stream, LinesConserved, InTransit, NoBatch
  <2>3. WakeUp'
    BY <1>2, <1>4 DEF LogInv, WakeUp, postVars
  <2> QED BY <1>1, <1>2, <2>2, <2>3, SameRead DEF LogInv
<1>5. CASE ~UNCHANGED <<queue, pendingOutput, postVars>>
  <2>1. /\ pendingOutput # NoBatch /\ Len(queue) < QueueCap
        /\ queue' = queue \o pendingOutput /\ pendingOutput' = NoBatch /\ Post
    BY <1>5 DEF FlushPendingOutput
  <2>2. queue' \in Seq(Batch) /\ Len(queue') <= QueueCap
    BY <1>3, <2>1 DEF Stream
  <2>3. pendingOutput' \in Seq(Batch) /\ Len(pendingOutput') <= 1
    BY <2>1 DEF NoBatch
  <2>4. InTransit' = InTransit
    <3>1. queue' \o <<>> = queue'
      BY <2>2, ConcatEmptySeq
    <3> QED BY <2>1, <3>1 DEF InTransit, NoBatch
  <2>5. LinesConserved'
    BY <1>2, <1>3, <2>4 DEF LinesConserved, Stream
  <2>6. Stream'
    BY <1>2, <1>3, <2>1, <2>2, <2>3, <2>5 DEF Stream
  <2>7. WakeUp'
    <3>1. uiPc' \in {"idle", "drain", "take"} /\ WakeUp
      BY <1>2 DEF LogInv, WakeUp
    <3> QED BY <1>2, <2>1, <3>1, PostKeeps
  <2> QED BY <1>1, <1>2, <2>6, <2>7, SameRead DEF LogInv
<1> QED BY <1>4, <1>5

\* A new batch is what was fed since the last one.
LEMMA NewBatchKeeps ==
  ASSUME Stream, pendingOutput = NoBatch, NEW n \in Nat,
         pendingOutput' = <<OwnedBatch(version, n)>>, version' = version + n,
         UNCHANGED <<shownLines, queue>>, pc' # "work"
  PROVE  Stream'
<1>1. version \in Nat /\ shownLines \in Nat /\ queue \in Seq(Batch)
  BY DEF Stream
<1>2. InTransit = queue
  BY <1>1, ConcatEmptySeq DEF InTransit, NoBatch
<1>3. Contiguous(queue, shownLines, version)
  BY <1>2, ConservedContiguous DEF Stream, InTransit
<1>4. Contiguous(queue \o <<OwnedBatch(version, n)>>, shownLines, version + n)
  BY <1>1, <1>3, ContiguousAppend
<1>5. OwnedBatch(version, n) \in Batch
  BY <1>1 DEF OwnedBatch, Batch
<1>6. pendingOutput' \in Seq(Batch) /\ Len(pendingOutput') <= 1
  BY <1>5
<1>7. LinesConserved'
  BY <1>4 DEF LinesConserved, InTransit, Contiguous
<1> QED BY <1>1, <1>6, <1>7 DEF Stream

LEMMA SendDiagnosticsKeeps ==
  ASSUME LogInv, SendDiagnostics PROVE LogInv'
<1>1. GameTypes'
  <2>1. UNCHANGED <<lines, unread, tracked, changed, desired, force, reconDue, stop>> /\ pc' \in Places
    BY DEF SendDiagnostics, gameVars, wakeVars, srcVars, readVars, Places
  <2> QED BY <2>1 DEF LogInv, GameTypes
<1>2. UNCHANGED <<ready, origin>> /\ UNCHANGED WakeView
  BY DEF SendDiagnostics, readVars, postVars, snapVars, uiVars, WakeView
<1>3. Stream'
  <2>1. pendingOutput = NoBatch /\ Stream
    BY DEF SendDiagnostics, LogInv, Stream
  <2>2. UNCHANGED <<version, shownLines, queue>> /\ pc' # "work"
    BY DEF SendDiagnostics, snapVars, uiVars
  <2>3. pendingOutput' = <<OwnedBatch(version, 0)>>
    BY DEF SendDiagnostics
  <2>4. version' = version + 0
    BY <2>1, <2>2 DEF Stream
  <2> QED BY <2>1, <2>2, <2>3, <2>4, NewBatchKeeps
<1> QED BY <1>1, <1>2, <1>3, SameRead, SameWake DEF LogInv

LEMMA WaitKeeps ==
  ASSUME LogInv, Wait PROVE LogInv'
<1>1. GameTypes'
  <2>1. UNCHANGED <<lines, unread, tracked, changed, desired, force, reconDue, stop>> /\ pc' \in Places
    BY DEF Wait, gameVars, wakeVars, srcVars, Places
  <2> QED BY <2>1 DEF LogInv, GameTypes
<1>2. UNCHANGED WakeView
  BY DEF Wait, outVars, postVars, snapVars, uiVars, WakeView
<1>3. UNCHANGED <<version, shownLines, queue, pendingOutput>> /\ pc' # "work"
  BY DEF Wait, outVars, snapVars, uiVars
<1>4. ReadPart'
  <2>1. ready' = <<>> /\ origin' = <<>>
    BY DEF Wait
  <2>2. DOMAIN ready' = {} /\ DOMAIN origin' = {} /\ ready' \in Seq(Path)
    BY <2>1
  <2> QED BY <2>2 DEF ReadPart, ReadySound, IsInjective, ToSet
<1> QED BY <1>1, <1>2, <1>3, <1>4, SameStream, SameWake DEF LogInv

LEMMA WorkKeeps ==
  ASSUME LogInv, Work PROVE LogInv'
<1>1. PICK i \in DOMAIN ready :
        LET p    == ready[i]
            n    == Min({unread[p], ReadLimit})
            rest == SubSeq(ready, i + 1, Len(ready))
            kept == [q \in ToSet(rest) |-> origin[q]]
        IN /\ unread' = [unread EXCEPT ![p] = @ - n]
           /\ IF unread[p] > n
              THEN /\ ready' = Append(rest, p)
                   /\ origin' = ScheduledAs(kept, {p}, origin[p])
              ELSE ready' = rest /\ origin' = kept
           /\ pendingOutput' = IF n > 0 THEN <<OwnedBatch(version, n)>> ELSE NoBatch
           /\ version' = version + n
           /\ \E immediate \in BOOLEAN :
                AcceptUpdate(IF n > 0 THEN version + n ELSE 0, immediate)
  BY DEF Work
<1> DEFINE p    == ready[i]
           n    == Min({unread[p], ReadLimit})
           rest == SubSeq(ready, i + 1, Len(ready))
           kept == [q \in ToSet(rest) |-> origin[q]]
<1>2. ready \in Seq(Path) /\ IsInjective(ready) /\ ToSet(ready) = DOMAIN origin
  BY DEF LogInv, ReadPart, ReadySound
<1>3. p \in Path
  BY <1>2
<1>4. unread[p] \in Nat /\ unread[p] <= lines /\ unread \in [Path -> Nat] /\ lines \in Nat
  BY <1>3 DEF LogInv, GameTypes
<1>5. n \in Nat /\ n <= unread[p]
  BY <1>4 DEF Min
<1> HIDE DEF n
<1>6. GameTypes'
  <2>1. UNCHANGED <<lines, tracked, changed, desired, force, reconDue, stop>> /\ pc' \in Places
    BY DEF Work, wakeVars, srcVars, Places
  <2>2. unread' = [unread EXCEPT ![p] = @ - n]
    BY <1>1 DEF n
  <2>3. unread[p] - n \in Nat /\ unread[p] - n <= lines
    BY <1>4, <1>5
  <2> HIDE DEF p
  <2>4. unread' \in [Path -> Nat] /\ \A q \in Path : unread'[q] <= lines
    BY <1>3, <1>4, <2>2, <2>3 DEF LogInv, GameTypes
  <2> QED BY <2>1, <2>4 DEF LogInv, GameTypes
<1>7. ReadPart'
  <2>1. /\ rest \in Seq(Path) /\ IsInjective(rest) /\ p \notin ToSet(rest)
        /\ ToSet(rest) \subseteq ToSet(ready)
    BY <1>2, SuffixInjective
  <2> HIDE DEF rest
  <2>2. CASE unread[p] > n
    <3>1. ready' = Append(rest, p) /\ origin' = ScheduledAs(kept, {p}, origin[p])
      BY <1>1, <2>2 DEF n, rest
    <3> HIDE DEF p
    <3>2. DOMAIN origin' = ToSet(rest) \cup {p}
      BY <3>1 DEF ScheduledAs
    <3> DEFINE one == <<p>>
    <3>3. one \in Seq(Path) /\ DOMAIN one = {1} /\ one[1] = p
      BY <1>3
    <3>4. Append(rest, p) = rest \o one
      BY <1>3, <2>1
    <3> HIDE DEF one
    <3>5. IsInjective(one) /\ ToSet(one) = {p}
      BY <3>3 DEF IsInjective, ToSet
    <3>6. ready' \in Seq(Path) /\ IsInjective(ready') /\ ToSet(ready') = ToSet(rest) \cup {p}
      BY <2>1, <3>1, <3>3, <3>4, <3>5, ConcatInjective
    <3> QED BY <3>2, <3>6 DEF ReadPart, ReadySound
  <2>3. CASE ~(unread[p] > n)
    <3>1. ready' = rest /\ origin' = kept
      BY <1>1, <2>3 DEF n, rest
    <3> QED BY <2>1, <3>1 DEF ReadPart, ReadySound
  <2> QED BY <2>2, <2>3
<1>8. Stream'
  <2>1. pendingOutput = NoBatch /\ Stream /\ version \in Nat
    BY DEF Work, LogInv, Stream
  <2>2. UNCHANGED <<shownLines, queue>> /\ pc' # "work"
    BY DEF Work, uiVars
  <2>3. version' = version + n
    BY <1>1 DEF n
  <2>4. CASE n > 0
    <3>1. pendingOutput' = <<OwnedBatch(version, n)>>
      BY <1>1, <2>4 DEF n
    <3> QED BY <1>5, <2>1, <2>2, <2>3, <3>1, NewBatchKeeps
  <2>5. CASE ~(n > 0)
    <3>1. pendingOutput' = NoBatch
      BY <1>1, <2>5 DEF n
    <3>2. version' = version
      BY <1>5, <2>1, <2>3, <2>5
    <3> QED BY <2>1, <2>2, <3>1, <3>2, SameStream
  <2> QED BY <2>4, <2>5
<1>9. WakeUp'
  <2>1. UNCHANGED <<queue, uiPc, stop>>
    BY DEF Work, uiVars
  <2>2. PICK immediate \in BOOLEAN : AcceptUpdate(IF n > 0 THEN version + n ELSE 0, immediate)
    BY <1>1 DEF n
  <2>3. (IF n > 0 THEN version + n ELSE 0) \in Nat
    BY <1>5 DEF LogInv, Stream
  <2> QED BY <2>1, <2>2, <2>3, AcceptUpdateKeeps DEF LogInv
<1> QED BY <1>6, <1>7, <1>8, <1>9 DEF LogInv

-----------------------------------------------------------------------------
(* The owner thread *)

LEMMA ReplaceSourcesKeeps ==
  ASSUME LogInv, NEW s \in SUBSET Path, ReplaceSources(s) PROVE LogInv'
<1>1. GameTypes'
  <2>1. UNCHANGED <<lines, unread, tracked, changed, force, reconDue, stop, pc>> /\ desired' = s
    BY DEF ReplaceSources, wakeVars, readVars
  <2> QED BY <2>1 DEF LogInv, GameTypes
<1>2. UNCHANGED <<ready, origin>> /\ UNCHANGED WakeView
  BY DEF ReplaceSources, readVars, outVars, postVars, snapVars, uiVars, WakeView
<1>3. UNCHANGED <<version, shownLines, queue, pendingOutput, pc>>
  BY DEF ReplaceSources, outVars, snapVars, uiVars
<1> QED BY <1>1, <1>2, <1>3, SameRead, SameStream, SameWake DEF LogInv

\* What the owner thread does touches neither the games nor the reads.
LEMMA OwnerView ==
  ASSUME LogInv, UNCHANGED <<gameVars, wakeVars, srcVars, pc, readVars, stop>>
  PROVE  GameTypes' /\ ReadPart'
<1>1. GameTypes'
  <2>1. UNCHANGED <<lines, unread, tracked, changed, desired, force, reconDue, stop, pc>>
    BY DEF gameVars, wakeVars, srcVars, readVars
  <2> QED BY <2>1 DEF LogInv, GameTypes
<1>2. UNCHANGED <<ready, origin>>
  BY DEF readVars
<1> QED BY <1>1, <1>2, SameRead DEF LogInv

\* The flag is cleared before the queue is looked at, by a drain that will look.
LEMMA AcknowledgeKeeps ==
  ASSUME LogInv, Acknowledge PROVE LogInv'
<1>1. GameTypes' /\ ReadPart'
  BY OwnerView DEF Acknowledge
<1>2. Stream'
  <2>1. UNCHANGED <<version, shownLines, queue, pendingOutput, pc>>
    BY DEF Acknowledge, outVars, snapVars
  <2> QED BY <2>1, SameStream DEF LogInv
<1>3. WakeUp'
  <2>1. /\ messages > 0 /\ messages' = messages - 1 /\ posted' = (posted /\ stop)
        /\ uiPc' = IF stop THEN "idle" ELSE "drain"
        /\ UNCHANGED <<urgent, pendingSnap, snapshotBox, queue, stop>>
    BY DEF Acknowledge, outVars, snapVars
  <2>2. messages = 1 /\ messages' = 0 /\ stop \in BOOLEAN
    BY <2>1 DEF LogInv, WakeUp, GameTypes
  <2>3. CASE stop
    <3>1. posted' = posted /\ uiPc' = "idle"
      BY <2>1, <2>3 DEF LogInv, WakeUp
    <3> QED BY <2>1, <2>2, <2>3, <3>1 DEF LogInv, WakeUp
  <2>4. CASE ~stop
    <3>1. posted' = FALSE /\ uiPc' = "drain"
      BY <2>1, <2>4
    <3> QED BY <2>1, <2>2, <2>4, <3>1 DEF LogInv, WakeUp
  <2> QED BY <2>3, <2>4
<1> QED BY <1>1, <1>2, <1>3 DEF LogInv

\* A drain shows a prefix of the stream, and posts unless that was the whole queue.
LEMMA DrainKeeps ==
  ASSUME LogInv, Drain PROVE LogInv'
<1>1. GameTypes' /\ ReadPart'
  BY OwnerView DEF Drain
<1> DEFINE n == Min({DrainMax, Len(queue)})
<1>2. /\ version \in Nat /\ shownLines \in Nat /\ queue \in Seq(Batch)
      /\ Len(queue) <= QueueCap /\ pendingOutput \in Seq(Batch) /\ Len(pendingOutput) <= 1
  BY DEF LogInv, Stream
<1>3. /\ shownLines' = ShownAfter(n) /\ queue' = SubSeq(queue, n + 1, Len(queue))
      /\ IF n = DrainMax THEN Post ELSE UNCHANGED postVars
      /\ uiPc' = "take" /\ UNCHANGED <<version, pendingOutput, pc, urgent, pendingSnap, snapshotBox, stop>>
  BY DEF Drain, snapVars
<1>4. PICK m \in Nat : m = Len(queue)
  BY <1>2
<1>5. n \in 0 .. m /\ (n = DrainMax \/ n = m) /\ (n = 0 => m = 0)
  BY <1>4 DEF Min
<1> HIDE DEF n
<1>6. /\ queue' \in Seq(Batch) /\ Len(queue') = m - n
      /\ \A j \in 1 .. m - n : queue'[j] = queue[j + n]
  <2> DEFINE q == queue'
  <2>1. Drops(q, queue, n)
    BY <1>3, <1>4, <1>5 DEF Drops
  <2> HIDE DEF q
  <2>2. queue \in Seq(Batch)
    BY <1>2
  <2>3. /\ q \in Seq(Batch) /\ Len(q) = Len(queue) - n
        /\ \A j \in 1 .. Len(queue) - n : q[j] = queue[j + n]
    BY <2>1, <2>2, Remaining
  <2> QED BY <1>4, <2>3 DEF q
<1>7. Stream'
  <2>1. Contiguous(InTransit, shownLines, version) /\ InTransit \in Seq(Batch)
    BY <1>2, ConservedContiguous DEF LogInv, Stream, InTransit
  <2>2. CASE n = 0
    <3>1. queue = <<>> /\ queue' = <<>>
      <4>1. Len(queue) = 0 /\ Len(queue') = 0
        BY <1>4, <1>5, <1>6, <2>2
      <4> QED BY <1>2, <1>6, <4>1, EmptySeq
    <3>2. shownLines' = shownLines
      BY <1>3, <2>2 DEF ShownAfter
    <3> QED BY <1>3, <3>1, <3>2, SameStream DEF LogInv
  <2>3. CASE n # 0
    <3>1. n \in 1 .. m
      BY <1>5, <2>3
    <3>2. PICK k \in Nat : k = Len(pendingOutput)
      BY <1>2
    <3>3. /\ Len(InTransit) = m + k /\ InTransit[n] = queue[n]
          /\ \A j \in 1 .. m : InTransit[j] = queue[j]
          /\ \A j \in 1 .. k : InTransit[m + j] = pendingOutput[j]
      <4>1. /\ Len(InTransit) = m + k
            /\ \A j \in 1 .. m : InTransit[j] = queue[j]
            /\ \A j \in 1 .. k : InTransit[m + j] = pendingOutput[j]
        <5>1. Joins(InTransit, queue, pendingOutput)
          BY DEF InTransit, Joins
        <5> HIDE DEF InTransit
        <5>2. /\ Len(InTransit) = Len(queue) + Len(pendingOutput)
              /\ \A j \in 1 .. Len(queue) : InTransit[j] = queue[j]
              /\ \A j \in 1 .. Len(pendingOutput) : InTransit[Len(queue) + j] = pendingOutput[j]
          BY <1>2, <5>1, Joined
        <5> QED BY <1>4, <3>2, <5>2
      <4> QED BY <3>1, <4>1
    <3>4. Contiguous(SubSeq(InTransit, n + 1, Len(InTransit)), InTransit[n].upto, version)
      <4>1. n \in 1 .. Len(InTransit)
        BY <3>1, <3>2, <3>3
      <4>2. version \in Nat /\ shownLines \in Nat
        BY <1>2
      <4> HIDE DEF InTransit
      <4> QED BY <2>1, <4>1, <4>2, ContiguousSuffix
    <3>5. queue' \o pendingOutput' = SubSeq(InTransit, n + 1, Len(InTransit))
      <4> DEFINE q == queue'
                 a == q \o pendingOutput
                 b == SubSeq(InTransit, n + 1, Len(InTransit))
                 r == m - n
      <4>1. r \in Nat /\ m = r + n
        BY <1>4, <3>1
      <4>2. q \in Seq(Batch) /\ Len(q) = r /\ \A j \in 1 .. r : q[j] = queue[j + n]
        BY <1>6
      <4>3. m + k \in Nat /\ n \in Nat /\ n <= m + k /\ (m + k) - n = r + k
        BY <1>4, <3>1, <3>2
      <4> HIDE DEF q, r
      <4>4. /\ a \in Seq(Batch) /\ Len(a) = r + k
            /\ \A j \in 1 .. r : a[j] = q[j]
            /\ \A j \in 1 .. k : a[r + j] = pendingOutput[j]
        <5>1. Joins(a, q, pendingOutput)
          BY DEF Joins
        <5>2. pendingOutput \in Seq(Batch)
          BY <1>2
        <5> HIDE DEF a
        <5>3. q \in Seq(Batch)
          BY <4>2
        <5>4. /\ a \in Seq(Batch) /\ Len(a) = Len(q) + Len(pendingOutput)
              /\ \A j \in 1 .. Len(q) : a[j] = q[j]
              /\ \A j \in 1 .. Len(pendingOutput) : a[Len(q) + j] = pendingOutput[j]
          BY <5>1, <5>2, <5>3, Joined
        <5> QED BY <3>2, <4>2, <5>4
      <4>5. /\ b \in Seq(Batch) /\ Len(b) = r + k
            /\ \A j \in 1 .. r + k : b[j] = InTransit[j + n]
        <5> HIDE DEF InTransit
        <5>1. Drops(b, InTransit, n)
          BY <3>3, <4>3 DEF Drops
        <5>2. InTransit \in Seq(Batch) /\ Len(InTransit) - n = r + k
          BY <2>1, <3>3, <4>3
        <5> HIDE DEF b
        <5> QED BY <5>1, <5>2, Remaining
      <4> HIDE DEF a, b
      <4>6. ASSUME NEW j \in 1 .. r + k PROVE a[j] = b[j]
        <5>1. CASE j \in 1 .. r
          <6>1. j + n \in 1 .. m
            BY <3>1, <4>1, <5>1
          <6> QED BY <3>3, <4>2, <4>4, <4>5, <4>6, <5>1, <6>1
        <5>2. CASE j \notin 1 .. r
          <6>1. PICK i \in 1 .. k : j = r + i
            <7>1. j - r \in 1 .. k /\ j = r + (j - r)
              BY <3>2, <4>1, <4>6, <5>2
            <7> QED BY <7>1
          <6>2. j + n = m + i
            BY <3>1, <3>2, <4>1, <6>1
          <6> QED BY <3>3, <4>4, <4>5, <4>6, <6>1, <6>2
        <5> QED BY <5>1, <5>2
      <4>7. a = b
        BY <4>4, <4>5, <4>6, SeqEqual
      <4>8. a = queue' \o pendingOutput'
        BY <1>3 DEF a, q
      <4> QED BY <4>7, <4>8 DEF b
    <3>6. shownLines' = InTransit[n].upto /\ shownLines' \in Nat
      <4>1. shownLines' = queue[n].upto
        BY <1>3, <2>3 DEF ShownAfter
      <4>2. queue[n] \in Batch
        BY <1>2, <1>4, <3>1
      <4> QED BY <3>3, <4>1, <4>2 DEF Batch
    <3>7. Contiguous(queue' \o pendingOutput', shownLines', version')
      BY <1>3, <3>4, <3>5, <3>6
    <3>8. LinesConserved'
      BY <3>7 DEF Contiguous, LinesConserved, InTransit
    <3>9. Len(queue') <= QueueCap /\ queue' \in Seq(Batch)
      BY <1>2, <1>4, <1>5, <1>6
    <3>10. pc = "work" => pendingOutput = NoBatch
      BY DEF Stream, LogInv
    <3>11. UNCHANGED <<version, pendingOutput, pc>>
      BY <1>3
    <3> QED BY <1>2, <3>6, <3>8, <3>9, <3>10, <3>11 DEF Stream
  <2> QED BY <2>2, <2>3
<1>8. WakeUp'
  <2>1. CASE n = DrainMax
    BY <1>3, <2>1, PostKeeps DEF LogInv
  <2>2. CASE n # DrainMax
    <3>1. queue' = <<>> /\ UNCHANGED <<posted, messages>>
      BY <1>3, <1>4, <1>5, <1>6, <2>2, EmptySeq DEF postVars
    <3> QED BY <1>3, <3>1 DEF LogInv, WakeUp
  <2> QED BY <2>1, <2>2
<1> QED BY <1>1, <1>7, <1>8 DEF LogInv

LEMMA TakeDpsSnapshotKeeps ==
  ASSUME LogInv, TakeDpsSnapshot PROVE LogInv'
<1>1. GameTypes' /\ ReadPart'
  BY OwnerView DEF TakeDpsSnapshot
<1>2. Stream'
  <2>1. UNCHANGED <<version, shownLines, queue, pendingOutput, pc>>
    BY DEF TakeDpsSnapshot, outVars
  <2> QED BY <2>1, SameStream DEF LogInv
<1>3. WakeUp'
  <2>1. /\ uiPc = "take" /\ uiPc' = "idle" /\ snapshotBox' = 0
        /\ UNCHANGED <<posted, messages, urgent, pendingSnap, queue, stop>>
    BY DEF TakeDpsSnapshot, outVars, postVars
  <2> QED BY <2>1 DEF LogInv, WakeUp
<1> QED BY <1>1, <1>2, <1>3 DEF LogInv

LEMMA StopKeeps ==
  ASSUME LogInv, Stop PROVE LogInv'
<1>1. GameTypes'
  <2>1. UNCHANGED <<lines, unread, tracked, changed, desired, force, reconDue, pc>> /\ stop' = TRUE
    BY DEF Stop, gameVars, wakeVars, srcVars, readVars
  <2> QED BY <2>1 DEF LogInv, GameTypes
<1>2. UNCHANGED <<ready, origin>> /\ UNCHANGED <<version, shownLines, queue, pendingOutput, pc>>
  BY DEF Stop, readVars, outVars, snapVars, uiVars
<1>3. WakeUp'
  <2>1. UNCHANGED <<posted, messages, urgent, uiPc, pendingSnap, snapshotBox, queue>> /\ stop' = TRUE
    BY DEF Stop, outVars, postVars, snapVars, uiVars
  <2> QED BY <2>1 DEF LogInv, WakeUp
<1> QED BY <1>1, <1>2, <1>3, SameRead, SameStream DEF LogInv

-----------------------------------------------------------------------------

LEMMA NextLogInv == LogInv /\ [LogNext]_logVars => LogInv'
<1> SUFFICES ASSUME LogInv, [LogNext]_logVars PROVE LogInv'
  OBVIOUS
<1>1. CASE \E p \in Path : WriteLine(p)
  BY <1>1, WriteLineKeeps
<1>2. CASE WatcherReports \/ TimePasses
  BY <1>2, WatcherReportsKeeps, TimePassesKeeps
<1>3. CASE WorkerStep
  BY <1>3, WorkerStopsKeeps, ApplySourcesKeeps, CollectWatcherActivityKeeps, MaybeReconcileKeeps,
     WorkerTickKeeps, FlushPendingOutputKeeps, SendDiagnosticsKeeps, WorkKeeps, WaitKeeps
  DEF WorkerStep
<1>4. CASE OwnerStep
  BY <1>4, AcknowledgeKeeps, DrainKeeps, TakeDpsSnapshotKeeps DEF OwnerStep
<1>5. CASE Stop
  BY <1>5, StopKeeps
<1>6. CASE \E s \in SUBSET Path : ReplaceSources(s)
  BY <1>6, ReplaceSourcesKeeps
<1>7. CASE UNCHANGED logVars
  <2>1. UNCHANGED <<lines, unread, tracked, changed, desired, force, reconDue, stop, pc>>
    BY <1>7 DEF logVars, gameVars, wakeVars, srcVars, readVars
  <2>2. UNCHANGED <<ready, origin>> /\ UNCHANGED WakeView
    BY <1>7 DEF logVars, readVars, outVars, postVars, snapVars, uiVars, WakeView
  <2>3. UNCHANGED <<version, shownLines, queue, pendingOutput>>
    BY <1>7 DEF logVars, outVars, snapVars, uiVars
  <2>4. GameTypes'
    BY <2>1 DEF LogInv, GameTypes
  <2> QED BY <2>1, <2>2, <2>3, <2>4, SameRead, SameStream, SameWake DEF LogInv
<1> QED BY <1>1, <1>2, <1>3, <1>4, <1>5, <1>6, <1>7 DEF LogNext

\* Whatever the games, the watcher, the worker and the owner thread do in between: a path waits
\* for its read once, queued output always has a wake-up on its way, and what is queued goes on
\* where the overlay is, without a gap, up to the last line that was fed to the pipeline
\* (LogWorker::run, OutputWake, on_logs_ready).
THEOREM HandOverLosesNothing == LogSpec => []WorkerSound
<1>1. LogInit => LogInv
  BY InitLogInv
<1>2. LogInv /\ [LogNext]_logVars => LogInv'
  BY NextLogInv
<1>3. LogInv => WorkerSound
  BY LogInvImpliesSound
<1> QED BY <1>1, <1>2, <1>3, PTL DEF LogSpec

(***************************************************************************)
(* CastBars                                                                *)
(***************************************************************************)

\* What a client's cast may be.
CastIs(c) ==
  \/ c = NoCast
  \/ \E phase \in {"complete", "fizzled", "resisted", "interrupted"}, age \in Nat : \E name :
       c = [phase |-> phase, name |-> name, age |-> age]
  \/ \E spell \in Catalog, age \in Nat : \E name, class, key, estimate :
       c = [phase |-> "active", name |-> name, spell |-> spell, class |-> class, key |-> key,
            age |-> age, estimate |-> estimate]

\* A running cast c is one that character `who' can have begun, under some class.
BeganAs(c, who) ==
  \E k : c.class = EffectiveClass(c.spell, k) /\ c.key = EstimateKey(who, c.spell, k)

\* It is one that `who' begins while the window's class is w.
FitsPersona(c, who, w) ==
  c.class = EffectiveClass(c.spell, w) /\ c.key = EstimateKey(who, c.spell, w)

\* Classes that changed in a batch are reconciled with the casts at its end.
Suits(c, who, w, batch) ==
  c.phase = "active" => BeganAs(c, who) /\ (batch = FALSE => FitsPersona(c, who, w))

\* Estimates that EstimatesSane allows.
Sane(E) ==
  /\ \A e, f \in E : e.key = f.key => e = f
  /\ \A e \in E : e.millis \in 1 .. (10 * MaxSample)

\* A file that can be read holds such estimates, and of the old ones what is left.
FileSane(file) == \E E, L : Loaded(file) = Content(E, L) /\ Sane(E) /\ L \subseteq LegacyTimes

CastsKept ==
  /\ unsaved \in BOOLEAN /\ DOMAIN casts = Caster
  /\ \A p \in Caster : CastIs(casts[p])
  /\ \A p \in Caster :
       p \notin reassigned => Suits(casts[p], played[p], WindowClass(p), classChanged)
  /\ played \in [Caster -> Character] /\ DOMAIN classOf = Character /\ classChanged \in BOOLEAN
LearnedKept ==
  /\ Sane(estimates) /\ legacy \subseteq LegacyTimes
  /\ FileSane(castFile) /\ EstimatesSaved

CastInv == CastsKept /\ LearnedKept

USE CastTimes, LegacyFile

LEMMA MaxOfOne ==
  ASSUME NEW x \in Int PROVE Max({x}) = x
BY DEF Max

LEMMA LoadedContent ==
  ASSUME NEW E, NEW L PROVE Loaded(Content(E, L)) = Content(E, L)
<1>1. Content(E, L) # Torn
  <2>1. DOMAIN Content(E, L) = {"learned", "old"} /\ DOMAIN Torn = {"torn"}
    BY DEF Content, Torn
  <2>2. "learned" \notin {"torn"}
    OBVIOUS
  <2> QED BY <2>1, <2>2
<1> QED BY <1>1 DEF Loaded

LEMMA ContentParts ==
  ASSUME NEW E, NEW L PROVE Content(E, L).learned = E /\ Content(E, L).old = L
BY DEF Content

\* Whatever a save does, the file stays readable, and is up to date unless a save is due.
LEMMA SaveKeeps ==
  ASSUME NEW E, NEW L, Sane(E), L \subseteq LegacyTimes, FileSane(castFile), NEW dirty \in BOOLEAN,
         ~dirty => Loaded(castFile) = Content(E, L),
         Save(E, L, dirty)
  PROVE  FileSane(castFile') /\ unsaved' \in BOOLEAN /\ (~unsaved' => Loaded(castFile)' = Content(E, L))
<1>1. Loaded(castFile)' = Loaded(castFile')
  BY DEF Loaded
<1>2. CASE castFile' = Content(E, L) /\ unsaved' = FALSE
  <2>1. Loaded(castFile') = Content(E, L)
    BY <1>2, LoadedContent
  <2>2. FileSane(castFile')
    BY <2>1 DEF FileSane
  <2> QED BY <1>1, <1>2, <2>1, <2>2
<1>3. CASE castFile' = castFile /\ unsaved' = dirty
  BY <1>1, <1>3
<1> QED BY <1>2, <1>3 DEF Save

\* An estimate that moves to its new key is the only one there.
LEMMA MovedSane ==
  ASSUME NEW p, NEW spell, NEW class, Sane(estimates), legacy \subseteq LegacyTimes,
         Migrates(p, spell, class)
  PROVE  Sane(estimates \cup {[key |-> EstimateKey(p, spell, class), millis |-> e.millis,
                               base |-> e.base] : e \in LegacyFor(p, spell, class)})
<1> DEFINE key == EstimateKey(p, spell, class)
           moved == {[key |-> key, millis |-> e.millis, base |-> e.base] :
                        e \in LegacyFor(p, spell, class)}
<1>1. \A e \in estimates : e.key # key
  BY DEF Migrates, Keyed
<1>2. \A e, f \in LegacyFor(p, spell, class) : e = f
  BY DEF LegacyFor
<1>3. \A e \in LegacyFor(p, spell, class) : e.millis \in 1 .. (10 * MaxSample)
  BY DEF LegacyFor
<1> HIDE DEF key
<1>4. \A m \in moved : m.key = key /\ \E e \in LegacyFor(p, spell, class) :
                          m = [key |-> key, millis |-> e.millis, base |-> e.base]
  OBVIOUS
<1>5. \A m \in moved : m.millis \in 1 .. (10 * MaxSample)
  BY <1>3, <1>4
<1>6. \A m, n \in moved : m = n
  BY <1>2, <1>4
<1> HIDE DEF moved
<1>7. Sane(estimates \cup moved)
  BY <1>1, <1>4, <1>5, <1>6 DEF Sane
<1> QED BY <1>7 DEF moved, key

\* What a confirmed cast teaches stays within the longest sample.
LEMMA LearnedSane ==
  ASSUME NEW c, c.spell \in Catalog, NEW sample \in 1 .. MaxSample, Sane(estimates)
  PROVE  Sane(Learned(c, sample))
<1> DEFINE previous == {e \in Keyed(c.key) : e.base = c.spell.base}
           before == IF previous = {} THEN 10 * c.spell.base
                     ELSE Max({e.millis : e \in previous})
           new == [key |-> c.key, base |-> c.spell.base, millis |-> (9 * 10 * sample + before) \div 10]
<1>1. before \in 0 .. (10 * MaxSample)
  <2>1. CASE previous = {}
    <3>1. c.spell.base \in 0 .. MaxSample
      OBVIOUS
    <3> QED BY <2>1, <3>1
  <2>2. CASE previous # {}
    <3>1. PICK e \in previous : TRUE
      BY <2>2
    <3>2. e.millis \in 1 .. (10 * MaxSample)
      BY <3>1 DEF Keyed, Sane
    <3>3. {f.millis : f \in previous} = {e.millis}
      BY <3>1 DEF Keyed, Sane
    <3>4. Max({e.millis}) = e.millis
      BY <3>2, MaxOfOne
    <3>5. before = Max({f.millis : f \in previous})
      BY <2>2
    <3> HIDE DEF before, previous
    <3>6. before = e.millis
      BY ONLY <3>3, <3>4, <3>5, Zenon
    <3>7. MaxSample \in Nat
      OBVIOUS
    <3> QED BY ONLY <3>2, <3>6, <3>7
  <2> QED BY <2>1, <2>2
<1>2. (9 * 10 * sample + before) \div 10 \in 1 .. (10 * MaxSample)
  <2> HIDE DEF before
  <2>1. PICK b \in Nat : b = before /\ b <= 10 * MaxSample
    BY <1>1
  <2>2. MaxSample \in Nat
    OBVIOUS
  <2>3. (9 * 10 * sample + b) \div 10 \in 1 .. (10 * MaxSample)
    BY ONLY <2>1, <2>2, sample \in 1 .. MaxSample
  <2> QED BY <2>1, <2>3
<1>3. Learned(c, sample) = (estimates \ Keyed(c.key)) \cup {new}
  BY DEF Learned
<1> HIDE DEF before
<1>4. new.key = c.key /\ new.millis \in 1 .. (10 * MaxSample)
  BY <1>2
<1>5. \A e \in estimates \ Keyed(c.key) : e \in estimates /\ e.key # c.key
  BY DEF Keyed
<1> HIDE DEF new
<1> QED BY <1>3, <1>4, <1>5 DEF Sane

\* A cast whose class is the window's is one of the persona it has.
LEMMA ReconciledFits ==
  ASSUME NEW c, NEW who, NEW w, BeganAs(c, who), c.class = w
  PROVE  FitsPersona(c, who, w)
<1>1. PICK k : c.class = EffectiveClass(c.spell, k) /\ c.key = EstimateKey(who, c.spell, k)
  BY DEF BeganAs
<1>2. EffectiveClass(c.spell, w) = EffectiveClass(c.spell, k)
  <2>1. CASE Cardinality(c.spell.classes) = 1
    BY <2>1 DEF EffectiveClass
  <2>2. CASE Cardinality(c.spell.classes) # 1
    BY <1>1, <2>2 DEF EffectiveClass
  <2> QED BY <2>1, <2>2
<1>3. EstimateKey(who, c.spell, w) = EstimateKey(who, c.spell, k)
  BY <1>2 DEF EstimateKey
<1> QED BY <1>1, <1>2, <1>3 DEF FitsPersona

LEMMA FittingSuits ==
  ASSUME NEW c, NEW who, NEW w, NEW batch, FitsPersona(c, who, w)
  PROVE  Suits(c, who, w, batch)
BY DEF FitsPersona, BeganAs, Suits

\* What a name resolves to is in the catalogue.
LEMMA FirstSpell ==
  ASSUME NEW S \in SUBSET Catalog, S # {}
  PROVE  (CHOOSE s \in S : \A t \in S : s.id <= t.id) \in Catalog
<1>1. {s.id : s \in S} \in SUBSET Nat /\ {s.id : s \in S} # {}
  OBVIOUS
<1>2. PICK n \in {s.id : s \in S} : \A k \in {s.id : s \in S} : n <= k
  BY <1>1, LeastNatural
<1>3. \E s \in S : \A t \in S : s.id <= t.id
  BY <1>2
<1> QED BY <1>3

LEMMA ResolvedIs ==
  ASSUME NEW name, NEW class
  PROVE  ResolveSpell(name, class) = NoSpell \/ ResolveSpell(name, class) \in Catalog
<1> DEFINE candidates == {s \in Catalog : s.name = name}
           mine == {s \in candidates : class \in s.classes}
           players == {s \in candidates : s.classes # {}}
<1>1. \A S \in SUBSET Catalog : UniqueCandidate(S) = NoSpell \/ UniqueCandidate(S) \in Catalog
  BY FirstSpell DEF UniqueCandidate
<1>2. /\ UniqueCandidate(players) = NoSpell \/ UniqueCandidate(players) \in Catalog
      /\ UniqueCandidate(candidates) = NoSpell \/ UniqueCandidate(candidates) \in Catalog
  BY <1>1
<1>3. mine # {} => (CHOOSE s \in mine : \A t \in mine : s.id <= t.id) \in Catalog
  BY FirstSpell
<1> QED BY <1>2, <1>3 DEF ResolveSpell

\* An event leaves the other clients' casts alone.
LEMMA OtherCasts ==
  ASSUME NEW p \in Caster, NEW c, CastsKept, CastIs(c),
         p \notin reassigned' => Suits(c, played[p], WindowClass(p), classChanged),
         reassigned \ {p} \subseteq reassigned',
         casts' = [casts EXCEPT ![p] = c], UNCHANGED <<played, classOf, classChanged>>,
         unsaved' \in BOOLEAN
  PROVE  CastsKept'
<1>1. DOMAIN casts' = Caster /\ \A q \in Caster : casts'[q] = IF q = p THEN c ELSE casts[q]
  BY DEF CastsKept
<1>2. \A q \in Caster : CastIs(casts'[q])
  BY <1>1 DEF CastsKept
<1>3. ASSUME NEW q \in Caster, q \notin reassigned'
      PROVE  Suits(casts'[q], played[q], WindowClass(q), classChanged)
  BY <1>1, <1>3 DEF CastsKept
<1>4. \A q \in Caster : WindowClass(q)' = WindowClass(q)
  BY DEF WindowClass
<1>5. played' = played /\ classOf' = classOf /\ classChanged' = classChanged
  OBVIOUS
<1> QED BY <1>1, <1>2, <1>3, <1>4, <1>5 DEF CastsKept

LEMMA PlainCasts ==
  /\ CastIs(NoCast) /\ \A who, w, batch : Suits(NoCast, who, w, batch)
  /\ \A phase \in {"complete", "fizzled", "resisted", "interrupted"}, age \in Nat : \A name :
       LET c == [phase |-> phase, name |-> name, age |-> age]
       IN  CastIs(c) /\ \A who, w, batch : Suits(c, who, w, batch)
<1>1. CastIs(NoCast) /\ \A who, w, batch : Suits(NoCast, who, w, batch)
  BY DEF CastIs, Suits, NoCast
<1>2. ASSUME NEW phase \in {"complete", "fizzled", "resisted", "interrupted"}, NEW age \in Nat,
             NEW name
      PROVE  LET c == [phase |-> phase, name |-> name, age |-> age]
             IN  CastIs(c) /\ \A who, w, batch : Suits(c, who, w, batch)
  <2> DEFINE c == [phase |-> phase, name |-> name, age |-> age]
  <2>1. c.phase # "active"
    OBVIOUS
  <2>2. CastIs(c)
    BY DEF CastIs
  <2> QED BY <2>1, <2>2 DEF Suits
<1> QED BY <1>1, <1>2

LEMMA RunningIs ==
  ASSUME NEW c, CastIs(c), c.phase = "active"
  PROVE  c.spell \in Catalog /\ c.age \in Nat
<1>1. c # NoCast
  BY DEF NoCast
<1>2. \A phase \in {"complete", "fizzled", "resisted", "interrupted"} : \A age, name :
        c # [phase |-> phase, name |-> name, age |-> age]
  OBVIOUS
<1> QED BY <1>1, <1>2 DEF CastIs

LEMMA StartKeeps ==
  ASSUME CastInv, NEW p \in Caster, NEW who, NEW name, NEW lag \in Nat,
         StartCast(p, who, name, lag),
         reassigned' = IF who = played[p] THEN reassigned \ {p} ELSE reassigned \cup {p},
         UNCHANGED <<played, classOf, classChanged>>
  PROVE  CastInv'
<1> DEFINE w     == WindowClass(p)
           spell == ResolveSpell(name, w)
           class == EffectiveClass(spell, w)
           base  == BaseDuration(spell, w)
           key   == EstimateKey(who, spell, w)
           moved == IF Migrates(who, spell, w)
                    THEN {[key |-> key, millis |-> e.millis, base |-> e.base] :
                             e \in LegacyFor(who, spell, w)}
                    ELSE {}
           known == {e \in Keyed(key) \cup moved : e.base = base}
<1>1. /\ CastsKept /\ Sane(estimates) /\ legacy \subseteq LegacyTimes /\ FileSane(castFile)
      /\ unsaved \in BOOLEAN /\ (~unsaved => Loaded(castFile) = Content(estimates, legacy))
  BY DEF CastInv, LearnedKept, CastsKept, EstimatesSaved
<1>2. ASSUME Save(estimates, legacy, unsaved), estimates' = estimates, legacy' = legacy
      PROVE  LearnedKept' /\ unsaved' \in BOOLEAN
  <2>1. /\ FileSane(castFile') /\ unsaved' \in BOOLEAN
        /\ ~unsaved' => Loaded(castFile)' = Content(estimates, legacy)
    BY <1>1, <1>2, SaveKeeps
  <2> QED BY <1>1, <1>2, <2>1 DEF LearnedKept, EstimatesSaved, Sane, FileSane, Content, Loaded
<1>7. reassigned \ {p} \subseteq reassigned'
  OBVIOUS
<1>3. CASE /\ casts' = [casts EXCEPT ![p] = NoCast]
           /\ Save(estimates, legacy, unsaved)
           /\ UNCHANGED <<estimates, legacy>>
  <2>1. LearnedKept' /\ unsaved' \in BOOLEAN
    BY <1>2, <1>3
  <2>2. CastsKept'
    BY <1>1, <1>3, <1>7, <2>1, PlainCasts, OtherCasts
  <2> QED BY <2>1, <2>2 DEF CastInv
<1>4. CASE /\ casts' = [casts EXCEPT ![p] = [phase |-> "complete", name |-> name, age |-> lag]]
           /\ Save(estimates, legacy, unsaved)
           /\ UNCHANGED <<estimates, legacy>>
  <2>1. LearnedKept' /\ unsaved' \in BOOLEAN
    BY <1>2, <1>4
  <2> DEFINE c == [phase |-> "complete", name |-> name, age |-> lag]
  <2>2. CastIs(c) /\ Suits(c, played[p], WindowClass(p), classChanged)
    BY PlainCasts
  <2> HIDE DEF c
  <2>3. CastsKept'
    <3>1. casts' = [casts EXCEPT ![p] = c]
      BY <1>4 DEF c
    <3> QED BY <1>1, <1>7, <2>1, <2>2, <3>1, OtherCasts
  <2> QED BY <2>1, <2>3 DEF CastInv
<1>5. CASE /\ spell # NoSpell
           /\ estimates' = estimates \cup moved
           /\ legacy' = IF moved # {} THEN legacy \ LegacyFor(who, spell, w) ELSE legacy
           /\ casts' = [casts EXCEPT ![p] =
                  [phase |-> "active", name |-> name, spell |-> spell, class |-> class, key |-> key,
                   age |-> lag,
                   estimate |-> IF known = {} THEN 10 * base
                                ELSE Max({1} \cup {e.millis : e \in known})]]
           /\ Save(estimates', legacy', unsaved \/ Migrates(who, spell, w))
  <2>1. spell \in Catalog
    BY <1>5, ResolvedIs
  <2>2. Sane(estimates') /\ legacy' \subseteq LegacyTimes
    <3>1. Sane(estimates \cup moved)
      <4>1. CASE Migrates(who, spell, w)
        <5> HIDE DEF spell, w
        <5> QED BY <1>1, <4>1, MovedSane
      <4>2. CASE ~Migrates(who, spell, w)
        <5>1. estimates \cup moved = estimates
          BY <4>2
        <5> QED BY <1>1, <5>1
      <4> QED BY <4>1, <4>2
    <3> QED BY <1>1, <1>5, <3>1
  <2>3. LearnedKept' /\ unsaved' \in BOOLEAN
    <3> DEFINE dirty == unsaved \/ Migrates(who, spell, w)
    <3>1. dirty \in BOOLEAN
      OBVIOUS
    <3>2. ~dirty => Loaded(castFile) = Content(estimates', legacy')
      <4>1. ~dirty => ~unsaved /\ ~Migrates(who, spell, w)
        OBVIOUS
      <4>2. ~Migrates(who, spell, w) => moved = {}
        OBVIOUS
      <4>3. moved = {} => estimates' = estimates /\ legacy' = legacy
        BY <1>5
      <4> HIDE DEF moved
      <4> QED BY <1>1, <4>1, <4>2, <4>3
    <3>3. Save(estimates', legacy', dirty)
      BY <1>5
    <3> HIDE DEF dirty
    <3>4. PICK E, L : E = estimates' /\ L = legacy'
      OBVIOUS
    <3>5. /\ FileSane(castFile') /\ unsaved' \in BOOLEAN
          /\ ~unsaved' => Loaded(castFile)' = Content(E, L)
      <4>1. Sane(E) /\ L \subseteq LegacyTimes /\ Save(E, L, dirty)
        BY <2>2, <3>3, <3>4
      <4>2. ~dirty => Loaded(castFile) = Content(E, L)
        BY <3>2, <3>4
      <4>3. FileSane(castFile)
        BY <1>1
      <4> QED BY ONLY <3>1, <4>1, <4>2, <4>3, SaveKeeps
    <3>6. Content(E, L) = Content(estimates, legacy)'
      BY <3>4 DEF Content
    <3> QED BY <2>2, <3>5, <3>6 DEF LearnedKept, EstimatesSaved, Sane, FileSane, Content, Loaded
  <2> DEFINE c == [phase |-> "active", name |-> name, spell |-> spell, class |-> class,
                   key |-> key, age |-> lag,
                   estimate |-> IF known = {} THEN 10 * base
                                ELSE Max({1} \cup {e.millis : e \in known})]
  <2>4. CastIs(c) /\ FitsPersona(c, who, w)
    <3> HIDE DEF w, spell, base, known
    <3>1. c.class = class /\ c.spell = spell /\ c.key = key
      OBVIOUS
    <3>2. FitsPersona(c, who, w)
      BY <3>1 DEF FitsPersona
    <3> HIDE DEF class, key
    <3>3. CastIs(c)
      BY <2>1 DEF CastIs
    <3> QED BY <3>2, <3>3
  <2>5. casts' = [casts EXCEPT ![p] = c]
    BY <1>5
  <2> HIDE DEF c
  <2>6. CastsKept'
    <3>1. p \notin reassigned' => Suits(c, played[p], w, classChanged)
      <4>1. p \notin reassigned' => who = played[p]
        OBVIOUS
      <4> QED BY <2>4, <4>1, FittingSuits
    <3> QED BY <1>1, <1>7, <2>3, <2>4, <2>5, <3>1, OtherCasts DEF w
  <2> QED BY <2>3, <2>6 DEF CastInv
<1>6. QED
  BY <1>3, <1>4, <1>5 DEF StartCast

LEMMA SampleIs ==
  ASSUME NEW age \in Nat, NEW lag \in Nat, NEW most, NEW s,
         s = IF age > lag THEN age - lag ELSE 0, s > 0, s <= most
  PROVE  s \in 1 .. most
<1>1. CASE age > lag
  BY <1>1
<1>2. CASE ~(age > lag)
  BY <1>2
<1> QED BY <1>1, <1>2

LEMMA EndKeeps ==
  ASSUME CastInv, NEW p \in Caster, NEW outcome \in {"complete", "fizzled", "resisted", "interrupted"},
         NEW lag \in Nat, EndCast(p, outcome, lag),
         UNCHANGED <<played, classOf, classChanged, reassigned>>
  PROVE  CastInv'
<1> DEFINE c      == casts[p]
           sample == IF c.age > lag THEN c.age - lag ELSE 0
           trains == outcome # "interrupted" /\ sample > 0 /\ sample <= MaxSample /\ c.key # <<>>
<1>1. /\ CastsKept /\ Sane(estimates) /\ legacy \subseteq LegacyTimes /\ FileSane(castFile)
      /\ unsaved \in BOOLEAN /\ (~unsaved => Loaded(castFile) = Content(estimates, legacy))
  BY DEF CastInv, LearnedKept, CastsKept, EstimatesSaved
<1>2. c.spell \in Catalog /\ c.age \in Nat
  BY <1>1, RunningIs DEF EndCast, CastsKept
<1>3. /\ casts' = [casts EXCEPT ![p] = [phase |-> outcome, name |-> c.name, age |-> lag]]
      /\ estimates' = IF trains THEN Learned(c, sample) ELSE estimates
      /\ Save(estimates', legacy, unsaved \/ trains) /\ legacy' = legacy
  BY DEF EndCast
<1>4. Sane(estimates')
  <2>1. CASE trains
    <3>1. sample \in 1 .. MaxSample
      <4>1. c.age \in Nat /\ sample > 0 /\ sample <= MaxSample
        BY <1>2, <2>1
      <4>2. sample = IF c.age > lag THEN c.age - lag ELSE 0
        OBVIOUS
      <4> HIDE DEF c, sample
      <4> QED BY <4>1, <4>2, SampleIs
    <3> HIDE DEF c, sample
    <3> QED BY <1>1, <1>2, <1>3, <2>1, <3>1, LearnedSane
  <2>2. CASE ~trains
    BY <1>1, <1>3, <2>2
  <2> QED BY <2>1, <2>2
<1> DEFINE dirty == unsaved \/ trains
<1>5. dirty \in BOOLEAN /\ (~dirty => Loaded(castFile) = Content(estimates', legacy))
  <2>1. ~dirty => ~unsaved /\ ~trains
    OBVIOUS
  <2> HIDE DEF trains
  <2> QED BY <1>1, <1>3, <2>1
<1>6. Save(estimates', legacy, dirty)
  BY <1>3
<1> HIDE DEF dirty
<1>7. PICK E : E = estimates'
  OBVIOUS
<1>8. /\ FileSane(castFile') /\ unsaved' \in BOOLEAN
      /\ ~unsaved' => Loaded(castFile)' = Content(E, legacy)
  <2>1. Sane(E) /\ Save(E, legacy, dirty) /\ (~dirty => Loaded(castFile) = Content(E, legacy))
    BY <1>4, <1>5, <1>6, <1>7
  <2>2. legacy \subseteq LegacyTimes /\ FileSane(castFile) /\ dirty \in BOOLEAN
    BY <1>1, <1>5
  <2> QED BY ONLY <2>1, <2>2, SaveKeeps
<1>9. LearnedKept'
  <2>1. Content(E, legacy) = Content(estimates, legacy)'
    BY <1>3, <1>7 DEF Content
  <2> QED BY <1>1, <1>3, <1>4, <1>8, <2>1
          DEF LearnedKept, EstimatesSaved, Sane, FileSane, Content, Loaded
<1>10. CastsKept'
  <2> DEFINE d == [phase |-> outcome, name |-> c.name, age |-> lag]
  <2>1. CastIs(d) /\ Suits(d, played[p], WindowClass(p), classChanged)
    BY PlainCasts
  <2>2. casts' = [casts EXCEPT ![p] = d]
    BY <1>3
  <2> HIDE DEF d
  <2> QED BY <1>1, <1>8, <2>1, <2>2, OtherCasts
<1> QED BY <1>9, <1>10 DEF CastInv

\* A cast that goes on is the same, only older.
LEMMA OlderIs ==
  ASSUME NEW c, CastIs(c), c # NoCast
  PROVE  /\ CastIs([c EXCEPT !.age = @ + 1])
         /\ \A who, w, batch : Suits(c, who, w, batch) =>
              Suits([c EXCEPT !.age = @ + 1], who, w, batch)
<1> DEFINE d == [c EXCEPT !.age = @ + 1]
<1>1. CASE \E phase \in {"complete", "fizzled", "resisted", "interrupted"}, age \in Nat : \E name :
             c = [phase |-> phase, name |-> name, age |-> age]
  <2>1. PICK phase \in {"complete", "fizzled", "resisted", "interrupted"}, age \in Nat :
          \E name : c = [phase |-> phase, name |-> name, age |-> age]
    BY <1>1
  <2> PICK name : c = [phase |-> phase, name |-> name, age |-> age]
    BY <2>1
  <2>2. d = [phase |-> phase, name |-> name, age |-> age + 1] /\ age + 1 \in Nat
    BY <2>1
  <2> HIDE DEF d
  <2>3. CastIs(d) /\ \A who, w, batch : Suits(d, who, w, batch)
    BY <2>2, PlainCasts
  <2> QED BY <2>3 DEF d
<1>2. CASE \E spell \in Catalog, age \in Nat : \E name, class, key, estimate :
             c = [phase |-> "active", name |-> name, spell |-> spell, class |-> class, key |-> key,
                  age |-> age, estimate |-> estimate]
  <2>1. PICK spell \in Catalog, age \in Nat : \E name, class, key, estimate :
          c = [phase |-> "active", name |-> name, spell |-> spell, class |-> class, key |-> key,
               age |-> age, estimate |-> estimate]
    BY <1>2
  <2> PICK name, class, key, estimate :
          c = [phase |-> "active", name |-> name, spell |-> spell, class |-> class, key |-> key,
               age |-> age, estimate |-> estimate]
    BY <2>1
  <2>2. /\ d = [phase |-> "active", name |-> name, spell |-> spell, class |-> class, key |-> key,
                age |-> age + 1, estimate |-> estimate]
        /\ age + 1 \in Nat
    BY <2>1
  <2>3. /\ d.class = c.class /\ d.spell = c.spell /\ d.key = c.key /\ c.phase = "active"
        /\ d.phase = "active"
    BY <2>1, <2>2
  <2> HIDE DEF d
  <2>4. CastIs(d)
    BY <2>2 DEF CastIs
  <2>5. ASSUME NEW who, NEW w, NEW batch, Suits(c, who, w, batch) PROVE Suits(d, who, w, batch)
    BY <2>3, <2>5 DEF Suits, BeganAs, FitsPersona
  <2> QED BY <2>4, <2>5 DEF d
<1> QED BY <1>1, <1>2 DEF CastIs

\* A step that leaves what was learned alone.
LEMMA LearnedStays ==
  ASSUME LearnedKept, UNCHANGED <<estimates, legacy, unsaved, castFile>>
  PROVE  LearnedKept'
BY DEF LearnedKept, EstimatesSaved, Sane, FileSane, Content, Loaded

\* A save in a step that teaches nothing.
LEMMA SavedStays ==
  ASSUME LearnedKept, unsaved \in BOOLEAN, Save(estimates, legacy, unsaved),
         UNCHANGED <<estimates, legacy>>
  PROVE  LearnedKept' /\ unsaved' \in BOOLEAN
<1>1. /\ Sane(estimates) /\ legacy \subseteq LegacyTimes /\ FileSane(castFile)
      /\ ~unsaved => Loaded(castFile) = Content(estimates, legacy)
  BY DEF LearnedKept, EstimatesSaved
<1>2. /\ FileSane(castFile') /\ unsaved' \in BOOLEAN
      /\ ~unsaved' => Loaded(castFile)' = Content(estimates, legacy)
  BY <1>1, SaveKeeps
<1> QED BY <1>1, <1>2 DEF LearnedKept, EstimatesSaved, Sane, FileSane, Content, Loaded

\* A step that leaves the personas alone.
LEMMA PersonasStay ==
  ASSUME UNCHANGED <<played, classOf>>
  PROVE  \A p \in Caster : WindowClass(p)' = WindowClass(p)
BY DEF WindowClass

\* A step that leaves casts alone or drops some.
LEMMA CastsDrop ==
  ASSUME CastsKept, DOMAIN casts' = Caster, UNCHANGED personaVars, unsaved' \in BOOLEAN,
         \A p \in Caster : casts'[p] \in {casts[p], NoCast}
  PROVE  CastsKept'
<1>1. \A p \in Caster : CastIs(casts'[p])
  BY PlainCasts DEF CastsKept
<1>2. ASSUME NEW p \in Caster, p \notin reassigned
      PROVE  Suits(casts'[p], played[p], WindowClass(p), classChanged)
  BY <1>2, PlainCasts DEF CastsKept
<1>3. played' = played /\ classOf' = classOf /\ classChanged' = classChanged
      /\ reassigned' = reassigned
  BY DEF personaVars
<1>4. \A p \in Caster : WindowClass(p)' = WindowClass(p)
  BY <1>3, PersonasStay
<1> QED BY <1>1, <1>2, <1>3, <1>4 DEF CastsKept

LEMMA CastInitInv == CastInit => CastInv
<1> SUFFICES ASSUME CastInit PROVE CastInv
  OBVIOUS
<1>1. CastsKept
  <2>1. \A p \in Caster : casts[p] = NoCast
    BY DEF CastInit
  <2>2. /\ unsaved \in BOOLEAN /\ DOMAIN casts = Caster /\ played \in [Caster -> Character]
        /\ DOMAIN classOf = Character /\ classChanged \in BOOLEAN
    BY DEF CastInit
  <2> QED BY <2>1, <2>2, PlainCasts DEF CastsKept
<1>2. Sane({}) /\ Loaded(castFile) = Content({}, LegacyTimes)
  BY LoadedContent DEF CastInit, Sane
<1>3. LearnedKept
  BY <1>2 DEF CastInit, LearnedKept, FileSane, EstimatesSaved
<1> QED BY <1>1, <1>3 DEF CastInv

LEMMA CastNextInv == CastInv /\ [CastNext]_castVars => CastInv'
<1> SUFFICES ASSUME CastInv, [CastNext]_castVars PROVE CastInv'
  OBVIOUS
<1>1. CastsKept /\ LearnedKept /\ unsaved \in BOOLEAN /\ DOMAIN casts = Caster
  BY DEF CastInv, CastsKept
<1>2. CASE UNCHANGED castVars
  <2>1. LearnedKept'
    BY <1>1, <1>2, LearnedStays DEF castVars
  <2>2. CastsKept'
    BY <1>1, <1>2, CastsDrop DEF castVars
  <2> QED BY <2>1, <2>2 DEF CastInv
<1>3. CASE CastTick
  <2>1. LearnedKept'
    BY <1>1, <1>3, LearnedStays DEF CastTick
  <2>2. CastsKept'
    BY <1>1, <1>3, CastsDrop DEF CastTick
  <2> QED BY <2>1, <2>2 DEF CastInv
<1>4. CASE CastGoesOn
  <2>1. LearnedKept'
    BY <1>1, <1>4, LearnedStays DEF CastGoesOn
  <2>2. /\ DOMAIN casts' = Caster
        /\ \A p \in Caster : \/ casts'[p] = casts[p]
                             \/ casts[p] # NoCast /\ casts'[p] = [casts[p] EXCEPT !.age = @ + 1]
    BY <1>4 DEF CastGoesOn
  <2>3. \A p \in Caster : CastIs(casts'[p])
    BY <1>1, <2>2, OlderIs DEF CastsKept
  <2>5. ASSUME NEW p \in Caster, p \notin reassigned
        PROVE  Suits(casts'[p], played[p], WindowClass(p), classChanged)
    <3>1. CastIs(casts[p]) /\ Suits(casts[p], played[p], WindowClass(p), classChanged)
      BY <1>1, <2>5 DEF CastsKept
    <3> QED BY <2>2, <3>1, OlderIs
  <2>6. /\ played' = played /\ classOf' = classOf /\ classChanged' = classChanged
        /\ reassigned' = reassigned /\ unsaved' = unsaved
    BY <1>4 DEF CastGoesOn, personaVars
  <2>7. \A p \in Caster : WindowClass(p)' = WindowClass(p)
    BY <2>6, PersonasStay
  <2>4. CastsKept'
    BY <1>1, <2>2, <2>3, <2>5, <2>6, <2>7 DEF CastsKept
  <2> QED BY <2>1, <2>4 DEF CastInv
<1>5. CASE ReloadCasting
  <2>1. LearnedKept'
    BY <1>1, <1>5, LearnedStays DEF ReloadCasting
  <2>2. CastsKept'
    BY <1>1, <1>5, CastsDrop DEF ReloadCasting
  <2> QED BY <2>1, <2>2 DEF CastInv
<1>6. CASE RestartCasting
  <2>1. PICK file \in {castFile, Torn, Content(estimates, legacy)} :
          /\ castFile' = file /\ estimates' = Loaded(file).learned /\ legacy' = Loaded(file).old
          /\ unsaved' = FALSE
    BY <1>6 DEF RestartCasting
  <2>2. PICK E, L : Loaded(file) = Content(E, L) /\ Sane(E) /\ L \subseteq LegacyTimes
    <3>1. CASE file = castFile
      BY <1>1, <3>1 DEF LearnedKept, FileSane
    <3>2. CASE file = Torn
      <4>1. Loaded(file) = Content({}, {}) /\ Sane({})
        BY <3>2 DEF Loaded, Sane
      <4> QED BY <4>1
    <3>3. CASE file = Content(estimates, legacy)
      BY <1>1, <3>3, LoadedContent DEF LearnedKept
    <3> QED BY <3>1, <3>2, <3>3
  <2>3. estimates' = E /\ legacy' = L
    BY <2>1, <2>2, ContentParts
  <2>4. Loaded(castFile)' = Content(estimates, legacy)'
    <3>1. Loaded(castFile)' = Loaded(file)
      BY <2>1 DEF Loaded, Torn, Content
    <3>2. Content(estimates, legacy)' = Content(E, L)
      BY <2>3 DEF Content
    <3> QED BY <2>2, <3>1, <3>2
  <2>5. FileSane(castFile')
    BY <2>1, <2>2 DEF FileSane
  <2>6. Sane(estimates)' /\ (legacy \subseteq LegacyTimes)'
    BY <2>2, <2>3 DEF Sane
  <2>7. LearnedKept'
    BY <2>4, <2>5, <2>6 DEF LearnedKept, EstimatesSaved, FileSane, Loaded
  <2>8. CastsKept'
    <3>1. /\ DOMAIN casts' = Caster /\ \A p \in Caster : casts'[p] = NoCast
          /\ played' = played /\ classOf' = classOf /\ classChanged' = FALSE /\ unsaved' = FALSE
      BY <1>6, <2>1 DEF RestartCasting
    <3>2. \A p \in Caster : CastIs(casts'[p])
      BY <3>1, PlainCasts
    <3>3. \A p \in Caster : Suits(casts'[p], played'[p], WindowClass(p)', classChanged')
      BY <3>1, PlainCasts
    <3>4. /\ unsaved' \in BOOLEAN /\ played' \in [Caster -> Character]
          /\ DOMAIN classOf' = Character /\ classChanged' \in BOOLEAN
      BY <1>1, <3>1 DEF CastsKept
    <3> QED BY <3>1, <3>2, <3>3, <3>4 DEF CastsKept
  <2> QED BY <2>7, <2>8 DEF CastInv
<1>7. ASSUME NEW p \in Caster, PaintBar(p) PROVE CastInv'
  <2>1. LearnedKept'
    BY <1>1, <1>7, LearnedStays DEF PaintBar
  <2>2. CastsKept'
    BY <1>1, <1>7, CastsDrop DEF PaintBar
  <2> QED BY <2>1, <2>2 DEF CastInv
<1>8. ASSUME NEW p \in Caster, NEW lag \in 0 .. MaxLag, ApplyCastEvent(p, lag) PROVE CastInv'
  <2>1. lag \in Nat /\ UNCHANGED <<played, classOf, classChanged>>
    BY <1>8 DEF ApplyCastEvent
  <2>2. CASE \E who \in {played[p]} \cup former[p], name \in SpellName :
               /\ StartCast(p, who, name, lag)
               /\ reassigned' = IF who = played[p] THEN reassigned \ {p} ELSE reassigned \cup {p}
    BY <2>1, <2>2, StartKeeps
  <2>3. CASE \E outcome \in {"complete", "fizzled", "resisted", "interrupted"} :
               EndCast(p, outcome, lag) /\ UNCHANGED reassigned
    BY <2>1, <2>3, EndKeeps
  <2> QED BY <1>8, <2>2, <2>3 DEF ApplyCastEvent
<1>9. ASSUME NEW who \in Character, NEW class \in Class, ChangeClass(who, class) PROVE CastInv'
  <2>1. /\ classOf' = [classOf EXCEPT ![who] = class] /\ casts' = casts /\ played' = played
        /\ reassigned' = reassigned
        /\ classChanged' = (classChanged \/ \E p \in Caster : played[p] = who)
    BY <1>9 DEF ChangeClass
  <2>2. LearnedKept' /\ unsaved' \in BOOLEAN
    <3>1. Save(estimates, legacy, unsaved) /\ UNCHANGED <<estimates, legacy>>
      BY <1>9 DEF ChangeClass
    <3> QED BY <1>1, <3>1, SavedStays
  <2>3. classChanged' \in BOOLEAN /\ DOMAIN classOf' = Character
    BY <1>1, <2>1 DEF CastsKept
  <2>4. ASSUME NEW p \in Caster, p \notin reassigned
        PROVE  Suits(casts[p], played[p], WindowClass(p)', classChanged')
    <3>1. Suits(casts[p], played[p], WindowClass(p), classChanged)
      BY <1>1, <2>4 DEF CastsKept
    <3>2. ASSUME classChanged' = FALSE
          PROVE  classChanged = FALSE /\ WindowClass(p)' = WindowClass(p)
      <4>1. classChanged = FALSE /\ played[p] # who
        BY <1>1, <2>1, <3>2 DEF CastsKept
      <4>2. played[p] \in DOMAIN classOf
        BY <1>1 DEF CastsKept
      <4> QED BY <2>1, <4>1, <4>2 DEF WindowClass
    <3> QED BY <3>1, <3>2 DEF Suits
  <2>5. CastsKept'
    BY <1>1, <2>1, <2>2, <2>3, <2>4 DEF CastsKept
  <2> QED BY <2>2, <2>5 DEF CastInv
<1>11. CASE EndClassBatch
  <2>1. /\ classChanged' = FALSE /\ played' = played /\ classOf' = classOf
        /\ reassigned' = reassigned /\ DOMAIN casts' = Caster
        /\ \A p \in Caster : \/ casts'[p] = NoCast
                             \/ /\ casts'[p] = casts[p]
                                /\ casts[p].phase = "active" => casts[p].class = WindowClass(p)
    BY <1>11 DEF EndClassBatch, KeptByReconcile
  <2>2. LearnedKept' /\ unsaved' \in BOOLEAN
    <3>1. Save(estimates, legacy, unsaved) /\ UNCHANGED <<estimates, legacy>>
      BY <1>11 DEF EndClassBatch
    <3> QED BY <1>1, <3>1, SavedStays
  <2>3. \A p \in Caster : CastIs(casts'[p]) /\ WindowClass(p)' = WindowClass(p)
    BY <1>1, <2>1, PlainCasts, PersonasStay DEF CastsKept
  <2>4. ASSUME NEW p \in Caster, p \notin reassigned
        PROVE  Suits(casts'[p], played[p], WindowClass(p), FALSE)
    <3>1. CASE casts'[p] = NoCast
      BY <3>1, PlainCasts
    <3>2. CASE /\ casts'[p] = casts[p]
               /\ casts[p].phase = "active" => casts[p].class = WindowClass(p)
      <4>1. Suits(casts[p], played[p], WindowClass(p), classChanged)
        BY <1>1, <2>4 DEF CastsKept
      <4>2. CASE casts[p].phase = "active"
        <5>1. FitsPersona(casts[p], played[p], WindowClass(p))
          BY <3>2, <4>1, <4>2, ReconciledFits DEF Suits
        <5> QED BY <3>2, <5>1, FittingSuits
      <4>3. CASE casts[p].phase # "active"
        BY <3>2, <4>3 DEF Suits
      <4> QED BY <4>2, <4>3
    <3> QED BY <2>1, <3>1, <3>2
  <2>5. CastsKept'
    BY <1>1, <2>1, <2>2, <2>3, <2>4 DEF CastsKept
  <2> QED BY <2>2, <2>5 DEF CastInv
<1>12. ASSUME NEW now \in [Caster -> Character], ChangeCharacters(now) PROVE CastInv'
  <2>1. /\ played' = now /\ casts' = casts /\ classOf' = classOf /\ classChanged' = classChanged
        /\ reassigned' = reassigned \cup {p \in Caster : now[p] # played[p]} /\ unsaved' = unsaved
    BY <1>12 DEF ChangeCharacters
  <2>2. LearnedKept'
    BY <1>1, <1>12, LearnedStays DEF ChangeCharacters
  <2>3. ASSUME NEW p \in Caster, p \notin reassigned'
        PROVE  Suits(casts[p], played'[p], WindowClass(p)', classChanged)
    <3>1. p \notin reassigned /\ played'[p] = played[p]
      BY <2>1, <2>3
    <3>2. WindowClass(p)' = WindowClass(p)
      BY <2>1, <3>1 DEF WindowClass
    <3>3. Suits(casts[p], played[p], WindowClass(p), classChanged)
      BY <1>1, <3>1 DEF CastsKept
    <3> QED BY <3>1, <3>2, <3>3
  <2>4. CastsKept'
    BY <1>1, <2>1, <2>3 DEF CastsKept
  <2> QED BY <2>2, <2>4 DEF CastInv
<1>10. ASSUME NEW pips \in SUBSET Caster, ChangePips(pips) PROVE CastInv'
  <2>1. LearnedKept'
    BY <1>1, <1>10, LearnedStays DEF ChangePips
  <2>2. CastsKept'
    <3>1. DOMAIN casts' = Caster /\ \A q \in Caster : casts'[q] \in {casts[q], NoCast}
      BY <1>1, <1>10 DEF ChangePips
    <3>2. UNCHANGED personaVars /\ unsaved' \in BOOLEAN
      BY <1>1, <1>10 DEF ChangePips
    <3> QED BY <1>1, <3>1, <3>2, CastsDrop
  <2> QED BY <2>1, <2>2 DEF CastInv
<1> QED BY <1>2, <1>3, <1>4, <1>5, <1>6, <1>7, <1>8, <1>9, <1>10, <1>11, <1>12 DEF CastNext

\* Whatever classes and characters change, settings are reloaded, saves fail and the program
\* crashes in: there is one sane estimate for each character, class and spell, a restart
\* loses none that was saved, and between two batches of log lines a cast that runs, and
\* what it teaches, is of the persona its client plays, except one that began as another
\* character's.
THEOREM CastsAlwaysSound == CastSpec => []CastsSound
<1>1. CastInv => CastsSound
  <2> SUFFICES ASSUME CastInv PROVE CastsSound
    OBVIOUS
  <2>1. EstimatesSane
    BY DEF CastInv, LearnedKept, Sane, EstimatesSane
  <2>2. EstimatesSaved
    BY DEF CastInv, LearnedKept
  <2>3. PersonaSafe
    BY DEF CastInv, CastsKept, Suits, FitsPersona, PersonaSafe
  <2> QED BY <2>1, <2>2, <2>3 DEF CastsSound
<1> QED BY <1>1, CastInitInv, CastNextInv, PTL DEF CastSpec

(***************************************************************************)
(* CombatBadges                                                            *)
(***************************************************************************)

\* An entry of the centre; FightKept(e, dead): it is one, of a client that is dead or not.
IsFight(e) == DOMAIN e = DOMAIN NoFight /\ e.dead \in BOOLEAN
FightKept(e, dead) == IF e = Unmarked THEN ~dead ELSE IsFight(e) /\ (e.dead = TRUE <=> dead)

FightInv ==
  /\ DOMAIN fights = Fighter /\ slain \subseteq Fighter
  /\ \A p \in Fighter : FightKept(fights[p], p \in slain)

LEMMA FightHasFields ==
  ASSUME NEW e, IsFight(e)
  PROVE  e # Unmarked /\ "hit" \in DOMAIN e /\ "dead" \in DOMAIN e
<1>1. "hit" \in DOMAIN NoFight /\ "dead" \in DOMAIN NoFight
  BY DEF NoFight
<1>2. "hit" \notin DOMAIN Unmarked
  BY DEF Unmarked
<1> QED BY <1>1, <1>2 DEF IsFight

LEMMA NoFightIs == IsFight(NoFight) /\ NoFight.dead = FALSE
BY DEF IsFight, NoFight

LEMMA FreshIs ==
  ASSUME NEW r, NEW dead \in BOOLEAN, NEW f, f = [NoFight EXCEPT !.dead = dead, !.rendered = r]
  PROVE  IsFight(f) /\ f.dead = dead
<1>1. DOMAIN f = DOMAIN NoFight /\ f.dead = dead
  BY DEF NoFight
<1> QED BY <1>1 DEF IsFight

\* An event: a death, a revival, or one that leaves the dead and the living what they are.
LEMMA EventKeeps ==
  ASSUME NEW e, IsFight(e), NEW event \in FightEvent
  PROVE  /\ IsFight(Applied(e, event))
         /\ Applied(e, event).dead = TRUE <=>
              event = "died" \/ (e.dead = TRUE /\ event # "revived")
<1> DEFINE a == Applied(e, event)
<1>1. "hit" \in DOMAIN e /\ "dead" \in DOMAIN e /\ e.dead \in BOOLEAN /\ DOMAIN e = DOMAIN NoFight
  BY FightHasFields DEF IsFight
<1>2. CASE event = "dealt" /\ ~e.dead
  <2>1. a = WeaponDamageDealt(e)
    BY <1>2 DEF Applied, Problem
  <2>2. DOMAIN WeaponDamageDealt(e) = DOMAIN e /\ WeaponDamageDealt(e).dead = e.dead
    BY <1>1 DEF WeaponDamageDealt
  <2> QED BY <2>1, <2>2, <1>1, <1>2 DEF IsFight
<1>3. CASE event = "taken" /\ ~e.dead
  <2>1. a = DamageTaken(e)
    BY <1>3 DEF Applied, Problem
  <2>2. DOMAIN DamageTaken(e) = DOMAIN e /\ DamageTaken(e).dead = e.dead
    BY <1>1 DEF DamageTaken
  <2> QED BY <2>1, <2>2, <1>1, <1>3 DEF IsFight
<1>4. CASE event \in Problem /\ ~e.dead
  <2>1. a = AttackBlocked(e, event)
    BY <1>4 DEF Applied, Problem
  <2>2. DOMAIN AttackBlocked(e, event) = DOMAIN e /\ AttackBlocked(e, event).dead = e.dead
    BY <1>1 DEF AttackBlocked
  <2> QED BY <2>1, <2>2, <1>1, <1>4 DEF IsFight, Problem
<1>5. CASE event = "died"
  <2>1. a = [NoFight EXCEPT !.dead = TRUE, !.rendered = e.rendered]
    BY <1>5 DEF Applied, Died, Problem
  <2>2. IsFight(a) /\ a.dead = TRUE
    BY <2>1, FreshIs
  <2> QED BY <2>2, <1>5
<1>6. CASE event = "revived" /\ e.dead
  <2>1. a = [NoFight EXCEPT !.rendered = e.rendered]
    BY <1>6 DEF Applied, Revived, Problem
  <2>2. DOMAIN a = DOMAIN NoFight /\ a.dead = FALSE
    BY <2>1 DEF NoFight
  <2> QED BY <2>2, <1>6 DEF IsFight
<1>7. CASE ~(event = "died" \/ (event = "revived" /\ e.dead)
             \/ (event \in {"dealt", "taken"} \cup Problem /\ ~e.dead))
  <2>1. a = e
    BY <1>7 DEF Applied
  <2> QED BY <2>1, <1>1, <1>7 DEF FightEvent, IsFight
<1> QED BY <1>2, <1>3, <1>4, <1>5, <1>6, <1>7

LEMMA FightEventKeeps ==
  ASSUME FightInv, NEW p \in Fighter, NEW event \in FightEvent, ApplyFightEvent(p, event)
  PROVE  FightInv'
<1> DEFINE entry == IF fights[p] = Unmarked THEN NoFight ELSE fights[p]
<1>1. IsFight(entry) /\ (entry.dead = TRUE <=> p \in slain)
  BY NoFightIs DEF FightInv, FightKept
<1>2. /\ slain' = CASE event = "died" -> slain \cup {p}
                    [] event = "revived" -> slain \ {p}
                    [] OTHER -> slain
      /\ fights' = IF Counts(event) THEN [fights EXCEPT ![p] = Applied(entry, event)] ELSE fights
  BY DEF ApplyFightEvent
<1> HIDE DEF entry
<1>3. slain' \subseteq Fighter /\ DOMAIN fights' = Fighter
  BY <1>2 DEF FightInv
<1>4. ASSUME NEW q \in Fighter, q # p PROVE FightKept(fights'[q], q \in slain')
  <2>1. fights'[q] = fights[q] /\ (q \in slain' <=> q \in slain)
    BY <1>2, <1>4 DEF FightInv
  <2> QED BY <2>1 DEF FightInv, FightKept
<1>5. FightKept(fights'[p], p \in slain')
  <2>1. p \in slain' <=> event = "died" \/ (p \in slain /\ event # "revived")
    BY <1>2
  <2>2. CASE Counts(event)
    <3>1. fights'[p] = Applied(entry, event)
      BY <1>2, <2>2 DEF FightInv
    <3>2. /\ IsFight(Applied(entry, event)) /\ Applied(entry, event) # Unmarked
          /\ Applied(entry, event).dead = TRUE <=>
               event = "died" \/ (entry.dead = TRUE /\ event # "revived")
      <4>1. IsFight(Applied(entry, event))
        BY ONLY <1>1, event \in FightEvent, EventKeeps
      <4>2. Applied(entry, event) # Unmarked
        BY ONLY <4>1, FightHasFields
      <4>3. Applied(entry, event).dead = TRUE <=>
               event = "died" \/ (entry.dead = TRUE /\ event # "revived")
        BY ONLY <1>1, event \in FightEvent, EventKeeps
      <4> QED BY ONLY <4>1, <4>2, <4>3
    <3> QED BY <3>1, <3>2, <2>1, <1>1 DEF FightKept
  <2>3. CASE ~Counts(event)
    <3>1. fights'[p] = fights[p] /\ event # "died" /\ event # "revived"
      BY <1>2, <2>3 DEF Counts
    <3> QED BY <3>1, <2>1 DEF FightInv, FightKept
  <2> QED BY <2>2, <2>3
<1> QED BY <1>3, <1>4, <1>5 DEF FightInv

\* What a step does to each entry when it neither kills nor revives.
LEMMA EntriesKeep ==
  ASSUME FightInv, slain' = slain, DOMAIN fights' = Fighter,
         \A p \in Fighter : fights[p] = Unmarked => fights'[p] = Unmarked,
         \A p \in Fighter : IsFight(fights[p]) => IsFight(fights'[p])
                                                  /\ fights'[p].dead = fights[p].dead
  PROVE  FightInv'
<1>1. ASSUME NEW p \in Fighter PROVE FightKept(fights'[p], p \in slain')
  BY FightHasFields DEF FightInv, FightKept
<1> QED BY <1>1 DEF FightInv

LEMMA FightNextKeeps ==
  ASSUME FightInv, BadgesNext
  PROVE  FightInv'
<1>0. \A p \in Fighter : IsFight(fights[p]) => fights[p] # Unmarked /\ fights[p].dead \in BOOLEAN
                              /\ "hit" \in DOMAIN fights[p] /\ "dead" \in DOMAIN fights[p]
                              /\ DOMAIN fights[p] = DOMAIN NoFight
  BY FightHasFields DEF IsFight
<1>1. CASE FightTick
  BY <1>1 DEF FightTick, FightInv, FightKept, IsFight
<1>2. CASE FightGoesOn
  <2>1. fights' = [p \in Fighter |->
           IF fights[p] = Unmarked THEN Unmarked
           ELSE [fights[p] EXCEPT !.hit = Older(@, LongAgo), !.flash = Older(@, FlashInterval),
                                  !.damage = Older(@, DamageMs), !.issue = Older(@, IssueMs)]]
        /\ slain' = slain
    BY <1>2 DEF FightGoesOn
  <2>2. ASSUME NEW p \in Fighter, IsFight(fights[p])
        PROVE  IsFight(fights'[p]) /\ fights'[p].dead = fights[p].dead
    <3>1. DOMAIN fights'[p] = DOMAIN fights[p] /\ fights'[p].dead = fights[p].dead
      BY <2>1, <2>2, <1>0
    <3> QED BY <3>1, <2>2 DEF IsFight
  <2> QED BY <2>1, <2>2, EntriesKeep
<1>3. ASSUME NEW p \in Fighter, PaintBadge(p) PROVE FightInv'
  <2>1. fights' = [fights EXCEPT ![p] = IF @ = Unmarked THEN @ ELSE [@ EXCEPT !.rendered = Key(p)]]
        /\ slain' = slain
    BY <1>3 DEF PaintBadge
  <2>2. ASSUME NEW q \in Fighter, IsFight(fights[q])
        PROVE  IsFight(fights'[q]) /\ fights'[q].dead = fights[q].dead
    <3>1. DOMAIN fights'[q] = DOMAIN fights[q] /\ fights'[q].dead = fights[q].dead
      BY <2>1, <2>2, <1>0 DEF FightInv
    <3> QED BY <3>1, <2>2 DEF IsFight
  <2>3. DOMAIN fights' = Fighter /\ \A q \in Fighter : fights[q] = Unmarked => fights'[q] = Unmarked
    BY <2>1 DEF FightInv
  <2> QED BY <2>1, <2>2, <2>3, EntriesKeep
<1>4. ASSUME NEW p \in Fighter, RemoveFighter(p) PROVE FightInv'
  BY <1>4 DEF RemoveFighter, FightInv, FightKept, IsFight
<1>5. ASSUME NEW p \in Fighter, NEW event \in FightEvent, ApplyFightEvent(p, event) PROVE FightInv'
  BY <1>5, FightEventKeeps
<1>6. ASSUME NEW new \in [enabled : BOOLEAN, hit : HitDurations, animations : BOOLEAN],
             ReloadFightSettings(new)
      PROVE  FightInv'
  <2>1. fights' = [p \in Fighter |->
           IF fights[p] = Unmarked THEN Unmarked ELSE Reconfigured(fights[p], new)]
        /\ slain' = slain
    BY <1>6 DEF ReloadFightSettings
  <2>2. ASSUME NEW p \in Fighter, IsFight(fights[p])
        PROVE  IsFight(fights'[p]) /\ fights'[p].dead = fights[p].dead
    <3>1. fights'[p] = Reconfigured(fights[p], new)
      BY <2>1, <2>2, <1>0
    <3>2. PICK e : e = fights[p]
      OBVIOUS
    <3>3. DOMAIN e = DOMAIN NoFight /\ "dead" \in DOMAIN e /\ "hit" \in DOMAIN e
      BY <3>2, <2>2, <1>0
    <3>4. DOMAIN Reconfigured(e, new) = DOMAIN NoFight /\ Reconfigured(e, new).dead = e.dead
      <4>1. DOMAIN [NoFight EXCEPT !.dead = e.dead] = DOMAIN NoFight
            /\ [NoFight EXCEPT !.dead = e.dead].dead = e.dead
        BY DEF NoFight
      <4> QED BY <4>1, <3>3 DEF Reconfigured
    <3> QED BY <3>1, <3>2, <3>4, <2>2 DEF IsFight
  <2> QED BY <2>1, <2>2, EntriesKeep
<1>7. ASSUME NEW some \in SUBSET Fighter, RebuildPips(some) PROVE FightInv'
  BY <1>7 DEF RebuildPips, FightInv, FightKept, IsFight
<1> QED BY <1>1, <1>2, <1>3, <1>4, <1>5, <1>6, <1>7 DEF BadgesNext

\* Between a client's death and its revival the centre knows it as dead, however often
\* the feature is switched off and on, reconfigured or painted meanwhile, for any clients
\* and durations (combat_awareness.rs: apply_event, apply_config, remove).
THEOREM DeathAlwaysKept == BadgesSpec => []DeathKept
<1>1. BadgesInit => FightInv
  BY DEF BadgesInit, FightInv, FightKept
<1>2. FightInv /\ [BadgesNext]_fightVars => FightInv'
  <2>1. CASE UNCHANGED fightVars
    BY <2>1 DEF fightVars, FightInv, FightKept, IsFight
  <2> QED BY <2>1, FightNextKeeps
<1>3. FightInv => DeathKept
  BY FightHasFields DEF FightInv, FightKept, DeathKept
<1> QED BY <1>1, <1>2, <1>3, PTL DEF BadgesSpec
==============================================================================
