---------------------------- MODULE CombatEngine ----------------------------
(***************************************************************************)
(* The combat engine behind the damage meter (eqcombat/engine.rs): several *)
(* clients log the same fights, the log worker applies their records in    *)
(* whatever order the files are read, and the engine correlates them into  *)
(* encounters and elects, for each participant, the one log to believe.    *)
(*                                                                         *)
(* Names are numbers, so that ids can be ordered; the character of source  *)
(* s is participant s, and all are on one server.  A record has one event  *)
(* and a time.  Zones, display names, rates and diagnostics are left out.  *)
(* What happens, and which logs say so, is a script chosen at the start; a *)
(* line that was not read yet may as well not be written yet.              *)
(***************************************************************************)
EXTENDS Integers, FiniteSets, Sequences, SequencesExt, FiniteSetsExt

CONSTANTS Source, Mob, Pet,
          Inactivity, EndingGrace, HeldFor, StableEof, LagSeconds, LagReceipt,
          BridgeSeconds,
          MaxEncounters, MaxLedger,   \* CombatPolicy
          Scripts,     \* what may happen: sequences of [event, seen by]
          MaxNow,      \* bound: the clock
          MaxFaults(_) \* bound: faults of the logs in a script

ASSUME CombatBounds ==
  /\ Source \cup Mob \cup Pet \subseteq Nat \ {0}
  /\ {Inactivity, EndingGrace, HeldFor, StableEof, LagSeconds, MaxEncounters, MaxLedger}
       \subseteq Nat \ {0}
  /\ {LagReceipt, BridgeSeconds, MaxNow} \subseteq Nat

VARIABLES world,   \* the script of this behaviour
          logs,    \* [Source -> the events its log will hold]
          reader,  \* [Source -> [gen, pos, seq, furthest] of the tailer]
          engine,  \* CombatEngine
          faults

combatVars == <<world, logs, reader, engine, faults>>

None == 0                                       \* no time, no owner
Later(a, b)   == IF a > b THEN a ELSE b
Earlier(a, b) == IF a < b THEN a ELSE b
Put(f, k, v)  == [x \in DOMAIN f \cup {k} |-> IF x = k THEN v ELSE f[x]]
Drop(f, S)    == [x \in DOMAIN f \ S |-> f[x]]

\* A stable order on encounter ids <<second, target, participant>>.
IdBefore(a, b) ==
  \/ a[1] < b[1]
  \/ a[1] = b[1] /\ (a[2] < b[2] \/ (a[2] = b[2] /\ a[3] < b[3]))

EngineInit ==
  [now |-> 0, sources |-> <<>>, accepted |-> {}, occurrences |-> <<>>, ledger |-> <<>>,
   assigned |-> {}, encounters |-> <<>>, active |-> <<>>, verified |-> {}, ownership |-> {},
   book |-> <<>>, lost |-> FALSE]   \* the last only for a property

-----------------------------------------------------------------------------
(* Sources *)

NewSource(now, gen) ==
  [gen |-> gen, present |-> TRUE, registered |-> now, continuity |-> 0, observed |-> None,
   closed |-> None, floor |-> None, progress |-> now, last |-> -1, eofSecond |-> None,
   eofFirst |-> 0, eofPasses |-> 0]

Discontinued(s, gen, forget) ==
  [s EXCEPT !.floor = Later(@, s.closed), !.continuity = @ + 1, !.gen = gen, !.last = -1,
            !.eofSecond = None, !.eofFirst = 0, !.eofPasses = 0,
            !.observed = IF forget THEN None ELSE @, !.closed = IF forget THEN None ELSE @]

RegisterSource(g, s, gen) ==
  LET old == g.sources[s]
      again == [Discontinued(old, gen, TRUE) EXCEPT !.registered = g.now, !.progress = g.now,
                                                    !.present = TRUE]
  IN  [g EXCEPT !.verified = @ \cup {s},
                !.sources = Put(@, s, IF s \notin DOMAIN @ THEN NewSource(g.now, gen)
                                      ELSE IF old.gen = gen /\ old.present THEN old ELSE again)]

Partial(g, s) ==
  [g EXCEPT !.encounters = [id \in DOMAIN @ |->
     IF s \in @[id].sources /\ @[id].phase # "Held"
     THEN [@[id] EXCEPT !.partial = @ \cup {s}] ELSE @[id]]]

RemoveSource(g, s) == Partial([g EXCEPT !.sources[s].present = FALSE], s)

\* forget: the reasons after which the new file's seconds are read from the start.
MarkGap(g, s, gen, forget) ==
  Partial([g EXCEPT !.sources[s] = Discontinued(@, gen, forget)], s)

NoteStableEof(g, s, gen) ==
  LET st == g.sources[s]
  IN  IF st.gen # gen \/ st.observed = None THEN g
      ELSE IF st.eofSecond = st.observed THEN [g EXCEPT !.sources[s].eofPasses = @ + 1]
      ELSE [g EXCEPT !.sources[s] = [@ EXCEPT !.eofSecond = st.observed, !.eofFirst = g.now,
                                              !.eofPasses = 1]]

-----------------------------------------------------------------------------
(* Identity and ownership *)

\* Names of one capitalised word; those of mobs are not.
PossiblePlayer(n) == n \notin Mob

Newest(claims) ==
  (CHOOSE c \in claims : \A d \in claims :
     c.from > d.from \/ (c.from = d.from /\ c.source <= d.source)).owner
ClaimedOwner(g, pet, through) ==
  LET claims == {c \in g.ownership : c.pet = pet /\ c.from <= through}
  IN  IF claims = {} THEN None ELSE Newest(claims)
OwnerOf(g, f, through) == IF f.owner # None THEN f.owner ELSE ClaimedOwner(g, f.att, through)

\* Evidence from up to 30 seconds after the last hit counts for an encounter.
OwnerInEncounter(g, e, f) == OwnerOf(g, f, e.end + 30)

-----------------------------------------------------------------------------
(* Encounters *)

NewEncounter(g, f) ==
  [phase |-> "Active", reason |-> "", enteredAt |-> 0, cutoff |-> None, closure |-> {},
   until |-> 0, sources |-> {f.source},
   continuity |-> Put(<<>>, f.source, g.sources[f.source].continuity), partial |-> {},
   targets |-> <<>>, facts |-> {}, prints |-> {}, start |-> f.t, end |-> f.t, sustain |-> f.t,
   startReceipt |-> f.receipt, sustainReceipt |-> f.receipt, snapshot |-> <<>>]

IsLive(e) == e.phase # "Held"
Reactivated(e) ==
  [e EXCEPT !.phase = "Active", !.reason = "", !.enteredAt = 0, !.cutoff = None, !.closure = {},
            !.until = 0]

\* enter_ending freezes the sources that may still speak.
EnterEnding(e, reason, now, cutoff) ==
  IF e.phase # "Active" THEN e
  ELSE [e EXCEPT !.phase = "Ending", !.reason = reason, !.enteredAt = now, !.cutoff = cutoff,
                 !.closure = e.sources]

AddSourceMember(g, e, s) ==
  IF s \in e.sources THEN e
  ELSE [e EXCEPT !.sources = @ \cup {s},
                 !.continuity = Put(@, s, g.sources[s].continuity),
                 !.partial = IF g.sources[s].registered > e.startReceipt THEN @ \cup {s} ELSE @]

MergedTargets(a, b) ==
  [x \in DOMAIN a \cup DOMAIN b |->
     IF x \notin DOMAIN a THEN b[x] ELSE IF x \notin DOMAIN b THEN a[x] ELSE a[x] /\ b[x]]

\* Encounter c takes over o, which it turned out to be.
Merged(c, o) ==
  [Reactivated(c) EXCEPT !.snapshot = <<>>, !.sources = @ \cup o.sources,
            !.continuity = [s \in DOMAIN @ \cup DOMAIN o.continuity |->
                              IF s \in DOMAIN o.continuity THEN o.continuity[s] ELSE @[s]],
            !.partial = @ \cup o.partial, !.targets = MergedTargets(@, o.targets),
            !.facts = @ \cup o.facts, !.prints = @ \cup o.prints,
            !.start = Earlier(@, o.start), !.end = Later(@, o.end),
            !.sustain = Later(@, o.sustain),
            !.startReceipt = Earlier(@, o.startReceipt),
            !.sustainReceipt = Later(@, o.sustainReceipt)]
MergeInto(g, id, other) ==
  IF id \notin DOMAIN g.encounters THEN [g |-> g, id |-> other]
  ELSE IF other \notin DOMAIN g.encounters THEN [g |-> g, id |-> id]
  ELSE [id |-> id,
        g |-> [g EXCEPT !.encounters = Put(Drop(@, {other}), id, Merged(@[id], @[other])),
                        !.active = [s \in DOMAIN @ |-> IF @[s] = other THEN id ELSE @[s]]]]
MergeEncounters(g, left, right) ==
  IF IdBefore(right, left) THEN MergeInto(g, right, left) ELSE MergeInto(g, left, right)

-----------------------------------------------------------------------------
(* Facts *)

Fingerprint(f) == <<f.t, f.att, f.def, f.amount>>

\* The encounter a hit belongs to so far: the one its source is in, joined with the one
\* another source saw the same hit in.
Correlated(g, f) ==
  LET same == {id \in DOMAIN g.encounters :
                 IsLive(g.encounters[id]) /\ Fingerprint(f) \in g.encounters[id].prints}
      first == CHOOSE id \in same : \A other \in same : ~IdBefore(other, id)
  IN  IF f.source \in DOMAIN g.active
      THEN IF same # {} /\ first # g.active[f.source]
           THEN MergeEncounters(g, g.active[f.source], first)
           ELSE [g |-> g, id |-> g.active[f.source]]
      ELSE [g |-> g, id |-> IF same = {} THEN <<>> ELSE first]

\* A hit during the grace of its encounter resumes it, joins it, or is kept out of it.
Resumes(e, f) ==
  /\ f.source \in e.closure
  /\ e.reason = "AllTargetsTerminal" => (f.def \in DOMAIN e.targets /\ f.t > e.cutoff)
KeptOut(e, f)  == ~Resumes(e, f) /\ (f.source \notin e.closure \/ f.t > e.cutoff)
TooLate(e, f)  == KeptOut(e, f) /\ f.source \notin e.closure /\ f.t <= e.cutoff
Resumed(e, f) ==
  [Reactivated(e) EXCEPT
     !.targets = [x \in DOMAIN @ |-> IF x = f.def THEN FALSE ELSE @[x]]]

\* LateAfterClosure: the interval of a held encounter of this source.
LateAfterClosure(g, f) ==
  \E id \in DOMAIN g.encounters :
    LET e == g.encounters[id] IN ~IsLive(e) /\ f.source \in e.sources /\ f.t <= e.end

Participant(g, f) == LET o == OwnerOf(g, f, f.t) IN IF o = None THEN f.att ELSE o
Verified(g, f)    == OwnerOf(g, f, f.t) # None \/ f.att \in g.verified
Valid(g, f)       == f.amount > 0 /\ f.def \notin g.verified /\ Participant(g, f) # f.def
StartQualified(g, f) == Valid(g, f) /\ Verified(g, f)
EncounterId(g, f) == <<f.t, f.def, Participant(g, f)>>

Contributes(g, e, f) ==
  Valid(g, f) /\ (Verified(g, f) \/ (f.def \in DOMAIN e.targets /\ PossiblePlayer(f.att)))

PriorFacts(g, f) ==
  {i \in DOMAIN g.ledger \ g.assigned :
     LET p == g.ledger[i]
     IN  /\ p.source = f.source /\ p.t \in (f.t - 30)..f.t
         /\ p.kind = "hit" /\ p.def = f.def /\ PossiblePlayer(p.att)}

WithFacts(g, e, facts) ==
  [e EXCEPT !.facts = @ \cup facts,
            !.start = Min({@} \cup {g.ledger[i].t : i \in facts}),
            !.end = Max({@} \cup {g.ledger[i].t : i \in facts}),
            !.startReceipt = Min({@} \cup {g.ledger[i].receipt : i \in facts})]

\* Encounter e with fact i, whose source is one of its members.
Counted(g, e, f, i) ==
  IF ~Contributes(g, e, f) THEN e
  ELSE WithFacts(g, [e EXCEPT !.targets = Put(@, f.def, FALSE), !.prints = @ \cup {Fingerprint(f)}], {i})
Sustained(e, f, i) ==
  [e EXCEPT !.sustain = Later(@, f.t), !.facts = @ \cup {i}, !.sustainReceipt = Later(@, f.receipt)]

\* The fact enters encounter id, which may no longer exist.
Assign(g, id, i) ==
  LET f     == g.ledger[i]
      prior == IF StartQualified(g, f) THEN PriorFacts(g, f) \ {i} ELSE {}
      joined(e) == Counted(g, AddSourceMember(g, e, f.source), f, i)
  IN  [g EXCEPT !.encounters = IF id \notin DOMAIN @ THEN @
                               ELSE [@ EXCEPT ![id] = WithFacts(g, Sustained(joined(@), f, i), prior)],
                !.assigned = @ \cup {i} \cup prior,
                !.active = Put(@, f.source, id)]

\* A start-qualified hit opens an encounter unless one of that id exists.
Opened(g, f) ==
  IF EncounterId(g, f) \in DOMAIN g.encounters THEN g
  ELSE [g EXCEPT !.encounters = Put(@, EncounterId(g, f), NewEncounter(g, f))]

JoinDamage(g, id, i) ==
  LET f == g.ledger[i]
      isTarget == id \in DOMAIN g.encounters /\ f.def \in DOMAIN g.encounters[id].targets
      counts == StartQualified(g, f) \/ (isTarget /\ Valid(g, f) /\ PossiblePlayer(f.att))
  IN  IF counts \/ isTarget THEN Assign(g, id, i) ELSE g

\* A hit whose encounter so far is id, in the state g.
ProcessIn(g, id, i) ==
  LET f == g.ledger[i]
      e == g.encounters[id]
      ending == id \in DOMAIN g.encounters /\ e.phase = "Ending"
  IN  CASE ending /\ TooLate(e, f) -> g
        [] id # <<>> /\ ~(ending /\ KeptOut(e, f)) ->
             JoinDamage(IF ending /\ Resumes(e, f)
                        THEN [g EXCEPT !.encounters[id] = Resumed(@, f)] ELSE g, id, i)
        [] OTHER ->
             IF LateAfterClosure(g, f) \/ ~StartQualified(g, f) THEN g
             ELSE IF EncounterId(g, f) \notin DOMAIN g.encounters
                     /\ Cardinality(DOMAIN g.encounters) >= MaxEncounters THEN g
             ELSE JoinDamage(Opened(g, f), EncounterId(g, f), i)
ProcessCorrelated(c, i) == ProcessIn(c.g, c.id, i)
ProcessDamage(g, i)     == ProcessCorrelated(Correlated(g, g.ledger[i]), i)

ProcessAttempt(g, i) ==
  LET f  == g.ledger[i]
      id == g.active[f.source]
      e  == g.encounters[id]
      going == IF e.phase = "Ending" /\ e.reason = "Inactivity" THEN Reactivated(e) ELSE e
  IN  IF f.source \in DOMAIN g.active /\ id \in DOMAIN g.encounters
         /\ DOMAIN e.targets \cap {f.att, f.def} # {}
      THEN [g EXCEPT !.encounters[id] = Sustained(going, f, i), !.assigned = @ \cup {i}]
      ELSE g

\* A death is the source's own target, or that of any live encounter.
SlainIn(g, f) ==
  LET with  == {id \in DOMAIN g.encounters : f.def \in DOMAIN g.encounters[id].targets}
      own   == IF f.source \in DOMAIN g.active THEN {g.active[f.source]} \cap with ELSE {}
      live  == {id \in with : IsLive(g.encounters[id])}
  IN  IF own # {} THEN own ELSE {id \in live : \A other \in live : ~IdBefore(other, id)}

ProcessSlain(g, i) ==
  LET f  == g.ledger[i]
      id == CHOOSE x \in SlainIn(g, f) : TRUE
      e  == AddSourceMember(g, g.encounters[id], f.source)
      dead == [e EXCEPT !.targets[f.def] = TRUE, !.end = Later(@, f.t), !.facts = @ \cup {i}]
      all  == \A x \in DOMAIN dead.targets : dead.targets[x]
  IN  IF SlainIn(g, f) = {} THEN g
      ELSE [g EXCEPT !.assigned = @ \cup {i},
                     !.encounters[id] = IF all THEN EnterEnding(dead, "AllTargetsTerminal",
                                                                f.receipt, f.t) ELSE dead]

-----------------------------------------------------------------------------
(* Records *)

IsFact(r) == r.kind \in {"hit", "attempt", "slain"}

\* A record of a later generation repeats what an earlier one already said.
OccurrenceKey(s, r) == <<s, r.gen, r.t, r.kind, r.att, r.def, r.amount, r.owner>>
CountOccurrence(g, s, r) ==
  LET k == OccurrenceKey(s, r)
  IN  Put(g.occurrences, k, 1 + IF k \in DOMAIN g.occurrences THEN g.occurrences[k] ELSE 0)
\* Mutant: the lines of a rewritten file all count as new.
IsReplayedNever(occ, s, r) == FALSE
IsReplayed(occ, s, r) ==
  \E k \in DOMAIN occ : /\ k[1] = s /\ k[2] < r.gen /\ [k EXCEPT ![2] = r.gen] = OccurrenceKey(s, r)
                        /\ occ[OccurrenceKey(s, r)] <= occ[k]

Observed(st, r, now) ==
  LET newer == r.t > st.observed
  IN  [st EXCEPT !.gen = r.gen, !.last = r.seq, !.present = TRUE,
                 !.closed = IF newer /\ st.observed # None THEN Later(@, r.t - 1) ELSE @,
                 !.observed = IF newer THEN r.t ELSE @, !.progress = IF newer THEN now ELSE @,
                 !.eofSecond = None, !.eofFirst = 0, !.eofPasses = 0]

\* The newest fact of the ledger enters an encounter, or none.
ApplyFact(g, kind) ==
  CASE kind = "hit"     -> ProcessDamage(g, Len(g.ledger))
    [] kind = "attempt" -> ProcessAttempt(g, Len(g.ledger))
    [] kind = "slain"   -> ProcessSlain(g, Len(g.ledger))
ApplyEvent(g, s, r) ==
  CASE IsFact(r) ->
         ApplyFact([g EXCEPT !.ledger =
           Append(@, [source |-> s, t |-> r.t, receipt |-> g.now, kind |-> r.kind, att |-> r.att,
                      def |-> r.def, amount |-> r.amount, owner |-> r.owner])], r.kind)
    [] r.kind = "who"   -> [g EXCEPT !.verified = @ \cup {r.att}]
    [] r.kind = "claim" ->
         [g EXCEPT !.verified = @ \cup {r.owner},
                   !.ownership = @ \cup {[pet |-> r.att, owner |-> r.owner, from |-> r.t,
                                          source |-> s]}]
    [] OTHER -> g

\* The ledger is full: every encounter is withdrawn.
BoundLedger(g, r) ==
  IF IsFact(r) /\ Len(g.ledger) + 1 > MaxLedger
  THEN [g EXCEPT !.encounters = <<>>, !.active = <<>>, !.ledger = <<>>, !.assigned = {}] ELSE g

\* Ghost: a qualified hit, later than everything that is ending or held, which is in no
\* live encounter although there was room for one.
LostHit(g, before, r) ==
  /\ r.kind = "hit" /\ StartQualified(g, g.ledger[Len(g.ledger)])
  /\ Cardinality(DOMAIN before.encounters) < MaxEncounters
  /\ \A id \in DOMAIN before.encounters :
       before.encounters[id].phase = "Active" \/ r.t > before.encounters[id].end
  /\ \A id \in DOMAIN g.encounters :
       IsLive(g.encounters[id]) => Len(g.ledger) \notin g.encounters[id].facts

\* A record that is new, from a source that goes on.
Told(g, s, r) ==
  IF IsFact(r) THEN [g EXCEPT !.occurrences = CountOccurrence(g, s, r)] ELSE g
Judged(g, before, r) == [g EXCEPT !.lost = LostHit(g, before, r)]
ApplyTold(g, s, r) ==
  IF IsFact(r) /\ IsReplayed(g.occurrences, s, r) THEN g ELSE Judged(ApplyEvent(g, s, r), g, r)
ApplySeen(g, s, r) ==
  IF g.sources[s].floor # None /\ r.t <= g.sources[s].floor THEN g
  ELSE ApplyTold(Told(BoundLedger(g, r), s, r), s, r)
Accept(g, s, r) ==
  [g EXCEPT !.accepted = @ \cup {<<s, r.gen, r.seq>>}, !.sources[s] = Observed(@, r, g.now)]

ApplyKnown(g, s, r) ==
  LET st == g.sources[s]
      regression == st.observed # None /\ r.t < st.observed
      reordered  == st.closed # None /\ r.t <= st.closed
      gap == IF regression \/ reordered THEN MarkGap(g, s, r.gen, FALSE)
             ELSE IF r.gen > st.gen THEN MarkGap(g, s, r.gen, TRUE) ELSE g
  IN  IF r.gen < st.gen \/ (r.gen = st.gen /\ r.seq <= st.last) THEN g
      ELSE ApplySeen(Accept(gap, s, r), s, r)
ApplyRecord(g, s, r) ==
  IF <<s, r.gen, r.seq>> \in g.accepted THEN g
  ELSE ApplyKnown(IF s \in DOMAIN g.sources THEN g ELSE RegisterSource(g, s, r.gen), s, r)

-----------------------------------------------------------------------------
(* Election: one log per participant *)

Continuous(g, e, s) ==
  /\ e.continuity[s] = g.sources[s].continuity
  /\ s \notin e.partial /\ g.sources[s].registered <= e.startReceipt

Lagging(g, e, s) ==
  LET leader == Max({g.sources[x].observed : x \in e.sources})
  IN  /\ g.sources[s].observed # None /\ leader - g.sources[s].observed >= LagSeconds
      /\ g.now - g.sources[s].progress >= LagReceipt

\* The last second that every compared source has told, as a set: empty when there is no
\* limit, because the only source to compare has told none or there is none to compare.
WatermarkOf(g, e, compared) ==
  LET closed   == {g.sources[s].closed : s \in compared}
      observed == {g.sources[s].observed : s \in compared}
  IN  IF Cardinality(compared) <= 1
      THEN (IF closed \subseteq {None} THEN observed ELSE closed) \ {None}
      ELSE {IF None \notin closed THEN Min(closed) ELSE e.start - 1}
Comparable(e, good) == IF good = {} THEN e.sources ELSE good
ComparisonWatermark(g, e) ==
  IF ~IsLive(e) THEN {e.end}
  ELSE WatermarkOf(g, e, Comparable(e, {s \in e.sources : Continuous(g, e, s) /\ ~Lagging(g, e, s)}))

\* The participant a fact counts for, or None.
CountsFor(g, e, f, watermark) ==
  LET owner == OwnerInEncounter(g, e, f)
      who   == IF owner = None THEN f.att ELSE owner
  IN  IF /\ f.kind = "hit" /\ f.amount > 0 /\ (\A limit \in watermark : f.t <= limit)
         /\ f.def \in DOMAIN e.targets /\ f.def \notin g.verified /\ who # f.def
         /\ \/ owner # None \/ f.att \in Pet
            \/ f.att \in g.verified \/ PossiblePlayer(f.att)
      THEN who ELSE None

\* Seconds covered by the ranges, gaps of up to BridgeSeconds included.
InclusiveSeconds(range) == range[2] - range[1] + 1
Span(seconds) == <<Min(seconds), Max(seconds)>>
UnionRangeSeconds(ranges) ==
  LET sorted == SetToSortSeq(ranges, LAMBDA a, b : a[1] < b[1] \/ (a[1] = b[1] /\ a[2] < b[2]))
      Add(acc, next) ==
        IF next[1] - acc.current[2] <= BridgeSeconds
        THEN [acc EXCEPT !.current[2] = Later(@, next[2])]
        ELSE [total |-> acc.total + InclusiveSeconds(acc.current), current |-> next]
      sum == FoldLeft(Add, [total |-> 0, current |-> sorted[1]], sorted)
  IN  sum.total + InclusiveSeconds(sum.current)

Better(a, b) ==
  LET Lex(x, y) == IF x > y THEN 1 ELSE IF x < y THEN -1 ELSE 0
      order == <<Lex(IF a.complete THEN 1 ELSE 0, IF b.complete THEN 1 ELSE 0),
                 Lex(a.damage, b.damage), Lex(a.events, b.events), Lex(a.targets, b.targets),
                 Lex(a.seconds, b.seconds), Lex(b.source, a.source)>>
      first == SelectInSeq(order, LAMBDA x : x # 0)
  IN  first # 0 /\ order[first] = 1

\* credit: the participant each fact of the encounter counts for.
Candidate(g, e, credit, p, s) ==
  LET own == {i \in e.facts : g.ledger[i].source = s /\ credit[i] = p}
  IN  [participant |-> p, source |-> s, complete |-> Continuous(g, e, s), personal |-> p = s,
       damage |-> MapThenSumSet(LAMBDA i : g.ledger[i].amount, own),
       events |-> Cardinality(own), targets |-> Cardinality({g.ledger[i].def : i \in own}),
       seconds |-> UnionRangeSeconds({Span({g.ledger[i].t : i \in {j \in own : g.ledger[j].def = m}}) :
                                        m \in {g.ledger[i].def : i \in own}})]

Elected(options) ==
  LET sure == {c \in options : c.personal /\ c.complete}
  IN  IF sure # {} THEN CHOOSE c \in sure : TRUE
      ELSE CHOOSE c \in options : \A o \in options \ {c} : Better(c, o)
Elect(g, e, credit, p) ==
  Elected({Candidate(g, e, credit, p, s) : s \in {g.ledger[i].source : i \in {j \in e.facts : credit[j] = p}}})

\* compute_snapshot: <<>> when nobody has counted damage yet.
SnapshotOf(g, e, credit) ==
  LET who == {credit[i] : i \in e.facts} \ {None}
  IN  IF who = {} THEN <<>>
      ELSE <<[phase |-> e.phase, until |-> e.until, sources |-> e.sources,
              seconds |-> e.end - e.start + 1,
              rows |-> {Elect(g, e, credit, p) : p \in who}]>>
Credits(g, e, watermark) == [i \in e.facts |-> CountsFor(g, e, g.ledger[i], watermark)]
ComputeSnapshot(g, e)    == SnapshotOf(g, e, Credits(g, e, ComparisonWatermark(g, e)))

-----------------------------------------------------------------------------
(* The clock *)

CloseAtEof(g) ==
  [g EXCEPT !.sources = [s \in DOMAIN @ |->
     IF @[s].eofPasses >= 2 /\ g.now - @[s].eofFirst >= StableEof
     THEN [@[s] EXCEPT !.closed = Later(@, g.sources[s].observed)] ELSE @[s]]]

Inactive(g) ==
  [g EXCEPT !.encounters = [id \in DOMAIN @ |->
     IF @[id].phase = "Active" /\ g.now - @[id].sustainReceipt >= Inactivity
     THEN EnterEnding(@[id], "Inactivity", g.now, @[id].sustain) ELSE @[id]]]

OpenSources(g, e) == {s \in e.closure : g.sources[s].closed = None \/ g.sources[s].closed < e.cutoff}
MayFinalize(g, e) ==
  e.phase = "Ending" /\ (OpenSources(g, e) = {} \/ g.now - e.enteredAt >= EndingGrace)
WithSnapshot(e, new) == IF new = <<>> THEN e ELSE [e EXCEPT !.snapshot = new]
Frozen(g, e)    == WithSnapshot(e, ComputeSnapshot(g, e))
Finalized(g, e) == Frozen(g, [Reactivated(e) EXCEPT !.phase = "Held", !.until = g.now + HeldFor,
                                                    !.partial = @ \cup OpenSources(g, e)])

Finalize(g) ==
  LET over == {id \in DOMAIN g.encounters : MayFinalize(g, g.encounters[id])}
  IN  [g EXCEPT !.encounters = [id \in DOMAIN @ |-> IF id \in over THEN Finalized(g, @[id])
                                                    ELSE @[id]],
                !.active = [s \in {x \in DOMAIN @ : @[x] \notin over} |-> @[s]]]

ExpireHeld(g) ==
  LET gone == {id \in DOMAIN g.encounters :
                 ~IsLive(g.encounters[id]) /\ g.now >= g.encounters[id].until}
      left == Drop(g.encounters, gone)
      clear == gone # {} /\ DOMAIN left = {}
  IN  [g EXCEPT !.encounters = left, !.ledger = IF clear THEN <<>> ELSE @,
                !.assigned = IF clear THEN {} ELSE @]

AdvanceTime(g) == ExpireHeld(Finalize(Inactive(CloseAtEof(g))))

\* rebuild_book: held encounters keep their frozen snapshot, live ones keep the last when
\* nothing can be computed.
Booked(g) ==
  [g EXCEPT !.book = [id \in {x \in DOMAIN g.encounters : g.encounters[x].snapshot # <<>>} |->
                        g.encounters[id].snapshot[1]]]
RebuildBook(g) ==
  Booked([g EXCEPT !.encounters = [id \in DOMAIN @ |-> IF IsLive(@[id]) THEN Frozen(g, @[id]) ELSE @[id]]])

Applied(g) == RebuildBook(AdvanceTime(g))

-----------------------------------------------------------------------------
(* The world and the tailer *)

LogOf(script, s) ==
  LET Seen(n) == s \in script[n].seenBy
      lines == SelectSeq([n \in DOMAIN script |-> n], Seen)
  IN  [k \in DOMAIN lines |-> [n |-> lines[k], e |-> script[lines[k]].event]]

Settled == [engine EXCEPT !.lost = FALSE]

ReadRecord(s) ==
  /\ s \in DOMAIN engine.sources /\ engine.sources[s].present
  /\ reader[s].pos < Len(logs[s])
  /\ reader' = [reader EXCEPT ![s].pos = @ + 1, ![s].seq = @ + 1,
                              ![s].furthest = Later(@, reader[s].pos + 1)]
  /\ LET e == logs[s][reader[s].pos + 1].e
         r == [kind |-> e.kind, t |-> e.t, att |-> e.att, def |-> e.def, amount |-> e.amount,
               owner |-> e.owner, gen |-> reader[s].gen, seq |-> reader[s].seq]
     IN  engine' = Applied(ApplyRecord(Settled, s, r))
  /\ UNCHANGED <<world, logs, faults>>

\* The file was emptied, or rewritten with its old lines in it, and is read from its
\* start (FileRecreated, FileTruncated, BoundaryChanged), or framing was lost
\* (OversizedRecord).
Gap(s, from, forget) ==
  /\ faults < MaxFaults(world) /\ faults' = faults + 1
  /\ s \in DOMAIN engine.sources /\ from \in {0, reader[s].pos}
  /\ ~forget => from = reader[s].pos
  /\ reader' = [reader EXCEPT ![s].gen = @ + 1, ![s].pos = from, ![s].seq = 0]
  /\ engine' = Applied(MarkGap(Settled, s, reader[s].gen + 1, forget))
  /\ UNCHANGED <<world, logs>>

\* The tailer tracks the log anew: from its end at that time, with its first generation and sequence.
Register(s, at) ==
  /\ s \notin DOMAIN engine.sources \/ ~engine.sources[s].present
  /\ at \in reader[s].pos..Len(logs[s])
  /\ reader' = [reader EXCEPT ![s].gen = 0, ![s].pos = at, ![s].seq = 0]
  /\ engine' = Applied(RegisterSource(Settled, s, 0))
  /\ UNCHANGED <<world, logs, faults>>

\* The client is gone; its log is read no more until it is registered again.
Unregister(s) ==
  /\ faults < MaxFaults(world) /\ faults' = faults + 1
  /\ s \in DOMAIN engine.sources /\ engine.sources[s].present
  /\ engine' = Applied(RemoveSource(Settled, s))
  /\ UNCHANGED <<world, logs, reader>>

StableEofPass(s) ==
  /\ s \in DOMAIN engine.sources
  /\ engine.sources[s].eofPasses < 2
  /\ engine' = Applied(NoteStableEof(Settled, s, reader[s].gen))
  /\ UNCHANGED <<world, logs, reader, faults>>

CombatTick ==
  /\ engine.now < MaxNow
  /\ engine' = Applied([Settled EXCEPT !.now = @ + 1])
  /\ UNCHANGED <<world, logs, reader, faults>>

CombatInit ==
  /\ world \in Scripts /\ logs = [s \in Source |-> LogOf(world, s)] /\ faults = 0
  /\ reader = [s \in Source |-> [gen |-> 0, pos |-> 0, seq |-> 0, furthest |-> 0]]
  /\ engine = LET Registered(g, s) == RegisterSource(g, s, 0)
              IN  FoldLeft(Registered, EngineInit, SetToSeq(Source))

CombatNext ==
  \/ \E s \in Source :
       \/ ReadRecord(s) \/ Unregister(s) \/ StableEofPass(s)
       \/ \E at \in 0..Len(world) : Register(s, at)
       \/ \E from \in 0..Len(world), forget \in BOOLEAN : Gap(s, from, forget)
  \/ CombatTick

CombatSpec == CombatInit /\ [][CombatNext]_combatVars

-----------------------------------------------------------------------------
(* Properties *)

\* The events some log was read up to; later ones may not have happened yet.
Happened ==
  Max({0} \cup {logs[s][reader[s].furthest].n : s \in {x \in Source : reader[x].furthest > 0}})
TrueDamage(p) ==
  LET Dealt(e) == /\ e.kind = "hit"
                  /\ \/ e.att = p \/ e.owner = p
                     \/ \E c \in engine.ownership : c.pet = e.att /\ c.owner = p
  IN  MapThenSumSet(LAMBDA n : world[n].event.amount,
                    {n \in 1..Happened : Dealt(world[n].event)})

\* Types; one row per participant.
CombatTypeOK ==
  /\ engine.now \in 0..MaxNow /\ faults \in 0..MaxFaults(world)
  /\ Cardinality(DOMAIN engine.encounters) <= MaxEncounters /\ Len(engine.ledger) <= MaxLedger
  /\ \A id \in DOMAIN engine.encounters : engine.encounters[id].phase \in {"Active", "Ending", "Held"}
  /\ \A id \in DOMAIN engine.book : \A a, b \in engine.book[id].rows :
       a.participant = b.participant => a = b

\* No participant is credited with more damage than was dealt, however many logs saw a hit,
\* whatever is read twice after a rewritten file, and whatever encounters were merged
\* (elect, is_replayed_occurrence, history_floor, merge_encounters).
NeverOvercounts ==
  \A id \in DOMAIN engine.book : \A row \in engine.book[id].rows :
    row.damage <= TrueDamage(row.participant)

\* A fact belongs to one encounter and its index is valid, across merges, withdrawal at the
\* ledger's bound and the clearing of the ledger after the last hold.
FactsOwnedOnce ==
  \A id \in DOMAIN engine.encounters :
    /\ engine.encounters[id].facts \subseteq DOMAIN engine.ledger \cap engine.assigned
    /\ \A other \in DOMAIN engine.encounters \ {id} :
         engine.encounters[id].facts \cap engine.encounters[other].facts = {}

\* Nobody is active longer than the encounter lasted, so the damage rate over active seconds
\* is never below the one over the encounter (union_range_seconds, inclusive_seconds).
RowsConsistent ==
  \A id \in DOMAIN engine.book : \A row \in engine.book[id].rows :
    row.seconds \in 1..engine.book[id].seconds

\* No encounter outstays its deadline: idle, ending or held (advance_time at every call).
DeadlinesKept ==
  \A id \in DOMAIN engine.encounters :
    LET e == engine.encounters[id]
    IN  /\ e.phase = "Active" => engine.now - e.sustainReceipt < Inactivity
        /\ e.phase = "Ending" => engine.now - e.enteredAt < EndingGrace
        /\ e.phase = "Held" => engine.now < e.until

\* A source that lost its continuity during an encounter does not become complete again in
\* it (dps-overlay.md: "a partial source cannot regain complete status").
PartialStays ==
  [][Len(engine'.ledger) >= Len(engine.ledger) =>    \* not withdrawn
       \A id \in DOMAIN engine.encounters \cap DOMAIN engine'.encounters :
       \A s \in engine.encounters[id].sources :
         (IsLive(engine.encounters[id]) /\ ~Continuous(engine, engine.encounters[id], s))
           => ~Continuous(engine', engine'.encounters[id], s)]_combatVars

\* Several logs of one fight, read late, twice or not at all, add up to that fight.
CombatSound ==
  CombatTypeOK /\ NeverOvercounts /\ FactsOwnedOnce /\ RowsConsistent /\ DeadlinesKept

\* What the design promises of combat after a closed encounter: a qualified hit that is later
\* than everything ending or held is in a live encounter once it was applied.
LaterCombatCounts == ~engine.lost
=============================================================================
