------------------------- MODULE KeyDeliveryProofs -------------------------
(***************************************************************************)
(* For any processes, keys and requests: each mapping shows the union of   *)
(* what its two sources hold, a targeted sequence has exactly the keys of  *)
(* its stroke down, and a success is told only after every stroke was      *)
(* completely down in every client.                                        *)
(*                                                                         *)
(* The argument: a request is in the queue at most once and only before    *)
(* its inputs run, so that a batch starts from nothing; an input that has  *)
(* passed a stroke has had it down; and a batch that has lost an input     *)
(* without an error has delivered it.                                      *)
(***************************************************************************)
EXTENDS KeyDelivery, SequenceTheorems, TLAPS

\* What no mapping holds, nothing holds for it.
RetiredKeysUp == \A p \in Pid \ targets : bkeys[p] = {}

InQueue(r) == \E n \in DOMAIN queue : queue[n] = r

\* A request waits in the queue once at most, and before its inputs run.
QueuedOnce ==
  /\ \A m, n \in DOMAIN queue : queue[m] = queue[n] => m = n
  /\ \A r \in Req : InQueue(r) => InputsOf(r) = {}
  /\ \A r \in Req : reply[r] = "unsent" => ~InQueue(r) /\ InputsOf(r) = {}

\* Every stroke of r was completely down in p.
TypedWhole(r, p) == \A n \in DOMAIN Job[r].prog : <<r, p, n>> \in pressed

\* Input i of p has had its strokes down as far as it has come.
Typed(i, p) ==
  /\ \A n \in 1 .. (i.index - 1) : <<i.by, p, n>> \in pressed
  /\ i.phase \in {"Release", "ReleaseModifiers", "Finish"} => <<i.by, p, i.index>> \in pressed
  /\ i.phase = "Finish" => i.index = Len(ProgOf(i.by))

InputsTyped ==
  \A p \in Running : input[p].by # Local =>
    p \in Job[input[p].by].pids /\ Typed(input[p], p)

\* What a batch no longer waits for was delivered, or it knows of the error.
BatchesTyped ==
  \A r \in Req : reply[r] = "pending" /\ batch[r] # NoBatch /\ ~batch[r].error =>
    \A p \in Job[r].pids \ batch[r].remaining : TypedWhole(r, p)

Mappings == MappingSound /\ RetiredKeysUp /\ TargetedKeysOwned
Requests == BatchesTrackInputs /\ QueuedOnce /\ InputsTyped /\ BatchesTyped /\ AnswersTruthful

KeyInv == TypeOK /\ Mappings /\ Requests

-----------------------------------------------------------------------------
(* Programs, strokes and inputs.                                           *)

LEMMA Programs ==
  ASSUME NEW by \in Req \cup {Local}
  PROVE  /\ ProgOf(by) \in Seq((SUBSET Scan) \ {{}})
         /\ Len(ProgOf(by)) \in Nat \ {0}
         /\ DOMAIN ProgOf(by) = 1 .. Len(ProgOf(by))
<1>1. ProgOf(by) \in Program
  BY JobAssumption DEF ProgOf
<1> QED BY <1>1 DEF Program

LEMMA StrokeOfInput ==
  ASSUME NEW i \in Input, i.index <= Len(ProgOf(i.by))
  PROVE  Stroke(i) \subseteq Scan
<1>1. i.by \in Req \cup {Local} /\ i.index \in Nat \ {0}
  BY DEF Input
<1>2. i.index \in 1 .. Len(ProgOf(i.by))
  BY <1>1, Programs
<1>3. ProgOf(i.by)[i.index] \in (SUBSET Scan) \ {{}}
  BY <1>1, <1>2, Programs
<1> QED BY <1>3 DEF Stroke

LEMMA NoInputIsNone == NoInput \notin Input
<1>1. \A i \in Input : DOMAIN i = {"by", "index", "phase", "wait"}
  BY DEF Input
<1>2. DOMAIN NoInput = {"by"}
  BY DEF NoInput
<1> QED BY <1>1, <1>2

LEMMA RunningInputs ==
  ASSUME TypeOK, NEW p \in Pid
  PROVE  /\ p \in Running <=> input[p] \in Input
         /\ p \in Running => /\ input[p].index <= Len(ProgOf(input[p].by))
                             /\ Stroke(input[p]) \subseteq Scan
<1>1. input[p] \in Input \cup {NoInput}
  BY DEF TypeOK
<1>2. p \in Running <=> input[p] \in Input
  BY <1>1, NoInputIsNone DEF Running
<1>3. p \in Running => input[p].index <= Len(ProgOf(input[p].by))
  BY DEF TypeOK
<1> QED BY <1>2, <1>3, StrokeOfInput

\* What follows a phase is again an input of the same request, and it has down what
\* the phase leaves down.
LEMMA NextPhaseOfInput ==
  ASSUME NEW i \in Input, i.index <= Len(ProgOf(i.by)), i.phase # "Finish"
  PROVE  /\ NextPhase(i) \in Input /\ NextPhase(i).by = i.by
         /\ NextPhase(i).index <= Len(ProgOf(i.by))
         /\ NextPhase(i).index = i.index \/ NextPhase(i).index = i.index + 1
<1>1. CompleteStroke(i) \in Input /\ CompleteStroke(i).by = i.by
      /\ CompleteStroke(i).index <= Len(ProgOf(i.by))
      /\ (CompleteStroke(i).index = i.index \/ CompleteStroke(i).index = i.index + 1)
  <2>1. i.by \in Req \cup {Local} /\ i.index \in Nat \ {0}
    BY DEF Input
  <2>2. Len(ProgOf(i.by)) \in Nat \ {0}
    BY <2>1, Programs
  <2>3. CASE i.index = Len(ProgOf(i.by))
    <3>1. CompleteStroke(i) = [i EXCEPT !.phase = "Finish", !.wait = TRUE]
      BY <2>3 DEF CompleteStroke, GoTo
    <3> QED BY <3>1, <2>3 DEF Input, Phase
  <2>4. CASE i.index # Len(ProgOf(i.by))
    <3>1. CompleteStroke(i) = [i EXCEPT !.index = i.index + 1, !.phase = "Press", !.wait = TRUE]
      BY <2>4 DEF CompleteStroke
    <3>2. PICK n \in Nat \ {0} : n = i.index + 1
      BY <2>1
    <3>3. CompleteStroke(i) \in Input /\ CompleteStroke(i).by = i.by /\ CompleteStroke(i).index = n
      BY <3>1, <3>2 DEF Input, Phase
    <3> QED BY <3>2, <3>3, <2>1, <2>2, <2>4
  <2> QED BY <2>3, <2>4
<1>2. \A ph \in Phase : GoTo(i, ph) \in Input /\ GoTo(i, ph).by = i.by /\ GoTo(i, ph).index = i.index
  BY DEF GoTo, Input
<1>3. \/ NextPhase(i) = CompleteStroke(i)
      \/ \E ph \in Phase : NextPhase(i) = GoTo(i, ph)
  BY DEF NextPhase, Phase
<1> QED BY <1>1, <1>2, <1>3

\* advance_one_input(), by the phase it writes.
LEMMA PhaseCases ==
  ASSUME NEW i \in Input, i.phase # "Finish"
  PROVE  \/ i.phase = "Press" /\ HasModifierChord(Stroke(i)) /\ NextPhase(i) = GoTo(i, "PressChord")
         \/ i.phase = "Press" /\ ~HasModifierChord(Stroke(i)) /\ NextPhase(i) = GoTo(i, "Release")
         \/ i.phase = "PressChord" /\ NextPhase(i) = GoTo(i, "Release")
         \/ i.phase = "Release" /\ HasModifierChord(Stroke(i)) /\ NextPhase(i) = GoTo(i, "ReleaseModifiers")
         \/ i.phase = "Release" /\ ~HasModifierChord(Stroke(i)) /\ NextPhase(i) = CompleteStroke(i)
         \/ i.phase = "ReleaseModifiers" /\ NextPhase(i) = CompleteStroke(i)
<1>1. i.phase \in Phase
  BY DEF Input
<1> QED BY <1>1 DEF NextPhase, Phase

\* The keys down after a phase are the keys down before it and the phase's own.
LEMMA PhaseMoves ==
  ASSUME NEW i \in Input, i.phase # "Finish"
  PROVE  /\ i.phase \in {"Press", "PressChord"} =>
              Down(NextPhase(i)) = Down(i) \cup PhaseScans(Stroke(i), i.phase)
         /\ i.phase \notin {"Press", "PressChord"} =>
              Down(NextPhase(i)) = Down(i) \ PhaseScans(Stroke(i), i.phase)
<1>1. \A ph \in Phase : GoTo(i, ph).phase = ph /\ Stroke(GoTo(i, ph)) = Stroke(i)
  BY DEF GoTo, Input, Stroke
<1>2. CompleteStroke(i).phase \in {"Press", "Finish"}
  BY DEF CompleteStroke, GoTo, Input
<1>3. Down(CompleteStroke(i)) = {}
  BY <1>2 DEF Down
<1>4. /\ Down(GoTo(i, "PressChord")) = Stroke(i) \cap Modifier
      /\ Down(GoTo(i, "Release")) = Stroke(i)
      /\ Down(GoTo(i, "ReleaseModifiers")) = Stroke(i) \cap Modifier
  BY <1>1 DEF Down, Phase
<1>5. CASE i.phase = "Press"
  BY <1>4, <1>5, PhaseCases DEF Down, PhaseScans
<1>6. CASE i.phase = "PressChord"
  BY <1>4, <1>6, PhaseCases DEF Down, PhaseScans
<1>7. CASE i.phase = "Release"
  BY <1>3, <1>4, <1>7, PhaseCases DEF Down, PhaseScans
<1>8. CASE i.phase = "ReleaseModifiers"
  BY <1>3, <1>8, PhaseCases DEF Down, PhaseScans
<1> QED BY <1>5, <1>6, <1>7, <1>8, PhaseCases

-----------------------------------------------------------------------------
(* Mappings.                                                               *)

\* write_combined_key() on every key that changed leaves the union of the sources.
LEMMA CombinedUnion ==
  ASSUME NEW old, NEW S, NEW b, NEW t, old \ S = (b \cup t) \ S
  PROVE  WriteCombined(old, S, b, t) = b \cup t
BY DEF WriteCombined

\* The sources of a mapping, one by one.
Fed(src, on, typing) ==
  /\ src \subseteq Source
  /\ "Broadcast" \in src <=> on
  /\ "Targeted" \in src <=> typing

LEMMA SourcesOneByOne ==
  ASSUME NEW src, NEW p
  PROVE  src = {s \in Source : /\ p \in targets
                               /\ s = "Broadcast" => broadcasting
                               /\ s = "Targeted" => p \in tactive}
           <=> Fed(src, p \in targets /\ broadcasting, p \in targets /\ p \in tactive)
BY DEF Fed, Source

LEMMA MappingsStay ==
  ASSUME Mappings, UNCHANGED <<targets, broadcasting, shmVars, input>>
  PROVE  Mappings'
<1> USE DEF Mappings, shmVars
<1>1. MappingSound'
  BY DEF MappingSound, MappingIsUnion, NoKeysOnceOff
<1>2. RetiredKeysUp'
  BY DEF RetiredKeysUp
<1>3. TargetedKeysOwned'
  BY DEF TargetedKeysOwned, Running
<1> QED BY <1>1, <1>2, <1>3

LEMMA RequestsStay ==
  ASSUME Requests, UNCHANGED inputVars
  PROVE  Requests'
<1> USE DEF Requests, inputVars
<1>0. /\ Running' = Running
      /\ \A r : InputsOf(r)' = InputsOf(r) /\ InQueue(r)' = InQueue(r)
  BY DEF Running, InputsOf, InQueue
<1>1. BatchesTrackInputs'
  BY <1>0 DEF BatchesTrackInputs
<1>2. QueuedOnce'
  BY <1>0 DEF QueuedOnce
<1>3. InputsTyped'
  BY <1>0 DEF InputsTyped, Typed
<1>4. BatchesTyped'
  BY DEF BatchesTyped, TypedWhole
<1>5. AnswersTruthful'
  BY DEF AnswersTruthful
<1> QED BY <1>1, <1>2, <1>3, <1>4, <1>5

-----------------------------------------------------------------------------

LEMMA InitKeyInv == Init => KeyInv
<1> SUFFICES ASSUME Init PROVE KeyInv
  OBVIOUS
<1> USE DEF Init
<1>1. Running = {}
  BY DEF Running
<1>2. TypeOK
  <2>1. /\ foreground \in Pid \cup {NoPid} /\ held \subseteq Scan /\ acked \subseteq Pid
        /\ running \in BOOLEAN /\ loaded \subseteq Pid /\ targets \subseteq loaded
        /\ activePid \in Pid \cup {NoPid} /\ broadcasting \in BOOLEAN
        /\ wasForeground \in BOOLEAN /\ blocked \subseteq Scan /\ tactive \subseteq targets
        /\ suppressed \subseteq targets /\ timer \in BOOLEAN
        /\ pressed \subseteq Req \X Pid \X (Nat \ {0})
    BY InstanceAssumption
  <2>2. /\ bkeys \in [Pid -> SUBSET Scan] /\ tkeys \in [Pid -> SUBSET Scan]
        /\ keys \in [Pid -> SUBSET Scan] /\ sources \in [Pid -> SUBSET Source]
    OBVIOUS
  <2>3. /\ input \in [Pid -> Input \cup {NoInput}]
        /\ batch \in [Req -> [remaining : SUBSET Pid, error : BOOLEAN]]
        /\ queue \in Seq(Req)
        /\ reply \in [Req -> {"unsent", "pending", "ok", "err", "failed"}]
    BY DEF NoBatch
  <2> QED BY <1>1, <2>1, <2>2, <2>3 DEF TypeOK
<1>3. MappingSound /\ RetiredKeysUp /\ TargetedKeysOwned
  BY DEF MappingSound, MappingIsUnion, NoKeysOnceOff, RetiredKeysUp, TargetedKeysOwned
<1>4. /\ \A r : InputsOf(r) = {} /\ ~InQueue(r)
      /\ DOMAIN queue = {}
  BY <1>1 DEF InputsOf, InQueue
<1>5. BatchesTrackInputs /\ QueuedOnce
  BY <1>1, <1>4 DEF BatchesTrackInputs, QueuedOnce, NoBatch
<1>6. InputsTyped /\ BatchesTyped /\ AnswersTruthful
  BY <1>1 DEF InputsTyped, BatchesTyped, AnswersTruthful
<1> QED BY <1>2, <1>3, <1>5, <1>6 DEF KeyInv, Mappings, Requests

-----------------------------------------------------------------------------
(* The world and the overlay.                                              *)

\* What a step that leaves mappings and requests alone has to show.
LEMMA TypesStay ==
  ASSUME TypeOK, UNCHANGED inputVars,
         /\ foreground' \in Pid \cup {NoPid} /\ held' \subseteq Scan /\ acked' \subseteq Pid
         /\ running' \in BOOLEAN /\ loaded' \subseteq Pid /\ targets' \subseteq loaded'
         /\ activePid' \in Pid \cup {NoPid} /\ broadcasting' \in BOOLEAN
         /\ wasForeground' \in BOOLEAN /\ blocked' \subseteq Scan,
         /\ bkeys' \in [Pid -> SUBSET Scan] /\ tkeys' \in [Pid -> SUBSET Scan]
         /\ tactive' \subseteq targets'
         /\ keys' \in [Pid -> SUBSET Scan] /\ sources' \in [Pid -> SUBSET Source]
         /\ suppressed' \subseteq targets'
  PROVE  TypeOK'
BY DEF TypeOK, inputVars, Running

LEMMA FocusChangeStep ==
  ASSUME KeyInv, NEW p \in MayFocus \cup {NoPid}, FocusChange(p)
  PROVE  KeyInv'
<1> USE DEF KeyInv, FocusChange, targetVars, castVars
<1>1. TypeOK'
  BY TypesStay, InstanceAssumption DEF TypeOK, shmVars
<1> QED BY <1>1, MappingsStay, RequestsStay DEF inputVars

LEMMA ProxyAckStep ==
  ASSUME KeyInv, NEW p \in Pid, ProxyAck(p)
  PROVE  KeyInv'
<1> USE DEF KeyInv, ProxyAck, targetVars, castVars
<1>1. TypeOK'
  BY TypesStay DEF TypeOK, shmVars
<1> QED BY <1>1, MappingsStay, RequestsStay DEF inputVars

LEMMA SetActivePidStep ==
  ASSUME KeyInv, NEW p \in MayFocus, SetActivePid(p)
  PROVE  KeyInv'
<1> USE DEF KeyInv, SetActivePid, worldVars, castVars
<1>1. TypeOK'
  BY TypesStay, InstanceAssumption DEF TypeOK
<1>2. Mappings'
  <2>1. MappingSound'
    BY DEF Mappings, MappingSound, MappingIsUnion, NoKeysOnceOff
  <2>2. RetiredKeysUp'
    BY DEF Mappings, RetiredKeysUp
  <2>3. TargetedKeysOwned'
    BY DEF Mappings, TargetedKeysOwned, Running, inputVars
  <2> QED BY <2>1, <2>2, <2>3 DEF Mappings
<1> QED BY <1>1, <1>2, RequestsStay

LEMMA PollStep ==
  ASSUME KeyInv, NEW pids \in PidReports, NEW active \in ActiveOf(pids),
         NEW new \in SUBSET (pids \ targets), NEW off \in BOOLEAN, Poll(pids, active, new, off)
  PROVE  KeyInv'
<1> DEFINE kept == targets \cap pids
           on   == broadcasting /\ ~off
<1>1. pids \subseteq Pid /\ new \subseteq pids /\ new \cap targets = {}
  BY InstanceAssumption
<1>2. active \in Pid \cup {NoPid}
  <2>1. CASE pids = {}
    BY <2>1 DEF ActiveOf
  <2>2. CASE pids # {} /\ pids \cap MayFocus = {}
    BY <2>2, <1>1 DEF ActiveOf
  <2>3. CASE pids \cap MayFocus # {}
    BY <2>3, <1>1 DEF ActiveOf
  <2> QED BY <2>1, <2>2, <2>3
<1>3. /\ broadcasting' = on /\ loaded' = pids /\ targets' = kept \cup new /\ activePid' = active
      /\ bkeys' = Only(kept, bkeys) /\ tkeys' = Only(kept, tkeys) /\ keys' = Only(kept, keys)
      /\ tactive' = tactive \cap kept
      /\ sources' = [p \in Pid |-> IF p \in kept THEN sources[p]
                                   ELSE IF p \in new /\ on THEN {"Broadcast"} ELSE {}]
      /\ suppressed' = (kept \cup new) \ {active}
      /\ UNCHANGED worldVars /\ UNCHANGED <<running, wasForeground, blocked>> /\ UNCHANGED inputVars
  BY DEF Poll
<1>4. off => kept = {}
  BY DEF Poll
<1>5. TypeOK
  BY DEF KeyInv
<1>6. TypeOK'
  <2>1. /\ foreground' \in Pid \cup {NoPid} /\ held' \subseteq Scan /\ acked' \subseteq Pid
        /\ running' \in BOOLEAN /\ loaded' \subseteq Pid /\ targets' \subseteq loaded'
        /\ activePid' \in Pid \cup {NoPid} /\ broadcasting' \in BOOLEAN
        /\ wasForeground' \in BOOLEAN /\ blocked' \subseteq Scan
    BY <1>1, <1>2, <1>3, <1>5 DEF TypeOK, worldVars
  <2>2. /\ tactive' \subseteq targets' /\ suppressed' \subseteq targets'
    BY <1>3
  <2>3. /\ bkeys' \in [Pid -> SUBSET Scan] /\ tkeys' \in [Pid -> SUBSET Scan]
        /\ keys' \in [Pid -> SUBSET Scan]
    BY <1>3, <1>5 DEF TypeOK, Only
  <2>4. sources' \in [Pid -> SUBSET Source]
    BY <1>3, <1>5 DEF TypeOK, Source
  <2> QED BY <1>3, <1>5, <2>1, <2>2, <2>3, <2>4, TypesStay
<1>7. ASSUME NEW p \in Pid
      PROVE  /\ bkeys'[p] = IF p \in kept THEN bkeys[p] ELSE {}
             /\ tkeys'[p] = IF p \in kept THEN tkeys[p] ELSE {}
             /\ keys'[p] = IF p \in kept THEN keys[p] ELSE {}
  BY <1>3 DEF Only
<1>8. MappingSound'
  <2>1. ASSUME NEW p \in Pid
        PROVE  keys'[p] = bkeys'[p] \cup tkeys'[p]
    BY <1>7 DEF KeyInv, Mappings, MappingSound, MappingIsUnion
  <2>2. ASSUME NEW p \in Pid
        PROVE  sources'[p] = {s \in Source : /\ p \in targets'
                                             /\ s = "Broadcast" => broadcasting'
                                             /\ s = "Targeted" => p \in tactive'}
    <3>1. sources[p] = {s \in Source : /\ p \in targets
                                       /\ s = "Broadcast" => broadcasting
                                       /\ s = "Targeted" => p \in tactive}
      BY DEF KeyInv, Mappings, MappingSound, MappingIsUnion
    <3>2. CASE p \in kept
      <4>1. sources'[p] = sources[p] /\ broadcasting' = broadcasting /\ p \in targets' /\ p \in targets
            /\ (p \in tactive' <=> p \in tactive)
        BY <1>3, <1>4, <1>5, <3>2 DEF TypeOK
      <4> QED BY <3>1, <4>1
    <3>3. CASE p \notin kept /\ p \in new
      <4>1. sources'[p] = IF on THEN {"Broadcast"} ELSE {}
        BY <1>3, <3>3
      <4>2. p \in targets' /\ p \notin tactive' /\ broadcasting' = on
        BY <1>3, <3>3
      <4> QED BY <4>1, <4>2 DEF Source
    <3>4. CASE p \notin kept /\ p \notin new
      BY <1>3, <3>4
    <3> QED BY <3>2, <3>3, <3>4
  <2>3. NoKeysOnceOff'
    <3>1. ASSUME ~broadcasting', NEW p \in Pid
          PROVE  bkeys'[p] = {}
      BY <1>3, <1>4, <1>7, <3>1 DEF KeyInv, Mappings, MappingSound, NoKeysOnceOff
    <3> QED BY <3>1 DEF NoKeysOnceOff
  <2> QED BY <2>1, <2>2, <2>3 DEF MappingSound, MappingIsUnion
<1>9. RetiredKeysUp'
  BY <1>3, <1>7 DEF RetiredKeysUp
<1>10. TargetedKeysOwned'
  <2>1. ASSUME NEW p \in Pid
        PROVE  IF p \in tactive' THEN p \in Running' /\ tkeys'[p] = Down(input'[p]) ELSE tkeys'[p] = {}
    BY <1>3, <1>7 DEF KeyInv, Mappings, TargetedKeysOwned, Running, inputVars
  <2> QED BY <2>1 DEF TargetedKeysOwned, Down, Stroke
<1> QED BY <1>3, <1>6, <1>8, <1>9, <1>10, RequestsStay DEF KeyInv, Mappings

-----------------------------------------------------------------------------
(* Broadcasting.                                                           *)

LEMMA SetActiveStep ==
  ASSUME KeyInv, NEW on \in BOOLEAN, SetActive(on)
  PROVE  KeyInv'
<1>1. /\ broadcasting' = on /\ broadcasting # on
      /\ sources' = [p \in Pid |-> IF p \notin targets THEN sources[p]
                               ELSE IF on THEN sources[p] \cup {"Broadcast"}
                               ELSE sources[p] \ {"Broadcast"}]
      /\ UNCHANGED worldVars /\ UNCHANGED targetVars /\ UNCHANGED inputVars
      /\ UNCHANGED <<wasForeground, blocked, tkeys, tactive, suppressed>>
  BY DEF SetActive
<1>2. TypeOK
  BY DEF KeyInv
<1>3. ASSUME NEW p \in Pid
      PROVE  /\ bkeys'[p] = IF p \in targets /\ ~on THEN {} ELSE bkeys[p]
             /\ keys'[p] = bkeys'[p] \cup tkeys[p]
  <2>1. keys[p] = bkeys[p] \cup tkeys[p]
    BY DEF KeyInv, Mappings, MappingSound, MappingIsUnion
  <2>2. CASE p \in targets /\ ~on
    <3>1. bkeys'[p] = {} /\ keys'[p] = WriteCombined(keys[p], Scan, {}, tkeys[p])
      BY <2>2 DEF SetActive, ClearBroadcast
    <3>2. keys[p] \subseteq Scan /\ tkeys[p] \subseteq Scan
      BY <1>2 DEF TypeOK
    <3>3. WriteCombined(keys[p], Scan, {}, tkeys[p]) = tkeys[p]
      BY <3>2 DEF WriteCombined
    <3> QED BY <2>2, <3>1, <3>3
  <2>3. CASE ~(p \in targets /\ ~on)
    BY <2>1, <2>3 DEF SetActive, ClearBroadcast
  <2> QED BY <2>2, <2>3
<1>4. TypeOK'
  <2>1. /\ foreground' \in Pid \cup {NoPid} /\ held' \subseteq Scan /\ acked' \subseteq Pid
        /\ running' \in BOOLEAN /\ loaded' \subseteq Pid /\ targets' \subseteq loaded'
        /\ activePid' \in Pid \cup {NoPid} /\ broadcasting' \in BOOLEAN
        /\ wasForeground' \in BOOLEAN /\ blocked' \subseteq Scan
        /\ tactive' \subseteq targets' /\ suppressed' \subseteq targets'
        /\ tkeys' \in [Pid -> SUBSET Scan]
    BY <1>1, <1>2 DEF TypeOK, worldVars, targetVars
  <2>2. /\ bkeys' = [p \in Pid |-> bkeys'[p]] /\ keys' = [p \in Pid |-> keys'[p]]
    BY DEF SetActive, ClearBroadcast
  <2>3. \A p \in Pid : bkeys'[p] \in SUBSET Scan /\ keys'[p] \in SUBSET Scan
    BY <1>2, <1>3 DEF TypeOK
  <2>4. /\ bkeys' \in [Pid -> SUBSET Scan] /\ keys' \in [Pid -> SUBSET Scan]
    BY <2>2, <2>3
  <2>5. sources' \in [Pid -> SUBSET Source]
    BY <1>1, <1>2 DEF TypeOK, Source
  <2> QED BY <1>1, <1>2, <2>1, <2>4, <2>5, TypesStay
<1>5. MappingSound'
  <2>1. ASSUME NEW p \in Pid
        PROVE  sources'[p] = {s \in Source : /\ p \in targets'
                                             /\ s = "Broadcast" => broadcasting'
                                             /\ s = "Targeted" => p \in tactive'}
    <3>1. sources[p] = {s \in Source : /\ p \in targets
                                       /\ s = "Broadcast" => broadcasting
                                       /\ s = "Targeted" => p \in tactive}
      BY DEF KeyInv, Mappings, MappingSound, MappingIsUnion
    <3>2. Fed(sources[p], p \in targets /\ broadcasting, p \in targets /\ p \in tactive)
      BY <3>1, SourcesOneByOne
    <3>3. sources'[p] = IF p \notin targets THEN sources[p]
                        ELSE IF on THEN sources[p] \cup {"Broadcast"} ELSE sources[p] \ {"Broadcast"}
      BY <1>1
    <3>4. Fed(sources'[p], p \in targets' /\ broadcasting', p \in targets' /\ p \in tactive')
      BY <1>1, <3>2, <3>3 DEF Fed, Source, targetVars
    <3> QED BY <3>4 DEF Fed, Source
  <2>2. NoKeysOnceOff'
    <3>1. ASSUME ~broadcasting', NEW p \in Pid
          PROVE  bkeys'[p] = {}
      BY <1>1, <1>3, <3>1 DEF KeyInv, Mappings, RetiredKeysUp
    <3> QED BY <3>1 DEF NoKeysOnceOff
  <2> QED BY <1>1, <1>3, <2>1, <2>2 DEF MappingSound, MappingIsUnion
<1>6. RetiredKeysUp'
  BY <1>1, <1>3 DEF KeyInv, Mappings, RetiredKeysUp, targetVars
<1>7. TargetedKeysOwned'
  BY <1>1 DEF KeyInv, Mappings, TargetedKeysOwned, Running, inputVars
<1> QED BY <1>1, <1>4, <1>5, <1>6, <1>7, RequestsStay DEF KeyInv, Mappings

LEMMA OnSettingsChangedStep ==
  ASSUME KeyInv, NEW f \in Filters, OnSettingsChanged(f)
  PROVE  KeyInv'
<1>0. /\ TypeOK /\ f \subseteq Scan /\ blocked' = f
      /\ UNCHANGED worldVars /\ UNCHANGED targetVars /\ UNCHANGED shmVars /\ UNCHANGED inputVars
      /\ UNCHANGED <<broadcasting, wasForeground>>
  BY InstanceAssumption DEF KeyInv, OnSettingsChanged
<1>1. TypeOK'
  <2>1. /\ foreground' \in Pid \cup {NoPid} /\ held' \subseteq Scan /\ acked' \subseteq Pid
        /\ running' \in BOOLEAN /\ loaded' \subseteq Pid /\ targets' \subseteq loaded'
        /\ activePid' \in Pid \cup {NoPid} /\ broadcasting' \in BOOLEAN
        /\ wasForeground' \in BOOLEAN /\ blocked' \subseteq Scan
    BY <1>0 DEF TypeOK, worldVars, targetVars
  <2>2. /\ bkeys' \in [Pid -> SUBSET Scan] /\ tkeys' \in [Pid -> SUBSET Scan]
        /\ tactive' \subseteq targets'
        /\ keys' \in [Pid -> SUBSET Scan] /\ sources' \in [Pid -> SUBSET Source]
        /\ suppressed' \subseteq targets'
    BY <1>0 DEF TypeOK, shmVars, targetVars
  <2> QED BY <1>0, <2>1, <2>2, TypesStay
<1>2. UNCHANGED <<targets, broadcasting, shmVars, input>>
  BY <1>0 DEF targetVars, inputVars
<1> QED BY <1>0, <1>1, <1>2, MappingsStay, RequestsStay DEF KeyInv

LEMMA KeyEventStep ==
  ASSUME KeyInv, NEW k \in Typeable, NEW down \in BOOLEAN, NEW seen \in BOOLEAN,
         KeyEvent(k, down, seen)
  PROVE  KeyInv'
<1>1. /\ held' = IF down THEN held \cup {k} ELSE held \ {k}
      /\ bkeys' = [p \in Pid |-> IF seen THEN KeysAfter(p, k, down) ELSE bkeys[p]]
      /\ keys' = [p \in Pid |-> IF seen
                   THEN WriteCombined(keys[p], KeysTouched(p, k), bkeys'[p], tkeys[p]) ELSE keys[p]]
      /\ wasForeground' = IF seen THEN foreground \in loaded ELSE wasForeground
      /\ UNCHANGED targetVars /\ UNCHANGED inputVars
      /\ UNCHANGED <<foreground, acked, broadcasting, blocked, tkeys, tactive, sources, suppressed>>
  BY DEF KeyEvent
<1>2. TypeOK /\ k \in Scan
  BY ScanAssumption DEF KeyInv
<1>3. ASSUME NEW p \in Pid
      PROVE  /\ KeysTouched(p, k) \subseteq Scan
             /\ bkeys'[p] \subseteq Scan
             /\ bkeys'[p] \ KeysTouched(p, k) = bkeys[p] \ KeysTouched(p, k)
             /\ ~broadcasting \/ p \notin targets => bkeys'[p] \subseteq bkeys[p]
  <2>1. /\ KeysTouched(p, k) \subseteq Scan
        /\ p \notin targets => KeysTouched(p, k) = {}
        /\ ~broadcasting /\ foreground \in loaded => KeysTouched(p, k) = {}
    BY <1>2 DEF KeysTouched, ClearedOnFocusLoss, BroadcastTo
  <2>2. bkeys[p] \subseteq Scan
    BY <1>2 DEF TypeOK
  <2>3. CASE seen
    <3>1. bkeys'[p] = KeysAfter(p, k, down)
      BY <1>1, <2>3
    <3> QED BY <2>1, <2>2, <3>1 DEF KeysAfter
  <2>4. CASE ~seen
    BY <1>1, <2>1, <2>2, <2>4
  <2> QED BY <2>3, <2>4
<1>4. ASSUME NEW p \in Pid
      PROVE  keys'[p] = bkeys'[p] \cup tkeys[p]
  <2>1. keys[p] = bkeys[p] \cup tkeys[p]
    BY DEF KeyInv, Mappings, MappingSound, MappingIsUnion
  <2>2. CASE seen
    <3>1. keys'[p] = WriteCombined(keys[p], KeysTouched(p, k), bkeys'[p], tkeys[p])
      BY <1>1, <2>2
    <3>2. keys[p] \ KeysTouched(p, k) = (bkeys'[p] \cup tkeys[p]) \ KeysTouched(p, k)
      BY <1>3, <2>1
    <3>3. WriteCombined(keys[p], KeysTouched(p, k), bkeys'[p], tkeys[p]) = bkeys'[p] \cup tkeys[p]
      BY <3>2, CombinedUnion
    <3> QED BY <3>1, <3>3
  <2>3. CASE ~seen
    BY <1>1, <2>1, <2>3
  <2> QED BY <2>2, <2>3
<1>5. TypeOK'
  <2>0. held' \subseteq Scan
    <3>1. CASE down
      BY <1>1, <1>2, <3>1 DEF TypeOK
    <3>2. CASE ~down
      BY <1>1, <1>2, <3>2 DEF TypeOK
    <3> QED BY <3>1, <3>2
  <2>5. wasForeground' \in BOOLEAN
    <3>1. CASE seen
      BY <1>1, <3>1
    <3>2. CASE ~seen
      BY <1>1, <1>2, <3>2 DEF TypeOK
    <3> QED BY <3>1, <3>2
  <2>1. /\ foreground' \in Pid \cup {NoPid} /\ acked' \subseteq Pid
        /\ running' \in BOOLEAN /\ loaded' \subseteq Pid /\ targets' \subseteq loaded'
        /\ activePid' \in Pid \cup {NoPid} /\ broadcasting' \in BOOLEAN
        /\ blocked' \subseteq Scan
        /\ tactive' \subseteq targets' /\ suppressed' \subseteq targets'
        /\ tkeys' \in [Pid -> SUBSET Scan] /\ sources' \in [Pid -> SUBSET Source]
    BY <1>1, <1>2 DEF TypeOK, targetVars
  <2>2. \A p \in Pid : bkeys'[p] \in SUBSET Scan /\ keys'[p] \in SUBSET Scan
    BY <1>2, <1>3, <1>4 DEF TypeOK
  <2>3. bkeys' = [p \in Pid |-> bkeys'[p]] /\ keys' = [p \in Pid |-> keys'[p]]
    BY <1>1
  <2>4. /\ bkeys' \in [Pid -> SUBSET Scan] /\ keys' \in [Pid -> SUBSET Scan]
    BY <2>2, <2>3
  <2> QED BY <1>1, <1>2, <2>0, <2>1, <2>4, <2>5, TypesStay
<1>6. MappingSound'
  <2>1. NoKeysOnceOff'
    <3>1. ASSUME ~broadcasting', NEW p \in Pid
          PROVE  bkeys'[p] = {}
      BY <1>1, <1>3, <3>1 DEF KeyInv, Mappings, MappingSound, NoKeysOnceOff
    <3> QED BY <3>1 DEF NoKeysOnceOff
  <2>2. MappingIsUnion'
    BY <1>1, <1>4 DEF KeyInv, Mappings, MappingSound, MappingIsUnion, targetVars
  <2> QED BY <2>1, <2>2 DEF MappingSound
<1>7. RetiredKeysUp'
  BY <1>1, <1>3 DEF KeyInv, Mappings, RetiredKeysUp, targetVars
<1>8. TargetedKeysOwned'
  BY <1>1 DEF KeyInv, Mappings, TargetedKeysOwned, Running, inputVars
<1> QED BY <1>1, <1>5, <1>6, <1>7, <1>8, RequestsStay DEF KeyInv, Mappings

-----------------------------------------------------------------------------
(* Requests.                                                               *)

\* A request without inputs has no batch left, except one that knows of an error.
LEMMA IdleBatch ==
  ASSUME TypeOK, BatchesTrackInputs, NEW r \in Req, InputsOf(r) = {}
  PROVE  batch[r] = NoBatch \/ batch[r].error
<1>1. batch[r] \in [remaining : SUBSET Pid, error : BOOLEAN]
  BY DEF TypeOK
<1>2. batch[r].remaining = {}
  BY DEF BatchesTrackInputs
<1> QED BY <1>1, <1>2 DEF NoBatch

LEMMA EnqueueStep ==
  ASSUME KeyInv, NEW r \in Req, NEW notified \in BOOLEAN, Enqueue(r, notified)
  PROVE  KeyInv'
<1>1. /\ reply[r] = "unsent"
      /\ UNCHANGED <<targets, broadcasting, shmVars, input>>
      /\ UNCHANGED <<batch, timer, pressed>>
      /\ UNCHANGED worldVars /\ UNCHANGED targetVars /\ UNCHANGED castVars
  BY DEF Enqueue, targetVars, castVars
<1>2. TypeOK /\ BatchesTrackInputs /\ QueuedOnce /\ InputsTyped /\ BatchesTyped /\ AnswersTruthful
  BY DEF KeyInv, Requests
<1>3. queue \in Seq(Req) /\ reply \in [Req -> {"unsent", "pending", "ok", "err", "failed"}]
  BY <1>2 DEF TypeOK
<1>4. /\ reply' \in [Req -> {"unsent", "pending", "ok", "err", "failed"}]
      /\ reply'[r] \in {"pending", "failed"}
      /\ \A x \in Req \ {r} : reply'[x] = reply[x]
  BY <1>3 DEF Enqueue
<1>5. /\ queue' \in Seq(Req)
      /\ \/ queue' = queue /\ reply'[r] = "failed"
         \/ /\ Len(queue') = Len(queue) + 1 /\ queue'[Len(queue) + 1] = r
            /\ \A n \in 1 .. Len(queue) : queue'[n] = queue[n]
  BY <1>3, AppendProperties DEF Enqueue
<1>6. DOMAIN queue = 1 .. Len(queue) /\ DOMAIN queue' = 1 .. Len(queue') /\ Len(queue) \in Nat
  BY <1>3, <1>5
<1>7. ~InQueue(r) /\ InputsOf(r) = {}
  BY <1>1, <1>2 DEF QueuedOnce
<1>8. Running' = Running /\ \A x : InputsOf(x)' = InputsOf(x)
  BY <1>1 DEF Running, InputsOf
<1>9. /\ \A x : InQueue(x) => InQueue(x)'
      /\ \A x : InQueue(x)' => InQueue(x) \/ x = r
      /\ reply'[r] = "pending" => InQueue(r)'
      /\ \A m, n \in DOMAIN queue' : queue'[m] = queue'[n] => m = n
  <2>1. CASE queue' = queue /\ reply'[r] = "failed"
    BY <1>2, <2>1 DEF InQueue, QueuedOnce
  <2>2. CASE /\ Len(queue') = Len(queue) + 1 /\ queue'[Len(queue) + 1] = r
             /\ \A n \in 1 .. Len(queue) : queue'[n] = queue[n]
    <3>1. DOMAIN queue' = 1 .. Len(queue) + 1
      BY <1>6, <2>2
    <3>2. \A m, n \in DOMAIN queue' : queue'[m] = queue'[n] => m = n
      BY <1>2, <1>6, <1>7, <2>2, <3>1 DEF InQueue, QueuedOnce
    <3> QED BY <1>6, <2>2, <3>1, <3>2 DEF InQueue
  <2> QED BY <1>5, <2>1, <2>2
<1>10. TypeOK'
  BY <1>1, <1>2, <1>4, <1>5, <1>8 DEF TypeOK, worldVars, targetVars, castVars, shmVars
<1>11. BatchesTrackInputs'
  <2>1. \A x \in Req : reply'[x] = "pending" => InputsOf(x)' # {} \/ InQueue(x)'
    BY <1>2, <1>4, <1>8, <1>9 DEF BatchesTrackInputs, InQueue
  <2> QED BY <1>1, <1>2, <1>8, <2>1 DEF BatchesTrackInputs, InQueue
<1>12. QueuedOnce'
  BY <1>2, <1>4, <1>7, <1>8, <1>9 DEF QueuedOnce
<1>13. InputsTyped'
  BY <1>1, <1>2, <1>8 DEF InputsTyped, Typed
<1>14. BatchesTyped'
  <2>1. batch[r] = NoBatch \/ batch[r].error
    BY <1>2, <1>7, IdleBatch
  <2> QED BY <1>1, <1>2, <1>4, <2>1 DEF BatchesTyped, TypedWhole
<1>15. AnswersTruthful'
  BY <1>1, <1>2, <1>4 DEF AnswersTruthful
<1> QED BY <1>1, <1>10, <1>11, <1>12, <1>13, <1>14, <1>15, MappingsStay DEF KeyInv, Requests

LEMMA GiveUpStep ==
  ASSUME KeyInv, NEW r \in Req, GiveUp(r)
  PROVE  KeyInv'
<1>1. /\ UNCHANGED <<targets, broadcasting, shmVars, input>>
      /\ UNCHANGED <<batch, timer, pressed, queue>>
      /\ UNCHANGED worldVars /\ UNCHANGED targetVars /\ UNCHANGED castVars
  BY DEF GiveUp, targetVars, castVars
<1>2. TypeOK /\ BatchesTrackInputs /\ QueuedOnce /\ InputsTyped /\ BatchesTyped /\ AnswersTruthful
  BY DEF KeyInv, Requests
<1>3. /\ reply' \in [Req -> {"unsent", "pending", "ok", "err", "failed"}]
      /\ \A x \in Req : reply'[x] = reply[x] \/ reply'[x] = "failed"
  BY <1>2 DEF TypeOK, GiveUp
<1>4. Running' = Running /\ \A x : InputsOf(x)' = InputsOf(x) /\ InQueue(x)' = InQueue(x)
  BY <1>1 DEF Running, InputsOf, InQueue
<1>5. TypeOK'
  BY <1>1, <1>2, <1>3, <1>4 DEF TypeOK, worldVars, targetVars, castVars, shmVars
<1>6. BatchesTrackInputs'
  BY <1>1, <1>2, <1>3, <1>4 DEF BatchesTrackInputs
<1>7. QueuedOnce'
  BY <1>1, <1>2, <1>3, <1>4 DEF QueuedOnce
<1>8. InputsTyped'
  BY <1>1, <1>2, <1>4 DEF InputsTyped, Typed
<1>9. BatchesTyped'
  BY <1>1, <1>2, <1>3 DEF BatchesTyped, TypedWhole
<1>10. AnswersTruthful'
  BY <1>1, <1>2, <1>3 DEF AnswersTruthful
<1> QED BY <1>1, <1>5, <1>6, <1>7, <1>8, <1>9, <1>10, MappingsStay DEF KeyInv, Requests

\* What drain_commands() takes from the queue is gone from it.
LEMMA QueueAfter ==
  ASSUME TypeOK, QueuedOnce, queue # <<>>, queue' = Tail(queue),
         NEW r, r = Head(queue)
  PROVE  /\ r \in Req /\ InQueue(r) /\ ~InQueue(r)' /\ queue' \in Seq(Req)
         /\ \A x : InQueue(x)' => InQueue(x)
         /\ \A x : InQueue(x) /\ x # r => InQueue(x)'
         /\ \A m, n \in DOMAIN queue' : queue'[m] = queue'[n] => m = n
<1>1. queue \in Seq(Req)
  BY DEF TypeOK
<1>2. /\ Head(queue) \in Req /\ Tail(queue) \in Seq(Req)
      /\ Len(Tail(queue)) = Len(queue) - 1
      /\ \A i \in 1 .. Len(Tail(queue)) : Tail(queue)[i] = queue[i + 1]
  BY <1>1, HeadTailProperties
<1>3. /\ DOMAIN queue = 1 .. Len(queue) /\ Len(queue) \in Nat \ {0}
      /\ DOMAIN queue' = 1 .. Len(queue) - 1
      /\ r = queue[1]
  BY <1>1, <1>2
<1>4. \A n \in DOMAIN queue' : n + 1 \in DOMAIN queue /\ queue'[n] = queue[n + 1] /\ n + 1 # 1
  BY <1>2, <1>3
<1>5. \A n \in DOMAIN queue \ {1} : n - 1 \in DOMAIN queue' /\ queue'[n - 1] = queue[n]
  <2>1. ASSUME NEW n \in DOMAIN queue \ {1}
        PROVE  n - 1 \in DOMAIN queue' /\ queue'[n - 1] = queue[n]
    <3>1. n - 1 \in DOMAIN queue' /\ (n - 1) + 1 = n
      BY <1>3
    <3> QED BY <1>4, <3>1
  <2> QED BY <2>1
<1>6. \A m, n \in DOMAIN queue : queue[m] = queue[n] => m = n
  BY DEF QueuedOnce
<1>7. 1 \in DOMAIN queue
  BY <1>3
<1>8. InQueue(r)
  BY <1>3, <1>7 DEF InQueue
<1>9. ~InQueue(r)'
  <2>1. ASSUME NEW n \in DOMAIN queue', queue'[n] = r
        PROVE  FALSE
    BY <1>3, <1>4, <1>6, <1>7, <2>1
  <2> QED BY <1>2, <2>1 DEF InQueue
<1>10. \A x : InQueue(x)' => InQueue(x)
  BY <1>4 DEF InQueue
<1>11. \A x : InQueue(x) /\ x # r => InQueue(x)'
  BY <1>3, <1>5 DEF InQueue
<1>12. ASSUME NEW m \in DOMAIN queue', NEW n \in DOMAIN queue', queue'[m] = queue'[n]
       PROVE  m = n
  <2>1. m + 1 = n + 1
    BY <1>4, <1>6, <1>12
  <2>2. m \in Nat /\ n \in Nat
    BY <1>3
  <2> QED BY <2>1, <2>2
<1> QED BY <1>2, <1>8, <1>9, <1>10, <1>11, <1>12

LEMMA FirstStepTyped ==
  ASSUME NEW by \in Req \cup {Local}
  PROVE  /\ FirstStep(by) \in Input /\ FirstStep(by).by = by
         /\ FirstStep(by).index = 1 /\ FirstStep(by).phase = "Press"
         /\ FirstStep(by).index <= Len(ProgOf(by))
         /\ Down(FirstStep(by)) = {}
<1>1. Len(ProgOf(by)) \in Nat \ {0}
  BY Programs
<1> QED BY <1>1 DEF FirstStep, Input, Phase, Down

\* The inputs after the processes of S have started one.
LEMMA StartInputs ==
  ASSUME TypeOK, NEW S \in SUBSET Pid, NEW by \in Req \cup {Local}, CanStart(S), Start(S, by)
  PROVE  /\ input' \in [Pid -> Input \cup {NoInput}]
         /\ \A p \in Pid : input'[p] = IF p \in S THEN FirstStep(by) ELSE input[p]
         /\ Running' = Running \cup S /\ Running \cap S = {}
         /\ \A p \in Running' : input'[p].index <= Len(ProgOf(input'[p].by))
         /\ \A x : x # by => InputsOf(x)' = InputsOf(x)
         /\ InputsOf(by)' = InputsOf(by) \cup S
<1>1. \A p \in Pid : input'[p] = IF p \in S THEN FirstStep(by) ELSE input[p]
  BY DEF Start
<1>2. FirstStep(by) \in Input /\ FirstStep(by).by = by /\ FirstStep(by).index <= Len(ProgOf(by))
  BY FirstStepTyped
<1>3. input' \in [Pid -> Input \cup {NoInput}]
  BY <1>2 DEF Start, TypeOK
<1>4. FirstStep(by) # NoInput
  BY <1>2, NoInputIsNone
<1>5. Running' = Running \cup S /\ Running \cap S = {}
  BY <1>1, <1>4 DEF Running, CanStart
<1>6. \A p \in Running' : input'[p].index <= Len(ProgOf(input'[p].by))
  BY <1>1, <1>2, <1>5 DEF TypeOK, Running
<1>7. Running \subseteq Pid /\ \A p \in S : input'[p].by = by
  BY <1>1, <1>2 DEF Running
<1>8. \A p \in Running : input'[p].by = input[p].by
  BY <1>1, <1>5, <1>7
<1>9. \A x : x # by => InputsOf(x)' = InputsOf(x)
  BY <1>5, <1>7, <1>8 DEF InputsOf
<1>10. InputsOf(by)' = InputsOf(by) \cup S
  BY <1>5, <1>7, <1>8 DEF InputsOf
<1> QED BY <1>1, <1>3, <1>5, <1>6, <1>9, <1>10

LEMMA StartMappings ==
  ASSUME TypeOK, Mappings, NEW S \in SUBSET Pid, NEW by \in Req \cup {Local}, CanStart(S), Start(S, by),
         UNCHANGED <<targets, broadcasting>>
  PROVE  Mappings' /\ tactive' \subseteq targets /\ sources' \in [Pid -> SUBSET Source]
<1>1. /\ tactive' = tactive \cup S
      /\ sources' = [p \in Pid |-> IF p \in S THEN sources[p] \cup {"Targeted"} ELSE sources[p]]
      /\ UNCHANGED <<bkeys, tkeys, keys>>
  BY DEF Start, BeginTargeted
<1>2. S \subseteq targets /\ S \cap tactive = {}
  BY DEF CanStart, Ready
<1>3. MappingSound'
  <2>1. ASSUME NEW p \in Pid
        PROVE  sources'[p] = {s \in Source : /\ p \in targets'
                                             /\ s = "Broadcast" => broadcasting'
                                             /\ s = "Targeted" => p \in tactive'}
    <3>1. sources[p] = {s \in Source : /\ p \in targets
                                       /\ s = "Broadcast" => broadcasting
                                       /\ s = "Targeted" => p \in tactive}
      BY DEF Mappings, MappingSound, MappingIsUnion
    <3>2. Fed(sources[p], p \in targets /\ broadcasting, p \in targets /\ p \in tactive)
      BY <3>1, SourcesOneByOne
    <3>3. sources'[p] = IF p \in S THEN sources[p] \cup {"Targeted"} ELSE sources[p]
      BY <1>1
    <3>4. Fed(sources'[p], p \in targets' /\ broadcasting', p \in targets' /\ p \in tactive')
      BY <1>1, <1>2, <3>2, <3>3 DEF Fed, Source
    <3> QED BY <3>4 DEF Fed, Source
  <2>2. \A p \in Pid : keys'[p] = bkeys'[p] \cup tkeys'[p]
    BY <1>1 DEF Mappings, MappingSound, MappingIsUnion
  <2>3. NoKeysOnceOff'
    BY <1>1 DEF Mappings, MappingSound, NoKeysOnceOff
  <2> QED BY <2>1, <2>2, <2>3 DEF MappingSound, MappingIsUnion
<1>4. RetiredKeysUp'
  BY <1>1 DEF Mappings, RetiredKeysUp
<1>5. TargetedKeysOwned'
  <2>1. ASSUME NEW p \in Pid
        PROVE  IF p \in tactive' THEN p \in Running' /\ tkeys'[p] = Down(input'[p]) ELSE tkeys'[p] = {}
    <3>1. IF p \in tactive THEN p \in Running /\ tkeys[p] = Down(input[p]) ELSE tkeys[p] = {}
      BY DEF Mappings, TargetedKeysOwned
    <3>2. CASE p \in S
      <4>1. tkeys'[p] = {}
        BY <1>1, <1>2, <3>1, <3>2
      <4>2. p \in Running' /\ input'[p] = FirstStep(by)
        BY <3>2, StartInputs
      <4> QED BY <1>1, <3>2, <4>1, <4>2, FirstStepTyped
    <3>3. CASE p \notin S
      BY <1>1, <3>1, <3>3, StartInputs
    <3> QED BY <3>2, <3>3
  <2> QED BY <2>1 DEF TargetedKeysOwned, Down, Stroke
<1>6. tactive' \subseteq targets
  BY <1>1, <1>2 DEF TypeOK
<1>7. sources' \in [Pid -> SUBSET Source]
  BY <1>1 DEF TypeOK, Source
<1> QED BY <1>3, <1>4, <1>5, <1>6, <1>7 DEF Mappings

LEMMA DrainCommandStep ==
  ASSUME KeyInv, NEW ok \in BOOLEAN, DrainCommand(ok)
  PROVE  KeyInv'
<1> DEFINE r == Head(queue)
           S == Job[r].pids
           starts == ~Closed(r) /\ CanStart(S) /\ ok
<1>1. /\ queue # <<>> /\ queue' = Tail(queue)
      /\ IF starts THEN Start(S, r) ELSE Refuse
      /\ batch' = IF starts /\ Job[r].batch
                  THEN [batch EXCEPT ![r] = [remaining |-> S, error |-> FALSE]] ELSE batch
      /\ reply' = IF starts \/ Closed(r) THEN reply ELSE [reply EXCEPT ![r] = "err"]
      /\ UNCHANGED worldVars /\ UNCHANGED targetVars /\ UNCHANGED castVars
  BY DEF DrainCommand
<1>2. TypeOK /\ Mappings /\ BatchesTrackInputs /\ QueuedOnce /\ InputsTyped /\ BatchesTyped /\ AnswersTruthful
  BY DEF KeyInv, Requests
<1>3. PICK c : c = r
  OBVIOUS
<1>4. /\ c \in Req /\ InQueue(c) /\ ~InQueue(c)' /\ queue' \in Seq(Req)
      /\ \A x : InQueue(x)' => InQueue(x)
      /\ \A x : InQueue(x) /\ x # c => InQueue(x)'
      /\ \A m, n \in DOMAIN queue' : queue'[m] = queue'[n] => m = n
  BY <1>1, <1>2, <1>3, QueueAfter
<1>5. InputsOf(c) = {} /\ reply[c] # "unsent"
  BY <1>2, <1>4 DEF QueuedOnce
<1>6. UNCHANGED <<targets, broadcasting>>
  BY <1>1 DEF targetVars, castVars
<1>7. CASE ~starts
  <2>1. /\ UNCHANGED shmVars /\ UNCHANGED <<input, timer, pressed, batch>>
        /\ reply' = IF Closed(c) THEN reply ELSE [reply EXCEPT ![c] = "err"]
    BY <1>1, <1>3, <1>7 DEF Refuse
  <2>2. /\ reply' \in [Req -> {"unsent", "pending", "ok", "err", "failed"}]
        /\ \A x \in Req \ {c} : reply'[x] = reply[x]
        /\ reply'[c] \in {"err", "failed"}
    BY <1>2, <1>4, <2>1 DEF TypeOK, Closed
  <2>3. Running' = Running /\ \A x : InputsOf(x)' = InputsOf(x)
    BY <2>1 DEF Running, InputsOf
  <2>4. TypeOK'
    BY <1>1, <1>2, <1>4, <2>1, <2>2, <2>3 DEF TypeOK, worldVars, targetVars, castVars, shmVars
  <2>5. BatchesTrackInputs'
    <3>1. \A x \in Req : reply'[x] = "pending" => InputsOf(x)' # {} \/ InQueue(x)'
      BY <1>2, <1>4, <2>2, <2>3 DEF BatchesTrackInputs, InQueue
    <3> QED BY <1>2, <2>1, <2>3, <3>1 DEF BatchesTrackInputs, InQueue
  <2>6. QueuedOnce'
    BY <1>2, <1>4, <2>2, <2>3 DEF QueuedOnce
  <2>7. InputsTyped'
    BY <1>2, <2>1, <2>3 DEF InputsTyped, Typed
  <2>8. BatchesTyped'
    BY <1>2, <2>1, <2>2 DEF BatchesTyped, TypedWhole
  <2>9. AnswersTruthful'
    BY <1>2, <2>1, <2>2 DEF AnswersTruthful
  <2>10. Mappings'
    BY <1>2, <1>6, <2>1, MappingsStay
  <2> QED BY <2>4, <2>5, <2>6, <2>7, <2>8, <2>9, <2>10 DEF KeyInv, Requests
<1>8. CASE starts
  <2> DEFINE T == Job[c].pids
  <2>1. /\ CanStart(T) /\ Start(T, c) /\ reply' = reply
        /\ batch' = IF Job[c].batch THEN [batch EXCEPT ![c] = [remaining |-> T, error |-> FALSE]] ELSE batch
    BY <1>1, <1>3, <1>8
  <2>2. T \in SUBSET Pid /\ T # {} /\ c \in Req \cup {Local} /\ c # Local
    BY <1>4, JobAssumption, LocalAssumption
  <2>3. /\ input' \in [Pid -> Input \cup {NoInput}]
        /\ \A p \in Pid : input'[p] = IF p \in T THEN FirstStep(c) ELSE input[p]
        /\ Running' = Running \cup T /\ Running \cap T = {}
        /\ \A p \in Running' : input'[p].index <= Len(ProgOf(input'[p].by))
        /\ \A x : x # c => InputsOf(x)' = InputsOf(x)
        /\ InputsOf(c)' = T
    <3>1. InputsOf(c)' = InputsOf(c) \cup T
      BY <1>2, <2>1, <2>2, StartInputs
    <3>2. InputsOf(c)' = T
      BY <1>5, <3>1
    <3> HIDE DEF T
    <3> QED BY <1>2, <2>1, <2>2, <3>2, StartInputs
  <2>4. Mappings' /\ tactive' \subseteq targets /\ sources' \in [Pid -> SUBSET Source]
    BY <1>2, <1>6, <2>1, <2>2, StartMappings
  <2>5. /\ timer' = (timer \/ Running = {})
        /\ UNCHANGED <<bkeys, tkeys, keys, suppressed, pressed>>
    BY <2>1 DEF Start
  <2>6. /\ batch' \in [Req -> [remaining : SUBSET Pid, error : BOOLEAN]]
        /\ \A x \in Req \ {c} : batch'[x] = batch[x]
        /\ Job[c].batch => batch'[c] = [remaining |-> T, error |-> FALSE]
        /\ ~Job[c].batch => batch'[c] = batch[c]
    <3>1. batch \in [Req -> [remaining : SUBSET Pid, error : BOOLEAN]]
      BY <1>2 DEF TypeOK
    <3>2. [remaining |-> T, error |-> FALSE] \in [remaining : SUBSET Pid, error : BOOLEAN]
      BY <2>2
    <3>3. CASE Job[c].batch
      BY <1>4, <2>1, <3>1, <3>2, <3>3
    <3>4. CASE ~Job[c].batch
      BY <1>4, <2>1, <3>1, <3>4
    <3> QED BY <3>3, <3>4
  <2>7. TypeOK'
    <3>1. timer' \in BOOLEAN
      BY <1>2, <2>5 DEF TypeOK
    <3> QED BY <1>1, <1>2, <1>4, <2>1, <2>3, <2>4, <2>5, <2>6, <3>1
            DEF TypeOK, worldVars, targetVars, castVars
  <2>8. BatchesTrackInputs'
    <3>1. ASSUME NEW x \in Req
          PROVE  batch'[x].remaining = IF Job[x].batch THEN InputsOf(x)' ELSE {}
      BY <1>2, <2>3, <2>6 DEF BatchesTrackInputs
    <3>2. Running' # {} => timer'
      BY <1>2, <2>5 DEF BatchesTrackInputs
    <3>3. ASSUME NEW x \in Req, reply'[x] = "pending"
          PROVE  InputsOf(x)' # {} \/ InQueue(x)'
      BY <1>2, <1>4, <2>1, <2>2, <2>3, <3>3 DEF BatchesTrackInputs, InQueue
    <3> QED BY <3>1, <3>2, <3>3 DEF BatchesTrackInputs, InQueue
  <2>9. QueuedOnce'
    BY <1>2, <1>4, <1>5, <2>1, <2>3 DEF QueuedOnce
  <2>10. InputsTyped'
    <3>1. ASSUME NEW p \in Running', input'[p].by # Local
          PROVE  p \in Job[input'[p].by].pids /\ Typed(input[p], p)'
      <4>1. CASE p \in T
        <5>1. input'[p].by = c /\ input'[p].index = 1 /\ input'[p].phase = "Press"
          BY <2>2, <2>3, <4>1, FirstStepTyped
        <5> QED BY <4>1, <5>1 DEF Typed
      <4>2. CASE p \notin T
        <5>1. p \in Running /\ p \in Pid /\ input'[p] = input[p]
          BY <2>3, <4>2 DEF Running
        <5> QED BY <1>2, <2>5, <3>1, <5>1 DEF InputsTyped, Typed
      <4> QED BY <4>1, <4>2
    <3> QED BY <3>1 DEF InputsTyped, Typed
  <2>11. BatchesTyped'
    <3>1. ASSUME NEW x \in Req, reply'[x] = "pending", batch'[x] # NoBatch, ~batch'[x].error,
                 NEW p \in Job[x].pids \ batch'[x].remaining
          PROVE  TypedWhole(x, p)'
      <4>1. CASE x = c /\ Job[c].batch
        BY <2>6, <3>1, <4>1
      <4>2. CASE ~(x = c /\ Job[c].batch)
        BY <1>2, <2>1, <2>5, <2>6, <3>1, <4>2 DEF BatchesTyped, TypedWhole
      <4> QED BY <4>1, <4>2
    <3> QED BY <3>1 DEF BatchesTyped, TypedWhole
  <2>12. AnswersTruthful'
    BY <1>2, <2>1, <2>5 DEF AnswersTruthful
  <2> QED BY <2>4, <2>7, <2>8, <2>9, <2>10, <2>11, <2>12 DEF KeyInv, Requests
<1> QED BY <1>7, <1>8

LEMMA SendInviteFollowStep ==
  ASSUME KeyInv, NEW p \in Pid, SendInviteFollow(p)
  PROVE  KeyInv'
<1>1. /\ CanStart({p}) /\ Start({p}, Local)
      /\ UNCHANGED worldVars /\ UNCHANGED targetVars /\ UNCHANGED castVars
      /\ UNCHANGED <<batch, queue, reply>> /\ UNCHANGED <<targets, broadcasting>>
  BY DEF SendInviteFollow, targetVars, castVars
<1>2. TypeOK /\ Mappings /\ BatchesTrackInputs /\ QueuedOnce /\ InputsTyped /\ BatchesTyped /\ AnswersTruthful
  BY DEF KeyInv, Requests
<1>3. {p} \in SUBSET Pid /\ Local \in Req \cup {Local}
  OBVIOUS
<1>4. /\ input' \in [Pid -> Input \cup {NoInput}]
      /\ \A q \in Pid : input'[q] = IF q \in {p} THEN FirstStep(Local) ELSE input[q]
      /\ Running' = Running \cup {p}
      /\ \A q \in Running' : input'[q].index <= Len(ProgOf(input'[q].by))
      /\ \A x : x # Local => InputsOf(x)' = InputsOf(x)
  BY <1>1, <1>2, <1>3, StartInputs
<1>5. Mappings' /\ tactive' \subseteq targets /\ sources' \in [Pid -> SUBSET Source]
  BY <1>1, <1>2, <1>3, StartMappings
<1>6. /\ timer' = (timer \/ Running = {})
      /\ UNCHANGED <<bkeys, tkeys, keys, suppressed, pressed>>
  BY <1>1 DEF Start
<1>7. TypeOK'
  <2>1. timer' \in BOOLEAN
    BY <1>2, <1>6 DEF TypeOK
  <2> QED BY <1>1, <1>2, <1>4, <1>5, <1>6, <2>1 DEF TypeOK, worldVars, targetVars, castVars
<1>8. /\ \A x \in Req : InputsOf(x)' = InputsOf(x)
      /\ \A x : InQueue(x)' = InQueue(x)
  BY <1>1, <1>4, LocalAssumption DEF InQueue
<1>9. BatchesTrackInputs'
  <2>1. Running' # {} => timer'
    BY <1>2, <1>6 DEF BatchesTrackInputs
  <2>2. \A x \in Req : batch'[x].remaining = IF Job[x].batch THEN InputsOf(x)' ELSE {}
    BY <1>1, <1>2, <1>8 DEF BatchesTrackInputs
  <2>3. \A x \in Req : reply'[x] = "pending" => InputsOf(x)' # {} \/ InQueue(x)'
    BY <1>1, <1>2, <1>8 DEF BatchesTrackInputs, InQueue
  <2> QED BY <2>1, <2>2, <2>3 DEF BatchesTrackInputs, InQueue
<1>10. QueuedOnce'
  BY <1>1, <1>2, <1>8 DEF QueuedOnce
<1>11. InputsTyped'
  <2>1. ASSUME NEW q \in Running', input'[q].by # Local
        PROVE  q \in Job[input'[q].by].pids /\ Typed(input[q], q)'
    <3>1. q # p
      BY <1>4, <2>1, FirstStepTyped
    <3>2. q \in Running /\ q \in Pid /\ input'[q] = input[q]
      BY <1>4, <3>1 DEF Running
    <3> QED BY <1>2, <1>6, <2>1, <3>2 DEF InputsTyped, Typed
  <2> QED BY <2>1 DEF InputsTyped, Typed
<1>12. BatchesTyped'
  BY <1>1, <1>2, <1>6 DEF BatchesTyped, TypedWhole
<1>13. AnswersTruthful'
  BY <1>1, <1>2, <1>6 DEF AnswersTruthful
<1> QED BY <1>5, <1>7, <1>9, <1>10, <1>11, <1>12, <1>13 DEF KeyInv, Requests

LEMMA StepDueStep ==
  ASSUME KeyInv, NEW p \in Pid, StepDue(p)
  PROVE  KeyInv'
<1>1. /\ p \in Running /\ input' = [input EXCEPT ![p].wait = FALSE]
      /\ UNCHANGED worldVars /\ UNCHANGED targetVars /\ UNCHANGED castVars /\ UNCHANGED shmVars
      /\ UNCHANGED <<batch, timer, queue, reply, pressed>>
  BY DEF StepDue
<1>2. TypeOK /\ Mappings /\ BatchesTrackInputs /\ QueuedOnce /\ InputsTyped /\ BatchesTyped /\ AnswersTruthful
  BY DEF KeyInv, Requests
<1>3. /\ \A q \in Pid \ {p} : input'[q] = input[q]
      /\ input'[p] = [input[p] EXCEPT !.wait = FALSE]
      /\ input[p] \in Input
  BY <1>1, <1>2, RunningInputs DEF TypeOK
<1>4. input'[p] \in Input
  BY <1>3 DEF Input
<1>5. \A q \in Running : /\ input'[q].by = input[q].by /\ input'[q].index = input[q].index
                         /\ input'[q].phase = input[q].phase
  BY <1>3 DEF Input, Running
<1>6. input' \in [Pid -> Input \cup {NoInput}]
  BY <1>1, <1>2, <1>3, <1>4 DEF TypeOK
<1>7. Running' = Running /\ Running \subseteq Pid
  BY <1>1, <1>3, <1>4, NoInputIsNone DEF Running
<1>8. /\ \A x : InputsOf(x)' = InputsOf(x)
      /\ \A x : InQueue(x)' = InQueue(x)
  BY <1>1, <1>5, <1>7 DEF InputsOf, InQueue
<1>9. TypeOK'
  BY <1>1, <1>2, <1>5, <1>6, <1>7 DEF TypeOK, worldVars, targetVars, castVars, shmVars
<1>10. Mappings'
  <2>1. MappingSound' /\ RetiredKeysUp'
    BY <1>1, <1>2 DEF Mappings, MappingSound, MappingIsUnion, NoKeysOnceOff, RetiredKeysUp,
                      targetVars, castVars, shmVars
  <2>2. \A q \in Running : Down(input'[q]) = Down(input[q])
    BY <1>5 DEF Down, Stroke
  <2>3. TargetedKeysOwned'
    <3>1. ASSUME NEW q \in Pid
          PROVE  IF q \in tactive' THEN q \in Running' /\ tkeys'[q] = Down(input[q])' ELSE tkeys'[q] = {}
      BY <1>1, <1>2, <1>7, <2>2 DEF Mappings, TargetedKeysOwned, shmVars
    <3> QED BY <3>1 DEF TargetedKeysOwned
  <2> QED BY <2>1, <2>3 DEF Mappings
<1>11. BatchesTrackInputs'
  BY <1>1, <1>2, <1>7, <1>8 DEF BatchesTrackInputs
<1>12. QueuedOnce'
  BY <1>1, <1>2, <1>8 DEF QueuedOnce
<1>13. InputsTyped'
  BY <1>1, <1>2, <1>5, <1>7 DEF InputsTyped, Typed
<1>14. BatchesTyped' /\ AnswersTruthful'
  BY <1>1, <1>2 DEF BatchesTyped, TypedWhole, AnswersTruthful
<1> QED BY <1>9, <1>10, <1>11, <1>12, <1>13, <1>14 DEF KeyInv, Requests

LEMMA StopStep ==
  ASSUME KeyInv, Stop
  PROVE  KeyInv'
<1>1. /\ running' = FALSE /\ loaded' = {} /\ targets' = {} /\ activePid' = NoPid
      /\ broadcasting' = FALSE /\ tactive' = {} /\ suppressed' = {} /\ timer' = FALSE /\ queue' = <<>>
      /\ bkeys' = [p \in Pid |-> {}] /\ tkeys' = [p \in Pid |-> {}] /\ keys' = [p \in Pid |-> {}]
      /\ sources' = [p \in Pid |-> {}]
      /\ input' = [p \in Pid |-> NoInput] /\ batch' = [r \in Req |-> NoBatch]
      /\ UNCHANGED worldVars /\ UNCHANGED <<wasForeground, blocked, pressed>>
  BY DEF Stop
<1>2. TypeOK /\ AnswersTruthful /\ QueuedOnce
  BY DEF KeyInv, Requests
<1>3. /\ reply' \in [Req -> {"unsent", "pending", "ok", "err", "failed"}]
      /\ \A r \in Req : reply'[r] # "pending" /\ (reply'[r] = "ok" => reply[r] = "ok")
  BY <1>2 DEF Stop, TypeOK
<1>4. Running' = {}
  BY <1>1 DEF Running
<1>5. TypeOK'
  <2>1. /\ input' \in [Pid -> Input \cup {NoInput}]
        /\ batch' \in [Req -> [remaining : SUBSET Pid, error : BOOLEAN]]
    BY <1>1 DEF NoBatch
  <2>2. /\ bkeys' \in [Pid -> SUBSET Scan] /\ tkeys' \in [Pid -> SUBSET Scan]
        /\ keys' \in [Pid -> SUBSET Scan] /\ sources' \in [Pid -> SUBSET Source]
        /\ queue' \in Seq(Req)
    BY <1>1
  <2> QED BY <1>1, <1>2, <1>3, <1>4, <2>1, <2>2 DEF TypeOK, worldVars
<1>6. Mappings'
  BY <1>1 DEF Mappings, MappingSound, MappingIsUnion, NoKeysOnceOff, RetiredKeysUp, TargetedKeysOwned
<1>7. /\ \A x : InputsOf(x)' = {}
      /\ DOMAIN queue' = {}
  BY <1>1, <1>4 DEF InputsOf
<1>8. BatchesTrackInputs'
  BY <1>1, <1>3, <1>4, <1>7 DEF BatchesTrackInputs, NoBatch
<1>9. QueuedOnce'
  BY <1>7 DEF QueuedOnce, InQueue
<1>10. InputsTyped' /\ BatchesTyped' /\ AnswersTruthful'
  BY <1>1, <1>2, <1>3, <1>4 DEF InputsTyped, BatchesTyped, AnswersTruthful
<1> QED BY <1>5, <1>6, <1>8, <1>9, <1>10 DEF KeyInv, Requests

-----------------------------------------------------------------------------
(* The timer, over every input in progress.                                *)

\* What an input's fate says about it.
LEMMA Fates ==
  ASSUME TypeOK, NEW p \in Pid
  PROVE  /\ Fate(p) # "none" <=> p \in Running
         /\ Finished(p) => p \in Running
         /\ Fate(p) = "steps" => p \in Running /\ p \in tactive /\ input[p].phase # "Finish"
         /\ Fate(p) = "delivered" => p \in Running /\ input[p].phase = "Finish"
         /\ Fate(p) = "closed" => p \in Running /\ CompletionClosed(input[p])
BY DEF Fate, Finished, Running

\* advance_one_input() leaves down what the input's next phase has down, and nothing
\* when the input ends.
LEMMA AdvancedKeys ==
  ASSUME TypeOK, TargetedKeysOwned, NEW p \in Pid
  PROVE  /\ Finished(p) => TargetedAfter(p) = {}
         /\ Fate(p) = "steps" => TargetedAfter(p) = Down(NextPhase(input[p]))
         /\ ~Finished(p) /\ Fate(p) # "steps" => TargetedAfter(p) = tkeys[p]
         /\ TargetedAfter(p) \subseteq Scan
<1>1. ~(Fate(p) = "steps" /\ Finished(p))
  BY DEF Finished
<1>2. tkeys[p] \subseteq Scan
  BY DEF TypeOK
<1>3. CASE Finished(p)
  BY <1>1, <1>3 DEF TargetedAfter
<1>4. CASE Fate(p) = "steps"
  <2>1. p \in Running /\ p \in tactive /\ input[p].phase # "Finish"
    BY <1>4, Fates
  <2>2. input[p] \in Input /\ Stroke(input[p]) \subseteq Scan
    BY <2>1, RunningInputs
  <2>3. tkeys[p] = Down(input[p])
    BY <2>1 DEF TargetedKeysOwned
  <2>4. TargetedAfter(p) =
          IF input[p].phase \in {"Press", "PressChord"}
          THEN tkeys[p] \cup PhaseScans(Stroke(input[p]), input[p].phase)
          ELSE tkeys[p] \ PhaseScans(Stroke(input[p]), input[p].phase)
    BY <1>1, <1>4 DEF TargetedAfter
  <2>5. TargetedAfter(p) = Down(NextPhase(input[p]))
    BY <2>1, <2>2, <2>3, <2>4, PhaseMoves
  <2>6. PhaseScans(Stroke(input[p]), input[p].phase) \subseteq Scan
    <3>1. input[p].phase \in Phase
      BY <2>2 DEF Input
    <3> QED BY <2>2, <3>1 DEF PhaseScans, Phase
  <2>7. TargetedAfter(p) \subseteq Scan
    BY <1>2, <2>4, <2>6
  <2> QED BY <1>1, <1>4, <2>5, <2>7
<1>5. CASE ~Finished(p) /\ Fate(p) # "steps"
  BY <1>2, <1>5 DEF TargetedAfter
<1> QED BY <1>3, <1>4, <1>5

\* advance_input(), process by process.
LEMMA Advanced ==
  ASSUME TypeOK, Mappings, AdvanceInput
  PROVE  /\ UNCHANGED worldVars /\ UNCHANGED targetVars /\ UNCHANGED castVars
         /\ UNCHANGED <<bkeys, suppressed, queue>>
         /\ \A p \in Pid :
              /\ tkeys'[p] = TargetedAfter(p)
              /\ keys'[p] = WriteCombined(keys[p], (tkeys[p] \ tkeys'[p]) \cup (tkeys'[p] \ tkeys[p]),
                                          bkeys[p], tkeys'[p])
              /\ p \in tactive' <=> p \in tactive /\ ~Finished(p)
              /\ sources'[p] = IF Finished(p) THEN sources[p] \ {"Targeted"} ELSE sources[p]
              /\ Finished(p) => input'[p] = NoInput
              /\ Fate(p) = "steps" => input'[p] = NextPhase(input[p])
              /\ ~Finished(p) /\ Fate(p) # "steps" => input'[p] = input[p]
<1> DEFINE steps == {p \in Pid : Fate(p) = "steps"}
           over  == {p \in Pid : Finished(p)}
<1>1. /\ tkeys' = [p \in Pid |-> TargetedAfter(p)]
      /\ keys' = [p \in Pid |-> WriteCombined(keys[p], (tkeys[p] \ tkeys'[p]) \cup (tkeys'[p] \ tkeys[p]),
                                              bkeys[p], tkeys'[p])]
      /\ tactive' = tactive \ over
      /\ sources' = [p \in Pid |-> IF p \in over THEN sources[p] \ {"Targeted"} ELSE sources[p]]
      /\ input' = [p \in Pid |-> IF p \in over THEN NoInput
                                 ELSE IF p \in steps THEN NextPhase(input[p]) ELSE input[p]]
      /\ UNCHANGED worldVars /\ UNCHANGED targetVars /\ UNCHANGED castVars
      /\ UNCHANGED <<bkeys, suppressed, queue>>
  BY DEF AdvanceInput
<1>2. ASSUME NEW p \in Pid
      PROVE  /\ p \in over <=> Finished(p)
             /\ p \in steps <=> Fate(p) = "steps"
             /\ ~(Finished(p) /\ Fate(p) = "steps")
  BY DEF Finished
<1>3. ASSUME NEW p \in Pid
      PROVE  /\ Finished(p) => input'[p] = NoInput
             /\ Fate(p) = "steps" => input'[p] = NextPhase(input[p])
             /\ ~Finished(p) /\ Fate(p) # "steps" => input'[p] = input[p]
  <2>1. input'[p] = IF p \in over THEN NoInput
                    ELSE IF p \in steps THEN NextPhase(input[p]) ELSE input[p]
    BY <1>1
  <2> HIDE DEF over, steps
  <2> QED BY <1>2, <2>1
<1>4. ASSUME NEW p \in Pid
      PROVE  /\ p \in tactive' <=> p \in tactive /\ ~Finished(p)
             /\ sources'[p] = IF Finished(p) THEN sources[p] \ {"Targeted"} ELSE sources[p]
  <2> HIDE DEF over, steps
  <2> QED BY <1>1, <1>2
<1>5. ASSUME NEW p \in Pid
      PROVE  /\ tkeys'[p] = TargetedAfter(p)
             /\ keys'[p] = WriteCombined(keys[p], (tkeys[p] \ tkeys'[p]) \cup (tkeys'[p] \ tkeys[p]),
                                         bkeys[p], tkeys'[p])
  <2> HIDE DEF over, steps
  <2> QED BY <1>1
<1> QED BY <1>1, <1>3, <1>4, <1>5

LEMMA AdvanceMappings ==
  ASSUME TypeOK, Mappings, AdvanceInput
  PROVE  Mappings'
<1>1. /\ targets' = targets /\ broadcasting' = broadcasting /\ bkeys' = bkeys
  BY Advanced DEF targetVars, castVars
<1>2. ASSUME NEW p \in Pid
      PROVE  keys'[p] = bkeys'[p] \cup tkeys'[p]
  <2>1. keys[p] = bkeys[p] \cup tkeys[p]
    BY DEF Mappings, MappingSound, MappingIsUnion
  <2> DEFINE changed == (tkeys[p] \ tkeys'[p]) \cup (tkeys'[p] \ tkeys[p])
  <2>2. keys[p] \ changed = (bkeys[p] \cup tkeys'[p]) \ changed
    BY <2>1
  <2>3. keys'[p] = WriteCombined(keys[p], changed, bkeys[p], tkeys'[p])
    BY Advanced
  <2>4. WriteCombined(keys[p], changed, bkeys[p], tkeys'[p]) = bkeys[p] \cup tkeys'[p]
    <3> HIDE DEF changed
    <3> QED BY <2>2, CombinedUnion
  <2> QED BY <1>1, <2>3, <2>4
<1>3. ASSUME NEW p \in Pid
      PROVE  sources'[p] = {s \in Source : /\ p \in targets'
                                           /\ s = "Broadcast" => broadcasting'
                                           /\ s = "Targeted" => p \in tactive'}
  <2>1. sources[p] = {s \in Source : /\ p \in targets
                                     /\ s = "Broadcast" => broadcasting
                                     /\ s = "Targeted" => p \in tactive}
    BY DEF Mappings, MappingSound, MappingIsUnion
  <2>2. Fed(sources[p], p \in targets /\ broadcasting, p \in targets /\ p \in tactive)
    BY <2>1, SourcesOneByOne
  <2>3. /\ sources'[p] = IF Finished(p) THEN sources[p] \ {"Targeted"} ELSE sources[p]
        /\ p \in tactive' <=> p \in tactive /\ ~Finished(p)
    BY Advanced
  <2>4. Fed(sources'[p], p \in targets' /\ broadcasting', p \in targets' /\ p \in tactive')
    BY <1>1, <2>2, <2>3 DEF Fed, Source
  <2> QED BY <2>4 DEF Fed, Source
<1>4. MappingSound'
  <2>1. NoKeysOnceOff'
    BY <1>1 DEF Mappings, MappingSound, NoKeysOnceOff
  <2> QED BY <1>2, <1>3, <2>1 DEF MappingSound, MappingIsUnion
<1>5. RetiredKeysUp'
  BY <1>1 DEF Mappings, RetiredKeysUp
<1>6. TargetedKeysOwned'
  <2>1. ASSUME NEW p \in Pid
        PROVE  IF p \in tactive' THEN p \in Running' /\ tkeys'[p] = Down(input[p])' ELSE tkeys'[p] = {}
    <3>1. IF p \in tactive THEN p \in Running /\ tkeys[p] = Down(input[p]) ELSE tkeys[p] = {}
      BY DEF Mappings, TargetedKeysOwned
    <3>2. TargetedKeysOwned
      BY DEF Mappings
    <3>3. tkeys'[p] = TargetedAfter(p) /\ (p \in tactive' <=> p \in tactive /\ ~Finished(p))
      BY Advanced
    <3>4. CASE Finished(p)
      BY <3>2, <3>3, <3>4, AdvancedKeys
    <3>5. CASE Fate(p) = "steps"
      <4>1. p \in Running /\ p \in tactive /\ input[p].phase # "Finish" /\ ~Finished(p)
        BY <3>5, Fates DEF Finished
      <4>2. input[p] \in Input /\ input[p].index <= Len(ProgOf(input[p].by))
        BY <4>1, RunningInputs
      <4>3. input'[p] = NextPhase(input[p]) /\ NextPhase(input[p]) \in Input
        BY <3>5, <4>1, <4>2, Advanced, NextPhaseOfInput
      <4>4. p \in Running'
        BY <4>3, NoInputIsNone DEF Running
      <4> QED BY <3>2, <3>3, <3>5, <4>1, <4>3, <4>4, AdvancedKeys
    <3>6. CASE ~Finished(p) /\ Fate(p) # "steps"
      <4>1. tkeys'[p] = tkeys[p] /\ input'[p] = input[p] /\ (p \in tactive' <=> p \in tactive)
        BY <3>2, <3>3, <3>6, Advanced, AdvancedKeys
      <4> QED BY <3>1, <4>1 DEF Running
    <3> QED BY <3>4, <3>5, <3>6
  <2> QED BY <2>1 DEF TargetedKeysOwned
<1> QED BY <1>4, <1>5, <1>6 DEF Mappings

LEMMA AdvancedInputs ==
  ASSUME TypeOK, Mappings, AdvanceInput
  PROVE  /\ input' \in [Pid -> Input \cup {NoInput}]
         /\ Running' = {p \in Running : ~Finished(p)}
         /\ \A p \in Running' : /\ input'[p].by = input[p].by
                                /\ input'[p].index <= Len(ProgOf(input'[p].by))
         /\ \A r : InputsOf(r)' = {p \in InputsOf(r) : ~Finished(p)}
<1>1. ASSUME NEW p \in Pid
      PROVE  /\ input'[p] \in Input \cup {NoInput}
             /\ p \in Running' <=> p \in Running /\ ~Finished(p)
             /\ p \in Running' => /\ input'[p].by = input[p].by
                                  /\ input'[p].index <= Len(ProgOf(input'[p].by))
  <2>1. CASE Finished(p)
    <3>1. input'[p] = NoInput
      BY <2>1, Advanced
    <3> QED BY <2>1, <3>1 DEF Running
  <2>2. CASE Fate(p) = "steps"
    <3>1. p \in Running /\ input[p].phase # "Finish" /\ ~Finished(p)
      BY <2>2, Fates DEF Finished
    <3>2. input[p] \in Input /\ input[p].index <= Len(ProgOf(input[p].by))
      BY <3>1, RunningInputs
    <3>3. input'[p] = NextPhase(input[p])
      BY <2>2, Advanced
    <3>4. /\ input'[p] \in Input /\ input'[p].by = input[p].by
          /\ input'[p].index <= Len(ProgOf(input[p].by))
      BY <3>1, <3>2, <3>3, NextPhaseOfInput
    <3>5. p \in Running'
      BY <3>4, NoInputIsNone DEF Running
    <3> QED BY <3>1, <3>4, <3>5
  <2>3. CASE ~Finished(p) /\ Fate(p) # "steps"
    <3>1. input'[p] = input[p]
      BY <2>3, Advanced
    <3>2. p \in Running' <=> p \in Running
      BY <3>1 DEF Running
    <3> QED BY <2>3, <3>1, <3>2 DEF TypeOK
  <2> QED BY <2>1, <2>2, <2>3
<1>2. input' \in [Pid -> Input \cup {NoInput}]
  <2>1. input' = [p \in Pid |-> input'[p]]
    BY DEF AdvanceInput
  <2> QED BY <1>1, <2>1
<1>3. Running \subseteq Pid /\ Running' \subseteq Pid
  BY DEF Running
<1>4. Running' = {p \in Running : ~Finished(p)}
  BY <1>1, <1>3
<1>5. \A p \in Running' : /\ input'[p].by = input[p].by
                          /\ input'[p].index <= Len(ProgOf(input'[p].by))
  BY <1>1, <1>3
<1>6. ASSUME NEW r
      PROVE  InputsOf(r)' = {p \in InputsOf(r) : ~Finished(p)}
  BY <1>4, <1>5 DEF InputsOf
<1> QED BY <1>2, <1>4, <1>5, <1>6

\* The history grows by the strokes that are completely down.
LEMMA AdvancedHistory ==
  ASSUME TypeOK, AdvanceInput
  PROVE  /\ pressed \subseteq pressed' /\ pressed' \subseteq Req \X Pid \X (Nat \ {0})
         /\ \A p \in Pid : /\ Fate(p) = "steps" /\ input[p].by # Local
                           /\ Stroke(input[p]) \subseteq tkeys'[p]
                          => <<input[p].by, p, input[p].index>> \in pressed'
<1> DEFINE steps == {p \in Pid : Fate(p) = "steps"}
           down  == {q \in steps : input[q].by # Local /\ Stroke(input[q]) \subseteq tkeys'[q]}
<1>1. pressed' = pressed \cup {<<input[p].by, p, input[p].index>> : p \in down}
  BY DEF AdvanceInput
<1>2. ASSUME NEW p \in down
      PROVE  <<input[p].by, p, input[p].index>> \in Req \X Pid \X (Nat \ {0})
  <2>1. p \in Pid /\ Fate(p) = "steps" /\ input[p].by # Local
    OBVIOUS
  <2>2. p \in Running
    BY <2>1, Fates
  <2>3. input[p] \in Input
    BY <2>1, <2>2, RunningInputs
  <2> QED BY <2>1, <2>3 DEF Input
<1>3. \A p \in Pid : Fate(p) = "steps" /\ input[p].by # Local /\ Stroke(input[p]) \subseteq tkeys'[p]
                       => p \in down
  OBVIOUS
<1>4. pressed \subseteq Req \X Pid \X (Nat \ {0})
  BY DEF TypeOK
<1> HIDE DEF down
<1> QED BY <1>1, <1>2, <1>3, <1>4

\* An input that was delivered had all its strokes down.
LEMMA DeliveredTyped ==
  ASSUME TypeOK, InputsTyped, NEW r \in Req, NEW p \in InputsOf(r), Fate(p) = "delivered"
  PROVE  TypedWhole(r, p)
<1>1. p \in Pid /\ p \in Running /\ input[p].by = r /\ r # Local
  BY LocalAssumption DEF InputsOf, Running
<1>2. Typed(input[p], p) /\ input[p].phase = "Finish"
  BY <1>1, Fates DEF InputsTyped
<1>3. /\ input[p].index = Len(Job[r].prog)
      /\ \A n \in 1 .. (input[p].index - 1) : <<r, p, n>> \in pressed
      /\ <<r, p, input[p].index>> \in pressed
  BY <1>1, <1>2 DEF Typed, ProgOf
<1>4. DOMAIN Job[r].prog = 1 .. Len(Job[r].prog) /\ Len(Job[r].prog) \in Nat \ {0}
  BY <1>1, Programs DEF ProgOf
<1>5. ASSUME NEW n \in DOMAIN Job[r].prog
      PROVE  <<r, p, n>> \in pressed
  <2>1. n \in 1 .. (input[p].index - 1) \/ n = input[p].index
    BY <1>3, <1>4
  <2> QED BY <1>3, <2>1
<1> QED BY <1>5 DEF TypedWhole

\* The fate of an input whose caller still waits, when it ends.
LEMMA AnsweredFates ==
  ASSUME TypeOK, NEW r \in Req, reply[r] = "pending", NEW p \in InputsOf(r), Finished(p),
         Job[r].batch => batch[r] # NoBatch
  PROVE  Fate(p) \in {"gone", "lost", "delivered"}
<1>1. p \in Pid /\ input[p].by = r
  BY DEF InputsOf, Running
<1>2. ~CompletionClosed(input[p])
  BY <1>1 DEF CompletionClosed, Closed
<1>3. Fate(p) # "closed"
  BY <1>1, <1>2, Fates
<1> QED BY <1>3 DEF Finished

\* finish_input(), for one batch.
LEMMA BatchAfterFacts ==
  ASSUME TypeOK, BatchesTrackInputs, NEW r \in Req
  PROVE  /\ Job[r].batch => BatchAfter(r).remaining = {p \in InputsOf(r) : ~Finished(p)}
         /\ ~Job[r].batch => BatchAfter(r).remaining = {}
         /\ BatchAfter(r) = NoBatch <=> BatchAfter(r).remaining = {}
         /\ BatchAfter(r) # NoBatch => BatchAfter(r).error = (BatchAnswer(r) = "err")
         /\ BatchAfter(r) \in [remaining : SUBSET Pid, error : BOOLEAN]
<1> DEFINE left == {p \in batch[r].remaining : ~(p \in InputsOf(r) /\ Finished(p))}
<1>1. BatchAfter(r) = IF left = {} THEN NoBatch
                      ELSE [remaining |-> left, error |-> BatchAnswer(r) = "err"]
  BY DEF BatchAfter
<1>2. batch[r].remaining = IF Job[r].batch THEN InputsOf(r) ELSE {}
  BY DEF BatchesTrackInputs
<1>3. /\ Job[r].batch => left = {p \in InputsOf(r) : ~Finished(p)}
      /\ ~Job[r].batch => left = {}
  BY <1>2
<1>4. left \subseteq Pid
  BY <1>2 DEF InputsOf, Running
<1>5. NoBatch.remaining = {} /\ NoBatch \in [remaining : SUBSET Pid, error : BOOLEAN]
  BY DEF NoBatch
<1> HIDE DEF left
<1>6. CASE left = {}
  BY <1>1, <1>3, <1>5, <1>6
<1>7. CASE left # {}
  <2>1. BatchAfter(r) = [remaining |-> left, error |-> BatchAnswer(r) = "err"]
    BY <1>1, <1>7
  <2> DEFINE failed == (BatchAnswer(r) = "err")
  <2>2. BatchAfter(r).remaining = left /\ BatchAfter(r).error = failed
    <3>1. BatchAfter(r) = [remaining |-> left, error |-> failed]
      BY <2>1
    <3> HIDE DEF failed
    <3> QED BY <3>1
  <2>3. BatchAfter(r) \in [remaining : SUBSET Pid, error : BOOLEAN]
    BY <1>4, <2>1
  <2>4. BatchAfter(r) # NoBatch
    BY <1>5, <1>7, <2>2
  <2> QED BY <1>3, <1>7, <2>2, <2>3, <2>4
<1> QED BY <1>6, <1>7

LEMMA ReplyCases ==
  ASSUME NEW r \in Req
  PROVE  \/ (reply[r] # "pending" \/ InputsOf(r) = {}) /\ ReplyAfter(r) = reply[r]
         \/ /\ reply[r] = "pending" /\ InputsOf(r) # {} /\ Job[r].batch
            /\ ReplyAfter(r) = IF BatchAfter(r) = NoBatch THEN BatchAnswer(r) ELSE "pending"
         \/ /\ reply[r] = "pending" /\ InputsOf(r) # {} /\ ~Job[r].batch
            /\ \/ ReplyAfter(r) = "ok" /\ \E p \in InputsOf(r) : Fate(p) = "delivered"
               \/ ReplyAfter(r) = "err"
               \/ /\ ReplyAfter(r) = "pending"
                  /\ \A p \in InputsOf(r) : Fate(p) \notin {"gone", "lost", "delivered"}
<1>1. CASE reply[r] # "pending" \/ InputsOf(r) = {}
  BY <1>1 DEF ReplyAfter
<1>2. CASE reply[r] = "pending" /\ InputsOf(r) # {} /\ Job[r].batch
  BY <1>2 DEF ReplyAfter
<1>3. CASE reply[r] = "pending" /\ InputsOf(r) # {} /\ ~Job[r].batch
  BY <1>3 DEF ReplyAfter
<1> QED BY <1>1, <1>2, <1>3

LEMMA AdvanceTracksInputs ==
  ASSUME KeyInv, AdvanceInput
  PROVE  BatchesTrackInputs' /\ QueuedOnce'
<1>1. TypeOK /\ Mappings /\ BatchesTrackInputs /\ QueuedOnce
  BY DEF KeyInv, Requests
<1>2. /\ Running' = {p \in Running : ~Finished(p)}
      /\ \A r : InputsOf(r)' = {p \in InputsOf(r) : ~Finished(p)}
  BY <1>1, AdvancedInputs
<1>3. /\ queue' = queue
      /\ batch' = [r \in Req |-> IF batch[r] = NoBatch THEN NoBatch ELSE BatchAfter(r)]
      /\ reply' = [r \in Req |-> ReplyAfter(r)]
      /\ Running \ {p \in Pid : Finished(p)} # {} => timer'
  BY DEF AdvanceInput
<1>4. ASSUME NEW r \in Req
      PROVE  batch'[r].remaining = IF Job[r].batch THEN InputsOf(r)' ELSE {}
  <2>1. CASE batch[r] = NoBatch
    <3>1. batch'[r].remaining = {} /\ batch[r].remaining = {}
      BY <1>3, <2>1 DEF NoBatch
    <3>2. Job[r].batch => InputsOf(r) = {}
      BY <1>1, <3>1 DEF BatchesTrackInputs
    <3> QED BY <1>2, <3>1, <3>2
  <2>2. CASE batch[r] # NoBatch
    <3>1. batch'[r] = BatchAfter(r)
      BY <1>3, <2>2
    <3> QED BY <1>1, <1>2, <3>1, BatchAfterFacts
  <2> QED BY <2>1, <2>2
<1>5. Running' # {} => timer'
  BY <1>2, <1>3
<1>6. ASSUME NEW r \in Req, reply'[r] = "pending"
      PROVE  InputsOf(r)' # {} \/ InQueue(r)'
  <2>1. ReplyAfter(r) = "pending"
    BY <1>3, <1>6
  <2>2. CASE (reply[r] # "pending" \/ InputsOf(r) = {}) /\ ReplyAfter(r) = reply[r]
    <3>1. InQueue(r)
      BY <1>1, <2>1, <2>2 DEF BatchesTrackInputs, InQueue
    <3> QED BY <1>3, <3>1 DEF InQueue
  <2>3. CASE /\ reply[r] = "pending" /\ InputsOf(r) # {} /\ Job[r].batch
             /\ ReplyAfter(r) = IF BatchAfter(r) = NoBatch THEN BatchAnswer(r) ELSE "pending"
    <3>1. BatchAfter(r) # NoBatch
      BY <2>1, <2>3 DEF BatchAnswer
    <3> QED BY <1>1, <1>2, <2>3, <3>1, BatchAfterFacts
  <2>4. CASE /\ reply[r] = "pending" /\ InputsOf(r) # {} /\ ~Job[r].batch
             /\ \A p \in InputsOf(r) : Fate(p) \notin {"gone", "lost", "delivered"}
    <3>1. \A p \in InputsOf(r) : ~Finished(p)
      BY <1>1, <2>4, AnsweredFates
    <3> QED BY <1>2, <2>4, <3>1
  <2> QED BY <2>1, <2>2, <2>3, <2>4, ReplyCases
<1>7. BatchesTrackInputs'
  BY <1>4, <1>5, <1>6 DEF BatchesTrackInputs, InQueue
<1>8. \A r \in Req : reply'[r] = "unsent" => reply[r] = "unsent"
  BY <1>3, ReplyCases DEF BatchAnswer
<1>9. QueuedOnce'
  <2>1. \A r : InQueue(r)' = InQueue(r)
    BY <1>3 DEF InQueue
  <2>2. \A r : InputsOf(r) = {} => InputsOf(r)' = {}
    BY <1>2
  <2> QED BY <1>1, <1>3, <1>8, <2>1, <2>2 DEF QueuedOnce
<1> QED BY <1>7, <1>9

LEMMA AdvanceTypes ==
  ASSUME KeyInv, AdvanceInput
  PROVE  TypeOK'
<1>1. TypeOK /\ Mappings /\ BatchesTrackInputs /\ TargetedKeysOwned /\ MappingIsUnion
  BY DEF KeyInv, Requests, Mappings, MappingSound
<1>2. Mappings'
  BY <1>1, AdvanceMappings
<1>3. /\ UNCHANGED worldVars /\ UNCHANGED targetVars /\ UNCHANGED castVars
      /\ UNCHANGED <<bkeys, suppressed, queue>>
      /\ tactive' \subseteq tactive
  BY <1>1, Advanced DEF AdvanceInput
<1>4. tkeys' \in [Pid -> SUBSET Scan]
  <2>1. tkeys' = [p \in Pid |-> TargetedAfter(p)]
    BY DEF AdvanceInput
  <2>2. \A p \in Pid : TargetedAfter(p) \subseteq Scan
    BY <1>1, AdvancedKeys
  <2> QED BY <2>1, <2>2
<1>5. keys' \in [Pid -> SUBSET Scan]
  <2>1. keys' = [p \in Pid |-> keys'[p]]
    BY DEF AdvanceInput
  <2>2. ASSUME NEW p \in Pid
        PROVE  keys'[p] \subseteq Scan
    <3>1. keys'[p] = bkeys'[p] \cup tkeys'[p]
      BY <1>2 DEF Mappings, MappingSound, MappingIsUnion
    <3> QED BY <1>1, <1>3, <1>4, <3>1 DEF TypeOK
  <2> QED BY <2>1, <2>2
<1>6. sources' \in [Pid -> SUBSET Source]
  <2>1. sources' = [p \in Pid |-> sources'[p]]
    BY DEF AdvanceInput
  <2>2. \A p \in Pid : sources'[p] \subseteq Source
    BY <1>2 DEF Mappings, MappingSound, MappingIsUnion
  <2> QED BY <2>1, <2>2
<1>7. batch' \in [Req -> [remaining : SUBSET Pid, error : BOOLEAN]]
  <2>1. batch' = [r \in Req |-> IF batch[r] = NoBatch THEN NoBatch ELSE BatchAfter(r)]
    BY DEF AdvanceInput
  <2>2. NoBatch \in [remaining : SUBSET Pid, error : BOOLEAN]
    BY DEF NoBatch
  <2>3. \A r \in Req : BatchAfter(r) \in [remaining : SUBSET Pid, error : BOOLEAN]
    BY <1>1, BatchAfterFacts
  <2> QED BY <2>1, <2>2, <2>3
<1>8. reply' \in [Req -> {"unsent", "pending", "ok", "err", "failed"}]
  <2>1. reply' = [r \in Req |-> ReplyAfter(r)]
    BY DEF AdvanceInput
  <2>2. ASSUME NEW r \in Req
        PROVE  ReplyAfter(r) \in {"unsent", "pending", "ok", "err", "failed"}
    <3>1. reply[r] \in {"unsent", "pending", "ok", "err", "failed"}
      BY <1>1 DEF TypeOK
    <3>2. BatchAnswer(r) \in {"ok", "err"}
      BY DEF BatchAnswer
    <3> QED BY <3>1, <3>2, ReplyCases
  <2> QED BY <2>1, <2>2
<1>9. /\ input' \in [Pid -> Input \cup {NoInput}]
      /\ \A p \in Running' : input'[p].index <= Len(ProgOf(input'[p].by))
      /\ pressed' \subseteq Req \X Pid \X (Nat \ {0})
  BY <1>1, AdvancedInputs, AdvancedHistory
<1>10. timer' \in BOOLEAN
  BY DEF AdvanceInput
<1>11. tactive' \subseteq targets'
  BY <1>1, <1>3 DEF TypeOK, targetVars
<1> QED BY <1>1, <1>3, <1>4, <1>5, <1>6, <1>7, <1>8, <1>9, <1>10, <1>11
        DEF TypeOK, worldVars, targetVars, castVars

\* The next phase of an input is typed as far as it has come.
LEMMA NextPhaseTyped ==
  ASSUME TypeOK, InputsTyped, Mappings, AdvanceInput, NEW p \in Pid, Fate(p) = "steps",
         input[p].by # Local
  PROVE  Typed(input[p], p)'
<1> DEFINE i == input[p]
<1>1. p \in Running /\ i.phase # "Finish" /\ i \in Input /\ i.index <= Len(ProgOf(i.by))
  BY Fates, RunningInputs
<1>2. input'[p] = NextPhase(i) /\ tkeys'[p] = Down(NextPhase(i))
  BY Advanced, AdvancedKeys DEF Mappings
<1>3. /\ pressed \subseteq pressed'
      /\ Stroke(i) \subseteq tkeys'[p] => <<i.by, p, i.index>> \in pressed'
  BY AdvancedHistory
<1>4. /\ \A n \in 1 .. (i.index - 1) : <<i.by, p, n>> \in pressed'
      /\ i.phase \in {"Release", "ReleaseModifiers"} => <<i.by, p, i.index>> \in pressed'
  BY <1>1, <1>3 DEF InputsTyped, Typed
<1>5. i.index \in Nat \ {0}
  BY <1>1 DEF Input
<1>6. \A ph \in Phase : /\ GoTo(i, ph).phase = ph /\ GoTo(i, ph).index = i.index
                        /\ GoTo(i, ph).by = i.by /\ Stroke(GoTo(i, ph)) = Stroke(i)
  BY <1>1 DEF GoTo, Input, Stroke
<1> HIDE DEF i
<1>7. CASE NextPhase(i) = GoTo(i, "PressChord")
  <2>1. input'[p].phase = "PressChord" /\ input'[p].index = i.index /\ input'[p].by = i.by
    BY <1>2, <1>6, <1>7 DEF Phase
  <2> QED BY <1>4, <2>1 DEF Typed
<1>8. CASE NextPhase(i) = GoTo(i, "Release")
  <2>1. /\ input'[p].phase = "Release" /\ input'[p].index = i.index /\ input'[p].by = i.by
        /\ Stroke(NextPhase(i)) = Stroke(i) /\ NextPhase(i).phase = "Release"
    BY <1>2, <1>6, <1>8 DEF Phase
  <2>2. tkeys'[p] = Stroke(i)
    BY <1>2, <2>1 DEF Down
  <2> QED BY <1>3, <1>4, <2>1, <2>2 DEF Typed
<1>9. CASE NextPhase(i) = GoTo(i, "ReleaseModifiers") /\ i.phase = "Release"
  <2>1. input'[p].phase = "ReleaseModifiers" /\ input'[p].index = i.index /\ input'[p].by = i.by
    BY <1>2, <1>6, <1>9 DEF Phase
  <2> QED BY <1>4, <1>9, <2>1 DEF Typed
<1>10. CASE NextPhase(i) = CompleteStroke(i) /\ i.phase \in {"Release", "ReleaseModifiers"}
  <2>1. CASE i.index = Len(ProgOf(i.by))
    <3>1. /\ input'[p].phase = "Finish" /\ input'[p].index = i.index /\ input'[p].by = i.by
      BY <1>2, <1>6, <1>10, <2>1 DEF CompleteStroke, Phase
    <3> QED BY <1>4, <1>10, <2>1, <3>1 DEF Typed
  <2>2. CASE i.index # Len(ProgOf(i.by))
    <3>1. NextPhase(i) = [i EXCEPT !.index = i.index + 1, !.phase = "Press", !.wait = TRUE]
      BY <1>10, <2>2 DEF CompleteStroke
    <3>2. input'[p].phase = "Press" /\ input'[p].index = i.index + 1 /\ input'[p].by = i.by
      BY <1>1, <1>2, <3>1 DEF Input
    <3>3. \A n \in 1 .. (input'[p].index - 1) : n \in 1 .. (i.index - 1) \/ n = i.index
      BY <1>5, <3>2
    <3> QED BY <1>4, <1>10, <3>2, <3>3 DEF Typed
  <2> QED BY <2>1, <2>2
<1> QED BY <1>1, <1>7, <1>8, <1>9, <1>10, PhaseCases DEF i

LEMMA AdvanceTyped ==
  ASSUME KeyInv, AdvanceInput
  PROVE  InputsTyped' /\ BatchesTyped' /\ AnswersTruthful'
<1>1. /\ TypeOK /\ Mappings /\ BatchesTrackInputs /\ InputsTyped /\ BatchesTyped /\ AnswersTruthful
  BY DEF KeyInv, Requests
<1>2. pressed \subseteq pressed'
  BY <1>1, AdvancedHistory
<1>3. /\ batch' = [r \in Req |-> IF batch[r] = NoBatch THEN NoBatch ELSE BatchAfter(r)]
      /\ reply' = [r \in Req |-> ReplyAfter(r)]
  BY DEF AdvanceInput
<1>4. InputsTyped'
  <2>1. ASSUME NEW p \in Pid, p \in Running', input'[p].by # Local
        PROVE  p \in Job[input'[p].by].pids /\ Typed(input[p], p)'
    <3>1. p \in Running /\ ~Finished(p) /\ input'[p].by = input[p].by
      BY <1>1, <2>1, AdvancedInputs
    <3>2. p \in Job[input[p].by].pids /\ Typed(input[p], p)
      BY <1>1, <2>1, <3>1 DEF InputsTyped
    <3>3. CASE Fate(p) = "steps"
      BY <1>1, <2>1, <3>1, <3>2, <3>3, NextPhaseTyped
    <3>4. CASE Fate(p) # "steps"
      <4>1. input'[p] = input[p]
        BY <1>1, <3>1, <3>4, Advanced
      <4> QED BY <1>2, <3>2, <4>1 DEF Typed
    <3> QED BY <3>3, <3>4
  <2>2. Running' \subseteq Pid
    BY DEF Running
  <2> QED BY <2>1, <2>2 DEF InputsTyped
\* What a batch no longer waits for, as long as no input of it failed.
<1>5. ASSUME NEW r \in Req, reply[r] = "pending", batch[r] # NoBatch, BatchAnswer(r) # "err",
             Job[r].batch, NEW p \in Job[r].pids \ BatchAfter(r).remaining
      PROVE  TypedWhole(r, p)
  <2>1. ~batch[r].error /\ \A q \in InputsOf(r) : Fate(q) \notin {"gone", "lost"}
    BY <1>5 DEF BatchAnswer
  <2>2. CASE p \notin batch[r].remaining
    BY <1>1, <1>5, <2>1, <2>2 DEF BatchesTyped
  <2>3. CASE p \in batch[r].remaining
    <3>1. p \in InputsOf(r) /\ Finished(p)
      BY <1>1, <1>5, <2>3, BatchAfterFacts DEF BatchesTrackInputs
    <3>2. Fate(p) = "delivered"
      BY <1>1, <1>5, <2>1, <3>1, AnsweredFates
    <3> QED BY <1>1, <3>1, <3>2, DeliveredTyped
  <2> QED BY <2>2, <2>3
<1>6. ASSUME NEW r \in Req, NEW p, TypedWhole(r, p)
      PROVE  TypedWhole(r, p)'
  BY <1>2, <1>6 DEF TypedWhole
<1>7. BatchesTyped'
  <2>1. ASSUME NEW r \in Req, reply'[r] = "pending", batch'[r] # NoBatch, ~batch'[r].error,
               NEW p \in Job[r].pids \ batch'[r].remaining
        PROVE  TypedWhole(r, p)'
    <3>1. batch[r] # NoBatch /\ batch'[r] = BatchAfter(r)
      BY <1>3, <2>1
    <3>2. BatchAnswer(r) # "err" /\ Job[r].batch
      BY <1>1, <2>1, <3>1, BatchAfterFacts
    <3>3. ReplyAfter(r) = "pending"
      BY <1>3, <2>1
    <3>4. reply[r] = "pending"
      BY <3>3, ReplyCases
    <3>5. p \in Job[r].pids \ BatchAfter(r).remaining
      BY <2>1, <3>1
    <3> QED BY <1>5, <1>6, <3>1, <3>2, <3>4, <3>5
  <2> QED BY <2>1 DEF BatchesTyped
<1>8. AnswersTruthful'
  <2>1. ASSUME NEW r \in Req, reply'[r] = "ok", NEW p \in Job[r].pids
        PROVE  TypedWhole(r, p)'
    <3>1. ReplyAfter(r) = "ok"
      BY <1>3, <2>1
    <3>2. CASE reply[r] = "ok"
      <4>1. TypedWhole(r, p)
        BY <1>1, <3>2 DEF AnswersTruthful, TypedWhole
      <4> QED BY <1>6, <4>1
    <3>3. CASE /\ reply[r] = "pending" /\ InputsOf(r) # {} /\ Job[r].batch
               /\ ReplyAfter(r) = IF BatchAfter(r) = NoBatch THEN BatchAnswer(r) ELSE "pending"
      <4>1. BatchAfter(r) = NoBatch /\ BatchAnswer(r) = "ok"
        BY <3>1, <3>3
      <4>2. batch[r] # NoBatch
        BY <1>1, <3>3 DEF BatchesTrackInputs, NoBatch
      <4>3. BatchAfter(r).remaining = {}
        BY <4>1 DEF NoBatch
      <4> QED BY <1>5, <1>6, <3>3, <4>1, <4>2, <4>3
    <3>4. CASE /\ reply[r] = "pending" /\ ~Job[r].batch
               /\ \E q \in InputsOf(r) : Fate(q) = "delivered"
      <4>1. PICK q \in InputsOf(r) : Fate(q) = "delivered"
        BY <3>4
      <4>2. q \in Pid /\ q \in Running /\ input[q].by = r /\ r # Local
        BY LocalAssumption DEF InputsOf, Running
      <4>3. q \in Job[r].pids
        BY <1>1, <4>2 DEF InputsTyped
      <4>4. p = q
        BY <3>4, <4>3, JobAssumption
      <4>5. TypedWhole(r, q)
        BY <1>1, <4>1, DeliveredTyped
      <4> QED BY <1>6, <4>4, <4>5
    <3> QED BY <3>1, <3>2, <3>3, <3>4, ReplyCases
  <2> QED BY <2>1 DEF AnswersTruthful, TypedWhole
<1> QED BY <1>4, <1>7, <1>8

LEMMA AdvanceInputStep ==
  ASSUME KeyInv, AdvanceInput
  PROVE  KeyInv'
<1>1. Mappings'
  BY AdvanceMappings DEF KeyInv
<1> QED BY <1>1, AdvanceTypes, AdvanceTracksInputs, AdvanceTyped DEF KeyInv, Requests

-----------------------------------------------------------------------------

LEMMA NextKeyInv == KeyInv /\ [Next]_vars => KeyInv'
<1> SUFFICES ASSUME KeyInv, [Next]_vars PROVE KeyInv'
  OBVIOUS
<1>1. CASE World
  BY <1>1, FocusChangeStep, ProxyAckStep, PollStep, SetActivePidStep DEF World
<1>2. CASE Keyboard
  BY <1>2, SetActiveStep, OnSettingsChangedStep, KeyEventStep DEF Keyboard
<1>3. CASE Control
  BY <1>3, EnqueueStep, GiveUpStep, DrainCommandStep, SendInviteFollowStep, StepDueStep,
     AdvanceInputStep, StopStep DEF Control
<1>4. CASE UNCHANGED vars
  <2>1. /\ UNCHANGED worldVars /\ UNCHANGED targetVars /\ UNCHANGED castVars /\ UNCHANGED shmVars
        /\ UNCHANGED inputVars
    BY <1>4 DEF vars
  <2>2. TypeOK'
    BY <2>1 DEF KeyInv, TypeOK, Running, worldVars, targetVars, castVars, shmVars, inputVars
  <2>3. UNCHANGED <<targets, broadcasting, shmVars, input>>
    BY <2>1 DEF targetVars, castVars, inputVars
  <2> QED BY <2>1, <2>2, <2>3, MappingsStay, RequestsStay DEF KeyInv
<1> QED BY <1>1, <1>2, <1>3, <1>4 DEF Next

LEMMA KeyInvAlways == Spec => []KeyInv
BY InitKeyInv, NextKeyInv, PTL DEF Spec

\* Keys of a chord go down after its modifiers in one step.
ChordStep ==
  \A p \in Running : HasModifierChord(Stroke(input[p])) =>
    \A k \in Stroke(input[p]) \ Modifier :
      k \in tkeys'[p] /\ k \notin tkeys[p] => Stroke(input[p]) \cap Modifier \subseteq tkeys[p]

\* Only advance_input() presses targeted keys.
LEMMA OthersPressNothing ==
  ASSUME TypeOK, [Next]_vars, ~AdvanceInput, NEW p \in Pid
  PROVE  tkeys'[p] \subseteq tkeys[p]
<1>1. CASE tkeys' = tkeys
  BY <1>1
<1>2. CASE \E S : tkeys' = Only(S, tkeys)
  BY <1>2 DEF Only
<1>3. CASE tkeys' = [q \in Pid |-> {}]
  BY <1>3
<1>4. CASE World
  <2>1. \/ tkeys' = tkeys
        \/ \E S : tkeys' = Only(S, tkeys)
    BY <1>4 DEF World, FocusChange, ProxyAck, SetActivePid, Poll, shmVars
  <2> QED BY <2>1, <1>1, <1>2
<1>5. CASE Keyboard
  <2>1. tkeys' = tkeys
    BY <1>5 DEF Keyboard, SetActive, OnSettingsChanged, KeyEvent, shmVars
  <2> QED BY <2>1, <1>1
<1>6. CASE Control
  <2>1. ASSUME NEW ok \in BOOLEAN, DrainCommand(ok)
        PROVE  tkeys' = tkeys
    BY <2>1 DEF DrainCommand, Start, Refuse, shmVars
  <2>2. ASSUME NEW q \in Pid, SendInviteFollow(q)
        PROVE  tkeys' = tkeys
    BY <2>2 DEF SendInviteFollow, Start
  <2>3. ASSUME Stop
        PROVE  tkeys' = [q \in Pid |-> {}]
    BY <2>3 DEF Stop
  <2>4. ASSUME NEW r \in Req, NEW notified \in BOOLEAN, Enqueue(r, notified)
        PROVE  tkeys' = tkeys
    BY <2>4 DEF Enqueue, shmVars
  <2>5. ASSUME NEW r \in Req, GiveUp(r)
        PROVE  tkeys' = tkeys
    BY <2>5 DEF GiveUp, shmVars
  <2>6. ASSUME NEW q \in Pid, StepDue(q)
        PROVE  tkeys' = tkeys
    BY <2>6 DEF StepDue, shmVars
  <2> QED BY <1>1, <1>3, <1>6, <2>1, <2>2, <2>3, <2>4, <2>5, <2>6 DEF Control
<1>7. CASE UNCHANGED vars
  BY <1>1, <1>7 DEF vars, shmVars
<1> QED BY <1>4, <1>5, <1>6, <1>7 DEF Next

LEMMA ChordsStayOrdered ==
  ASSUME KeyInv, [Next]_vars
  PROVE  ChordStep
<1> SUFFICES ASSUME NEW p \in Running, HasModifierChord(Stroke(input[p])),
                    NEW k \in Stroke(input[p]) \ Modifier, k \in tkeys'[p], k \notin tkeys[p]
             PROVE  Stroke(input[p]) \cap Modifier \subseteq tkeys[p]
  BY DEF ChordStep
<1>1. p \in Pid /\ TypeOK /\ Mappings /\ TargetedKeysOwned
  BY DEF Running, KeyInv, Mappings
<1>2. AdvanceInput
  BY <1>1, OthersPressNothing
<1>3. tkeys'[p] = TargetedAfter(p)
  BY <1>1, <1>2, Advanced
<1>4. Fate(p) = "steps" /\ ~Finished(p)
  BY <1>1, <1>3, AdvancedKeys
<1>5. tkeys[p] = Down(input[p])
  BY <1>1, <1>4, Fates DEF TargetedKeysOwned
<1>6. /\ input[p].phase \in {"Press", "PressChord"}
      /\ k \in PhaseScans(Stroke(input[p]), input[p].phase)
  BY <1>3, <1>4 DEF TargetedAfter
<1>7. input[p].phase = "PressChord"
  BY <1>6 DEF PhaseScans
<1> QED BY <1>5, <1>7 DEF Down

-----------------------------------------------------------------------------

\* Whatever is turned off, cleared, finished, retired or created again in between, a
\* mapping shows the union of what its two sources hold, and no broadcast key once
\* broadcasting is off (write_combined_key, set_active, sync_targets, publish).
THEOREM MappingAlwaysSound == Spec => []MappingSound
<1>1. KeyInv => MappingSound
  BY DEF KeyInv, Mappings
<1> QED BY <1>1, KeyInvAlways, PTL

\* A success is told only when every stroke was completely down in every client the
\* request named, however its inputs ended (finish_input, advance_one_input).
THEOREM AnswersAlwaysTruthful == Spec => []AnswersTruthful
<1>1. KeyInv => AnswersTruthful
  BY DEF KeyInv, Requests
<1> QED BY <1>1, KeyInvAlways, PTL

\* The targeted keys down in a mapping are those of the stroke in progress, pressed in the
\* order of its chord, and every caller that waits is waited for by an input, a batch or
\* the queue (advance_one_input, finish_targeted_input, drain_commands).
THEOREM KeysAlwaysOwned == Spec => KeysOwned
<1>1. KeyInv => TypeOK /\ TargetedKeysOwned /\ BatchesTrackInputs
  BY DEF KeyInv, Mappings, Requests
<1>2. KeyInv /\ [Next]_vars => [ChordStep]_vars
  BY ChordsStayOrdered
<1>3. Spec => [](TypeOK /\ TargetedKeysOwned /\ BatchesTrackInputs)
  BY <1>1, KeyInvAlways, PTL
<1>4. Spec => [][ChordStep]_vars
  BY <1>2, KeyInvAlways, PTL DEF Spec
<1>5. ChordsOrdered <=> [][ChordStep]_vars
  BY DEF ChordsOrdered, ChordStep
<1> QED BY <1>3, <1>4, <1>5 DEF KeysOwned
=============================================================================
