------------------------- MODULE MouseClutchProofs -------------------------
(***************************************************************************)
(* Proofs about module MouseClutch: its type invariant and its safety      *)
(* invariants hold for every number of clients, keys, buttons, connections *)
(* and holds, for every lease and drain time, and with hooks that fail.    *)
(***************************************************************************)
EXTENDS MouseClutch, TLAPS

----------------------------------------------------------------------------
(* What the methods of struct MouseClutch and the hook helpers return.     *)

LEMMA DrainType == Drain \in 0..Drain /\ 0 \in 0..Drain
BY TimeAssumption

LEMMA LeaseType == Lease \in 0..Lease /\ 0 \in 0..Lease
BY TimeAssumption

LEMMA LessType == \A m \in Nat : \A n \in 0..m : Less(n) \in 0..m
BY DEF Less

LEMMA ClutchFields ==
  ASSUME NEW c \in Clutch
  PROVE  /\ c.phase \in Phase
         /\ c.buttons \in SUBSET Button
         /\ c.swallowed \in Vk \cup {NoVk}
         /\ c.local \in BOOLEAN
         /\ c.source \in Pid \cup {NoPid}
         /\ c.left \in 0..Drain
BY DEF Clutch

LEMMA ReleaseType ==
  ASSUME NEW c \in Clutch, NEW remote \in BOOLEAN
  PROVE  ReleaseIfUnowned(c, remote) \in Clutch
BY DrainType DEF ReleaseIfUnowned, BeginDrain, Clutch, Phase

LEMMA OnKeyDownType ==
  ASSUME NEW c \in Clutch, NEW vk \in Vk, NEW src \in Pid, NEW has \in BOOLEAN
  PROVE  OnKeyDown(c, vk, src, has) \in Clutch
BY DrainType DEF OnKeyDown, CanActivate, Activate, Clutch, Phase

LEMMA OnKeyUpType ==
  ASSUME NEW c \in Clutch, NEW remote \in BOOLEAN
  PROVE  OnKeyUp(c, remote) \in Clutch
<1>1. [c EXCEPT !.swallowed = NoVk, !.local = FALSE] \in Clutch
  BY DEF Clutch
<1>2. QED BY <1>1, ReleaseType DEF OnKeyUp

LEMMA SetButtonType ==
  ASSUME NEW c \in Clutch, NEW b \in Button, NEW pressed \in BOOLEAN
  PROVE  SetButton(c, b, pressed) \in Clutch
BY DrainType DEF SetButton, BeginDrain, Clutch, Phase

LEMMA CancelType ==
  ASSUME NEW c \in Clutch
  PROVE  CancelBounded(c) \in Clutch
BY DrainType DEF CancelBounded, BeginDrain, Clutch, Phase

LEMMA ForceInactiveType ==
  ASSUME NEW c \in Clutch
  PROVE  ForceInactive(c) \in Clutch
BY DrainType DEF ForceInactive, Clutch, Phase

LEMMA ActivateType ==
  ASSUME NEW c \in Clutch, NEW src \in Pid
  PROVE  Activate(c, src) \in Clutch
BY DrainType DEF Activate, Clutch, Phase

LEMMA SampledType ==
  ASSUME TypeOK, NEW c \in Clutch, NEW b \in BOOLEAN
  PROVE  SampledIf(c, b) \in Clutch
BY DEF SampledIf, Clutch, TypeOK

LEMMA NoHoldsType == NoHold \in Hold /\ NoHolds \in [Owner -> Hold]
BY LeaseType DEF NoHolds, NoHold, Hold

LEMMA StatusType ==
  ASSUME NEW c \in Clutch
  PROVE  Status(c) \in {"Inactive", "Active", "Releasing"}
BY DEF Status, Clutch, Phase

LEMMA ReconcileType ==
  ASSUME NEW h, NEW on, NEW b, NEW p, NEW c, NEW hs,
         NEW r \in Reconcile(h, on, b, p, c, hs)
  PROVE  r \in HookResult /\ HooksOf(r) \in Hooks
BY DEF Reconcile, ReconcileHooks, HookResult, HooksOf, Hooks

----------------------------------------------------------------------------
(* Type correctness.                                                       *)

LEMMA InitType == Init => TypeOK
<1> SUFFICES ASSUME Init PROVE TypeOK
  OBVIOUS
<1>1. clutch \in Clutch
  BY DrainType DEF Init, Clutch, Phase
<1>2. holds \in [Owner -> Hold]
  BY NoHoldsType DEF Init
<1>3. closed \in Seq(Session) /\ queue \in Seq(Msg)
  BY DEF Init
<1>4. seqs \in [Owner -> 0..MaxSeq] /\ sent \in [Session -> 0..MaxSeq]
  BY BoundAssumption DEF Init
<1>5. keyIsDown \in BOOLEAN /\ hooks \in Hooks
  BY DEF Init
<1>6. QED
  BY <1>1, <1>2, <1>3, <1>4, <1>5 DEF Init, TypeOK

LEMMA WorldType == TypeOK /\ World => TypeOK'
<1> SUFFICES ASSUME TypeOK, World PROVE TypeOK'
  OBVIOUS
<1>1. ASSUME NEW p \in MayFocus \cup {NoPid}, FocusChange(p) PROVE TypeOK'
  BY <1>1, ReportsAssumption DEF FocusChange, TypeOK, targetVars, remoteVars, bindVars, hookVars, clientVars
<1>2. ASSUME NEW p \in Pid, ProxyAck(p) PROVE TypeOK'
  BY <1>2 DEF ProxyAck, TypeOK, targetVars, remoteVars, bindVars, hookVars, clientVars
<1>3. ASSUME NEW p \in MayExit, ProcessExit(p) PROVE TypeOK'
  BY <1>3, ReportsAssumption DEF ProcessExit, TypeOK, targetVars, remoteVars, bindVars, hookVars, clientVars
<1>4. ASSUME NEW b \in Button, NEW pressed \in BOOLEAN, MouseButton(b, pressed) PROVE TypeOK'
  <2>1. clutch' \in Clutch
    BY <1>4, SetButtonType DEF MouseButton, TypeOK
  <2>2. QED
    BY <1>4, <2>1 DEF MouseButton, TypeOK, targetVars, remoteVars, bindVars, hookVars, clientVars
<1>5. ASSUME NEW vk \in Vk, KeyDown(vk) PROVE TypeOK'
  <2>1. clutch' \in Clutch
    <3>1. foreground \in eqPids => foreground \in Pid
      BY DEF TypeOK
    <3>2. HasReadyMouseTargets(foreground) \in BOOLEAN
      BY DEF HasReadyMouseTargets
    <3>3. QED
      BY <1>5, <3>1, <3>2, OnKeyDownType DEF KeyDown, TypeOK
  <2>2. selected' \in SUBSET Pid
    BY <1>5 DEF KeyDown, TypeOK, MouseTargets
  <2>3. keyIsDown' \in BOOLEAN /\ dirty' \in BOOLEAN
    BY <1>5 DEF KeyDown, FreshPress, BoundKeyDown, TypeOK
  <2>4. QED
    BY <1>5, <2>1, <2>2, <2>3 DEF KeyDown, TypeOK, remoteVars, hookVars, clientVars
<1>6. ASSUME NEW vk \in Vk, KeyUp(vk) PROVE TypeOK'
  <2>1. clutch' \in Clutch
    BY <1>6, OnKeyUpType DEF KeyUp, TypeOK, AnyHeld
  <2>2. keyIsDown' \in BOOLEAN /\ dirty' \in BOOLEAN
    BY <1>6 DEF KeyUp, TypeOK
  <2>3. QED
    BY <1>6, <2>1, <2>2 DEF KeyUp, TypeOK, targetVars, remoteVars, hookVars, clientVars
<1>7. ASSUME Elapse PROVE TypeOK'
  <2>1. clutch' \in Clutch
    <3>1. Less(clutch.left) \in 0..Drain
      BY LessType, TimeAssumption DEF TypeOK, Clutch
    <3>2. QED BY <1>7, <3>1 DEF Elapse, TypeOK, Clutch
  <2>2. holds' \in [Owner -> Hold]
    <3>1. ASSUME NEW o \in Owner
          PROVE  holds[o].source \in Pid \cup {NoPid} /\ Less(holds[o].left) \in 0..Lease
      BY LessType, TimeAssumption DEF TypeOK, Hold
    <3>2. QED BY <1>7, <3>1 DEF Elapse, Hold
  <2>3. QED
    BY <1>7, <2>1, <2>2 DEF Elapse, TypeOK, envVars, targetVars, bindVars, hookVars, clientVars
<1>8. QED
  BY <1>1, <1>2, <1>3, <1>4, <1>5, <1>6, <1>7 DEF World

LEMMA CancelAllType ==
  ASSUME TypeOK, NEW cond \in BOOLEAN, CancelAllIf(cond)
  PROVE  clutch' \in Clutch /\ holds' \in [Owner -> Hold] /\ dirty' \in BOOLEAN
BY CancelType, NoHoldsType DEF CancelAllIf, TypeOK

LEMMA OverlayType == TypeOK /\ Overlay => TypeOK'
<1> SUFFICES ASSUME TypeOK, Overlay PROVE TypeOK'
  OBVIOUS
<1>1. ASSUME NEW pids \in PidReports, NEW active \in ActiveOf(pids),
             NEW created \in SUBSET (pids \ targets),
             UpdateTargets(pids, active, created)
      PROVE  TypeOK'
  <2>1. pids \subseteq Pid /\ active \in Pid \cup {NoPid}
    BY ReportsAssumption DEF ActiveOf
  <2>2. clutch' \in Clutch /\ holds' \in [Owner -> Hold] /\ dirty' \in BOOLEAN
    BY <1>1, CancelAllType DEF UpdateTargets
  <2>3. proxy' \in [Pid -> {"absent", "ready", "dead"}]
    BY <1>1 DEF UpdateTargets, TypeOK
  <2>4. QED
    BY <1>1, <2>1, <2>2, <2>3 DEF UpdateTargets, TypeOK, bindVars, hookVars, clientVars
<1>2. ASSUME NEW pids \in EligibleReports, UpdateMouseEligiblePids(pids) PROVE TypeOK'
  <2>1. clutch' \in Clutch /\ holds' \in [Owner -> Hold] /\ dirty' \in BOOLEAN
    BY <1>2, CancelAllType DEF UpdateMouseEligiblePids
  <2>2. QED
    BY <1>2, <2>1, ReportsAssumption DEF UpdateMouseEligiblePids, TypeOK, envVars, bindVars, hookVars, clientVars
<1>3. ASSUME NEW p \in MayFocus, SetActivePid(p) PROVE TypeOK'
  <2>1. clutch' \in Clutch /\ holds' \in [Owner -> Hold] /\ dirty' \in BOOLEAN
    BY <1>3, CancelAllType DEF SetActivePid
  <2>2. QED
    BY <1>3, <2>1, ReportsAssumption DEF SetActivePid, TypeOK, envVars, bindVars, hookVars, clientVars
<1>4. QED
  BY <1>1, <1>2, <1>3 DEF Overlay

LEMMA BeginType ==
  ASSUME TypeOK, NEW o \in Owner, BeginHold(o)
  PROVE  /\ clutch' \in Clutch /\ holds' \in [Owner -> Hold]
         /\ selected' \in SUBSET Pid /\ hooks' \in Hooks /\ dirty' \in BOOLEAN
         /\ shown' \in {"Inactive", "Active", "Releasing"}
<1> DEFINE src  == foreground
           live == holds[o].source # NoPid
           hs   == [holds EXCEPT ![o] = [source |-> IF live THEN @.source ELSE src,
                                         left |-> Lease]]
           resuming == clutch.phase = "Active" /\ clutch.source = src
           sampled  == [clutch EXCEPT !.buttons = physButtons]
           engages  == CanActivate(sampled, src, TRUE)
<1>1. hs \in [Owner -> Hold]
  BY LeaseType DEF TypeOK, Hold
<1>2. CASE live
  <2>1. /\ holds' = hs /\ shown' = Status(clutch)
        /\ UNCHANGED <<clutch, selected, hooks, dirty>>
    BY <1>2 DEF BeginHold
  <2> HIDE DEF hs
  <2>2. QED BY <2>1, <1>1, StatusType DEF TypeOK
<1>3. CASE ~live /\ ~ClutchAvailable
  BY <1>3 DEF BeginHold, TypeOK
<1>4. CASE ~live /\ ClutchAvailable
  <2>1. src \in Pid
    BY <1>4 DEF ClutchAvailable, TypeOK
  <2>2. PICK r \in Reconcile(hooks, broadcasting, binding, pending, clutch, hs) :
          LET c == SampledIf(clutch, Installed(hooks, r) \/ (r.ok /\ ~resuming))
              succeeds == r.ok /\ (resuming \/ engages)
          IN  \/ /\ succeeds
                 /\ clutch' = Activate(c, src)
                 /\ selected' = IF resuming THEN selected ELSE MouseTargets(src)
                 /\ holds' = hs
                 /\ hooks' = HooksOf(r)
                 /\ dirty' = TRUE
                 /\ shown' = Status(clutch')
              \/ /\ ~succeeds
                 /\ \E r2 \in Reconcile(r, broadcasting, binding, pending, c, holds) :
                      /\ hooks' = HooksOf(r2)
                      /\ clutch' = SampledIf(c, Installed(r, r2))
                 /\ holds' = holds /\ UNCHANGED <<selected, dirty, shown>>
    BY <1>4 DEF BeginHold
  <2> DEFINE c == SampledIf(clutch, Installed(hooks, r) \/ (r.ok /\ ~resuming))
             succeeds == r.ok /\ (resuming \/ engages)
  <2>3. c \in Clutch
    BY SampledType DEF TypeOK
  <2> HIDE DEF hs, c
  <2>4. CASE succeeds
    <3>1. /\ clutch' = Activate(c, src)
          /\ selected' = IF resuming THEN selected ELSE MouseTargets(src)
          /\ holds' = hs /\ hooks' = HooksOf(r) /\ dirty' = TRUE
          /\ shown' = Status(clutch')
      BY <2>2, <2>4 DEF c
    <3>2. clutch' \in Clutch
      BY <3>1, <2>1, <2>3, ActivateType
    <3>3. MouseTargets(src) \subseteq Pid
      BY DEF MouseTargets, TypeOK
    <3>4. HooksOf(r) \in Hooks
      BY ReconcileType
    <3>5. QED BY <3>1, <3>2, <3>3, <3>4, <1>1, StatusType DEF TypeOK
  <2>5. CASE ~succeeds
    <3>1. holds' = holds /\ UNCHANGED <<selected, dirty, shown>>
      BY <2>2, <2>5 DEF c
    <3>2. PICK r2 \in Reconcile(r, broadcasting, binding, pending, c, holds) :
             /\ hooks' = HooksOf(r2)
             /\ clutch' = SampledIf(c, Installed(r, r2))
      BY <2>2, <2>5 DEF c
    <3>3. hooks' \in Hooks
      BY <3>2, ReconcileType
    <3>4. clutch' \in Clutch
      BY <3>2, <2>3, SampledType DEF Installed
    <3>5. QED BY <3>1, <3>3, <3>4 DEF TypeOK
  <2>6. QED BY <2>4, <2>5
<1>5. QED BY <1>2, <1>3, <1>4

LEMMA RenewType ==
  ASSUME TypeOK, NEW o \in Owner, RenewHold(o)
  PROVE  /\ clutch' \in Clutch /\ holds' \in [Owner -> Hold]
         /\ selected' \in SUBSET Pid /\ hooks' \in Hooks /\ dirty' \in BOOLEAN
         /\ shown' \in {"Inactive", "Active", "Releasing"}
<1>1. holds' \in [Owner -> Hold]
  BY LeaseType, NoHoldsType DEF RenewHold, TypeOK, Hold
<1>2. QED
  BY <1>1, StatusType DEF RenewHold, TypeOK

LEMMA DropType ==
  ASSUME TypeOK, NEW hs \in [Owner -> Hold], DropHolds(hs)
  PROVE  /\ clutch' \in Clutch /\ holds' \in [Owner -> Hold]
         /\ selected' \in SUBSET Pid /\ hooks' \in Hooks /\ dirty' \in BOOLEAN
         /\ shown' \in {"Inactive", "Active", "Releasing"}
<1> DEFINE next == ReleaseIfUnowned(clutch, AnyHeld(hs))
<1>1. next \in Clutch
  BY ReleaseType DEF TypeOK, AnyHeld
<1>2. holds' = hs /\ selected' = selected
  BY DEF DropHolds
<1>3. CASE hs = holds
  BY <1>3, <1>2, StatusType DEF DropHolds, TypeOK
<1>4. CASE hs # holds
  <2>1. PICK r \in Reconcile(hooks, broadcasting, binding, pending, next, hs) :
          hooks' = HooksOf(r) /\ clutch' = SampledIf(next, Installed(hooks, r))
    BY <1>4 DEF DropHolds
  <2>2. dirty' = TRUE /\ shown' = Status(clutch')
    BY <1>4 DEF DropHolds
  <2> HIDE DEF next
  <2>3. clutch' \in Clutch
    BY <2>1, <1>1, SampledType DEF Installed
  <2>4. hooks' \in Hooks
    BY <2>1, ReconcileType
  <2>5. QED BY <1>2, <2>2, <2>3, <2>4, StatusType DEF TypeOK
<1>5. QED BY <1>3, <1>4

LEMMA MsgFields ==
  ASSUME NEW m \in Msg, m.op # "Close"
  PROVE  /\ m.session \in Session /\ m.hold \in HoldId
         /\ m.op \in HoldOp /\ m.seq \in 1..MaxSeq
         /\ <<m.session, m.hold>> \in Owner
BY DEF Msg, Owner

LEMMA CloseFields ==
  ASSUME NEW m \in Msg, m.op = "Close"
  PROVE  m.session \in Session
BY DEF Msg

LEMMA SeqsType ==
  ASSUME NEW f \in [Owner -> 0..MaxSeq], NEW o \in Owner, NEW n \in 1..MaxSeq
  PROVE  [f EXCEPT ![o] = n] \in [Owner -> 0..MaxSeq]
BY BoundAssumption

LEMMA DrainCommandType == TypeOK /\ DrainCommand => TypeOK'
<1> SUFFICES ASSUME TypeOK, DrainCommand PROVE TypeOK'
  OBVIOUS
<1> DEFINE m == Head(queue)
           o == <<m.session, m.hold>>
<1>1. m \in Msg /\ queue' \in Seq(Msg)
  BY DEF TypeOK, DrainCommand
<1> HIDE DEF m
<1>2. /\ clutch' \in Clutch /\ holds' \in [Owner -> Hold]
      /\ selected' \in SUBSET Pid /\ hooks' \in Hooks /\ dirty' \in BOOLEAN
      /\ shown' \in {"Inactive", "Active", "Releasing"}
      /\ seqs' \in [Owner -> 0..MaxSeq] /\ closed' \in Seq(Session)
  <2>1. CASE m.op # "Close"
    <3>1. UpdateRemoteMouseClutchHold(m) /\ closed' = closed
      BY <2>1 DEF DrainCommand, m
    <3>2. o \in Owner /\ m.seq \in 1..MaxSeq
      BY <1>1, <2>1, MsgFields
    <3>3. closed' \in Seq(Session)
      BY <3>1 DEF TypeOK
    <3>4. CASE m.session \in ClosedSessions \/ m.seq <= seqs[o]
      BY <3>1, <3>3, <3>4, StatusType DEF UpdateRemoteMouseClutchHold, TypeOK
    <3>5. CASE ~(m.session \in ClosedSessions \/ m.seq <= seqs[o])
      <4>1. seqs' = [seqs EXCEPT ![o] = m.seq]
        BY <3>1, <3>5 DEF UpdateRemoteMouseClutchHold
      <4>2. seqs' \in [Owner -> 0..MaxSeq]
        BY <4>1, <3>2, SeqsType DEF TypeOK
      <4>3. BeginHold(o) \/ RenewHold(o) \/ EndHold(o)
        BY <3>1, <3>5 DEF UpdateRemoteMouseClutchHold
      <4> HIDE DEF o
      <4>4. [holds EXCEPT ![o] = NoHold] \in [Owner -> Hold]
        BY NoHoldsType DEF TypeOK
      <4>5. QED
        BY <3>2, <3>3, <4>2, <4>3, <4>4, BeginType, RenewType, DropType DEF EndHold
    <3>6. QED BY <3>4, <3>5
  <2>2. CASE m.op = "Close"
    <3>1. EndRemoteMouseClutchSession(m.session)
      BY <2>2 DEF DrainCommand, m
    <3>2. m.session \in Session
      BY <1>1, <2>2, CloseFields
    <3> DEFINE hs == [x \in Owner |-> IF x[1] = m.session THEN NoHold ELSE holds[x]]
    <3>3. hs \in [Owner -> Hold]
      BY NoHoldsType DEF TypeOK
    <3>4. DropHolds(hs)
      BY <3>1 DEF EndRemoteMouseClutchSession
    <3>5. seqs' \in [Owner -> 0..MaxSeq]
      BY <3>1, BoundAssumption DEF EndRemoteMouseClutchSession, TypeOK
    <3>6. closed' \in Seq(Session)
      <4> DEFINE longer == IF m.session \in ClosedSessions THEN closed ELSE Append(closed, m.session)
      <4>1. closed' = IF Len(longer) > ClosedCap THEN Tail(longer) ELSE longer
        BY <3>1 DEF EndRemoteMouseClutchSession
      <4>2. longer \in Seq(Session)
        BY <3>2 DEF TypeOK
      <4> HIDE DEF longer
      <4>3. Len(longer) > ClosedCap => longer # <<>>
        BY <4>2, BoundAssumption
      <4>4. QED BY <4>1, <4>2, <4>3
    <3> HIDE DEF hs
    <3>7. QED BY <3>3, <3>4, <3>5, <3>6, DropType
  <2>3. QED BY <2>1, <2>2
<1>3. QED
  BY <1>1, <1>2 DEF DrainCommand, TypeOK, envVars, bindVars

LEMMA AppendType ==
  ASSUME NEW S, NEW q \in Seq(S), NEW x \in S
  PROVE  Append(q, x) \in Seq(S)
OBVIOUS

LEMMA RemoteType == TypeOK /\ Remote => TypeOK'
<1> SUFFICES ASSUME TypeOK, Remote PROVE TypeOK'
  OBVIOUS
<1>1. ASSUME NEW s \in Session, NEW h \in HoldId, NEW op \in HoldOp, ClientSend(s, h, op)
      PROVE  TypeOK'
  <2>1. sent[s] + 1 \in 1..MaxSeq /\ sent[s] + 1 \in 0..MaxSeq
    BY <1>1, BoundAssumption DEF ClientSend, TypeOK
  <2>2. sent' \in [Session -> 0..MaxSeq]
    BY <1>1, <2>1 DEF ClientSend, TypeOK
  <2>3. HoldMsg(s, h, op) \in Msg
    BY <2>1 DEF HoldMsg, Msg
  <2>4. queue' \in Seq(Msg)
    BY <1>1, <2>3 DEF ClientSend, TypeOK
  <2>5. QED
    BY <1>1, <2>2, <2>4 DEF ClientSend, TypeOK, envVars, targetVars, remoteVars, bindVars, hookVars
<1>2. ASSUME NEW s \in Session, ConnectionLost(s) PROVE TypeOK'
  <2> DEFINE close == [session |-> s, op |-> "Close"]
  <2>1. close \in Msg
    BY DEF Msg
  <2>2. queue' = Append(queue, close) \/ queue' = queue
    BY <1>2 DEF ConnectionLost
  <2> HIDE DEF close
  <2>3. queue' \in Seq(Msg)
    <3>1. queue \in Seq(Msg)
      BY DEF TypeOK
    <3>2. Append(queue, close) \in Seq(Msg)
      BY <2>1, <3>1, AppendType, Zenon
    <3>3. QED BY <2>2, <3>1, <3>2, Zenon
  <2>4. QED
    BY <1>2, <2>3 DEF ConnectionLost, TypeOK, envVars, targetVars, remoteVars, bindVars, hookVars
<1>3. QED
  BY <1>1, <1>2, DrainCommandType DEF Remote

LEMMA KeepHooksType ==
  ASSUME TypeOK
  PROVE  KeepHooks \subseteq HookResult
<1>1. hooks.kb \in BOOLEAN /\ hooks.ms \in BOOLEAN
  BY DEF TypeOK, Hooks
<1>2. QED BY <1>1 DEF KeepHooks, HookResult

LEMMA ApplyPendingType ==
  ASSUME TypeOK, NEW c \in Clutch, NEW sel \in SUBSET Pid,
         NEW hs \in [Owner -> Hold], NEW p \in Vk \cup {NoVk, NoPending},
         NEW again \in BOOLEAN, ApplyPending(c, sel, hs, p, again)
  PROVE  /\ clutch' \in Clutch /\ selected' \in SUBSET Pid /\ hooks' \in Hooks
         /\ binding' \in Vk \cup {NoVk} /\ pending' \in Vk \cup {NoVk, NoPending}
         /\ keyIsDown' \in BOOLEAN
<1> DEFINE applies == CanApplyPending(c, p)
           b1 == IF applies THEN p ELSE binding
           wait == IF applies THEN NoPending ELSE p
<1>1. PICK r1 \in IF applies THEN Reconcile(hooks, broadcasting, b1, wait, c, hs) ELSE KeepHooks :
        LET b2 == BindingAfter(r1.ok, b1)
            c2 == IF r1.ok THEN c ELSE ForceInactive(c)
        IN  \E r2 \in IF r1.ok THEN {r1} ELSE Reconcile(r1, broadcasting, b2, wait, c2, hs) :
              \E r3 \in IF again THEN Reconcile(r2, broadcasting, b2, wait, c2, hs) ELSE {r2} :
                /\ binding' = b2
                /\ pending' = wait
                /\ keyIsDown' = IF applies THEN b1 \in heldKeys ELSE keyIsDown
                /\ hooks' = HooksOf(r3)
                /\ selected' = IF r1.ok THEN sel ELSE {}
                /\ clutch' = SampledIf(c2, \/ Installed(hooks, r1)
                                           \/ Installed(r1, r2)
                                           \/ Installed(r2, r3))
  BY DEF ApplyPending
<1> DEFINE b2 == BindingAfter(r1.ok, b1)
           c2 == IF r1.ok THEN c ELSE ForceInactive(c)
<1>2. PICK r2 \in IF r1.ok THEN {r1} ELSE Reconcile(r1, broadcasting, b2, wait, c2, hs) :
        \E r3 \in IF again THEN Reconcile(r2, broadcasting, b2, wait, c2, hs) ELSE {r2} :
                /\ binding' = b2
                /\ pending' = wait
                /\ keyIsDown' = IF applies THEN b1 \in heldKeys ELSE keyIsDown
                /\ hooks' = HooksOf(r3)
                /\ selected' = IF r1.ok THEN sel ELSE {}
                /\ clutch' = SampledIf(c2, \/ Installed(hooks, r1)
                                           \/ Installed(r1, r2)
                                           \/ Installed(r2, r3))
  BY <1>1
<1>3. PICK r3 \in IF again THEN Reconcile(r2, broadcasting, b2, wait, c2, hs) ELSE {r2} :
                /\ binding' = b2
                /\ pending' = wait
                /\ keyIsDown' = IF applies THEN b1 \in heldKeys ELSE keyIsDown
                /\ hooks' = HooksOf(r3)
                /\ selected' = IF r1.ok THEN sel ELSE {}
                /\ clutch' = SampledIf(c2, \/ Installed(hooks, r1)
                                           \/ Installed(r1, r2)
                                           \/ Installed(r2, r3))
  BY <1>2
<1>4. c2 \in Clutch
  BY ForceInactiveType
<1>5. b1 \in Vk \cup {NoVk} /\ wait \in Vk \cup {NoVk, NoPending}
  BY DEF TypeOK, CanApplyPending
<1> HIDE DEF applies, b1, wait, c2
<1>6. r1 \in HookResult
  <2>1. CASE applies
    BY <2>1, ReconcileType
  <2>2. CASE ~applies
    BY <2>2, KeepHooksType
  <2>3. QED BY <2>1, <2>2
<1> HIDE DEF b2
<1>7. r2 \in HookResult
  <2>1. CASE r1.ok
    BY <2>1, <1>6
  <2>2. CASE ~r1.ok
    BY <2>2, ReconcileType
  <2>3. QED BY <2>1, <2>2
<1>8. r3 \in HookResult
  BY <1>7, ReconcileType
<1>9. hooks' \in Hooks
  BY <1>3, <1>8 DEF HooksOf, HookResult, Hooks
<1>10. clutch' \in Clutch
  BY <1>3, <1>4, SampledType DEF Installed
<1>11. binding' \in Vk \cup {NoVk}
  BY <1>3, <1>5 DEF b2, BindingAfter
<1>12. keyIsDown' \in BOOLEAN
  <2>1. CASE applies
    <3>1. keyIsDown' = (b1 \in heldKeys)
      BY <1>3, <2>1
    <3>2. QED BY <3>1
  <2>2. CASE ~applies
    BY <1>3, <2>2 DEF TypeOK
  <2>3. QED BY <2>1, <2>2
<1>13. QED BY <1>3, <1>5, <1>9, <1>10, <1>11, <1>12

LEMMA EngineType == TypeOK /\ Engine => TypeOK'
<1> SUFFICES ASSUME TypeOK, Engine PROVE TypeOK'
  OBVIOUS
<1>1. ASSUME Tick PROVE TypeOK'
  <2> DEFINE live   == LiveHolds
             c1     == IF live = holds THEN clutch ELSE ReleaseIfUnowned(clutch, AnyHeld(live))
             broken == c1.phase # "Inactive" /\ ~ClutchStillValid(c1)
             c2     == IF broken THEN CancelBounded(c1) ELSE c1
             due    == DrainIsDue(c2)
             hs     == IF broken THEN NoHolds ELSE live
             sel    == IF due THEN {} ELSE selected
             c3     == IF due THEN ForceInactive(c2) ELSE c2
  <2>1. live \in [Owner -> Hold]
    BY NoHoldsType DEF TypeOK, LiveHolds
  <2>2. hs \in [Owner -> Hold]
    BY <2>1, NoHoldsType
  <2> HIDE DEF live
  <2>3. c1 \in Clutch
    BY ReleaseType DEF TypeOK, AnyHeld
  <2> HIDE DEF c1
  <2>4. c2 \in Clutch
    BY <2>3, CancelType
  <2> HIDE DEF c2, broken
  <2>5. c3 \in Clutch
    BY <2>4, ForceInactiveType
  <2>6. sel \in SUBSET Pid
    BY DEF TypeOK
  <2>7. /\ ApplyPending(c3, sel, hs, pending, TRUE)
        /\ holds' = hs /\ dirty' = FALSE
        /\ shown' = Status(clutch') \/ shown' = shown
        /\ UNCHANGED <<envVars, running, eqPids, targets, eligible, activePid,
                       seqs, closed, broadcasting, clientVars, eaten>>
    BY <1>1 DEF Tick, live, c1, c2, broken
  <2> HIDE DEF c3, sel, hs
  <2>8. /\ clutch' \in Clutch /\ selected' \in SUBSET Pid /\ hooks' \in Hooks
        /\ binding' \in Vk \cup {NoVk} /\ pending' \in Vk \cup {NoVk, NoPending}
        /\ keyIsDown' \in BOOLEAN
    BY <2>2, <2>5, <2>6, <2>7, ApplyPendingType DEF TypeOK
  <2>9. shown' \in {"Inactive", "Active", "Releasing"}
    BY <2>7, <2>8, StatusType DEF TypeOK
  <2>10. QED
    BY <2>2, <2>7, <2>8, <2>9 DEF TypeOK, envVars, clientVars
<1>2. ASSUME NEW b \in Vk \cup {NoVk}, OnSettingsChanged(b) PROVE TypeOK'
  <2>1. CancelBounded(clutch) \in Clutch
    BY CancelType DEF TypeOK
  <2>2. /\ clutch' \in Clutch /\ selected' \in SUBSET Pid /\ hooks' \in Hooks
        /\ binding' \in Vk \cup {NoVk} /\ pending' \in Vk \cup {NoVk, NoPending}
        /\ keyIsDown' \in BOOLEAN
    BY <1>2, <2>1, NoHoldsType, ApplyPendingType DEF OnSettingsChanged, TypeOK
  <2>3. QED
    BY <1>2, <2>2, NoHoldsType DEF OnSettingsChanged, TypeOK, envVars, clientVars
<1>3. ASSUME NEW on \in BroadcastChoices, SetActive(on) PROVE TypeOK'
  <2>1. PICK r1 \in Reconcile(hooks, on, binding, pending, clutch, holds) :
          LET undone == on /\ ~r1.ok
          IN  \E r2 \in IF undone THEN Reconcile(r1, FALSE, binding, pending, clutch, holds)
                        ELSE {r1} :
                /\ hooks' = HooksOf(r2)
                /\ clutch' = SampledIf(clutch, Installed(hooks, r1) \/ Installed(r1, r2))
                /\ broadcasting' = (on /\ ~undone)
    BY <1>3 DEF SetActive
  <2> DEFINE undone == on /\ ~r1.ok
  <2>2. PICK r2 \in IF undone THEN Reconcile(r1, FALSE, binding, pending, clutch, holds)
                    ELSE {r1} :
          /\ hooks' = HooksOf(r2)
          /\ clutch' = SampledIf(clutch, Installed(hooks, r1) \/ Installed(r1, r2))
          /\ broadcasting' = (on /\ ~undone)
    BY <2>1
  <2>3. hooks' \in Hooks
    BY <2>2, ReconcileType
  <2>4. clutch' \in Clutch
    BY <2>2, SampledType DEF TypeOK, Installed
  <2>5. broadcasting' \in BOOLEAN
    BY <2>2, FlagAssumption
  <2>6. QED
    BY <1>3, <2>3, <2>4, <2>5 DEF SetActive, TypeOK, envVars, targetVars, remoteVars, bindVars, clientVars
<1>4. ASSUME Cleanup PROVE TypeOK'
  <2>1. ForceInactive(clutch) \in Clutch
    BY ForceInactiveType DEF TypeOK
  <2>2. clutch' \in Clutch
    <3> DEFINE c == ForceInactive(clutch)
    <3>1. clutch' = [c EXCEPT !.swallowed = NoVk] /\ c \in Clutch
      BY <1>4, <2>1 DEF Cleanup
    <3> HIDE DEF c
    <3>2. QED BY <3>1 DEF Clutch
  <2>3. seqs' \in [Owner -> 0..MaxSeq] /\ closed' \in Seq(Session) /\ queue' \in Seq(Msg)
    BY <1>4, BoundAssumption DEF Cleanup
  <2>4. hooks' \in Hooks
    BY <1>4 DEF Cleanup, Hooks
  <2>5. QED
    BY <1>4, <2>2, <2>3, <2>4, NoHoldsType DEF Cleanup, TypeOK, envVars
<1>5. QED
  BY <1>1, <1>2, <1>3, <1>4 DEF Engine

LEMMA StutterType == TypeOK /\ UNCHANGED vars => TypeOK'
BY DEF TypeOK, vars, envVars, targetVars, remoteVars, bindVars, hookVars, clientVars

\* The engine never leaves the types of its state: phases, button sets, lease
\* and drain times, binding and queue stay what the handlers expect, whatever
\* the clients, the hooks and the control connections do.
THEOREM TypeCorrect == Spec => []TypeOK
<1>1. TypeOK /\ [Next]_vars => TypeOK'
  BY WorldType, OverlayType, RemoteType, EngineType, StutterType DEF Next
<1>2. QED
  BY InitType, <1>1, PTL DEF Spec

----------------------------------------------------------------------------
(* Ownership: the clutch is engaged exactly while something owns it.       *)

\* OwnersMatchPhase for any clutch c and holds hs.
Owned(c, hs) ==
  /\ c.phase = "Active" <=> c.local \/ AnyHeld(hs)
  /\ \A o \in Held(hs) : hs[o].source = c.source
  /\ c.local => c.swallowed # NoVk

\* hs2 holds nothing that hs does not hold for the same process.
Weaker(hs2, hs) == \A o \in Owner : hs2[o].source = NoPid \/ hs2[o].source = hs[o].source

\* The part of SelectionSound that ties a clutch c to the selected targets.
Chosen(c, sel, pids, elig) ==
  /\ c.phase = "Inactive" => sel = {} /\ c.source = NoPid
  /\ c.phase # "Inactive" => c.source # NoPid /\ c.source \notin sel
  /\ c.phase = "Active" => c.source \in pids /\ sel # {} /\ sel \subseteq elig

LEMMA NothingHeld == Held(NoHolds) = {} /\ ~AnyHeld(NoHolds)
BY DEF Held, AnyHeld, NoHolds, NoHold

LEMMA WeakerHeld ==
  ASSUME NEW hs, NEW hs2, Weaker(hs2, hs)
  PROVE  /\ Held(hs2) \subseteq Held(hs)
         /\ \A o \in Held(hs2) : hs2[o].source = hs[o].source
         /\ AnyHeld(hs2) => AnyHeld(hs)
BY DEF Weaker, Held, AnyHeld

\* Dropping holds and releasing an unowned clutch keeps ownership exact.
LEMMA ReleaseOwned ==
  ASSUME NEW c \in Clutch, NEW hs, NEW hs2, Owned(c, hs), Weaker(hs2, hs)
  PROVE  Owned(ReleaseIfUnowned(c, AnyHeld(hs2)), hs2)
<1>1. AnyHeld(hs2) \in BOOLEAN
  BY DEF AnyHeld
<1>2. ~AnyHeld(hs2) => Held(hs2) = {}
  BY DEF AnyHeld
<1>3. QED
  BY <1>1, <1>2, WeakerHeld DEF Owned, ReleaseIfUnowned, BeginDrain, Clutch

LEMMA CancelOwned ==
  ASSUME NEW c \in Clutch
  PROVE  Owned(CancelBounded(c), NoHolds)
BY NothingHeld DEF Owned, CancelBounded, BeginDrain, Clutch, Phase

LEMMA ForceInactiveOwned ==
  ASSUME NEW c \in Clutch, NEW hs, Owned(c, hs), c.phase # "Active"
  PROVE  Owned(ForceInactive(c), hs)
BY DEF Owned, ForceInactive, Clutch, AnyHeld, Held

LEMMA SampledOwned ==
  ASSUME NEW c \in Clutch, NEW hs, Owned(c, hs), NEW b
  PROVE  Owned(SampledIf(c, b), hs)
BY DEF Owned, SampledIf, Clutch

LEMMA SetButtonOwned ==
  ASSUME NEW c \in Clutch, NEW hs, Owned(c, hs), NEW b, NEW pressed
  PROVE  Owned(SetButton(c, b, pressed), hs)
BY DEF Owned, SetButton, BeginDrain, Clutch

LEMMA KeyUpOwned ==
  ASSUME NEW c \in Clutch, NEW hs, Owned(c, hs)
  PROVE  Owned(OnKeyUp(c, AnyHeld(hs)), hs)
<1>1. ~AnyHeld(hs) => Held(hs) = {}
  BY DEF AnyHeld
<1>2. QED
  BY <1>1 DEF Owned, OnKeyUp, ReleaseIfUnowned, BeginDrain, Clutch

LEMMA KeyDownOwned ==
  ASSUME NEW c \in Clutch, NEW hs, Owned(c, hs),
         NEW vk \in Vk, NEW src \in Pid, NEW has
  PROVE  Owned(OnKeyDown(c, vk, src, has), hs)
<1>1. vk # NoVk
  BY VkAssumption
<1>2. ~AnyHeld(hs) => Held(hs) = {}
  BY DEF AnyHeld
<1>3. QED
  BY <1>1, <1>2 DEF Owned, OnKeyDown, CanActivate, Activate, Clutch

\* A first hold engages the clutch, a further one joins it on its source.
LEMMA BeginOwned ==
  ASSUME NEW c \in Clutch, NEW hs, NEW hs2, Owned(c, hs), NEW o \in Owner,
         NEW src \in Pid, hs \in [Owner -> Hold],
         hs2 = [hs EXCEPT ![o] = [source |-> src, left |-> Lease]],
         c.phase = "Active" => c.source = src
  PROVE  Owned(Activate(c, src), hs2)
<1>1. hs2[o].source = src /\ \A x \in Owner : x # o => hs2[x] = hs[x]
  BY DEF Hold
<1>2. o \in Held(hs2) /\ AnyHeld(hs2)
  BY <1>1, PidAssumption DEF Held, AnyHeld
<1>3. \A x \in Held(hs2) : x = o \/ (x \in Held(hs) /\ hs2[x].source = hs[x].source)
  BY <1>1 DEF Held
<1>4. c.phase # "Active" => Held(hs) = {}
  BY DEF Owned, AnyHeld
<1>5. QED
  BY <1>1, <1>2, <1>3, <1>4 DEF Owned, Activate, Clutch

LEMMA ReleaseChosen ==
  ASSUME NEW c \in Clutch, NEW sel, NEW pids, NEW elig, Chosen(c, sel, pids, elig), NEW remote
  PROVE  Chosen(ReleaseIfUnowned(c, remote), sel, pids, elig)
BY DEF Chosen, ReleaseIfUnowned, BeginDrain, Clutch

\* A canceled clutch keeps its targets for the drain; they may shrink to sel2.
LEMMA CancelChosen ==
  ASSUME NEW c \in Clutch, NEW sel, NEW sel2, NEW pids, NEW elig, NEW pids2, NEW elig2,
         Chosen(c, sel, pids, elig), sel2 \subseteq sel
  PROVE  Chosen(CancelBounded(c), sel2, pids2, elig2)
BY DEF Chosen, CancelBounded, BeginDrain, Clutch, Phase

LEMMA ForceInactiveChosen ==
  ASSUME NEW c \in Clutch, NEW pids, NEW elig
  PROVE  Chosen(ForceInactive(c), {}, pids, elig)
BY DEF Chosen, ForceInactive, Clutch

LEMMA SampledChosen ==
  ASSUME NEW c \in Clutch, NEW sel, NEW pids, NEW elig, Chosen(c, sel, pids, elig), NEW b
  PROVE  Chosen(SampledIf(c, b), sel, pids, elig)
BY DEF Chosen, SampledIf, Clutch

LEMMA SetButtonChosen ==
  ASSUME NEW c \in Clutch, NEW sel, NEW pids, NEW elig, Chosen(c, sel, pids, elig),
         NEW b, NEW pressed
  PROVE  Chosen(SetButton(c, b, pressed), sel, pids, elig)
BY DEF Chosen, SetButton, BeginDrain, Clutch

LEMMA KeyUpChosen ==
  ASSUME NEW c \in Clutch, NEW sel, NEW pids, NEW elig, Chosen(c, sel, pids, elig), NEW remote
  PROVE  Chosen(OnKeyUp(c, remote), sel, pids, elig)
BY DEF Chosen, OnKeyUp, ReleaseIfUnowned, BeginDrain, Clutch

LEMMA TargetsChosen ==
  ASSUME NEW src
  PROVE  /\ MouseTargets(src) \subseteq targets /\ MouseTargets(src) \subseteq eligible
         /\ src \notin MouseTargets(src)
         /\ HasReadyMouseTargets(src) => MouseTargets(src) # {}
BY DEF MouseTargets, HasReadyMouseTargets

LEMMA KeyDownChosen ==
  ASSUME NEW c \in Clutch, NEW sel, Chosen(c, sel, eqPids, eligible),
         NEW vk \in Vk, NEW src \in Pid, src \in eqPids,
         NEW has, has = HasReadyMouseTargets(src), NEW sel2,
         sel2 = IF CanActivate(c, src, has) /\ has THEN MouseTargets(src) ELSE sel
  PROVE  Chosen(OnKeyDown(c, vk, src, has), sel2, eqPids, eligible)
<1>1. src # NoPid
  BY PidAssumption
<1> DEFINE tgts == MouseTargets(src)
<1>2. tgts \subseteq eligible /\ src \notin tgts /\ (has => tgts # {})
  BY TargetsChosen
<1> HIDE DEF tgts
<1>3. sel2 = IF CanActivate(c, src, has) /\ has THEN tgts ELSE sel
  BY DEF tgts
<1>4. has \in BOOLEAN
  BY DEF HasReadyMouseTargets
<1>5. CASE CanActivate(c, src, has)
  BY <1>1, <1>2, <1>3, <1>4, <1>5 DEF Chosen, OnKeyDown, CanActivate, Activate, Clutch
<1>6. CASE ~CanActivate(c, src, has)
  BY <1>3, <1>6 DEF Chosen, OnKeyDown, Clutch
<1>7. QED BY <1>5, <1>6

LEMMA BeginChosen ==
  ASSUME NEW c \in Clutch, NEW sel, NEW sel2, Chosen(c, sel, eqPids, eligible),
         NEW src \in Pid, src \in eqPids, HasReadyMouseTargets(src),
         c.phase = "Active" => c.source = src,
         sel2 = IF c.phase = "Active" THEN sel ELSE MouseTargets(src)
  PROVE  Chosen(Activate(c, src), sel2, eqPids, eligible)
<1>1. src # NoPid
  BY PidAssumption
<1> DEFINE tgts == MouseTargets(src)
<1>2. tgts \subseteq eligible /\ src \notin tgts /\ tgts # {}
  BY TargetsChosen
<1> HIDE DEF tgts
<1>3. sel2 = IF c.phase = "Active" THEN sel ELSE tgts
  BY DEF tgts
<1>4. QED
  BY <1>1, <1>2, <1>3 DEF Chosen, Activate, Clutch
----------------------------------------------------------------------------
(* The inductive invariant of the engagement.                              *)

Engagement ==
  /\ TypeOK
  /\ Owned(clutch, holds)
  /\ Chosen(clutch, selected, eqPids, eligible)
  /\ selected \subseteq targets
  /\ targets \subseteq eqPids

LEMMA EngagementMeaning ==
  ASSUME TypeOK
  PROVE  Engagement <=> OwnersMatchPhase /\ SelectionSound
BY DEF Engagement, Owned, Chosen, OwnersMatchPhase, SelectionSound

LEMMA EngagementInit == Init => Engagement
<1> SUFFICES ASSUME Init PROVE Engagement
  OBVIOUS
<1>1. TypeOK
  BY InitType
<1>2. Owned(clutch, holds)
  BY NothingHeld DEF Init, Owned
<1>3. QED
  BY <1>1, <1>2 DEF Init, Engagement, Chosen

\* A step that leaves ownership and selection alone.
LEMMA EngagementFrame ==
  ASSUME Engagement, TypeOK', UNCHANGED <<clutch, holds, selected, eqPids, eligible, targets>>
  PROVE  Engagement'
BY DEF Engagement, Owned, Chosen, Held, AnyHeld, Owner

LEMMA EngagementWorld == Engagement /\ World => Engagement'
<1> SUFFICES ASSUME Engagement, World PROVE Engagement'
  OBVIOUS
<1>0. TypeOK /\ TypeOK' /\ clutch \in Clutch
  BY WorldType DEF Engagement, TypeOK
<1>1. ASSUME NEW p, FocusChange(p) PROVE Engagement'
  BY <1>0, <1>1, EngagementFrame DEF FocusChange, targetVars, remoteVars
<1>2. ASSUME NEW p, ProxyAck(p) PROVE Engagement'
  BY <1>0, <1>2, EngagementFrame DEF ProxyAck, targetVars, remoteVars
<1>3. ASSUME NEW p, ProcessExit(p) PROVE Engagement'
  BY <1>0, <1>3, EngagementFrame DEF ProcessExit, targetVars, remoteVars
<1>4. ASSUME NEW b, NEW pressed, MouseButton(b, pressed) PROVE Engagement'
  <2>1. UNCHANGED <<targetVars, holds>>
    BY <1>4 DEF MouseButton, remoteVars
  <2>2. clutch' = clutch \/ clutch' = SetButton(clutch, b, pressed)
    BY <1>4 DEF MouseButton
  <2>3. Owned(clutch', holds)
    BY <1>0, <2>2, SetButtonOwned DEF Engagement
  <2>4. Chosen(clutch', selected, eqPids, eligible)
    BY <1>0, <2>2, SetButtonChosen DEF Engagement
  <2>5. QED
    BY <1>0, <2>1, <2>3, <2>4 DEF Engagement, Owned, Chosen, targetVars, Held, AnyHeld
<1>5. ASSUME NEW vk \in Vk, KeyDown(vk) PROVE Engagement'
  <2> DEFINE takes == FreshPress(vk) /\ foreground \in eqPids
             has == HasReadyMouseTargets(foreground)
  <2>1. UNCHANGED <<eqPids, targets, eligible, holds>>
    BY <1>5 DEF KeyDown, remoteVars
  <2>2. CASE ~takes
    <3>1. UNCHANGED <<clutch, selected>>
      BY <1>5, <2>2 DEF KeyDown
    <3>2. QED BY <1>0, <2>1, <3>1, EngagementFrame
  <2>3. CASE takes
    <3>1. /\ clutch' = OnKeyDown(clutch, vk, foreground, has)
          /\ selected' = IF CanActivate(clutch, foreground, has) /\ has
                         THEN MouseTargets(foreground) ELSE selected
      BY <1>5, <2>3 DEF KeyDown
    <3>2. foreground \in Pid /\ foreground \in eqPids
      BY <1>0, <2>3 DEF TypeOK
    <3>3. Owned(clutch', holds)
      BY <1>0, <3>1, <3>2, KeyDownOwned DEF Engagement
    <3>4. Chosen(clutch', selected', eqPids, eligible)
      BY <1>0, <3>1, <3>2, KeyDownChosen DEF Engagement
    <3>5. selected' \subseteq targets
      BY <3>1, TargetsChosen DEF Engagement
    <3>6. QED
      BY <1>0, <2>1, <3>3, <3>4, <3>5 DEF Engagement, Owned, Chosen, Held, AnyHeld
  <2>4. QED BY <2>2, <2>3
<1>6. ASSUME NEW vk, KeyUp(vk) PROVE Engagement'
  <2>1. UNCHANGED <<targetVars, holds>>
    BY <1>6 DEF KeyUp, remoteVars
  <2>2. clutch' = clutch \/ clutch' = OnKeyUp(clutch, AnyHeld(holds))
    BY <1>6 DEF KeyUp
  <2>3. Owned(clutch', holds)
    BY <1>0, <2>2, KeyUpOwned DEF Engagement
  <2>4. Chosen(clutch', selected, eqPids, eligible)
    BY <1>0, <2>2, KeyUpChosen DEF Engagement
  <2>5. QED
    BY <1>0, <2>1, <2>3, <2>4 DEF Engagement, Owned, Chosen, targetVars, Held, AnyHeld
<1>7. ASSUME Elapse PROVE Engagement'
  <2>1. UNCHANGED targetVars
    BY <1>7 DEF Elapse
  <2>2. /\ clutch'.phase = clutch.phase /\ clutch'.local = clutch.local
        /\ clutch'.swallowed = clutch.swallowed /\ clutch'.source = clutch.source
    BY <1>0, <1>7 DEF Elapse, Clutch
  <2>3. \A o \in Owner : holds'[o].source = holds[o].source
    BY <1>7 DEF Elapse
  <2>4. Held(holds') = Held(holds) /\ AnyHeld(holds') = AnyHeld(holds)
    BY <2>3 DEF Held, AnyHeld
  <2>5. \A o \in Held(holds) : o \in Owner
    BY DEF Held
  <2>6. Owned(clutch', holds')
    BY <2>2, <2>3, <2>4, <2>5 DEF Engagement, Owned
  <2>7. Chosen(clutch', selected', eqPids', eligible')
    BY <2>1, <2>2 DEF Engagement, Chosen, targetVars
  <2>8. QED
    BY <1>0, <2>1, <2>6, <2>7 DEF Engagement, targetVars
<1>8. QED
  BY <1>1, <1>2, <1>3, <1>4, <1>5, <1>6, <1>7 DEF World

\* cancel_all_clutch_owners() while pids, eligibility and the selection change
\* from the current ones to new ones.
LEMMA CancelAllEngagement ==
  ASSUME Engagement, NEW cond \in BOOLEAN, CancelAllIf(cond),
         NEW sel2, NEW pids2, NEW elig2, sel2 \subseteq selected,
         ~cond => Chosen(clutch, sel2, pids2, elig2)
  PROVE  Owned(clutch', holds') /\ Chosen(clutch', sel2, pids2, elig2)
<1>0. clutch \in Clutch
  BY DEF Engagement, TypeOK
<1>1. CASE cond
  <2>1. clutch' = CancelBounded(clutch) /\ holds' = NoHolds
    BY <1>1 DEF CancelAllIf
  <2>2. Chosen(CancelBounded(clutch), sel2, pids2, elig2)
    BY <1>0, CancelChosen DEF Engagement
  <2>3. QED
    BY <1>0, <2>1, <2>2, CancelOwned
<1>2. CASE ~cond
  BY <1>2 DEF CancelAllIf, Engagement
<1>3. QED BY <1>1, <1>2

LEMMA EngagementOverlay == Engagement /\ Overlay => Engagement'
<1> SUFFICES ASSUME Engagement, Overlay PROVE Engagement'
  OBVIOUS
<1>0. TypeOK /\ TypeOK' /\ clutch \in Clutch
  BY OverlayType DEF Engagement, TypeOK
<1>1. ASSUME NEW pids \in PidReports, NEW active, NEW created \in SUBSET (pids \ targets),
             UpdateTargets(pids, active, created)
      PROVE  Engagement'
  <2> DEFINE gone == (clutch.source # NoPid /\ clutch.source \notin pids) \/ selected \ pids # {}
             sel2 == selected \cap pids
  <2>1. /\ CancelAllIf(gone) /\ eqPids' = pids /\ selected' = sel2
        /\ targets' = (targets \cap pids) \cup created /\ eligible' = eligible
    BY <1>1 DEF UpdateTargets
  <2>2. ~gone => Chosen(clutch, sel2, pids, eligible)
    BY DEF Engagement, Chosen
  <2>3. Owned(clutch', holds') /\ Chosen(clutch', sel2, pids, eligible)
    BY <2>1, <2>2, CancelAllEngagement
  <2>4. selected' \subseteq targets' /\ targets' \subseteq eqPids'
    BY <2>1 DEF Engagement
  <2>5. QED
    BY <1>0, <2>1, <2>3, <2>4 DEF Engagement
<1>2. ASSUME NEW pids, UpdateMouseEligiblePids(pids) PROVE Engagement'
  <2> DEFINE gone == selected \ pids # {}
  <2>1. /\ CancelAllIf(gone) /\ eligible' = pids
        /\ UNCHANGED <<eqPids, targets, selected>>
    BY <1>2 DEF UpdateMouseEligiblePids
  <2>2. ~gone => Chosen(clutch, selected, eqPids, pids)
    BY DEF Engagement, Chosen
  <2>3. Owned(clutch', holds') /\ Chosen(clutch', selected, eqPids, pids)
    BY <2>1, <2>2, CancelAllEngagement
  <2>4. QED
    BY <1>0, <2>1, <2>3 DEF Engagement
<1>3. ASSUME NEW p, SetActivePid(p) PROVE Engagement'
  <2> DEFINE gone == clutch.source # NoPid /\ clutch.source # p
  <2>1. CancelAllIf(gone) /\ UNCHANGED <<eligible, eqPids, targets, selected>>
    BY <1>3 DEF SetActivePid
  <2>2. Owned(clutch', holds') /\ Chosen(clutch', selected, eqPids, eligible)
    BY <2>1, CancelAllEngagement DEF Engagement
  <2>3. QED
    BY <1>0, <2>1, <2>2 DEF Engagement
<1>4. QED
  BY <1>1, <1>2, <1>3 DEF Overlay

LEMMA BeginEngagement ==
  ASSUME Engagement, NEW o \in Owner, BeginHold(o)
  PROVE  /\ Owned(clutch', holds') /\ Chosen(clutch', selected', eqPids, eligible)
         /\ selected' \subseteq targets
<1> DEFINE src  == foreground
           live == holds[o].source # NoPid
           hs   == [holds EXCEPT ![o] = [source |-> IF live THEN @.source ELSE src,
                                         left |-> Lease]]
           resuming == clutch.phase = "Active" /\ clutch.source = src
           sampled  == [clutch EXCEPT !.buttons = physButtons]
           engages  == CanActivate(sampled, src, TRUE)
<1>0. TypeOK /\ clutch \in Clutch /\ holds \in [Owner -> Hold]
  BY DEF Engagement, TypeOK
<1>2. CASE live
  <2>1. holds' = hs /\ UNCHANGED <<clutch, selected>>
    BY <1>2 DEF BeginHold
  <2>2. \A x \in Owner : hs[x].source = holds[x].source
    BY <1>0, <1>2 DEF Hold
  <2> HIDE DEF hs
  <2>3. Held(hs) = Held(holds) /\ (AnyHeld(hs) <=> AnyHeld(holds))
    BY <2>2 DEF Held, AnyHeld
  <2>4. Owned(clutch, hs)
    <3>1. \A x \in Held(holds) : x \in Owner
      BY DEF Held
    <3>2. QED BY <2>2, <2>3, <3>1 DEF Engagement, Owned
  <2>5. QED BY <2>1, <2>4 DEF Engagement
<1>3. CASE ~live /\ ~ClutchAvailable
  <2>1. UNCHANGED <<clutch, selected, holds>>
    BY <1>3 DEF BeginHold
  <2>2. QED BY <2>1 DEF Engagement
<1>4. CASE ~live /\ ClutchAvailable
  <2>1. src \in Pid /\ src \in eqPids /\ HasReadyMouseTargets(src)
    BY <1>0, <1>4 DEF ClutchAvailable, TypeOK
  <2>2. PICK r \in Reconcile(hooks, broadcasting, binding, pending, clutch, hs) :
          LET c == SampledIf(clutch, Installed(hooks, r) \/ (r.ok /\ ~resuming))
              succeeds == r.ok /\ (resuming \/ engages)
          IN  \/ /\ succeeds
                 /\ clutch' = Activate(c, src)
                 /\ selected' = IF resuming THEN selected ELSE MouseTargets(src)
                 /\ holds' = hs
              \/ /\ ~succeeds
                 /\ \E r2 \in Reconcile(r, broadcasting, binding, pending, c, holds) :
                      clutch' = SampledIf(c, Installed(r, r2))
                 /\ holds' = holds /\ selected' = selected
    BY <1>4 DEF BeginHold
  <2> DEFINE c == SampledIf(clutch, Installed(hooks, r) \/ (r.ok /\ ~resuming))
             succeeds == r.ok /\ (resuming \/ engages)
  <2>3. /\ c \in Clutch /\ Owned(c, holds) /\ Chosen(c, selected, eqPids, eligible)
    BY <1>0, SampledType, SampledOwned, SampledChosen DEF Engagement
  <2>4. c.phase = clutch.phase /\ c.source = clutch.source
    BY <1>0 DEF SampledIf, Clutch
  <2>5. sampled.phase = clutch.phase /\ sampled.source = clutch.source
    BY <1>0 DEF Clutch
  <2>6. hs = [holds EXCEPT ![o] = [source |-> src, left |-> Lease]]
    BY <1>0, <1>4
  <2> HIDE DEF hs, c
  <2>7. CASE succeeds
    <3>1. /\ clutch' = Activate(c, src)
          /\ selected' = IF resuming THEN selected ELSE MouseTargets(src)
          /\ holds' = hs
      BY <2>2, <2>7 DEF c
    <3>2. c.phase = "Active" => c.source = src
      BY <2>4, <2>5, <2>7 DEF CanActivate
    <3>3. Owned(clutch', holds')
      BY <1>0, <2>1, <2>3, <2>6, <3>1, <3>2, BeginOwned
    <3>4. Chosen(clutch', selected', eqPids, eligible)
      BY <2>1, <2>3, <2>4, <3>1, <3>2, BeginChosen
    <3>5. selected' \subseteq targets
      BY <3>1, TargetsChosen DEF Engagement
    <3>6. QED BY <3>3, <3>4, <3>5
  <2>8. CASE ~succeeds
    <3>1. holds' = holds /\ selected' = selected
      BY <2>2, <2>8 DEF c
    <3>2. PICK r2 \in Reconcile(r, broadcasting, binding, pending, c, holds) :
             clutch' = SampledIf(c, Installed(r, r2))
      BY <2>2, <2>8 DEF c
    <3>3. QED BY <2>3, <3>1, <3>2, SampledOwned, SampledChosen DEF Engagement
  <2>9. QED BY <2>7, <2>8
<1>5. QED BY <1>2, <1>3, <1>4

\* A renewal of a live hold always finds the clutch engaged on its source, so
\* the refusing branch drops nothing that owns the clutch.
LEMMA RenewEngagement ==
  ASSUME Engagement, NEW o \in Owner, RenewHold(o)
  PROVE  /\ Owned(clutch', holds') /\ Chosen(clutch', selected', eqPids, eligible)
         /\ selected' \subseteq targets
<1>0. holds \in [Owner -> Hold]
  BY DEF Engagement, TypeOK
<1>1. UNCHANGED <<clutch, selected>>
  BY DEF RenewHold
<1>2. holds[o].source # NoPid => clutch.phase = "Active" /\ clutch.source = holds[o].source
  BY DEF Engagement, Owned, AnyHeld, Held
<1>3. \A x \in Owner : holds'[x].source = holds[x].source
  BY <1>0, <1>2 DEF RenewHold, NoHold, Hold
<1>4. Held(holds') = Held(holds) /\ (AnyHeld(holds') <=> AnyHeld(holds))
  BY <1>3 DEF Held, AnyHeld
<1>5. Owned(clutch', holds')
  <2>1. \A x \in Held(holds) : x \in Owner
    BY DEF Held
  <2>2. QED BY <1>1, <1>3, <1>4, <2>1 DEF Engagement, Owned
<1>6. QED BY <1>1, <1>5 DEF Engagement

LEMMA DropEngagement ==
  ASSUME Engagement, NEW hs, Weaker(hs, holds), DropHolds(hs)
  PROVE  /\ Owned(clutch', holds') /\ Chosen(clutch', selected', eqPids, eligible)
         /\ selected' \subseteq targets
<1> DEFINE next == ReleaseIfUnowned(clutch, AnyHeld(hs))
<1>0. clutch \in Clutch
  BY DEF Engagement, TypeOK
<1>1. holds' = hs /\ selected' = selected
  BY DEF DropHolds
<1>2. CASE hs = holds
  <2>1. clutch' = clutch
    BY <1>2 DEF DropHolds
  <2>2. QED BY <1>1, <1>2, <2>1 DEF Engagement
<1>3. CASE hs # holds
  <2>1. PICK r : clutch' = SampledIf(next, Installed(hooks, r))
    BY <1>3 DEF DropHolds
  <2>2. next \in Clutch
    BY <1>0, ReleaseType DEF AnyHeld
  <2>3. Owned(next, hs)
    BY <1>0, ReleaseOwned DEF Engagement
  <2>4. Chosen(next, selected, eqPids, eligible)
    BY <1>0, ReleaseChosen DEF Engagement
  <2> HIDE DEF next
  <2>5. QED
    BY <1>1, <2>1, <2>2, <2>3, <2>4, SampledOwned, SampledChosen DEF Engagement
<1>4. QED BY <1>2, <1>3

LEMMA EngagementRemote == Engagement /\ Remote => Engagement'
<1> SUFFICES ASSUME Engagement, Remote PROVE Engagement'
  OBVIOUS
<1>0. TypeOK /\ TypeOK' /\ holds \in [Owner -> Hold]
  BY RemoteType DEF Engagement, TypeOK
<1>1. ASSUME NEW s, NEW h, NEW op, ClientSend(s, h, op) PROVE Engagement'
  BY <1>0, <1>1, EngagementFrame DEF ClientSend, targetVars, remoteVars
<1>2. ASSUME NEW s, ConnectionLost(s) PROVE Engagement'
  BY <1>0, <1>2, EngagementFrame DEF ConnectionLost, targetVars, remoteVars
<1>3. ASSUME DrainCommand PROVE Engagement'
  <2> DEFINE m == Head(queue)
             o == <<m.session, m.hold>>
  <2>1. m \in Msg
    BY <1>0, <1>3 DEF TypeOK, DrainCommand
  <2> HIDE DEF m
  <2>2. UNCHANGED <<eqPids, targets, eligible>>
    BY <1>3 DEF DrainCommand
  <2>3. /\ Owned(clutch', holds') /\ Chosen(clutch', selected', eqPids, eligible)
        /\ selected' \subseteq targets
    <3>1. CASE m.op # "Close"
      <4>1. UpdateRemoteMouseClutchHold(m)
        BY <1>3, <3>1 DEF DrainCommand, m
      <4>2. o \in Owner
        BY <2>1, <3>1, MsgFields
      <4>3. UNCHANGED <<clutch, selected, holds>> \/ BeginHold(o) \/ RenewHold(o) \/ EndHold(o)
        BY <4>1 DEF UpdateRemoteMouseClutchHold
      <4>4. Weaker([holds EXCEPT ![o] = NoHold], holds)
        BY <1>0 DEF Weaker, NoHold
      <4>5. CASE UNCHANGED <<clutch, selected, holds>>
        BY <4>5 DEF Engagement
      <4> HIDE DEF o
      <4>6. QED
        BY <4>2, <4>3, <4>4, <4>5, BeginEngagement, RenewEngagement, DropEngagement DEF EndHold
    <3>2. CASE m.op = "Close"
      <4> DEFINE hs == [x \in Owner |-> IF x[1] = m.session THEN NoHold ELSE holds[x]]
      <4>1. DropHolds(hs)
        BY <1>3, <3>2 DEF DrainCommand, EndRemoteMouseClutchSession, m
      <4>2. Weaker(hs, holds)
        BY DEF Weaker, NoHold
      <4> HIDE DEF hs
      <4>3. QED BY <4>1, <4>2, DropEngagement
    <3>3. QED BY <3>1, <3>2
  <2>4. QED
    BY <1>0, <2>2, <2>3 DEF Engagement
<1>4. QED
  BY <1>1, <1>2, <1>3 DEF Remote

LEMMA ApplyPendingEngagement ==
  ASSUME TypeOK, NEW c \in Clutch, NEW sel, NEW hs, NEW p, NEW again,
         Owned(c, hs), Chosen(c, sel, eqPids, eligible), ApplyPending(c, sel, hs, p, again)
  PROVE  /\ Owned(clutch', hs) /\ Chosen(clutch', selected', eqPids, eligible)
         /\ selected' = sel \/ selected' = {}
<1> DEFINE applies == CanApplyPending(c, p)
<1>1. PICK r1, b :
        /\ ~r1.ok => applies
        /\ selected' = IF r1.ok THEN sel ELSE {}
        /\ clutch' = SampledIf(IF r1.ok THEN c ELSE ForceInactive(c), b)
  <2> DEFINE b1 == IF applies THEN p ELSE binding
             wait == IF applies THEN NoPending ELSE p
  <2>1. PICK r1 \in IF applies THEN Reconcile(hooks, broadcasting, b1, wait, c, hs) ELSE KeepHooks :
          \E r2, r3 :
             /\ selected' = IF r1.ok THEN sel ELSE {}
             /\ clutch' = SampledIf(IF r1.ok THEN c ELSE ForceInactive(c),
                                    \/ Installed(hooks, r1)
                                    \/ Installed(r1, r2)
                                    \/ Installed(r2, r3))
    BY DEF ApplyPending
  <2>2. ~applies => r1.ok
    BY <2>1 DEF KeepHooks
  <2>3. QED BY <2>1, <2>2
<1> DEFINE d == IF r1.ok THEN c ELSE ForceInactive(c)
<1>2. d \in Clutch /\ Owned(d, hs) /\ Chosen(d, selected', eqPids, eligible)
  <2>1. CASE r1.ok
    BY <1>1, <2>1
  <2>2. CASE ~r1.ok
    <3>1. c.phase = "Inactive"
      BY <1>1, <2>2 DEF CanApplyPending
    <3>2. ForceInactive(c) \in Clutch /\ Owned(ForceInactive(c), hs)
      BY <3>1, ForceInactiveType, ForceInactiveOwned
    <3>3. QED BY <1>1, <2>2, <3>2, ForceInactiveChosen
  <2>3. QED BY <2>1, <2>2
<1> HIDE DEF d
<1>3. clutch' = SampledIf(d, b)
  BY <1>1 DEF d
<1>4. QED
  BY <1>1, <1>2, <1>3, SampledOwned, SampledChosen

LEMMA EngagementTick == Engagement /\ Tick => Engagement'
<1> SUFFICES ASSUME Engagement, Tick PROVE Engagement'
  OBVIOUS
<1> DEFINE live   == LiveHolds
           c1     == IF live = holds THEN clutch ELSE ReleaseIfUnowned(clutch, AnyHeld(live))
           broken == c1.phase # "Inactive" /\ ~ClutchStillValid(c1)
           c2     == IF broken THEN CancelBounded(c1) ELSE c1
           due    == DrainIsDue(c2)
           hs     == IF broken THEN NoHolds ELSE live
           sel    == IF due THEN {} ELSE selected
           c3     == IF due THEN ForceInactive(c2) ELSE c2
<1>0. TypeOK /\ TypeOK' /\ clutch \in Clutch
  BY EngineType DEF Engagement, Engine, TypeOK
<1>1. /\ ApplyPending(c3, sel, hs, pending, TRUE)
      /\ holds' = hs /\ UNCHANGED <<eqPids, targets, eligible>>
  BY DEF Tick
<1>2. Weaker(live, holds)
  BY DEF Weaker, LiveHolds, NoHold
<1> HIDE DEF live
<1>3. c1 \in Clutch /\ Owned(c1, live) /\ Chosen(c1, selected, eqPids, eligible)
  <2>1. CASE live = holds
    BY <1>0, <2>1 DEF Engagement
  <2>2. CASE live # holds
    BY <1>0, <1>2, <2>2, ReleaseType, ReleaseOwned, ReleaseChosen DEF Engagement, AnyHeld
  <2>3. QED BY <2>1, <2>2
<1> HIDE DEF c1
<1>4. c2 \in Clutch /\ Owned(c2, hs) /\ Chosen(c2, selected, eqPids, eligible)
  <2>1. CASE broken
    BY <1>3, <2>1, CancelType, CancelOwned, CancelChosen
  <2>2. CASE ~broken
    BY <1>3, <2>2
  <2>3. QED BY <2>1, <2>2
<1> HIDE DEF c2, hs, broken
<1>5. c3 \in Clutch /\ Owned(c3, hs) /\ Chosen(c3, sel, eqPids, eligible)
  <2>1. CASE due
    BY <1>4, <2>1, ForceInactiveType, ForceInactiveOwned, ForceInactiveChosen DEF DrainIsDue
  <2>2. CASE ~due
    BY <1>4, <2>2
  <2>3. QED BY <2>1, <2>2
<1>6. sel \subseteq targets
  BY DEF Engagement
<1> HIDE DEF c3, sel
<1>7. /\ Owned(clutch', hs) /\ Chosen(clutch', selected', eqPids, eligible)
      /\ selected' = sel \/ selected' = {}
  BY <1>0, <1>1, <1>5, ApplyPendingEngagement
<1>8. QED
  BY <1>0, <1>1, <1>6, <1>7 DEF Engagement

LEMMA EngagementEngine == Engagement /\ Engine => Engagement'
<1> SUFFICES ASSUME Engagement, Engine PROVE Engagement'
  OBVIOUS
<1>0. TypeOK /\ TypeOK' /\ clutch \in Clutch
  BY EngineType DEF Engagement, TypeOK
<1>1. ASSUME NEW b, OnSettingsChanged(b) PROVE Engagement'
  <2> DEFINE c == CancelBounded(clutch)
  <2>1. /\ ApplyPending(c, selected, NoHolds, b, FALSE)
        /\ holds' = NoHolds /\ UNCHANGED <<eqPids, targets, eligible>>
    BY <1>1 DEF OnSettingsChanged
  <2>2. c \in Clutch /\ Owned(c, NoHolds) /\ Chosen(c, selected, eqPids, eligible)
    BY <1>0, CancelType, CancelOwned, CancelChosen DEF Engagement
  <2> HIDE DEF c
  <2>3. /\ Owned(clutch', NoHolds) /\ Chosen(clutch', selected', eqPids, eligible)
        /\ selected' = selected \/ selected' = {}
    BY <1>0, <2>1, <2>2, ApplyPendingEngagement
  <2>4. QED
    BY <1>0, <2>1, <2>3 DEF Engagement
<1>2. ASSUME NEW on, SetActive(on) PROVE Engagement'
  <2>1. PICK b : clutch' = SampledIf(clutch, b)
    BY <1>2 DEF SetActive
  <2>2. UNCHANGED <<targetVars, holds>>
    BY <1>2 DEF SetActive, remoteVars
  <2>3. Owned(clutch', holds) /\ Chosen(clutch', selected, eqPids, eligible)
    BY <1>0, <2>1, SampledOwned, SampledChosen DEF Engagement
  <2>4. QED
    BY <1>0, <2>2, <2>3 DEF Engagement, targetVars
<1>3. ASSUME Cleanup PROVE Engagement'
  <2>1. /\ clutch'.phase = "Inactive" /\ clutch'.source = NoPid /\ clutch'.local = FALSE
    BY <1>0, <1>3 DEF Cleanup, ForceInactive, Clutch
  <2>2. /\ holds' = NoHolds /\ selected' = {} /\ targets' = {} /\ eqPids' = {}
    BY <1>3 DEF Cleanup
  <2>3. Owned(clutch', holds')
    BY <2>1, <2>2, NothingHeld DEF Owned
  <2>4. Chosen(clutch', selected', eqPids', eligible')
    BY <2>1, <2>2 DEF Chosen
  <2>5. QED
    BY <1>0, <2>2, <2>3, <2>4 DEF Engagement
<1>4. QED
  BY <1>1, <1>2, <1>3, EngagementTick DEF Engine

LEMMA EngagementStutter == Engagement /\ UNCHANGED vars => Engagement'
<1> SUFFICES ASSUME Engagement, UNCHANGED vars PROVE Engagement'
  OBVIOUS
<1>1. TypeOK'
  BY StutterType DEF Engagement
<1>2. QED
  BY <1>1, EngagementFrame DEF vars, targetVars, remoteVars

LEMMA EngagementInvariant == Spec => []Engagement
<1>1. Engagement /\ [Next]_vars => Engagement'
  BY EngagementWorld, EngagementOverlay, EngagementRemote, EngagementEngine,
     EngagementStutter DEF Next
<1>2. QED
  BY EngagementInit, <1>1, PTL DEF Spec

\* For any number of connections, holds and clients, and with hooks that fail:
\* the clutch is engaged exactly while the local key or a remote hold owns it.
THEOREM OwnersAlwaysMatch == Spec => []OwnersMatchPhase
<1>1. Engagement => OwnersMatchPhase
  BY EngagementMeaning DEF Engagement
<1>2. QED
  BY EngagementInvariant, <1>1, PTL

\* Mouse input is never forwarded to the clutch's own source, to a process
\* without a mapping, or anywhere once the clutch is at rest.
THEOREM SelectionAlwaysSound == Spec => []SelectionSound
<1>1. Engagement => SelectionSound
  BY EngagementMeaning DEF Engagement
<1>2. QED
  BY EngagementInvariant, <1>1, PTL

(***************************************************************************)
(* Hooks, key strokes and hand-overs, for every value of the constants:    *)
(* key strokes are swallowed whole and the hooks cover what the clutch     *)
(* relies on, even when hooks cannot be installed or removed; what is      *)
(* published is the clutch's state; and no step of a hand-over engages it  *)
(* with a button down or extends a drain.  The argument for the keys: the  *)
(* engine remembers that the bound key is down, across every rebinding, so *)
(* that a repeat is never taken for a press.                               *)
(***************************************************************************)

\* What the engine remembers about keys and hooks while it runs.
KeysRemembered ==
  /\ running => eaten \subseteq heldKeys
  /\ running /\ clutch.swallowed # NoVk => keyIsDown
  /\ running /\ pending = NoPending /\ binding \in heldKeys => keyIsDown
  /\ ~running => ~hooks.ms

EngineInv == TypeOK /\ HooksSound /\ KeysRemembered /\ StatusPublished

----------------------------------------------------------------------------
(* What the methods of struct MouseClutch leave of its state.              *)

\* HandoverSteps, of a step from clutch c to clutch d.
Handed(c, d) ==
  /\ c.phase # "Active" /\ d.phase = "Active" => physButtons = {}
  /\ c.phase = "Draining" /\ d.phase = "Draining" => d.left <= c.left

\* What becomes of a clutch c that nobody presses a key or a button of.
Follows(c, d) ==
  /\ d.swallowed = c.swallowed /\ d.buttons = c.buttons
  /\ d.phase = "Active" => c.phase = "Active"
  /\ c.phase = "Inactive" => d.phase = "Inactive"
  /\ c.phase = "Draining" =>
       d.phase = "Inactive" \/ (d.phase = "Draining" /\ d.left <= c.left)

LEMMA FollowsItself ==
  ASSUME NEW c \in Clutch
  PROVE  Follows(c, c)
BY DEF Follows, Clutch

LEMMA FollowsChain ==
  ASSUME NEW c \in Clutch, NEW d \in Clutch, NEW e \in Clutch, Follows(c, d), Follows(d, e)
  PROVE  Follows(c, e)
<1>1. c.left \in Nat /\ d.left \in Nat /\ e.left \in Nat
  BY TimeAssumption DEF Clutch
<1> QED BY <1>1 DEF Follows, Clutch, Phase

LEMMA FollowsHanded ==
  ASSUME NEW c \in Clutch, NEW d \in Clutch, Follows(c, d)
  PROVE  Handed(c, d)
BY DEF Follows, Handed

LEMMA ReleaseFollows ==
  ASSUME NEW c \in Clutch, NEW remote \in BOOLEAN
  PROVE  Follows(c, ReleaseIfUnowned(c, remote))
BY DEF Follows, ReleaseIfUnowned, BeginDrain, Clutch, Phase

LEMMA CancelFollows ==
  ASSUME NEW c \in Clutch
  PROVE  Follows(c, CancelBounded(c))
BY DEF Follows, CancelBounded, BeginDrain, Clutch, Phase

LEMMA ForceInactiveFollows ==
  ASSUME NEW c \in Clutch
  PROVE  Follows(c, ForceInactive(c))
BY TimeAssumption DEF Follows, ForceInactive, Clutch, Phase

\* Sampling the buttons changes nothing else.
LEMMA SampledKeeps ==
  ASSUME NEW c \in Clutch, NEW x \in BOOLEAN
  PROVE  /\ SampledIf(c, x).phase = c.phase /\ SampledIf(c, x).swallowed = c.swallowed
         /\ SampledIf(c, x).left = c.left
         /\ Status(SampledIf(c, x)) = Status(c)
         /\ SampledIf(c, x).buttons = IF x THEN physButtons ELSE c.buttons
BY DEF SampledIf, Status, Clutch

LEMMA SampledHanded ==
  ASSUME NEW c \in Clutch, NEW d \in Clutch, NEW x \in BOOLEAN, Handed(c, d)
  PROVE  Handed(c, SampledIf(d, x))
BY SampledKeeps DEF Handed

----------------------------------------------------------------------------
(* What the hooks cover.                                                   *)

\* HooksCoverClutch but for the buttons: hooks h, broadcasting on, binding b.
Covers(h, on, b, c) ==
  /\ c.phase # "Inactive" => h.ms
  /\ c.swallowed # NoVk => h.kb /\ c.swallowed = b
  /\ b # NoVk => h.kb /\ h.ms
  /\ on => h.kb

LEMMA CoverMeaning ==
  HooksCoverClutch <=> /\ Covers(hooks, broadcasting, binding, clutch)
                       /\ hooks.ms => clutch.buttons = physButtons
BY DEF HooksCoverClutch, Covers

LEMMA CoversFollows ==
  ASSUME NEW h, NEW on, NEW b, NEW c, NEW d, Covers(h, on, b, c), Follows(c, d)
  PROVE  Covers(h, on, b, d)
BY DEF Covers, Follows

LEMMA CoversSampled ==
  ASSUME NEW h, NEW on, NEW b, NEW c \in Clutch, NEW x \in BOOLEAN, Covers(h, on, b, c)
  PROVE  Covers(h, on, b, SampledIf(c, x))
BY SampledKeeps DEF Covers

\* A hook that is needed and installed stays; a success installs what is needed.
LEMMA ReconcileKeeps ==
  ASSUME NEW h, NEW on, NEW b, NEW p, NEW c, NEW hs, h.kb \in BOOLEAN, h.ms \in BOOLEAN,
         NEW r \in Reconcile(h, on, b, p, c, hs)
  PROVE  /\ r.kb \in BOOLEAN /\ r.ms \in BOOLEAN /\ r.ok \in BOOLEAN
         /\ KeyboardHookNeeded(on, b, p, c) /\ h.kb => r.kb
         /\ MouseHookNeeded(b, p, c, hs) /\ h.ms => r.ms
         /\ r.ok /\ KeyboardHookNeeded(on, b, p, c) => r.kb
         /\ r.ok /\ MouseHookNeeded(b, p, c, hs) => r.ms
<1> DEFINE kbNeed == KeyboardHookNeeded(on, b, p, c)
           msNeed == MouseHookNeeded(b, p, c, hs)
<1>1. r \in HookResult /\ r \in ReconcileHooks(h, kbNeed, msNeed)
  BY DEF Reconcile, ReconcileHooks
<1> HIDE DEF kbNeed, msNeed
<1>2. r.kb \in BOOLEAN /\ r.ms \in BOOLEAN /\ r.ok \in BOOLEAN
  BY <1>1 DEF HookResult
<1>3. \/ kbNeed /\ ~h.kb /\ r.kb = h.kb /\ r.ms = h.ms /\ ~r.ok
      \/ msNeed /\ ~h.ms /\ r.kb = (h.kb \/ kbNeed) /\ ~r.ms /\ ~r.ok
      \/ (kbNeed => r.kb) /\ (msNeed => r.ms)
  BY <1>1 DEF ReconcileHooks
<1>4. /\ kbNeed /\ h.kb => r.kb
      /\ msNeed /\ h.ms => r.ms
      /\ r.ok /\ kbNeed => r.kb
      /\ r.ok /\ msNeed => r.ms
  BY <1>2, <1>3
<1> QED BY <1>2, <1>4 DEF kbNeed, msNeed

LEMMA CoversReconcile ==
  ASSUME NEW h, NEW on, NEW b, NEW p, NEW c, NEW hs, h.kb \in BOOLEAN, h.ms \in BOOLEAN,
         NEW r \in Reconcile(h, on, b, p, c, hs), Covers(h, on, b, c)
  PROVE  Covers(r, on, b, c)
<1>1. /\ KeyboardHookNeeded(on, b, p, c) /\ h.kb => r.kb
      /\ MouseHookNeeded(b, p, c, hs) /\ h.ms => r.ms
  BY ReconcileKeeps
<1> QED BY <1>1 DEF Covers, KeyboardHookNeeded, MouseHookNeeded

LEMMA HooksOfCovers ==
  ASSUME NEW r, NEW on, NEW b, NEW c
  PROVE  /\ Covers(HooksOf(r), on, b, c) <=> Covers(r, on, b, c)
         /\ HooksOf(r).ms = r.ms /\ HooksOf(r).kb = r.kb
BY DEF Covers, HooksOf

----------------------------------------------------------------------------
(* Each handler.                                                           *)

LEMMA InitEngine == Init => EngineInv
<1> SUFFICES ASSUME Init PROVE EngineInv
  OBVIOUS
<1>1. KeyStrokesWhole
  BY VkAssumption DEF Init, KeyStrokesWhole
<1>2. HooksCoverClutch
  BY DEF Init, HooksCoverClutch
<1>3. KeysRemembered
  BY DEF Init, KeysRemembered
<1>4. StatusPublished
  BY DEF Init, StatusPublished, Status
<1> QED BY InitType, <1>1, <1>2, <1>3, <1>4 DEF EngineInv, HooksSound

\* What every handler must show beside the types.
Kept == /\ (HooksSound /\ KeysRemembered /\ StatusPublished)'
        /\ Handed(clutch, clutch')

\* The keyboard history is kept by every step that neither moves keys nor bindings.
LEMMA KeysKept ==
  ASSUME EngineInv, UNCHANGED <<running, heldKeys, eaten, keyIsDown, pending, binding>>,
         clutch'.swallowed = clutch.swallowed, running
  PROVE  KeyStrokesWhole' /\ KeysRemembered'
BY DEF EngineInv, HooksSound, KeyStrokesWhole, KeysRemembered

LEMMA Parts ==
  ASSUME EngineInv
  PROVE  /\ TypeOK /\ clutch \in Clutch
         /\ hooks.kb \in BOOLEAN /\ hooks.ms \in BOOLEAN
         /\ Covers(hooks, broadcasting, binding, clutch)
         /\ hooks.ms => clutch.buttons = physButtons
         /\ Handed(clutch, clutch) /\ Follows(clutch, clutch)
<1>1. TypeOK /\ clutch \in Clutch /\ hooks \in Hooks
  BY DEF EngineInv, TypeOK
<1>2. hooks.kb \in BOOLEAN /\ hooks.ms \in BOOLEAN
  BY <1>1 DEF Hooks
<1>3. Follows(clutch, clutch) /\ Handed(clutch, clutch)
  BY <1>1, FollowsItself, FollowsHanded
<1> QED BY <1>1, <1>2, <1>3, CoverMeaning DEF EngineInv, HooksSound

\* A step that moves nothing the invariant speaks of, the status aside.
LEMMA FrameKept ==
  ASSUME EngineInv, UNCHANGED <<running, heldKeys, physButtons, eaten, keyIsDown, pending,
                                binding, broadcasting, hooks, clutch>>,
         (shown' = shown /\ dirty' = dirty) \/ shown' = Status(clutch)
  PROVE  Kept
<1>1. KeyStrokesWhole' /\ KeysRemembered'
  BY DEF EngineInv, HooksSound, KeyStrokesWhole, KeysRemembered
<1>2. HooksCoverClutch'
  BY DEF EngineInv, HooksSound, HooksCoverClutch
<1>3. StatusPublished'
  BY DEF EngineInv, StatusPublished, Status
<1>4. Handed(clutch, clutch')
  BY Parts
<1> QED BY <1>1, <1>2, <1>3, <1>4 DEF Kept, HooksSound

LEMMA ElapseKept ==
  ASSUME EngineInv, Elapse
  PROVE  Kept
<1>1. UNCHANGED <<running, heldKeys, physButtons, eaten, keyIsDown, pending, binding,
                  broadcasting, hooks, shown, dirty>>
  BY DEF Elapse, envVars, bindVars, hookVars
<1>2. /\ clutch'.phase = clutch.phase /\ clutch'.swallowed = clutch.swallowed
      /\ clutch'.buttons = clutch.buttons /\ clutch'.left <= clutch.left
  <2>1. clutch.left \in Nat /\ clutch' = [clutch EXCEPT !.left = Less(clutch.left)]
    BY Parts, TimeAssumption DEF Elapse, Clutch
  <2>2. Less(clutch.left) <= clutch.left
    BY <2>1 DEF Less
  <2> QED BY <2>1, <2>2, Parts DEF Clutch
<1>3. KeyStrokesWhole' /\ KeysRemembered'
  BY <1>1, <1>2 DEF EngineInv, HooksSound, KeyStrokesWhole, KeysRemembered
<1>4. HooksCoverClutch'
  BY <1>1, <1>2 DEF EngineInv, HooksSound, HooksCoverClutch
<1>5. StatusPublished'
  BY <1>1, <1>2 DEF EngineInv, StatusPublished, Status
<1>6. Handed(clutch, clutch')
  BY <1>2 DEF Handed
<1> QED BY <1>3, <1>4, <1>5, <1>6 DEF Kept, HooksSound

\* A button moves: the hook sees it exactly while it is installed.
LEMMA MouseButtonKept ==
  ASSUME EngineInv, NEW b \in Button, NEW pressed \in BOOLEAN, MouseButton(b, pressed)
  PROVE  Kept
<1> DEFINE seen == running /\ hooks.ms
           next == IF seen THEN SetButton(clutch, b, pressed) ELSE clutch
<1>1. /\ clutch' = next /\ dirty' = (dirty \/ Status(next) # Status(clutch))
      /\ physButtons' = IF pressed THEN physButtons \cup {b} ELSE physButtons \ {b}
      /\ UNCHANGED <<running, heldKeys, eaten, keyIsDown, pending, binding, broadcasting,
                     hooks, shown>>
  BY DEF MouseButton, bindVars, hookVars
<1>2. clutch \in Clutch
  BY Parts
<1>3. /\ next.swallowed = clutch.swallowed
      /\ next.buttons = IF seen THEN IF pressed THEN clutch.buttons \cup {b}
                                     ELSE clutch.buttons \ {b}
                        ELSE clutch.buttons
      /\ next.phase = "Active" => clutch.phase = "Active"
      /\ next.phase # "Inactive" => clutch.phase # "Inactive"
      /\ clutch.phase = "Draining" => next.left = clutch.left
  BY <1>2 DEF SetButton, BeginDrain, Clutch, Phase
<1> HIDE DEF next
<1>4. KeyStrokesWhole' /\ KeysRemembered'
  BY <1>1, <1>3 DEF EngineInv, HooksSound, KeyStrokesWhole, KeysRemembered
<1>5. HooksCoverClutch'
  <2>1. hooks.ms => seen
    BY DEF EngineInv, KeysRemembered
  <2> QED BY <1>1, <1>3, <2>1 DEF EngineInv, HooksSound, HooksCoverClutch
<1>6. StatusPublished'
  BY <1>1 DEF EngineInv, StatusPublished
<1>7. Handed(clutch, clutch')
  <2>1. clutch.left \in Nat
    BY <1>2, TimeAssumption DEF Clutch
  <2> QED BY <1>1, <1>3, <2>1 DEF Handed
<1> QED BY <1>4, <1>5, <1>6, <1>7 DEF Kept, HooksSound

\* A press: taken only when it is fresh, and swallowed then and in its repeats.
LEMMA KeyDownKept ==
  ASSUME EngineInv, NEW vk \in Vk, KeyDown(vk)
  PROVE  Kept
<1> DEFINE fresh == FreshPress(vk)
           takes == fresh /\ foreground \in eqPids
           has == HasReadyMouseTargets(foreground)
           next == IF takes THEN OnKeyDown(clutch, vk, foreground, has) ELSE clutch
           swallows == running /\ hooks.kb /\ (takes \/ clutch.swallowed = vk)
<1>1. /\ heldKeys' = heldKeys \cup {vk} /\ keyIsDown' = (keyIsDown \/ fresh)
      /\ clutch' = next /\ dirty' = (dirty \/ Status(next) # Status(clutch))
      /\ eaten' = IF vk \notin heldKeys /\ swallows THEN eaten \cup {vk} ELSE eaten
      /\ UNCHANGED <<physButtons, running, binding, pending, hooks, broadcasting, shown>>
  BY DEF KeyDown, hookVars
<1>2. clutch \in Clutch /\ vk # NoVk
  BY Parts, VkAssumption
<1>3. fresh <=> /\ running /\ hooks.kb /\ clutch.swallowed # vk /\ pending = NoPending
                /\ vk = binding /\ ~keyIsDown
  BY DEF FreshPress, BoundKeyDown
<1>4. /\ next.swallowed = IF takes THEN vk ELSE clutch.swallowed
      /\ next.buttons = clutch.buttons
      /\ clutch.phase # "Active" /\ next.phase = "Active" => takes /\ clutch.buttons = {}
      /\ next.phase = "Active" \/ (next.phase = clutch.phase /\ next.left = clutch.left)
  BY <1>2 DEF OnKeyDown, CanActivate, Activate, Clutch
<1> HIDE DEF next, fresh
<1>5. hooks.kb \in BOOLEAN /\ keyIsDown \in BOOLEAN
  BY Parts DEF TypeOK
<1>6. takes => /\ running /\ binding = vk /\ hooks.ms /\ clutch.swallowed = NoVk
               /\ vk \notin heldKeys /\ clutch.buttons = physButtons
  BY <1>2, <1>3
     DEF EngineInv, HooksSound, HooksCoverClutch, KeysRemembered
<1>7. KeyStrokesWhole'
  <2> SUFFICES ASSUME running, NEW w \in heldKeys'
               PROVE  w \in eaten' <=> clutch'.swallowed = w
    BY <1>1 DEF KeyStrokesWhole
  <2>1. CASE w # vk
    <3>1. w \in heldKeys /\ (w \in eaten' <=> w \in eaten)
      BY <1>1, <2>1
    <3>2. w \in eaten <=> clutch.swallowed = w
      BY <3>1 DEF EngineInv, HooksSound, KeyStrokesWhole
    <3>3. w # NoVk
      BY <3>1, VkAssumption, Parts DEF TypeOK
    <3> QED BY <1>1, <1>4, <1>6, <2>1, <3>1, <3>2, <3>3
  <2>2. CASE w = vk /\ vk \in heldKeys
    <3>1. ~takes
      BY <1>6, <2>2
    <3> QED BY <1>1, <1>4, <2>2, <3>1 DEF EngineInv, HooksSound, KeyStrokesWhole
  <2>3. CASE w = vk /\ vk \notin heldKeys
    <3>1. vk \notin eaten
      BY <2>3 DEF EngineInv, KeysRemembered
    <3>2. swallows <=> clutch'.swallowed = vk
      BY <1>1, <1>2, <1>4, <1>3 DEF EngineInv, HooksSound, HooksCoverClutch
    <3> HIDE DEF swallows
    <3> QED BY <1>1, <2>3, <3>1, <3>2
  <2> QED BY <2>1, <2>2, <2>3
<1>8. KeysRemembered'
  <2>1. running => eaten' \subseteq heldKeys'
    BY <1>1 DEF EngineInv, KeysRemembered
  <2>2. running /\ clutch'.swallowed # NoVk => keyIsDown'
    BY <1>1, <1>4 DEF EngineInv, KeysRemembered
  <2>3. ASSUME running, pending = NoPending, binding \in heldKeys' PROVE keyIsDown'
    <3>1. CASE binding \in heldKeys
      BY <1>1, <2>3, <3>1 DEF EngineInv, KeysRemembered
    <3>2. CASE binding \notin heldKeys
      <4>1. binding = vk /\ hooks.kb
        BY <1>1, <1>2, <2>3, <3>2 DEF EngineInv, HooksSound, HooksCoverClutch
      <4>2. clutch.swallowed = vk => keyIsDown
        BY <1>2, <2>3 DEF EngineInv, KeysRemembered
      <4> QED BY <1>1, <1>3, <2>3, <4>1, <4>2
    <3> QED BY <3>1, <3>2
  <2>4. ~running => ~hooks.ms
    BY DEF EngineInv, KeysRemembered
  <2> QED BY <1>1, <2>1, <2>2, <2>3, <2>4 DEF KeysRemembered
<1>9. HooksCoverClutch'
  <2>1. clutch'.phase # "Inactive" => hooks.ms
    BY <1>1, <1>4, <1>6 DEF EngineInv, HooksSound, HooksCoverClutch
  <2>2. clutch'.swallowed # NoVk => hooks.kb /\ clutch'.swallowed = binding
    BY <1>1, <1>3, <1>4 DEF EngineInv, HooksSound, HooksCoverClutch
  <2> QED BY <1>1, <1>4, <2>1, <2>2 DEF EngineInv, HooksSound, HooksCoverClutch
<1>10. StatusPublished'
  BY <1>1 DEF EngineInv, StatusPublished
<1>11. Handed(clutch, clutch')
  <2>1. clutch.left \in Nat
    BY <1>2, TimeAssumption DEF Clutch
  <2> QED BY <1>1, <1>4, <1>6, <2>1 DEF Handed
<1> QED BY <1>7, <1>8, <1>9, <1>10, <1>11 DEF Kept, HooksSound

LEMMA KeyUpKept ==
  ASSUME EngineInv, NEW vk \in Vk, KeyUp(vk)
  PROVE  Kept
<1> DEFINE mine == running /\ hooks.kb /\ clutch.swallowed = vk
           next == IF mine THEN OnKeyUp(clutch, AnyHeld(holds)) ELSE clutch
           clears == running /\ hooks.kb /\ (mine \/ vk = binding)
<1>1. /\ heldKeys' = heldKeys \ {vk} /\ keyIsDown' = (keyIsDown /\ ~clears)
      /\ clutch' = next /\ dirty' = (dirty \/ Status(next) # Status(clutch))
      /\ eaten' = eaten \ {vk}
      /\ UNCHANGED <<physButtons, running, binding, pending, hooks, broadcasting, shown>>
  BY DEF KeyUp, hookVars
<1>2. clutch \in Clutch /\ vk # NoVk /\ keyIsDown \in BOOLEAN
  BY Parts, VkAssumption DEF TypeOK
<1>3. /\ next.swallowed = IF mine THEN NoVk ELSE clutch.swallowed
      /\ next.buttons = clutch.buttons
      /\ next.phase = "Active" => clutch.phase = "Active"
      /\ next.phase # "Inactive" => clutch.phase # "Inactive"
      /\ clutch.phase = "Draining" => next.left = clutch.left
  BY <1>2 DEF OnKeyUp, ReleaseIfUnowned, BeginDrain, Clutch
<1> HIDE DEF next
<1>4. running /\ clutch.swallowed = vk => mine
  BY <1>2 DEF EngineInv, HooksSound, HooksCoverClutch
<1>5. KeyStrokesWhole'
  <2> SUFFICES ASSUME running, NEW w \in heldKeys, w # vk
               PROVE  w \in eaten <=> clutch'.swallowed = w
    BY <1>1 DEF KeyStrokesWhole
  <2>1. w # NoVk
    BY VkAssumption, Parts DEF TypeOK
  <2> QED BY <1>1, <1>3, <2>1 DEF EngineInv, HooksSound, KeyStrokesWhole
<1>6. KeysRemembered'
  <2>1. running => eaten' \subseteq heldKeys'
    BY <1>1 DEF EngineInv, KeysRemembered
  <2>2. ASSUME running, clutch'.swallowed # NoVk PROVE keyIsDown'
    <3>1. ~mine /\ clutch.swallowed # NoVk /\ clutch.swallowed # vk
      BY <1>1, <1>3, <1>4, <2>2
    <3>2. vk # binding
      BY <3>1 DEF EngineInv, HooksSound, HooksCoverClutch
    <3> QED BY <1>1, <2>2, <3>1, <3>2 DEF EngineInv, KeysRemembered
  <2>3. ASSUME running, pending = NoPending, binding \in heldKeys' PROVE keyIsDown'
    <3>1. binding # vk /\ binding \in heldKeys
      BY <1>1, <2>3
    <3>2. ~mine
      BY <1>2, <3>1 DEF EngineInv, HooksSound, HooksCoverClutch
    <3> QED BY <1>1, <2>3, <3>1, <3>2 DEF EngineInv, KeysRemembered
  <2>4. ~running => ~hooks.ms
    BY DEF EngineInv, KeysRemembered
  <2> QED BY <1>1, <2>1, <2>2, <2>3, <2>4 DEF KeysRemembered
<1>7. HooksCoverClutch'
  BY <1>1, <1>3 DEF EngineInv, HooksSound, HooksCoverClutch
<1>8. StatusPublished'
  BY <1>1 DEF EngineInv, StatusPublished
<1>9. Handed(clutch, clutch')
  <2>1. clutch.left \in Nat
    BY <1>2, TimeAssumption DEF Clutch
  <2> QED BY <1>1, <1>3, <2>1 DEF Handed
<1> QED BY <1>5, <1>6, <1>7, <1>8, <1>9 DEF Kept, HooksSound

\* The overlay's reports: cancelling every owner marks the status as changed.
LEMMA CancelAllKept ==
  ASSUME EngineInv, NEW cond \in BOOLEAN, CancelAllIf(cond), running,
         UNCHANGED <<running, heldKeys, physButtons, eaten, keyIsDown, pending, binding,
                     broadcasting, hooks, shown>>
  PROVE  Kept
<1>1. clutch \in Clutch /\ clutch' \in Clutch /\ Follows(clutch, clutch')
  BY Parts, CancelFollows, CancelType DEF CancelAllIf
<1>2. dirty' = (dirty \/ cond) /\ (~cond => clutch' = clutch)
  BY DEF CancelAllIf
<1>3. KeyStrokesWhole' /\ KeysRemembered'
  BY <1>1, KeysKept DEF Follows
<1>4. HooksCoverClutch'
  <2>1. Covers(hooks, broadcasting, binding, clutch')
    BY <1>1, Parts, CoversFollows
  <2>2. clutch'.buttons = clutch.buttons
    BY <1>1 DEF Follows
  <2> QED BY <2>1, <2>2, Parts DEF HooksCoverClutch, Covers
<1>5. StatusPublished'
  BY <1>2 DEF EngineInv, StatusPublished
<1>6. Handed(clutch, clutch')
  BY <1>1, FollowsHanded
<1> QED BY <1>3, <1>4, <1>5, <1>6 DEF Kept, HooksSound

\* The hooks are reconciled for a clutch c, and the buttons sampled when the mouse
\* hook was installed, or also in between.
LEMMA ReconciledKept ==
  ASSUME EngineInv, NEW c \in Clutch, NEW h, NEW sampled \in BOOLEAN,
         Covers(h, broadcasting, binding, c), c.swallowed = clutch.swallowed,
         c.buttons = clutch.buttons, Handed(clutch, c), running,
         hooks' = HooksOf(h), h.ms \in BOOLEAN, Installed(hooks, h) => sampled,
         clutch' = SampledIf(c, sampled),
         UNCHANGED <<running, heldKeys, physButtons, eaten, keyIsDown, pending, binding,
                     broadcasting>>,
         ~dirty' => shown' = Status(clutch')
  PROVE  Kept
<1>1. clutch'.swallowed = clutch.swallowed /\ Handed(clutch, clutch')
  BY SampledKeeps, SampledHanded, Parts
<1>2. KeyStrokesWhole' /\ KeysRemembered'
  BY <1>1, KeysKept
<1>3. HooksCoverClutch'
  <2>1. Covers(HooksOf(h), broadcasting, binding, SampledIf(c, sampled))
    BY CoversSampled, HooksOfCovers
  <2>2. hooks'.ms => clutch'.buttons = physButtons
    <3>1. hooks'.ms = h.ms /\ clutch'.buttons = IF sampled THEN physButtons ELSE c.buttons
      BY SampledKeeps, HooksOfCovers
    <3>2. hooks.ms => clutch.buttons = physButtons
      BY Parts
    <3> QED BY <3>1, <3>2, Parts DEF Installed
  <2> QED BY <2>1, <2>2 DEF Covers, HooksCoverClutch
<1>4. StatusPublished'
  BY DEF StatusPublished
<1> QED BY <1>1, <1>2, <1>3, <1>4 DEF Kept, HooksSound

\* What the queue's commands leave alone.
CommandFrame ==
  UNCHANGED <<running, heldKeys, physButtons, eaten, keyIsDown, pending, binding, broadcasting>>

LEMMA DropHoldsKept ==
  ASSUME EngineInv, NEW hs \in [Owner -> Hold], DropHolds(hs), running, CommandFrame
  PROVE  Kept
<1>1. CASE hs = holds
  BY <1>1, FrameKept DEF DropHolds, CommandFrame
<1>2. CASE hs # holds
  <2> DEFINE next == ReleaseIfUnowned(clutch, AnyHeld(hs))
  <2>1. PICK r \in Reconcile(hooks, broadcasting, binding, pending, next, hs) :
          hooks' = HooksOf(r) /\ clutch' = SampledIf(next, Installed(hooks, r))
    BY <1>2 DEF DropHolds
  <2>2. dirty' = TRUE
    BY <1>2 DEF DropHolds
  <2>3. next \in Clutch /\ Follows(clutch, next)
    BY Parts, ReleaseFollows, ReleaseType DEF AnyHeld
  <2> HIDE DEF next
  <2>4. r.ms \in BOOLEAN /\ Covers(r, broadcasting, binding, next)
    BY <2>1, <2>3, Parts, CoversFollows, CoversReconcile, ReconcileKeeps
  <2>5. Handed(clutch, next) /\ next.swallowed = clutch.swallowed /\ next.buttons = clutch.buttons
    BY <2>3, Parts, FollowsHanded DEF Follows
  <2>6. Installed(hooks, r) \in BOOLEAN
    BY DEF Installed
  <2> QED BY <2>1, <2>2, <2>3, <2>4, <2>5, <2>6, ReconciledKept DEF CommandFrame
<1> QED BY <1>1, <1>2

LEMMA RenewHoldKept ==
  ASSUME EngineInv, NEW o \in Owner, RenewHold(o), CommandFrame
  PROVE  Kept
<1>1. UNCHANGED <<clutch, hooks, dirty>> /\ shown' \in {shown, Status(clutch)}
  BY DEF RenewHold
<1> QED BY <1>1, FrameKept DEF CommandFrame

\* A remote owner engages the clutch only when the sampled buttons are up.
LEMMA BeginHoldKept ==
  ASSUME EngineInv, NEW o \in Owner, BeginHold(o), running, CommandFrame
  PROVE  Kept
<1> DEFINE src == foreground
           hs == [holds EXCEPT ![o] = [source |-> IF holds[o].source # NoPid
                                                  THEN holds[o].source ELSE src,
                                       left |-> Lease]]
           resuming == clutch.phase = "Active" /\ clutch.source = src
           sampled == [clutch EXCEPT !.buttons = physButtons]
           engages == CanActivate(sampled, src, TRUE)
<1>1. \/ UNCHANGED <<clutch, hooks, dirty>> /\ shown' \in {shown, Status(clutch)}
      \/ /\ holds[o].source = NoPid /\ ClutchAvailable
         /\ \E r \in Reconcile(hooks, broadcasting, binding, pending, clutch, hs) :
              LET c == SampledIf(clutch, Installed(hooks, r) \/ (r.ok /\ ~resuming))
                  succeeds == r.ok /\ (resuming \/ engages)
              IN  \/ /\ succeeds /\ clutch' = Activate(c, src) /\ hooks' = HooksOf(r)
                     /\ dirty' = TRUE
                  \/ /\ ~succeeds
                     /\ \E r2 \in Reconcile(r, broadcasting, binding, pending, c, holds) :
                          /\ hooks' = HooksOf(r2)
                          /\ clutch' = SampledIf(c, Installed(r, r2))
                     /\ UNCHANGED <<dirty, shown>>
  BY DEF BeginHold
<1>2. CASE UNCHANGED <<clutch, hooks, dirty>> /\ shown' \in {shown, Status(clutch)}
  BY <1>2, FrameKept DEF CommandFrame
<1>3. ASSUME holds[o].source = NoPid, ClutchAvailable,
             NEW r \in Reconcile(hooks, broadcasting, binding, pending, clutch, hs)
      PROVE  /\ r.kb \in BOOLEAN /\ r.ms \in BOOLEAN /\ r.ok \in BOOLEAN
             /\ Covers(r, broadcasting, binding, clutch)
             /\ r.ok => r.ms
             /\ src \in Pid
  <2>1. src \in Pid /\ src # NoPid
    BY <1>3, Parts, PidAssumption DEF ClutchAvailable, TypeOK
  <2>2. hs[o].source # NoPid
    BY <1>3, <2>1, Parts DEF TypeOK
  <2>3. MouseHookNeeded(binding, pending, clutch, hs)
    BY <2>2 DEF MouseHookNeeded, AnyHeld, Held
  <2> HIDE DEF hs
  <2> QED BY <1>3, <2>1, <2>3, Parts, CoversReconcile, ReconcileKeeps
<1>4. ASSUME holds[o].source = NoPid, ClutchAvailable,
             NEW r \in Reconcile(hooks, broadcasting, binding, pending, clutch, hs),
             r.ok, resuming \/ engages, hooks' = HooksOf(r), dirty' = TRUE,
             clutch' = Activate(SampledIf(clutch, Installed(hooks, r) \/ (r.ok /\ ~resuming)), src)
      PROVE  Kept
  <2> DEFINE x == Installed(hooks, r) \/ (r.ok /\ ~resuming)
             c == SampledIf(clutch, x)
  <2>1. r.ms /\ Covers(r, broadcasting, binding, clutch) /\ src \in Pid
    BY <1>3, <1>4
  <2>2. x \in BOOLEAN /\ c \in Clutch
    BY Parts, SampledType DEF Installed
  <2>3. c.phase = clutch.phase /\ c.swallowed = clutch.swallowed
        /\ c.buttons = IF x THEN physButtons ELSE clutch.buttons
    BY <2>2, Parts, SampledKeeps
  <2>4. clutch'.swallowed = clutch.swallowed /\ clutch'.buttons = c.buttons
        /\ clutch'.phase = "Active"
    BY <1>4, <2>2, <2>3 DEF Activate, Clutch
  <2>5. KeyStrokesWhole' /\ KeysRemembered'
    BY <2>4, KeysKept DEF CommandFrame
  <2>6. clutch'.buttons = physButtons
    <3>1. CASE x
      BY <2>3, <2>4, <3>1
    <3>2. CASE ~x
      BY <2>1, <2>3, <2>4, <3>2, Parts DEF Installed
    <3> QED BY <3>1, <3>2
  <2>7. HooksCoverClutch'
    BY <1>4, <2>1, <2>4, <2>6, HooksOfCovers DEF CommandFrame, Covers, HooksCoverClutch, HooksOf
  <2>8. StatusPublished'
    BY <1>4 DEF StatusPublished
  <2>9. Handed(clutch, clutch')
    <3>1. clutch.phase = "Active" \/ physButtons = {}
      BY <1>4, Parts DEF CanActivate, Clutch
    <3> QED BY <2>4, <3>1 DEF Handed
  <2> QED BY <2>5, <2>7, <2>8, <2>9 DEF Kept, HooksSound
<1>5. ASSUME holds[o].source = NoPid, ClutchAvailable,
             NEW r \in Reconcile(hooks, broadcasting, binding, pending, clutch, hs),
             NEW x \in BOOLEAN, Installed(hooks, r) => x,
             NEW r2 \in Reconcile(r, broadcasting, binding, pending, SampledIf(clutch, x), holds),
             hooks' = HooksOf(r2), UNCHANGED <<dirty, shown>>,
             clutch' = SampledIf(SampledIf(clutch, x), Installed(r, r2))
      PROVE  Kept
  <2> DEFINE c == SampledIf(clutch, x)
             y == x \/ Installed(r, r2)
  <2>1. /\ r.kb \in BOOLEAN /\ r.ms \in BOOLEAN
        /\ Covers(r, broadcasting, binding, c)
    BY <1>3, <1>5, Parts, CoversSampled
  <2>2. r2.ms \in BOOLEAN /\ Covers(r2, broadcasting, binding, c)
    BY <1>5, <2>1, CoversReconcile, ReconcileKeeps
  <2>3. y \in BOOLEAN /\ clutch' = SampledIf(clutch, y)
    BY <1>5, Parts DEF SampledIf, Installed, Clutch
  <2>4. Covers(r2, broadcasting, binding, clutch)
    BY <1>5, <2>2, Parts, SampledKeeps DEF Covers
  <2>5. Installed(hooks, r2) => y
    BY <1>5, <2>1 DEF Installed
  <2>6. ~dirty' => shown' = Status(clutch')
    BY <1>5, <2>3, Parts, SampledKeeps DEF EngineInv, StatusPublished
  <2> HIDE DEF y, c
  <2> QED BY <1>5, <2>2, <2>3, <2>4, <2>5, <2>6, Parts, ReconciledKept DEF CommandFrame
<1>6. ASSUME holds[o].source = NoPid, ClutchAvailable,
             NEW r \in Reconcile(hooks, broadcasting, binding, pending, clutch, hs)
      PROVE  Installed(hooks, r) \/ (r.ok /\ ~resuming) \in BOOLEAN
  BY DEF Installed
<1> HIDE DEF src, hs, resuming, engages
<1> QED BY <1>1, <1>2, <1>4, <1>5, <1>6

\* One command of the queue.
LEMMA DrainCommandKept ==
  ASSUME EngineInv, DrainCommand
  PROVE  Kept
<1> DEFINE m == Head(queue)
           o == <<m.session, m.hold>>
<1>1. running /\ m \in Msg /\ CommandFrame
  BY Parts DEF DrainCommand, TypeOK, CommandFrame, envVars, bindVars
<1>2. \/ m.op # "Close" /\ UpdateRemoteMouseClutchHold(m)
      \/ m.op = "Close" /\ EndRemoteMouseClutchSession(m.session)
  BY DEF DrainCommand
<1> HIDE DEF m
<1>3. CASE m.op # "Close" /\ UpdateRemoteMouseClutchHold(m)
  <2>1. CASE m.session \in ClosedSessions \/ m.seq <= seqs[o]
    BY <1>1, <1>3, <2>1, FrameKept DEF UpdateRemoteMouseClutchHold, CommandFrame
  <2>2. CASE ~(m.session \in ClosedSessions \/ m.seq <= seqs[o])
    <3>1. o \in Owner /\ (BeginHold(o) \/ RenewHold(o) \/ EndHold(o))
      BY <1>1, <1>3, <2>2, MsgFields DEF UpdateRemoteMouseClutchHold
    <3> HIDE DEF o
    <3>2. [holds EXCEPT ![o] = NoHold] \in [Owner -> Hold]
      BY NoHoldsType, Parts DEF TypeOK
    <3> QED BY <1>1, <3>1, <3>2, BeginHoldKept, RenewHoldKept, DropHoldsKept DEF EndHold
  <2> QED BY <2>1, <2>2
<1>4. CASE m.op = "Close" /\ EndRemoteMouseClutchSession(m.session)
  <2> DEFINE hs == [x \in Owner |-> IF x[1] = m.session THEN NoHold ELSE holds[x]]
  <2>1. hs \in [Owner -> Hold] /\ DropHolds(hs)
    BY <1>4, NoHoldsType, Parts DEF TypeOK, EndRemoteMouseClutchSession
  <2> HIDE DEF hs
  <2> QED BY <1>1, <2>1, DropHoldsKept
<1> QED BY <1>2, <1>3, <1>4

----------------------------------------------------------------------------
(* The engine's own steps.                                                 *)

\* A binding is applied only to a clutch at rest; when its hooks cannot be installed
\* it is dropped, and the hooks still cover the rest.
LEMMA ApplyPendingKept ==
  ASSUME EngineInv, NEW c \in Clutch, NEW sel, NEW hs,
         NEW p \in Vk \cup {NoVk, NoPending}, NEW again \in BOOLEAN,
         ApplyPending(c, sel, hs, p, again), Follows(clutch, c), running,
         p = NoPending => pending = NoPending,
         UNCHANGED <<running, heldKeys, physButtons, eaten, broadcasting>>
  PROVE  (HooksSound /\ KeysRemembered)' /\ Handed(clutch, clutch')
<1> DEFINE applies == CanApplyPending(c, p)
           b1 == IF applies THEN p ELSE binding
           wait == IF applies THEN NoPending ELSE p
<1>1. PICK r1 \in IF applies THEN Reconcile(hooks, broadcasting, b1, wait, c, hs) ELSE KeepHooks :
        LET b2 == BindingAfter(r1.ok, b1)
            c2 == IF r1.ok THEN c ELSE ForceInactive(c)
        IN  \E r2 \in IF r1.ok THEN {r1} ELSE Reconcile(r1, broadcasting, b2, wait, c2, hs) :
              \E r3 \in IF again THEN Reconcile(r2, broadcasting, b2, wait, c2, hs) ELSE {r2} :
                /\ binding' = b2
                /\ pending' = wait
                /\ keyIsDown' = IF applies THEN b1 \in heldKeys ELSE keyIsDown
                /\ hooks' = HooksOf(r3)
                /\ selected' = IF r1.ok THEN sel ELSE {}
                /\ clutch' = SampledIf(c2, \/ Installed(hooks, r1)
                                           \/ Installed(r1, r2)
                                           \/ Installed(r2, r3))
  BY DEF ApplyPending
<1> DEFINE b2 == BindingAfter(r1.ok, b1)
           c2 == IF r1.ok THEN c ELSE ForceInactive(c)
<1>2. PICK r2 \in IF r1.ok THEN {r1} ELSE Reconcile(r1, broadcasting, b2, wait, c2, hs) :
        \E r3 \in IF again THEN Reconcile(r2, broadcasting, b2, wait, c2, hs) ELSE {r2} :
                /\ binding' = b2
                /\ pending' = wait
                /\ keyIsDown' = IF applies THEN b1 \in heldKeys ELSE keyIsDown
                /\ hooks' = HooksOf(r3)
                /\ selected' = IF r1.ok THEN sel ELSE {}
                /\ clutch' = SampledIf(c2, \/ Installed(hooks, r1)
                                           \/ Installed(r1, r2)
                                           \/ Installed(r2, r3))
  BY <1>1
<1>3. PICK r3 \in IF again THEN Reconcile(r2, broadcasting, b2, wait, c2, hs) ELSE {r2} :
                /\ binding' = b2
                /\ pending' = wait
                /\ keyIsDown' = IF applies THEN b1 \in heldKeys ELSE keyIsDown
                /\ hooks' = HooksOf(r3)
                /\ selected' = IF r1.ok THEN sel ELSE {}
                /\ clutch' = SampledIf(c2, \/ Installed(hooks, r1)
                                           \/ Installed(r1, r2)
                                           \/ Installed(r2, r3))
  BY <1>2
<1> DEFINE b == b2
           d == c2
           x == Installed(hooks, r1) \/ Installed(r1, r2) \/ Installed(r2, r3)
<1>4. /\ r1 \in IF applies THEN Reconcile(hooks, broadcasting, b1, wait, c, hs) ELSE KeepHooks
      /\ r2 = r1 \/ r2 \in Reconcile(r1, broadcasting, b, wait, d, hs)
      /\ r3 = r2 \/ r3 \in Reconcile(r2, broadcasting, b, wait, d, hs)
      /\ binding' = b /\ pending' = wait /\ hooks' = HooksOf(r3)
      /\ clutch' = SampledIf(d, x)
  BY <1>1, <1>2, <1>3
<1>5. keyIsDown' = IF applies THEN b1 \in heldKeys ELSE keyIsDown
  BY <1>3
<1>6. x \in BOOLEAN /\ (Installed(hooks, r3) /\ r1.ms \in BOOLEAN /\ r2.ms \in BOOLEAN => x)
  BY DEF Installed
<1>7. d \in Clutch /\ Follows(c, d)
  BY ForceInactiveType, ForceInactiveFollows, FollowsItself
<1>8. Follows(clutch, d) /\ Handed(clutch, d)
  BY <1>7, Parts, FollowsChain, FollowsHanded
<1>9. Covers(hooks, broadcasting, binding, c)
  BY Parts, CoversFollows
<1>10. /\ r1.kb \in BOOLEAN /\ r1.ms \in BOOLEAN
       /\ Covers(r1, broadcasting, b, d)
  <2>1. CASE applies
    <3>1. c.phase = "Inactive" /\ c.swallowed = NoVk
      BY <2>1 DEF CanApplyPending
    <3>2. d.phase = "Inactive" /\ d.swallowed = NoVk
      BY <3>1, <1>7 DEF Follows
    <3>3. r1 \in Reconcile(hooks, broadcasting, b1, wait, c, hs)
      BY <1>4, <2>1
    <3>4. /\ r1.kb \in BOOLEAN /\ r1.ms \in BOOLEAN
          /\ KeyboardHookNeeded(broadcasting, b1, wait, c) /\ hooks.kb => r1.kb
          /\ r1.ok /\ KeyboardHookNeeded(broadcasting, b1, wait, c) => r1.kb
          /\ r1.ok /\ MouseHookNeeded(b1, wait, c, hs) => r1.ms
      BY <3>3, Parts, ReconcileKeeps
    <3>5. broadcasting => r1.kb
      BY <3>4, <1>9 DEF Covers, KeyboardHookNeeded
    <3>6. b # NoVk => r1.kb /\ r1.ms
      BY <3>4 DEF BindingAfter, KeyboardHookNeeded, MouseHookNeeded
    <3> QED BY <3>2, <3>4, <3>5, <3>6 DEF Covers
  <2>2. CASE ~applies
    <3>1. r1.kb = hooks.kb /\ r1.ms = hooks.ms /\ r1.ok
      BY <1>4, <2>2 DEF KeepHooks
    <3>2. b = binding /\ d = c
      BY <2>2, <3>1 DEF BindingAfter
    <3> HIDE DEF b, d, c2, b2
    <3> QED BY <1>9, <3>1, <3>2, Parts DEF Covers
  <2> QED BY <2>1, <2>2
<1>11. c.swallowed # NoVk => ~applies
  BY DEF CanApplyPending
<1>12. pending' = NoPending /\ binding' \in heldKeys => keyIsDown' \/ (~applies /\ binding' = binding)
  <2>1. CASE applies
    <3>1. binding' \in {b1, NoVk} /\ NoVk \notin heldKeys
      BY <1>4, Parts, VkAssumption DEF BindingAfter, TypeOK
    <3> QED BY <1>5, <2>1, <3>1
  <2>2. CASE ~applies
    <3>1. r1.ok
      BY <1>4, <2>2 DEF KeepHooks
    <3> QED BY <1>4, <2>2, <3>1 DEF BindingAfter
  <2> QED BY <2>1, <2>2
<1>13. ~applies => pending' = p /\ keyIsDown' = keyIsDown
  BY <1>4, <1>5
<1> HIDE DEF applies, b, d, x, wait, b1, b2, c2
<1>16. r2.kb \in BOOLEAN /\ r2.ms \in BOOLEAN /\ Covers(r2, broadcasting, b, d)
  BY <1>4, <1>10, CoversReconcile, ReconcileKeeps
<1>17. r3.ms \in BOOLEAN /\ Covers(r3, broadcasting, b, d)
  BY <1>4, <1>16, CoversReconcile, ReconcileKeeps
<1>18. d.swallowed = clutch.swallowed /\ d.buttons = clutch.buttons /\ c.swallowed = clutch.swallowed
  BY <1>8 DEF Follows
<1>19. /\ clutch'.swallowed = clutch.swallowed /\ Handed(clutch, clutch')
       /\ clutch'.buttons = IF x THEN physButtons ELSE clutch.buttons
  BY <1>4, <1>6, <1>7, <1>8, <1>18, SampledKeeps, SampledHanded, Parts
<1>20. KeyStrokesWhole'
  BY <1>19 DEF EngineInv, HooksSound, KeyStrokesWhole
<1>21. HooksCoverClutch'
  <2>1. Covers(HooksOf(r3), broadcasting, b, SampledIf(d, x))
    BY <1>6, <1>7, <1>17, CoversSampled, HooksOfCovers
  <2>2. hooks'.ms => clutch'.buttons = physButtons
    <3>1. hooks'.ms = r3.ms
      BY <1>4, HooksOfCovers
    <3> QED BY <3>1, <1>6, <1>10, <1>16, <1>17, <1>19, Parts DEF Installed
  <2> QED BY <1>4, <2>1, <2>2 DEF Covers, HooksCoverClutch
<1>22. KeysRemembered'
  <2>1. running => eaten \subseteq heldKeys
    BY DEF EngineInv, KeysRemembered
  <2>2. clutch'.swallowed # NoVk => keyIsDown'
    BY <1>11, <1>13, <1>18, <1>19 DEF EngineInv, KeysRemembered
  <2>3. pending' = NoPending /\ binding' \in heldKeys => keyIsDown'
    BY <1>12, <1>13 DEF EngineInv, KeysRemembered
  <2> QED BY <2>1, <2>2, <2>3 DEF KeysRemembered
<1> QED BY <1>19, <1>20, <1>21, <1>22 DEF HooksSound

\* The timer: expired holds, a broken hand-over, the drain's end and a waiting binding.
LEMMA TickKept ==
  ASSUME EngineInv, Tick
  PROVE  Kept
<1> DEFINE live   == LiveHolds
           c1     == IF live = holds THEN clutch ELSE ReleaseIfUnowned(clutch, AnyHeld(live))
           broken == c1.phase # "Inactive" /\ ~ClutchStillValid(c1)
           c2     == IF broken THEN CancelBounded(c1) ELSE c1
           due    == DrainIsDue(c2)
           c3     == IF due THEN ForceInactive(c2) ELSE c2
           hs     == IF broken THEN NoHolds ELSE live
           sel    == IF due THEN {} ELSE selected
<1>1. /\ running /\ ApplyPending(c3, sel, hs, pending, TRUE)
      /\ shown' = IF dirty \/ live # holds \/ broken \/ Status(clutch') # Status(clutch)
                  THEN Status(clutch') ELSE shown
      /\ UNCHANGED <<running, heldKeys, physButtons, eaten, broadcasting>>
  BY DEF Tick, envVars
<1>2. c1 \in Clutch /\ Follows(clutch, c1)
  <2>1. AnyHeld(live) \in BOOLEAN
    BY DEF AnyHeld
  <2> QED BY <2>1, Parts, ReleaseType, ReleaseFollows
<1> HIDE DEF c1, live
<1>3. c2 \in Clutch /\ Follows(c1, c2)
  BY <1>2, CancelType, CancelFollows, FollowsItself
<1> HIDE DEF c2, broken
<1>4. c3 \in Clutch /\ Follows(c2, c3)
  BY <1>3, ForceInactiveType, ForceInactiveFollows, FollowsItself
<1> HIDE DEF c3, hs, sel
<1>5. Follows(clutch, c3)
  BY <1>2, <1>3, <1>4, Parts, FollowsChain
<1>6. pending \in Vk \cup {NoVk, NoPending}
  BY Parts DEF TypeOK
<1>7. (HooksSound /\ KeysRemembered)' /\ Handed(clutch, clutch')
  BY <1>1, <1>4, <1>5, <1>6, ApplyPendingKept
<1>8. StatusPublished'
  BY <1>1 DEF EngineInv, StatusPublished
<1> QED BY <1>7, <1>8 DEF Kept

LEMMA OnSettingsChangedKept ==
  ASSUME EngineInv, NEW b \in Vk \cup {NoVk}, OnSettingsChanged(b)
  PROVE  Kept
<1>1. /\ running /\ ApplyPending(CancelBounded(clutch), selected, NoHolds, b, FALSE)
      /\ dirty' = TRUE
      /\ UNCHANGED <<running, heldKeys, physButtons, eaten, broadcasting>>
  BY DEF OnSettingsChanged, envVars
<1>2. CancelBounded(clutch) \in Clutch /\ Follows(clutch, CancelBounded(clutch))
  BY Parts, CancelType, CancelFollows
<1>3. b # NoPending
  BY VkAssumption
<1>4. (HooksSound /\ KeysRemembered)' /\ Handed(clutch, clutch')
  BY <1>1, <1>2, <1>3, ApplyPendingKept
<1>5. StatusPublished'
  BY <1>1 DEF StatusPublished
<1> QED BY <1>4, <1>5 DEF Kept

\* Broadcasting is on only with its hook; when that fails the clutch keeps its own.
LEMMA SetActiveKept ==
  ASSUME EngineInv, NEW on \in BOOLEAN, SetActive(on)
  PROVE  Kept
<1>1. PICK r1 \in Reconcile(hooks, on, binding, pending, clutch, holds) :
        LET undone == on /\ ~r1.ok
        IN  \E r2 \in IF undone THEN Reconcile(r1, FALSE, binding, pending, clutch, holds)
                      ELSE {r1} :
              /\ hooks' = HooksOf(r2)
              /\ clutch' = SampledIf(clutch, Installed(hooks, r1) \/ Installed(r1, r2))
              /\ broadcasting' = (on /\ ~undone)
  BY DEF SetActive
<1> DEFINE undone == on /\ ~r1.ok
<1>2. PICK r2 \in IF undone THEN Reconcile(r1, FALSE, binding, pending, clutch, holds) ELSE {r1} :
        /\ hooks' = HooksOf(r2)
        /\ clutch' = SampledIf(clutch, Installed(hooks, r1) \/ Installed(r1, r2))
        /\ broadcasting' = (on /\ ~undone)
  BY <1>1
<1> DEFINE x == Installed(hooks, r1) \/ Installed(r1, r2)
<1>3. running /\ UNCHANGED <<running, heldKeys, physButtons, eaten, keyIsDown, pending, binding,
                             dirty, shown>>
  BY DEF SetActive, envVars, bindVars
<1>4. Covers(hooks, FALSE, binding, clutch)
  BY Parts DEF Covers
<1>5. /\ r1.kb \in BOOLEAN /\ r1.ms \in BOOLEAN
      /\ KeyboardHookNeeded(on, binding, pending, clutch) /\ hooks.kb => r1.kb
      /\ MouseHookNeeded(binding, pending, clutch, holds) /\ hooks.ms => r1.ms
      /\ r1.ok /\ KeyboardHookNeeded(on, binding, pending, clutch) => r1.kb
  BY Parts, ReconcileKeeps
<1>6. Covers(r1, FALSE, binding, clutch)
  BY <1>4, <1>5 DEF Covers, KeyboardHookNeeded, MouseHookNeeded
<1>7. on /\ r1.ok => r1.kb
  BY <1>5 DEF KeyboardHookNeeded
<1>8. r2.ms \in BOOLEAN /\ Covers(r2, on /\ ~undone, binding, clutch)
  <2>1. CASE undone
    <3> DEFINE off == FALSE
    <3>1. r2 \in Reconcile(r1, off, binding, pending, clutch, holds)
      BY <1>2, <2>1
    <3>2. Covers(r1, off, binding, clutch)
      BY <1>6
    <3> HIDE DEF undone, off
    <3>3. r2.ms \in BOOLEAN
      BY <3>1, <1>5, ReconcileKeeps
    <3>4. Covers(r2, off, binding, clutch)
      BY <3>1, <3>2, <1>5, CoversReconcile
    <3> QED BY <2>1, <3>3, <3>4 DEF Covers, undone
  <2>2. CASE ~undone
    BY <1>2, <1>5, <1>6, <1>7, <2>2 DEF Covers
  <2> QED BY <2>1, <2>2
<1>9. x \in BOOLEAN /\ (Installed(hooks, r2) => x)
  BY <1>5 DEF Installed
<1>10. /\ hooks' = HooksOf(r2) /\ clutch' = SampledIf(clutch, x)
       /\ broadcasting' = (on /\ ~undone)
  BY <1>2
<1> HIDE DEF x, undone
<1>11. /\ clutch'.swallowed = clutch.swallowed /\ Status(clutch') = Status(clutch)
       /\ Handed(clutch, clutch')
       /\ clutch'.buttons = IF x THEN physButtons ELSE clutch.buttons
  BY <1>9, <1>10, Parts, SampledKeeps, SampledHanded
<1>12. KeyStrokesWhole' /\ KeysRemembered'
  BY <1>3, <1>11, KeysKept
<1>13. HooksCoverClutch'
  <2>1. Covers(HooksOf(r2), on /\ ~undone, binding, SampledIf(clutch, x))
    BY <1>8, <1>9, Parts, CoversSampled, HooksOfCovers
  <2>2. Covers(hooks', broadcasting', binding', clutch')
    BY <1>3, <1>10, <2>1
  <2>3. hooks'.ms => clutch'.buttons = physButtons'
    <3>1. hooks'.ms = r2.ms
      BY <1>10, HooksOfCovers
    <3> QED BY <3>1, <1>3, <1>8, <1>9, <1>11, Parts DEF Installed
  <2> QED BY <2>2, <2>3 DEF Covers, HooksCoverClutch
<1>14. StatusPublished'
  BY <1>3, <1>11 DEF EngineInv, StatusPublished
<1> QED BY <1>11, <1>12, <1>13, <1>14 DEF Kept, HooksSound

LEMMA CleanupKept ==
  ASSUME EngineInv, Cleanup
  PROVE  Kept
<1> DEFINE c == ForceInactive(clutch)
<1>1. /\ clutch' = [c EXCEPT !.swallowed = NoVk] /\ running' = FALSE
      /\ binding' = NoVk /\ hooks' = [kb |-> FALSE, ms |-> FALSE] /\ broadcasting' = FALSE
  BY DEF Cleanup
<1>2. c \in Clutch /\ c.phase = "Inactive"
  BY Parts, ForceInactiveType DEF ForceInactive, Clutch
<1> HIDE DEF c
<1>3. clutch'.phase = "Inactive" /\ clutch'.swallowed = NoVk
  BY <1>1, <1>2 DEF Clutch
<1>4. KeyStrokesWhole' /\ KeysRemembered' /\ StatusPublished'
  BY <1>1 DEF KeyStrokesWhole, KeysRemembered, StatusPublished
<1>5. HooksCoverClutch'
  BY <1>1, <1>3 DEF HooksCoverClutch
<1>6. Handed(clutch, clutch')
  BY <1>3 DEF Handed
<1> QED BY <1>4, <1>5, <1>6 DEF Kept, HooksSound

----------------------------------------------------------------------------
(* Every step, and the properties.                                         *)

LEMMA WorldKept == EngineInv /\ World => Kept
<1> SUFFICES ASSUME EngineInv, World PROVE Kept
  OBVIOUS
<1>1. ASSUME NEW p \in MayFocus \cup {NoPid}, FocusChange(p) PROVE Kept
  BY <1>1, FrameKept DEF FocusChange, bindVars, hookVars
<1>2. ASSUME NEW p \in Pid, ProxyAck(p) PROVE Kept
  BY <1>2, FrameKept DEF ProxyAck, bindVars, hookVars
<1>3. ASSUME NEW p \in MayExit, ProcessExit(p) PROVE Kept
  BY <1>3, FrameKept DEF ProcessExit, bindVars, hookVars
<1> QED BY <1>1, <1>2, <1>3, MouseButtonKept, KeyDownKept, KeyUpKept, ElapseKept DEF World

LEMMA OverlayKept == EngineInv /\ Overlay => Kept
<1> SUFFICES ASSUME EngineInv, Overlay PROVE Kept
  OBVIOUS
<1>1. ASSUME NEW pids, NEW active, NEW created, UpdateTargets(pids, active, created)
      PROVE  Kept
  <2> DEFINE gone == (clutch.source # NoPid /\ clutch.source \notin pids) \/ selected \ pids # {}
  <2>1. CancelAllIf(gone) /\ gone \in BOOLEAN
    BY <1>1 DEF UpdateTargets
  <2> HIDE DEF gone
  <2> QED BY <1>1, <2>1, CancelAllKept DEF UpdateTargets, bindVars, hookVars
<1>2. ASSUME NEW pids, UpdateMouseEligiblePids(pids) PROVE Kept
  BY <1>2, CancelAllKept DEF UpdateMouseEligiblePids, envVars, bindVars, hookVars
<1>3. ASSUME NEW p, SetActivePid(p) PROVE Kept
  BY <1>3, CancelAllKept DEF SetActivePid, envVars, bindVars, hookVars
<1> QED BY <1>1, <1>2, <1>3 DEF Overlay

LEMMA RemoteKept == EngineInv /\ Remote => Kept
<1> SUFFICES ASSUME EngineInv, Remote PROVE Kept
  OBVIOUS
<1>1. ASSUME NEW s, NEW h, NEW op, ClientSend(s, h, op) PROVE Kept
  BY <1>1, FrameKept DEF ClientSend, envVars, bindVars, hookVars
<1>2. ASSUME NEW s, ConnectionLost(s) PROVE Kept
  BY <1>2, FrameKept DEF ConnectionLost, envVars, bindVars, hookVars
<1> QED BY <1>1, <1>2, DrainCommandKept DEF Remote

LEMMA EngineKept == EngineInv /\ Engine => Kept
BY TickKept, OnSettingsChangedKept, SetActiveKept, CleanupKept, FlagAssumption DEF Engine

LEMMA StepKept == EngineInv /\ [Next]_vars => Kept
<1>1. EngineInv /\ UNCHANGED vars => Kept
  BY FrameKept DEF vars, envVars, bindVars, hookVars
<1> QED BY <1>1, WorldKept, OverlayKept, RemoteKept, EngineKept DEF Next

LEMMA EngineInvariant == Spec => []EngineInv
<1>1. EngineInv /\ [Next]_vars => EngineInv'
  <2>1. EngineInv /\ [Next]_vars => TypeOK'
    BY WorldType, OverlayType, RemoteType, EngineType, StutterType DEF EngineInv, Next
  <2> QED BY <2>1, StepKept DEF EngineInv, Kept
<1> QED BY InitEngine, <1>1, PTL DEF Spec

\* However hooks fail and keys, focus and settings interleave, no client receives half
\* of a stroke of the clutch's key, and an engaged clutch has the hooks it relies on.
THEOREM HooksAlwaysSound == Spec => []HooksSound
<1>1. EngineInv => HooksSound
  BY DEF EngineInv
<1> QED BY EngineInvariant, <1>1, PTL

\* Whatever the overlay and the control clients were last told is the clutch's status,
\* unless the next timer tick will tell them.
THEOREM StatusAlwaysPublished == Spec => []StatusPublished
<1>1. EngineInv => StatusPublished
  BY DEF EngineInv
<1> QED BY EngineInvariant, <1>1, PTL

\* No owner, local or remote, engages the clutch while a mouse button is down, and
\* nothing that happens during a drain gives it more time.
THEOREM HandoverAlwaysClean == Spec => HandoverSteps
<1>1. EngineInv /\ [Next]_vars =>
        [clutch.phase # "Active" /\ clutch'.phase = "Active" => physButtons = {}]_vars
  BY StepKept DEF Kept, Handed
<1>2. EngineInv /\ [Next]_vars =>
        [clutch.phase = "Draining" /\ clutch'.phase = "Draining" => clutch'.left <= clutch.left]_vars
  BY StepKept DEF Kept, Handed
<1>3. Spec => EngagesWithButtonsUp
  BY EngineInvariant, <1>1, PTL DEF Spec, EngagesWithButtonsUp
<1>4. Spec => DrainNeverExtended
  BY EngineInvariant, <1>2, PTL DEF Spec, DrainNeverExtended
<1> QED BY <1>3, <1>4 DEF HandoverSteps
=============================================================================
