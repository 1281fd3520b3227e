------------------------------ MODULE ClientSet ------------------------------
(***************************************************************************)
(* The overlay's set of EverQuest clients: overlay/clients.rs (the         *)
(* registry and its active/PiP partition), event_loop.rs (the poll),       *)
(* client_controller.rs and activation.rs (activation with a rollback),    *)
(* menu.rs and lifecycle.rs where they renumber, control_bridge.rs and     *)
(* trushar's SnapshotMapper (what the control API is told).                *)
(*                                                                         *)
(* Everything runs on one thread behind the busy gate of runtime.rs, so a  *)
(* transaction is one step, except activation: it asks Windows twice for   *)
(* the foreground and processes, focus and identities move in between.     *)
(* A sort is modelled by what it yields: the place of an element is the    *)
(* number of those that come before it.                                    *)
(***************************************************************************)
EXTENDS Integers, FiniteSets, Sequences, SequencesExt

CONSTANTS Nobody,      \* no process, no identity
          Pid,         \* processes; one is not reused before the overlay forgot it
          Character,   \* full identities: character and server
          Plays,       \* the identities each process may log in
          Preferred,   \* box_order, a sequence of identities
          Cycle,       \* the members of one box cycle, a sequence of identities
          MaxPips,     \* MAX_PIPS
          MaxRetired,  \* the 256 of SnapshotMapper
          MaxLaunches, \* bound: client starts
          MaxEdits  \* bound: times the user renumbers, reassigns or saves settings

ASSUME ClientSetBounds ==
  /\ Nobody \notin Pid \cup Character /\ Pid \cap Character = {} /\ IsFiniteSet(Pid)
  /\ Plays \in [Pid -> SUBSET Character]
  /\ Preferred \in Seq(Character) /\ Cycle \in Seq(Character)
  /\ MaxPips \in Nat \ {0} /\ MaxRetired \in Nat \ {0}
  /\ MaxLaunches \in Nat /\ MaxEdits \in Nat

VARIABLES running,   \* EverQuest processes that have a window
          focus,     \* the one with foreground and keyboard focus, or Nobody
          shm,       \* the identity each process publishes through trusik
          clients,   \* ClientRegistry
          swap,      \* an activation between its two confirmations
          told,      \* broadcast's active process
          autoOrder, \* Config::auto_order, as saved
          latest,    \* UiState.latest_sources
          ids,       \* SnapshotMapper.ids
          idsMade, retired,
          launched, edits

osVars     == <<running, focus, shm, launched>>
mapperVars == <<ids, idsMade, retired>>
boxVars    == <<osVars, clients, swap, told, autoOrder, latest, mapperVars, edits>>

NoSwap   == [target |-> Nobody]
busy   == swap # NoSwap

Loaded(c) == DOMAIN c.number
Known(c)  == Loaded(c) \cap ({c.active} \cup ToSet(c.pips))   \* activatable

-----------------------------------------------------------------------------
(* Sorting *)

\* The members of S that come before p in the order R, a set of pairs.
Before(S, R, p) == {q \in S : <<q, p>> \in R}

\* S in the order R.
Listed(S, R) ==
  [i \in 1 .. Cardinality(S) |-> CHOOSE p \in S : Cardinality(Before(S, R, p)) = i - 1]

\* Where e first stands in the sequence s, past its end when it does not.
Position(s, e) ==
  IF Contains(s, e)
  THEN CHOOSE i \in DOMAIN s : s[i] = e /\ \A j \in 1 .. i - 1 : s[j] # e
  ELSE Len(s) + 1

\* s, a sequence without repetitions, without e.
Retained(s, e) == IF Contains(s, e) THEN RemoveAt(s, Position(s, e)) ELSE s

-----------------------------------------------------------------------------
(* ClientRegistry *)

EnsureActive(c) ==
  IF c.active = Nobody /\ c.pips # <<>>
  THEN [c EXCEPT !.active = Head(c.pips), !.pips = Tail(c.pips)]
  ELSE c

\* A removed active client is replaced by the first PiP.
RemoveClient(c, p) ==
  LET rest == [number   |-> [q \in Loaded(c) \ {p} |-> c.number[q]],
               who      |-> [c.who EXCEPT ![p] = Nobody],
               observed |-> [c.observed EXCEPT ![p] = Nobody],
               active   |-> IF c.active = p THEN Nobody ELSE c.active,
               pips     |-> Retained(c.pips, p)]
  IN IF c.active = p THEN EnsureActive(rest) ELSE rest

NextAvailableNumber(c) ==
  CHOOSE n \in 1 .. Cardinality(Loaded(c)) + 1 :
    /\ \A q \in Loaded(c) : c.number[q] # n
    /\ \A k \in 1 .. n - 1 : \E q \in Loaded(c) : c.number[q] = k

\* poll_inner's loop body: the client becomes active only when nobody is and no
\* other EverQuest window has the focus.
Add(c, p) ==
  LET preferActive == c.active = Nobody /\ focus \in {p, Nobody}
      numbered     == [q \in Loaded(c) \cup {p} |->
                         IF q = p THEN NextAvailableNumber(c) ELSE c.number[q]]
  IN IF preferActive THEN [c EXCEPT !.number = numbered, !.active = p]
     ELSE [c EXCEPT !.number = numbered, !.pips = Append(@, p)]

Truncated(c) == [c EXCEPT !.pips = SubSeq(@, 1, IF Len(@) < MaxPips THEN Len(@) ELSE MaxPips)]

\* promote: exchange with a PiP, or replace the last PiP for a client outside.
Promotes(c, p) == p # c.active /\ p \in Loaded(c)
Promote(c, p) ==
  IF ~Promotes(c, p) THEN c
  ELSE IF Contains(c.pips, p)
  THEN [c EXCEPT !.active = p,
                 !.pips = IF c.active = Nobody THEN Retained(@, p)
                          ELSE [i \in DOMAIN @ |-> IF @[i] = p THEN c.active ELSE @[i]]]
  ELSE [c EXCEPT !.active = p,
                 !.pips = IF c.active = Nobody THEN @
                          ELSE IF Len(@) < MaxPips THEN Append(@, c.active)
                          ELSE SubSeq([@ EXCEPT ![MaxPips] = c.active], 1, MaxPips)]

ByNumber(c, S) == {pq \in S \X S : c.number[pq[1]] < c.number[pq[2]]}
ApplyAutoOrder(c) ==
  [c EXCEPT !.pips = Listed(ToSet(c.pips), ByNumber(c, ToSet(c.pips)))]
AutoOrdered(c) == IF autoOrder THEN ApplyAutoOrder(c) ELSE c

\* Contiguous numbers: listed identities by rank, the others by number.
ByPreference(c) ==
  {pq \in Loaded(c) \X Loaded(c) :
     LET mine == Position(Preferred, c.who[pq[1]]) other == Position(Preferred, c.who[pq[2]])
     IN mine < other \/ (mine = other /\ c.number[pq[1]] < c.number[pq[2]])}
ApplyPreferredBoxOrder(c) ==
  IF Preferred = <<>> THEN c
  ELSE [c EXCEPT !.number = [p \in Loaded(c) |->
          Cardinality(Before(Loaded(c), ByPreference(c), p)) + 1]]

\* Renumbered clients are put in order only when a number changed.
Reordered(c) ==
  LET d == ApplyPreferredBoxOrder(c)
  IN IF d.number # c.number THEN AutoOrdered(d) ELSE d

\* reconcile_identity: only an identity that differs from the one last observed
\* replaces what the window shows.
FreshIdentity(c, p) == p \in Loaded(c) /\ shm[p] # Nobody /\ shm[p] # c.observed[p]

\* poll_characters.
WhoObserved(c) ==
  [c EXCEPT !.who = [p \in Pid |-> IF FreshIdentity(c, p) THEN shm[p] ELSE @[p]],
            !.observed = [p \in Pid |-> IF FreshIdentity(c, p) THEN shm[p] ELSE @[p]]]

\* trusik_poll_characters; c is o before the identities were read.
Identified(c, o) == IF o.observed = c.observed THEN c ELSE Reordered(o)

\* cycle_target_pid.  Members follow box_order, then their place in the cycle; one
\* that nobody plays is passed over.
Playing(c, ch) == {p \in Known(c) : c.who[p] = ch}
Players(c) == {CHOOSE p \in Playing(c, ch) : TRUE :
                 ch \in {d \in ToSet(Cycle) : Playing(c, d) # {}}}
InCycleOrder(c) ==
  {pq \in Players(c) \X Players(c) :
     LET a == c.who[pq[1]] b == c.who[pq[2]]
     IN \/ Position(Preferred, a) < Position(Preferred, b)
        \/ Position(Preferred, a) = Position(Preferred, b) /\ Position(Cycle, a) < Position(Cycle, b)}
CycleMembers(c) == Listed(Players(c), InCycleOrder(c))

CycleTarget(c, forward) ==
  LET ms == CycleMembers(c)
      at == {i \in DOMAIN ms : ms[i] = c.active}
      i  == CHOOSE k \in at : TRUE
  IN IF ms = <<>> THEN Nobody
     ELSE IF at = {} THEN IF forward THEN Head(ms) ELSE Last(ms)
     ELSE IF forward THEN ms[(i % Len(ms)) + 1]
     ELSE ms[((i + Len(ms) - 2) % Len(ms)) + 1]

-----------------------------------------------------------------------------
(* What the control API is told *)

Sources(c) == {[pid |-> p, who |-> c.who[p], number |-> c.number[p],
                active |-> p = c.active, activatable |-> p \in Known(c)] : p \in Loaded(c)}

\* Mutant: retired ids pile up.
KeepEvery(s) == s

KeepLast(s) == IF Len(s) > MaxRetired THEN SubSeq(s, Len(s) - MaxRetired + 1, Len(s)) ELSE s

\* SnapshotMapper::map: ids of clients that left are retired, the others keep
\* theirs, new ones get the next.  Which of several gets which is of no account.
MapIds(c) ==
  \E gone \in {SetToSeq(DOMAIN ids \ Loaded(c))}, new \in {SetToSeq(Loaded(c) \ DOMAIN ids)} :
    /\ retired' = KeepLast(retired \o [i \in DOMAIN gone |-> ids[gone[i]]])
    /\ idsMade' = idsMade + Len(new)
    /\ ids' = [p \in Loaded(c) |->
                 IF p \in DOMAIN ids THEN ids[p]
                 ELSE idsMade + CHOOSE i \in DOMAIN new : new[i] = p]

PublishClients(c) == latest' = Sources(c) /\ MapIds(c)
Unpublished == UNCHANGED <<latest, mapperVars>>

\* How every transaction ends.
Commit(c) == clients' = c /\ PublishClients(c) /\ UNCHANGED <<osVars, swap, autoOrder>>

\* A transaction the user asked for.
Edit(c) == edits < MaxEdits /\ edits' = edits + 1 /\ UNCHANGED told /\ Commit(c)

-----------------------------------------------------------------------------
(* Windows and the games *)

Launch(p) ==
  /\ p \notin running \cup Loaded(clients) /\ launched < MaxLaunches
  /\ running' = running \cup {p} /\ launched' = launched + 1
  /\ focus' \in {focus, p}
  /\ shm' = [shm EXCEPT ![p] = Nobody]
  /\ UNCHANGED <<clients, swap, told, autoOrder, latest, mapperVars, edits>>

Exit(p) ==
  /\ p \in running
  /\ running' = running \ {p}
  /\ focus' = IF focus = p THEN Nobody ELSE focus
  /\ UNCHANGED <<shm, launched, clients, swap, told, autoOrder, latest, mapperVars, edits>>

FocusMoves(p) ==
  /\ p \in running \cup {Nobody} /\ p # focus
  /\ focus' = p
  /\ UNCHANGED <<running, shm, launched, clients, swap, told, autoOrder, latest,
                 mapperVars, edits>>

LogIn(p, ch) ==
  /\ p \in running /\ shm[p] = Nobody /\ ch \in Plays[p]
  /\ shm' = [shm EXCEPT ![p] = ch]
  /\ UNCHANGED <<running, focus, launched, clients, swap, told, autoOrder, latest,
                 mapperVars, edits>>

-----------------------------------------------------------------------------
(* Transactions of the overlay *)

\* Mutant: the poll leaves the partition to the foreground events.
ReconciledByEvents(c) == c

\* The client with the focus becomes the active one.
Reconciled(c) == IF Promotes(c, focus) THEN AutoOrdered(Promote(c, focus)) ELSE c

\* handle_foreground_change.  While an activation is under way the event is
\* dropped by the busy gate, which is no step at all.
ForegroundEvent ==
  /\ ~busy
  /\ IF focus \in Loaded(clients)
     THEN Commit(Reconciled(clients)) /\ told' = focus
     ELSE Commit(clients) /\ UNCHANGED told
  /\ UNCHANGED edits

\* poll_inner with the same processes as before.
PollSame ==
  /\ ~busy /\ running = Loaded(clients)
  /\ \E p \in {Reconciled(clients)} : \E o \in {WhoObserved(p)} :
     \E c \in {Identified(p, o)} : Commit(c) /\ told' = c.active   \* update_targets
  /\ UNCHANGED edits

\* The loops of poll_inner over the clients that went and over those that came.
RemoveAll(c, gone) ==
  LET after[i \in 0 .. Len(gone)] == IF i = 0 THEN c ELSE RemoveClient(after[i - 1], gone[i])
  IN after[Len(gone)]
AddAll(c, new) ==
  LET after[i \in 0 .. Len(new)] == IF i = 0 THEN c ELSE Add(after[i - 1], new[i])
  IN after[Len(new)]

\* poll_inner after clients came or went; the sets are walked in any order.
PollChanged ==
  /\ ~busy /\ running # Loaded(clients)
  /\ \E gone \in SetToSeqs(Loaded(clients) \ running),
        new \in SetToSeqs(running \ Loaded(clients)) :
     \E added \in {EnsureActive(AddAll(RemoveAll(clients, gone), new))} :
     \E p \in {Truncated(Reconciled(added))} : \E o \in {WhoObserved(p)} :
     \E i \in {ApplyPreferredBoxOrder(Identified(p, o))} :
     \E c \in {AutoOrdered(i)} : Commit(c) /\ told' = c.active
  /\ UNCHANGED edits

Poll == PollSame \/ PollChanged

\* request_foreground, as seen from outside: it takes the focus to the target, or
\* fails, at worst leaving the focus nowhere.
ForegroundConfirmed(p) == p \in running /\ focus' = p /\ UNCHANGED <<running, shm, launched>>
ForegroundFails == focus' \in {focus, Nobody} /\ UNCHANGED <<running, shm, launched>>

\* activate_pid_inner and swap_to_inner up to the second confirmation.
ActivatePid(p) ==
  /\ ~busy
  /\ p \in Known(clients)
  /\ \/ ForegroundConfirmed(p) /\ p = clients.active /\ UNCHANGED <<clients, swap>>
     \/ /\ ForegroundConfirmed(p) /\ p # clients.active
        /\ swap' = [target |-> p, active |-> clients.active, pips |-> clients.pips]
        /\ clients' = Promote(clients, p)
     \/ ForegroundFails /\ UNCHANGED <<clients, swap>>
  /\ UNCHANGED <<told, autoOrder, edits>> /\ Unpublished

\* The hotkeys and cycles read the registry, the control API what it last was told.
SwapToNumber(n)   == \E p \in Loaded(clients) : clients.number[p] = n /\ ActivatePid(p)
CycleBox(forward) == ActivatePid(CycleTarget(clients, forward))
ActivateOnUi(s)   == s \in latest /\ ActivatePid(s.pid)

ActivationConfirmed ==
  /\ busy /\ ForegroundConfirmed(swap.target)
  /\ clients' = AutoOrdered(clients)
  /\ told' = swap.target
  /\ swap' = NoSwap
  /\ PublishClients(AutoOrdered(clients))
  /\ UNCHANGED <<autoOrder, edits>>

ActivationRolledBack ==
  /\ busy /\ ForegroundFails
  /\ clients' = [clients EXCEPT !.active = swap.active, !.pips = swap.pips]
  /\ swap' = NoSwap
  /\ UNCHANGED <<told, autoOrder, edits>> /\ Unpublished

\* swap_active_window_numbers_inner.
SwapActiveWindowNumbers(p) ==
  /\ ~busy /\ clients.active # Nobody /\ p \in Loaded(clients) \ {clients.active}
  /\ Edit(AutoOrdered([clients EXCEPT !.number[p] = clients.number[clients.active],
                                        !.number[clients.active] = clients.number[p]]))

\* Dropping one PiP on another: under auto-order the numbers are exchanged too.
DragPip(p, q) ==
  /\ ~busy /\ p # q /\ {p, q} \subseteq ToSet(clients.pips)
  /\ LET exchanged == [i \in DOMAIN clients.pips |->
                         CASE clients.pips[i] = p -> q [] clients.pips[i] = q -> p
                           [] OTHER -> clients.pips[i]]
     IN Edit(IF autoOrder
               THEN [clients EXCEPT !.pips = exchanged, !.number[p] = clients.number[q],
                                    !.number[q] = clients.number[p]]
               ELSE [clients EXCEPT !.pips = exchanged])

\* handle_number_assign; the menu offered a number for every client it saw.
HandleNumberAssign(p, n) ==
  /\ ~busy /\ p \in Loaded(clients) /\ n # clients.number[p]
  /\ Edit([clients EXCEPT !.number = [q \in Loaded(clients) |->
               IF q = p THEN n ELSE IF @[q] = n THEN @[p] ELSE @[q]]])

\* handle_char_assign.
HandleCharAssign(p, ch) ==
  /\ ~busy /\ p \in Loaded(clients) /\ ch # clients.who[p]
  /\ Edit(Reordered([clients EXCEPT !.who[p] = ch]))

\* The settings window writes the file; force_rebuild comes with a later message.
SaveSettings ==
  /\ edits < MaxEdits /\ edits' = edits + 1
  /\ autoOrder' = ~autoOrder
  /\ UNCHANGED <<osVars, clients, swap, told, latest, mapperVars>>

ForceRebuild ==
  /\ ~busy
  /\ clients' = AutoOrdered(ApplyPreferredBoxOrder(clients))
  /\ UNCHANGED <<osVars, swap, told, autoOrder, edits>> /\ Unpublished

-----------------------------------------------------------------------------

BoxInit ==
  /\ running = {} /\ focus = Nobody /\ shm = [p \in Pid |-> Nobody]
  /\ clients = [number |-> <<>>, who |-> [p \in Pid |-> Nobody],
                observed |-> [p \in Pid |-> Nobody], active |-> Nobody, pips |-> <<>>]
  /\ swap = NoSwap /\ told = Nobody /\ autoOrder = TRUE
  /\ latest = {} /\ ids = <<>> /\ idsMade = 0 /\ retired = <<>>
  /\ launched = 0 /\ edits = 0

BoxNext ==
  \/ \E p \in Pid : Launch(p) \/ Exit(p) \/ \E ch \in Character : LogIn(p, ch)
  \/ \E p \in Pid \cup {Nobody} : FocusMoves(p)
  \/ ForegroundEvent \/ PollSame \/ PollChanged
  \/ \E n \in 1 .. Cardinality(Pid) : SwapToNumber(n)
  \/ \E forward \in BOOLEAN : CycleBox(forward)
  \/ \E s \in latest : ActivateOnUi(s)
  \/ ActivationConfirmed \/ ActivationRolledBack
  \/ \E p \in Pid : SwapActiveWindowNumbers(p)
  \/ \E p, q \in Pid : DragPip(p, q)
  \/ \E p \in Pid, n \in 1 .. Cardinality(Pid) : HandleNumberAssign(p, n)
  \/ \E p \in Pid, ch \in Character : HandleCharAssign(p, ch)
  \/ SaveSettings \/ ForceRebuild

ActivationEnds == ActivationConfirmed \/ ActivationRolledBack

\* A poll would change nothing.
PollIdle ==
  /\ running = Loaded(clients) /\ DOMAIN ids = Loaded(clients)
  /\ LET p == Reconciled(clients) IN Identified(p, WhoObserved(p)) = clients
  /\ told = clients.active /\ latest = Sources(clients)

BoxSpec == BoxInit /\ [][BoxNext]_boxVars

-----------------------------------------------------------------------------

BoxTypeOK ==
  /\ running \subseteq Pid /\ focus \in Pid \cup {Nobody}
  /\ Loaded(clients) \subseteq Pid /\ clients.active \in Pid \cup {Nobody}
  /\ clients.pips \in Seq(Pid) /\ clients.number \in [Loaded(clients) -> Nat \ {0}]
  /\ told \in Pid \cup {Nobody} /\ Len(retired) <= MaxRetired

\* The partition debug_assert_partition checks, in every state and not only where
\* the assertion stands: PiPs are distinct known clients, the active client is
\* known and no PiP, there are at most MAX_PIPS; and there is an active client, which
\* activation and swapping need, whenever there is a PiP.
PartitionSound ==
  /\ \A i, j \in DOMAIN clients.pips : clients.pips[i] = clients.pips[j] => i = j
  /\ ToSet(clients.pips) \subseteq Loaded(clients)
  /\ Len(clients.pips) <= MaxPips
  /\ clients.active \notin ToSet(clients.pips)
  /\ clients.active \in Loaded(clients) \/ (clients.active = Nobody /\ clients.pips = <<>>)

\* Window numbers stay distinct through every way of assigning them (hotkeys and
\* API targets name a client by number).
NumbersDistinct ==
  \A p, q \in Loaded(clients) : clients.number[p] = clients.number[q] => p = q

\* Between transactions the broadcaster suppresses exactly the client the overlay
\* shows as active, also after a rolled back activation or a lost active client.
BroadcastKnowsActive == ~busy => told = clients.active

\* Client ids last exactly as long as a loaded client: live ones are distinct and
\* none is retired, and no id is dropped before MaxRetired later ones retired.
IdsSound ==
  LET live == {ids[p] : p \in DOMAIN ids} IN
  /\ Cardinality(live) = Cardinality(DOMAIN ids)
  /\ live \cap ToSet(retired) = {} /\ live \subseteq 1 .. idsMade
  /\ LET issued == idsMade - Cardinality(live)
     IN Len(retired) = IF issued < MaxRetired THEN issued ELSE MaxRetired

\* Cycling back undoes cycling on, from every member of the cycle.
CyclesReverse ==
  \A p \in ToSet(CycleMembers(clients)) :
    LET at == Promote(clients, p)
        on == Promote(at, CycleTarget(at, TRUE))
    IN CycleTarget(on, FALSE) = p

\* "skipped callbacks cannot leave the active/PiP partition stale indefinitely"
\* (event_loop.rs): a loaded client that keeps the focus becomes the active one.
ForegroundReconciled ==
  \A p \in Pid : []<>(focus = p /\ p \in Loaded(clients) => clients.active = p)

\* Whatever path renumbered the clients, the API's picture of them catches up.
SnapshotReconciled == []<>(latest = Sources(clients))

\* The overlay, the broadcaster and the API tell the same clients apart, in every
\* state a poll, a swap, an activation or an edit can leave.
ClientSetSound ==
  /\ BoxTypeOK /\ PartitionSound /\ NumbersDistinct
  /\ BroadcastKnowsActive /\ IdsSound /\ CyclesReverse

\* What was skipped while the overlay was busy is made up for.
PictureReconciled == ForegroundReconciled /\ SnapshotReconciled
=============================================================================
