------------------------------ MODULE AutoType ------------------------------
(***************************************************************************)
(* Auto-typed passwords: the leased key buffer of the shared mapping       *)
(* (crates/trusik-protocol/src/lib.rs), the jobs that type into it, each a *)
(* thread of its own (crates/stonemite/src/auto_type.rs), and the proxy    *)
(* that reads it inside the game (crates/trusik/src/device_proxy.rs).      *)
(*                                                                         *)
(* Every access to shared memory is one step.  A compare-and-swap loop     *)
(* whose outcome depends on the swapped word alone is one step too; the    *)
(* loop of set_auto_type_key, which also reads the lease, is not.  Of a    *)
(* heartbeat only its freshness is kept.  Scan codes are numbers, read in  *)
(* ascending order.                                                        *)
(***************************************************************************)
EXTENDS Naturals, Sequences, FiniteSets, FiniteSetsExt

CONSTANTS
  Job,         \* auto-type jobs for one client
  TypedScan,   \* scan codes
  Shift,       \* the scan code of the Shift key
  Strokes,     \* Job -> sequence of [key, shift]
  Lapses       \* may a live job fail to refresh its lease in time?

ASSUME TypedScanAssumption ==
  TypedScan \subseteq Nat /\ IsFiniteSet(TypedScan) /\ Shift \in TypedScan
ASSUME StrokesAssumption ==
  Strokes \in [Job -> Seq([key : TypedScan \ {Shift}, shift : BOOLEAN]) \ {<<>>}]
ASSUME LapsesAssumption == Lapses \in BOOLEAN

VARIABLES
  generation,  \* auto_type_generation
  lease,       \* auto_type_lease
  akeys,       \* auto_type_keys
  job,         \* the jobs' program counters and locals
  dead,        \* jobs whose process was killed
  jobRd,       \* the poll in progress
  jobObserved, \* BufferedKeyboardState.observed_keys
  typed        \* history: the keys pressed for the game, each with whether
               \* Shift was down for the game then

jobVars == <<generation, lease, akeys, job, dead, jobRd, jobObserved, typed>>

NoLease == [gen |-> 0, fresh |-> FALSE]
NoPoll  == [pc |-> "idle", gen |-> 0, left |-> {}, keys |-> {}, ahead |-> FALSE]

JobsInit ==
  /\ generation = 0
  /\ lease = NoLease
  /\ akeys = [k \in TypedScan |-> [gen |-> 0, down |-> FALSE]]
  /\ job = [j \in Job |-> [pc |-> "wait", gen |-> 0, stroke |-> 1, step |-> 0,
                           cur |-> [gen |-> 0, down |-> FALSE]]]
  /\ dead = {}
  /\ jobRd = NoPoll
  /\ jobObserved = {}
  /\ typed = {}

----------------------------------------------------------------------------
(* What a job does.                                                        *)

Set(k, d) == [op |-> "set", key |-> k, down |-> d]
Sleep     == [op |-> "sleep"]

\* press_scancode()
PressScancode(s) ==
  IF s.shift
  THEN <<Set(Shift, TRUE), Set(s.key, TRUE), Sleep,
         Set(s.key, FALSE), Set(Shift, FALSE), Sleep>>
  ELSE <<Set(s.key, TRUE), Sleep, Set(s.key, FALSE), Sleep>>

\* type_password(): a first sleep, then the strokes.
Op(i, j) == IF i.step = 0 THEN Sleep ELSE PressScancode(Strokes[j][i.stroke])[i.step]

LastStep(i, j) == i.step = Len(PressScancode(Strokes[j][i.stroke]))

Advance(i, j) ==
  IF i.step = 0 \/ ~LastStep(i, j) THEN [i EXCEPT !.pc = "do", !.step = @ + 1]
  ELSE IF i.stroke = Len(Strokes[j]) THEN [i EXCEPT !.pc = "retire"]
  ELSE [i EXCEPT !.pc = "do", !.stroke = @ + 1, !.step = 1]

JobGoes(j, pc) == job' = [job EXCEPT ![j].pc = pc]

At(j, pc) == j \notin dead /\ job[j].pc = pc

readVars == <<jobObserved, typed>>

\* A heartbeat written after the poll in progress took its time may lie in
\* that poll's future.
Heartbeat ==
  \/ jobRd' = jobRd
  \/ jobRd.pc = "sampled" /\ jobRd' = [jobRd EXCEPT !.ahead = TRUE]

\* wait_for_di_ready() fails, or start() takes the next generation.
GiveUp(j) ==
  /\ At(j, "wait")
  /\ JobGoes(j, "done")
  /\ UNCHANGED <<generation, lease, akeys, dead, jobRd, readVars>>

TakeGeneration(j) ==
  /\ At(j, "wait")
  /\ generation' = generation + 1
  /\ job' = [job EXCEPT ![j].pc = "begin", ![j].gen = generation + 1]
  /\ UNCHANGED <<lease, akeys, dead, jobRd, readVars>>

\* begin_auto_type(): the lease goes to the newest generation that asks.
LeaseAfterBegin(g) == IF lease.gen >= g THEN lease ELSE [gen |-> g, fresh |-> TRUE]

BeginAutoType(j) ==
  /\ At(j, "begin")
  /\ lease' = LeaseAfterBegin(job[j].gen)
  /\ JobGoes(j, "do")
  /\ Heartbeat
  /\ UNCHANGED <<generation, akeys, dead, readVars>>

\* refresh_auto_type_lease(): the job goes on, to next, while it has the lease,
\* be it stale.
HasLease(g) == lease.gen = g

RefreshAutoTypeLease(j, next) ==
  /\ IF HasLease(job[j].gen)
     THEN /\ lease' = [lease EXCEPT !.fresh = TRUE]
          /\ job' = [job EXCEPT ![j] = next]
          /\ Heartbeat
     ELSE JobGoes(j, "retire") /\ UNCHANGED <<lease, jobRd>>
  /\ UNCHANGED <<generation, akeys, dead, readVars>>

\* AutoTypeSession::sleep() refreshes the lease at least once.
SleepOn(j) ==
  /\ At(j, "do") /\ Op(job[j], j) = Sleep
  /\ RefreshAutoTypeLease(j, job[j])

WakeUp(j) ==
  /\ At(j, "do") /\ Op(job[j], j) = Sleep
  /\ RefreshAutoTypeLease(j, Advance(job[j], j))

\* set_auto_type_key(): load the key, check the lease, swap, check again.
LoadWord(j) ==
  /\ At(j, "do") /\ Op(job[j], j) # Sleep
  /\ job' = [job EXCEPT ![j].pc = "check", ![j].cur = akeys[Op(job[j], j).key]]
  /\ UNCHANGED <<generation, lease, akeys, dead, jobRd, readVars>>

MaySet(i) == lease.gen = i.gen /\ i.cur.gen <= i.gen

CheckLease(j) ==
  /\ At(j, "check")
  /\ JobGoes(j, IF MaySet(job[j]) THEN "swap" ELSE "retire")
  /\ UNCHANGED <<generation, lease, akeys, dead, jobRd, readVars>>

\* Mutant: a store instead of the compare-and-swap.
SwapBlindly(i, k) == TRUE

\* The compare-and-swap, and what it compares with.
SwapSucceeds(i, k) == akeys[k] = i.cur

SwapKey(j) ==
  LET i == job[j]
      o == Op(i, j)
      swaps == SwapSucceeds(i, o.key)
  IN  /\ At(j, "swap")
      /\ akeys' = IF swaps THEN [akeys EXCEPT ![o.key] = [gen |-> i.gen, down |-> o.down]] ELSE akeys
      /\ job' = IF swaps THEN [job EXCEPT ![j].pc = "recheck"]
                ELSE [job EXCEPT ![j].pc = "check", ![j].cur = akeys[o.key]]
      /\ UNCHANGED <<generation, lease, dead, jobRd, readVars>>

RecheckLease(j) ==
  /\ At(j, "recheck")
  /\ JobGoes(j, IF lease.gen = job[j].gen THEN "refresh" ELSE "retire")
  /\ UNCHANGED <<generation, lease, akeys, dead, jobRd, readVars>>

RefreshAfterSet(j) ==
  /\ At(j, "refresh")
  /\ RefreshAutoTypeLease(j, Advance(job[j], j))

\* retire_auto_type(), when the session is dropped at the end or on an error.
LeaseAfterRetire(g) == IF lease.gen = g THEN NoLease ELSE lease

RetireAutoType(j) ==
  /\ At(j, "retire")
  /\ lease' = LeaseAfterRetire(job[j].gen)
  /\ JobGoes(j, "done")
  /\ UNCHANGED <<generation, akeys, dead, jobRd, readVars>>

JobStep(j) ==
  \/ TakeGeneration(j)
  \/ BeginAutoType(j)
  \/ WakeUp(j)
  \/ LoadWord(j)
  \/ CheckLease(j)
  \/ SwapKey(j)
  \/ RecheckLease(j)
  \/ RefreshAfterSet(j)
  \/ RetireAutoType(j)

\* Stonemite is killed: its jobs vanish without retiring anything.
KillJob(j) ==
  /\ j \notin dead
  /\ job[j].pc # "done"
  /\ dead' = dead \cup {j}
  /\ UNCHANGED <<generation, lease, akeys, job, jobRd, readVars>>

\* HEARTBEAT_TIMEOUT_MS pass without a refresh.
LeaseLapses ==
  /\ lease.fresh
  /\ Lapses \/ \A j \in Job \ dead : job[j].gen # lease.gen
  /\ lease' = [lease EXCEPT !.fresh = FALSE]
  /\ UNCHANGED <<generation, akeys, job, dead, jobRd, readVars>>

----------------------------------------------------------------------------
(* A poll of the game: GetDeviceData() reads the key levels and queues an  *)
(* event for each difference, in scan-code order.                          *)

\* Whether Shift is down for the game when the press of k is queued.
ShiftSeen(k, keys) == Shift \in IF k > Shift THEN keys ELSE jobObserved

\* BufferedKeyboardState::observe()
ObserveTyped(keys) ==
  LET new == keys \ (jobObserved \cup {Shift})
  IN  /\ jobObserved' = keys
      /\ typed' = typed \cup {[key |-> k, shift |-> ShiftSeen(k, keys)] : k \in new}
      /\ jobRd' = NoPoll

\* with_state() takes the time, then read_effective_keys() loads the lease.
SampleTime ==
  /\ jobRd.pc = "idle"
  /\ jobRd' = [jobRd EXCEPT !.pc = "sampled"]
  /\ UNCHANGED <<generation, lease, akeys, job, dead, readVars>>

\* Mutant: the age of the lease does not matter.
LeaseIsHeld == lease.gen # 0

\* heartbeat_is_fresh(): a heartbeat in the future wraps around to an age past
\* the limit.
LeaseIsFresh == lease.gen # 0 /\ lease.fresh /\ ~jobRd.ahead

LoadLease ==
  /\ jobRd.pc = "sampled"
  /\ IF LeaseIsFresh
     THEN /\ jobRd' = [jobRd EXCEPT !.pc = "keys", !.gen = lease.gen, !.left = TypedScan]
          /\ UNCHANGED readVars
     ELSE ObserveTyped({})
  /\ UNCHANGED <<generation, lease, akeys, job, dead>>

ReadKey ==
  LET k == Min(jobRd.left)
  IN  /\ jobRd.pc = "keys"
      /\ jobRd.left # {}
      /\ jobRd' = [jobRd EXCEPT !.left = @ \ {k},
                             !.keys = IF akeys[k] = [gen |-> jobRd.gen, down |-> TRUE]
                                      THEN @ \cup {k} ELSE @]
      /\ UNCHANGED <<generation, lease, akeys, job, dead, readVars>>

\* A snapshot is dropped when a newer owner started meanwhile.
Snapshot == IF lease.gen = jobRd.gen THEN jobRd.keys ELSE {}

EndRead ==
  /\ jobRd.pc = "keys"
  /\ jobRd.left = {}
  /\ ObserveTyped(Snapshot)
  /\ UNCHANGED <<generation, lease, akeys, job, dead>>

TypedPoll == SampleTime \/ LoadLease \/ ReadKey \/ EndRead

JobsNext ==
  \/ \E j \in Job : JobStep(j) \/ GiveUp(j) \/ SleepOn(j) \/ KillJob(j)
  \/ LeaseLapses
  \/ TypedPoll

JobsSpec == JobsInit /\ [][JobsNext]_jobVars

----------------------------------------------------------------------------
(* Properties.                                                             *)

Key == [gen : Nat, down : BOOLEAN]

\* Every variable has its type.
JobsTypeOK ==
  /\ generation \in Nat
  /\ lease \in [gen : Nat, fresh : BOOLEAN]
  /\ akeys \in [TypedScan -> Key]
  /\ job \in [Job -> [pc : {"wait", "begin", "do", "check", "swap", "recheck",
                            "refresh", "retire", "done"},
                      gen : Nat, stroke : Nat, step : Nat, cur : Key]]
  /\ \A j \in Job : /\ job[j].stroke \in DOMAIN Strokes[j]
                     /\ job[j].step \in 0..Len(PressScancode(Strokes[j][job[j].stroke]))
  /\ dead \subseteq Job
  /\ jobRd \in [pc : {"idle", "sampled", "keys"}, gen : Nat, left : SUBSET TypedScan,
                keys : SUBSET TypedScan, ahead : BOOLEAN]
  /\ jobObserved \subseteq TypedScan
  /\ typed \subseteq [key : TypedScan, shift : BOOLEAN]

\* The keys the buffer shows as down under its present lease.
Visible == {k \in TypedScan : lease.gen # 0 /\ akeys[k] = [gen |-> lease.gen, down |-> TRUE]}

\* The keys of its stroke job j has put down.
Done(i) == IF i.pc \in {"recheck", "refresh"} THEN i.step ELSE i.step - 1

HeldBy(j) ==
  LET i == job[j]
      ops == PressScancode(Strokes[j][i.stroke])
  IN  IF i.step = 0 THEN {}
      ELSE {k \in TypedScan : \E n \in 1..Done(i) :
              ops[n] = Set(k, TRUE) /\ \A m \in n..Done(i) : ops[m] # Set(k, FALSE)}

\* While a job types under the lease, the buffer shows exactly the keys this
\* job has down: no key of an earlier job is left, none of its own is lost.
OwnersKeysVisible ==
  \A j \in Job : job[j].pc \in {"do", "check", "swap", "recheck", "refresh"} /\ job[j].gen = lease.gen
    => Visible = HeldBy(j)

\* "A newer auto-type job can supersede this one without an older thread
\* clearing or writing the newer owner's keys": no step of an older job takes
\* the lease or changes a key the newer owner shows.
OldJobsHarmless ==
  [][\A j \in Job : job'[j] # job[j] /\ job[j].gen \in 1..(lease.gen - 1)
       => lease' = lease /\ Visible' = Visible]_jobVars

\* A key is never written back to an older owner, not even by a job that gets
\* the lease after a newer one has retired.
StampsNeverFall == [][\A k \in TypedScan : akeys'[k].gen >= akeys[k].gen]_jobVars

\* A live job stops typing before its end only when a newer one has started.
StopsOnlyIfSuperseded ==
  [][\A j \in Job : /\ job[j].pc \in {"do", "check", "swap", "recheck", "refresh"}
                    /\ job'[j].pc = "retire"
                    /\ ~(job[j].stroke = Len(Strokes[j]) /\ LastStep(job[j], j))
       => job[j].gen < generation]_jobVars

\* What no step of two overlapping jobs may do.
JobStepsSound == OldJobsHarmless /\ StampsNeverFall /\ StopsOnlyIfSuperseded

\* However auto-type jobs overlap, each key belongs to the newest of them
\* (set_auto_type_key, begin and end of the lease).
AutoTypeSound == [](JobsTypeOK /\ OwnersKeysVisible) /\ JobStepsSound

\* However the jobs interleave, end or are killed, the game is in the end left
\* with no auto-typed key down.
GameLetsGo == <>[](jobObserved = {})

\* press_scancode(): "Press and release a scan code, optionally with Shift
\* held": a key whose stroke asks for Shift reaches the game with Shift down.
ShiftHeld ==
  \A t \in typed : t.shift \/ \E j \in Job : \E n \in DOMAIN Strokes[j] :
    Strokes[j][n] = [key |-> t.key, shift |-> FALSE]
=============================================================================
