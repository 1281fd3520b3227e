------------------------------ MODULE LogWorker ------------------------------
(***************************************************************************)
(* The log worker and its two neighbours (log_watcher/mod.rs, watcher.rs,  *)
(* pipeline.rs): the directory watcher's callback leaves hints, the worker *)
(* turns hints and periodic reconciliation into reads, its batches go      *)
(* through a bounded queue to the owner thread, which one posted message   *)
(* at a time wakes, and combat snapshots go through a latest-value mailbox. *)
(*                                                                         *)
(* Lines are named by their place in the order the pipeline was fed: a     *)
(* batch is the run of lines after one place up to another, and LogTail    *)
(* says which lines a read yields.  What due timers of triggers add to the *)
(* output, and the mailbox of their frames, belong to TriggerEngine.       *)
(* Every wait of the worker has a timeout, so the wake-up channel decides  *)
(* only when it looks, and is left out.                                    *)
(***************************************************************************)
EXTENDS Integers, FiniteSets, Sequences, SequencesExt, FiniteSetsExt

CONSTANTS Path,
          ReadLimit,   \* lines one read yields at most
          QueueCap,    \* OUTPUT_QUEUE_CAPACITY
          DrainMax,    \* MAX_UI_DRAIN_BATCHES
          MaxChanged,  \* MAX_PENDING_EVENT_PATHS
          MaxLines,    \* bound: lines the games write
          MaxWorkerFaults,   \* bound: watcher errors
          MaxSyncs     \* bound: changes of the sources

ASSUME LogWorkerBounds ==
  /\ {ReadLimit, QueueCap, DrainMax, MaxChanged} \subseteq Nat \ {0}
  /\ {MaxLines, MaxWorkerFaults, MaxSyncs} \subseteq Nat
  /\ IsFiniteSet(Path)

VARIABLES unread,     \* complete lines of each log past the tailer's offset
          lines, errors, syncs,                       \* counters of the bounds
          changed, force, watcherError,               \* WorkerWake
          desired, sourcesChanged,
          pc, tracked, ready, origin, watching,       \* LogWorker
          reconDue, pendingOutput, deferred,
          queue, posted, messages,                    \* between the threads
          version, pendingSnap, urgent, publishDue, snapshotBox,   \* LogPipeline
          uiPc, shownLines, uiSnap, stop

gameVars  == <<unread, lines, errors, syncs>>
wakeVars  == <<changed, force, watcherError>>
srcVars   == <<desired, sourcesChanged>>
readVars  == <<tracked, ready, origin, watching, reconDue>>
outVars   == <<pendingOutput, deferred, queue>>
postVars  == <<posted, messages>>
snapVars  == <<version, pendingSnap, urgent, publishDue, snapshotBox>>
uiVars    == <<uiPc, shownLines, uiSnap>>
logVars   == <<gameVars, wakeVars, srcVars, pc, readVars, outVars, postVars, snapVars,
               uiVars, stop>>

\* The output of a read that began when `after` lines had been fed.  Diagnostics
\* are a batch without lines.
OwnedBatch(after, n) == [after |-> after, upto |-> after + n]
Batch == [after : Nat, upto : Nat]
NoBatch == <<>>    \* otherwise pendingOutput holds one batch

\* OutputWake::post: at most one message is on its way.
Post == /\ posted' = TRUE
        /\ messages' = IF posted THEN messages ELSE messages + 1

-----------------------------------------------------------------------------
(* The games and the watcher's callback thread *)

\* record_paths.  Too many pending paths become one forced reconciliation.
RecordPath(p) ==
  IF Cardinality(changed) >= MaxChanged
  THEN changed' = {} /\ watcherError' = TRUE /\ force' = TRUE
  ELSE changed' = changed \cup {p} /\ UNCHANGED <<watcherError, force>>

\* A game writes a line, with or without a notification.
WriteLine(p) ==
  /\ lines < MaxLines /\ lines' = lines + 1
  /\ unread' = [unread EXCEPT ![p] = @ + 1]
  /\ \/ watching /\ RecordPath(p)
     \/ UNCHANGED wakeVars
  /\ UNCHANGED <<errors, syncs, srcVars, pc, readVars, outVars, postVars, snapVars, uiVars, stop>>

\* record_watcher_error, and an event without paths (request_reconciliation).
WatcherReports ==
  /\ watching /\ errors < MaxWorkerFaults /\ errors' = errors + 1
  /\ force' = TRUE /\ watcherError' \in {watcherError, TRUE}
  /\ UNCHANGED <<unread, lines, syncs, changed, srcVars, pc, readVars, outVars, postVars,
                 snapVars, uiVars, stop>>

-----------------------------------------------------------------------------
(* The worker's loop *)

\* schedule: a path waits once, and a notification overrides a reconciliation.
Scheduled(r, paths) == r \o SetToSeq(paths \ ToSet(r))
ScheduledAs(o, paths, kind) ==
  [p \in DOMAIN o \cup paths |->
     IF p \in paths /\ (p \notin DOMAIN o \/ kind = "notification") THEN kind ELSE o[p]]

WorkerStops ==
  /\ pc = "top" /\ stop
  /\ pc' = "gone"
  /\ UNCHANGED <<gameVars, wakeVars, srcVars, readVars, outVars, postVars, snapVars, uiVars, stop>>

\* apply_source_changes: a new log starts at its end, a dropped one is forgotten.
ApplySources ==
  /\ pc = "top" /\ ~stop /\ pc' = "collect"
  /\ sourcesChanged' = FALSE
  /\ IF sourcesChanged
     THEN /\ tracked' = desired
          /\ unread' = [p \in Path |-> IF p \in desired \ tracked THEN 0 ELSE unread[p]]
          /\ watching' \in BOOLEAN            \* ensure_watcher may fail
     ELSE UNCHANGED <<tracked, unread, watching>>
  /\ UNCHANGED <<lines, errors, syncs, wakeVars, desired, ready, origin, reconDue, outVars,
                 postVars, snapVars, uiVars, stop>>

CollectWatcherActivity ==
  /\ pc = "collect" /\ pc' = "reconcile"
  /\ changed' = {} /\ watcherError' = FALSE
  /\ watching' = (watching /\ ~watcherError)
  /\ deferred' = (deferred \/ watcherError)
  /\ ready' = Scheduled(ready, changed \cap tracked)
  /\ origin' = ScheduledAs(origin, changed \cap tracked, "notification")
  /\ UNCHANGED <<gameVars, force, srcVars, tracked, reconDue, pendingOutput, queue, postVars,
                 snapVars, uiVars, stop>>

\* Mutant: only the watcher's hints cause a reconciliation.
MaybeReconcileHinted ==
  /\ pc = "reconcile" /\ pc' = "tick"
  /\ force' = FALSE
  /\ IF force
     THEN /\ ready' = Scheduled(ready, tracked)
          /\ origin' = ScheduledAs(origin, tracked, "reconciliation")
     ELSE UNCHANGED <<ready, origin>>
  /\ UNCHANGED <<gameVars, changed, watcherError, srcVars, tracked, watching, reconDue, outVars,
                 postVars, snapVars, uiVars, stop>>

MaybeReconcile ==
  /\ pc = "reconcile" /\ pc' = "tick"
  /\ force' = FALSE
  /\ IF force \/ reconDue
     THEN /\ ready' = Scheduled(ready, tracked)
          /\ origin' = ScheduledAs(origin, tracked, "reconciliation")
          /\ watching' \in {watching, TRUE}   \* ensure_watcher
          /\ reconDue' = FALSE
     ELSE UNCHANGED <<ready, origin, watching, reconDue>>
  /\ UNCHANGED <<gameVars, changed, watcherError, srcVars, tracked, outVars, postVars,
                 snapVars, uiVars, stop>>

\* accept_combat_update with the snapshot v (0: none) of the given urgency.
AcceptUpdate(v, immediate) ==
  LET snap == IF v > 0 THEN v ELSE pendingSnap
      now  == urgent \/ (v > 0 /\ immediate)
  IN IF snap > 0 /\ (now \/ publishDue)
     THEN /\ pendingSnap' = 0 /\ urgent' = FALSE /\ publishDue' = FALSE
          /\ snapshotBox' = snap /\ Post                     \* publish_dps
     ELSE /\ pendingSnap' = snap /\ urgent' = now
          /\ UNCHANGED <<publishDue, snapshotBox, postVars>>

\* pipeline.tick: fights end by the clock too.
WorkerTick ==
  /\ pc = "tick" /\ pc' = "flush"
  /\ UNCHANGED version /\ AcceptUpdate(0, FALSE)
  /\ UNCHANGED <<gameVars, wakeVars, srcVars, readVars, outVars, uiVars, stop>>

\* flush_pending_output, waiting BACKPRESSURE_RETRY when the queue is full.
FlushPendingOutput ==
  /\ pc = "flush"
  /\ \/ /\ pendingOutput = NoBatch
        /\ pc' = "work" /\ UNCHANGED <<pendingOutput, queue, postVars>>
     \/ /\ pendingOutput # NoBatch /\ Len(queue) < QueueCap
        /\ queue' = queue \o pendingOutput /\ pendingOutput' = NoBatch
        /\ Post /\ pc' = "work"
     \/ /\ pendingOutput # NoBatch /\ Len(queue) = QueueCap
        /\ pc' = "top" /\ UNCHANGED <<pendingOutput, queue, postVars>>
  /\ UNCHANGED <<gameVars, wakeVars, srcVars, readVars, deferred, snapVars, uiVars, stop>>

SendDiagnostics ==
  /\ pc = "work" /\ deferred
  /\ pendingOutput' = <<OwnedBatch(version, 0)>> /\ deferred' = FALSE /\ pc' = "top"
  /\ UNCHANGED <<gameVars, wakeVars, srcVars, readVars, queue, postVars, snapVars, uiVars, stop>>

\* pop_work skips what is no longer tracked; process_work_item reads, feeds the
\* pipeline and puts the path back when there is more.
Work ==
  /\ pc = "work" /\ ~deferred
  /\ \E i \in DOMAIN ready :
       LET p    == ready[i]
           n    == Min({unread[p], ReadLimit})
           rest == SubSeq(ready, i + 1, Len(ready))
           kept == [q \in ToSet(rest) |-> origin[q]]
       IN /\ p \in tracked /\ \A j \in 1 .. i - 1 : ready[j] \notin tracked
          /\ unread' = [unread EXCEPT ![p] = @ - n]
          /\ IF unread[p] > n
             THEN /\ ready' = Append(rest, p)
                  /\ origin' = ScheduledAs(kept, {p}, origin[p])
             ELSE ready' = rest /\ origin' = kept
          /\ pendingOutput' = IF n > 0 THEN <<OwnedBatch(version, n)>> ELSE NoBatch
          /\ version' = version + n
          /\ \E immediate \in BOOLEAN :
               AcceptUpdate(IF n > 0 THEN version + n ELSE 0, immediate)
  /\ pc' = "top"
  /\ UNCHANGED <<lines, errors, syncs, wakeVars, srcVars, tracked, watching, reconDue, deferred,
                 queue, uiVars, stop>>

\* Nothing to do: the signal comes or the timeout passes.
Wait ==
  /\ pc = "work" /\ ~deferred /\ \A p \in ToSet(ready) : p \notin tracked
  /\ ready' = <<>> /\ origin' = <<>>
  /\ pc' = "top"
  /\ UNCHANGED <<gameVars, wakeVars, srcVars, tracked, watching, reconDue, outVars, postVars,
                 snapVars, uiVars, stop>>

\* RECONCILIATION_INTERVAL or the 250 ms between snapshots go by.
TimePasses ==
  /\ ~reconDue \/ ~publishDue
  /\ reconDue' = TRUE /\ publishDue' = TRUE
  /\ UNCHANGED <<gameVars, wakeVars, srcVars, pc, tracked, ready, origin, watching, outVars,
                 postVars, version, pendingSnap, urgent, snapshotBox, uiVars, stop>>

-----------------------------------------------------------------------------
(* The owner thread *)

\* replace_sources, last write wins.
ReplaceSources(s) ==
  /\ uiPc = "idle" /\ ~stop /\ s # desired /\ syncs < MaxSyncs
  /\ syncs' = syncs + 1 /\ desired' = s /\ sourcesChanged' = TRUE
  /\ UNCHANGED <<unread, lines, errors, wakeVars, pc, readVars, outVars, postVars, snapVars,
                 uiVars, stop>>

\* WM_LOG_READY: acknowledged before the queue is looked at.  While the overlay is
\* busy the message is posted again, which is no change.
Acknowledge ==
  /\ uiPc = "idle" /\ messages > 0
  /\ messages' = messages - 1
  /\ posted' = (posted /\ stop)
  /\ uiPc' = IF stop THEN "idle" ELSE "drain"
  /\ UNCHANGED <<gameVars, wakeVars, srcVars, pc, readVars, outVars, snapVars, shownLines, uiSnap, stop>>

\* The place in the stream the overlay has come to with the first n batches.
ShownAfter(n) == IF n = 0 THEN shownLines ELSE queue[n].upto

\* Mutant: what one drain leaves behind waits for the next batch.
DrainOnce ==
  /\ uiPc = "drain" /\ uiPc' = "take"
  /\ LET n == Min({DrainMax, Len(queue)}) IN
     /\ shownLines' = ShownAfter(n)
     /\ queue' = SubSeq(queue, n + 1, Len(queue))
  /\ UNCHANGED <<gameVars, wakeVars, srcVars, pc, readVars, pendingOutput, deferred, postVars,
                 snapVars, uiSnap, stop>>

Drain ==
  /\ uiPc = "drain" /\ uiPc' = "take"
  /\ LET n == Min({DrainMax, Len(queue)}) IN
     /\ shownLines' = ShownAfter(n)
     /\ queue' = SubSeq(queue, n + 1, Len(queue))
     /\ IF n = DrainMax THEN Post ELSE UNCHANGED postVars
  /\ UNCHANGED <<gameVars, wakeVars, srcVars, pc, readVars, pendingOutput, deferred, snapVars,
                 uiSnap, stop>>

TakeDpsSnapshot ==
  /\ uiPc = "take" /\ uiPc' = "idle"
  /\ uiSnap' = IF snapshotBox > 0 THEN snapshotBox ELSE uiSnap
  /\ snapshotBox' = 0
  /\ UNCHANGED <<gameVars, wakeVars, srcVars, pc, readVars, outVars, postVars, version,
                 pendingSnap, urgent, publishDue, shownLines, stop>>

\* stop() then joins the worker.
Stop ==
  /\ uiPc = "idle" /\ ~stop
  /\ stop' = TRUE
  /\ UNCHANGED <<gameVars, wakeVars, srcVars, pc, readVars, outVars, postVars, snapVars, uiVars>>

-----------------------------------------------------------------------------

LogInit ==
  /\ unread = [p \in Path |-> 0] /\ lines = 0 /\ errors = 0 /\ syncs = 0
  /\ changed = {} /\ force = FALSE /\ watcherError = FALSE
  /\ desired = {} /\ sourcesChanged = FALSE
  /\ pc = "top" /\ tracked = {} /\ ready = <<>> /\ origin = <<>> /\ watching = FALSE
  /\ reconDue = FALSE /\ pendingOutput = NoBatch /\ deferred = FALSE
  /\ queue = <<>> /\ posted = FALSE /\ messages = 0
  /\ version = 0 /\ pendingSnap = 0 /\ urgent = FALSE /\ publishDue = TRUE /\ snapshotBox = 0
  /\ uiPc = "idle" /\ shownLines = 0 /\ uiSnap = 0 /\ stop = FALSE

WorkerStep == \/ WorkerStops \/ ApplySources \/ CollectWatcherActivity \/ MaybeReconcile
              \/ WorkerTick \/ FlushPendingOutput \/ SendDiagnostics \/ Work \/ Wait
OwnerStep  == Acknowledge \/ Drain \/ TakeDpsSnapshot

LogNext ==
  \/ \E p \in Path : WriteLine(p)
  \/ WatcherReports \/ TimePasses
  \/ WorkerStep \/ OwnerStep \/ Stop
  \/ \E s \in SUBSET Path : ReplaceSources(s)

LogSpec == LogInit /\ [][LogNext]_logVars

-----------------------------------------------------------------------------

LogTypeOK ==
  /\ unread \in [Path -> 0 .. MaxLines] /\ tracked \subseteq Path /\ changed \subseteq Path
  /\ ready \in Seq(Path) /\ {posted, force, stop, reconDue, urgent} \subseteq BOOLEAN
  /\ queue \in Seq(Batch) /\ Len(queue) <= QueueCap
  /\ pendingOutput \in Seq(Batch) /\ Len(pendingOutput) <= 1
  /\ pc \in {"top", "collect", "reconcile", "tick", "flush", "work", "gone"}
  /\ uiPc \in {"idle", "drain", "take"}

\* A path waits for its read once, with an origin of its own.
ReadySound == IsInjective(ready) /\ ToSet(ready) = DOMAIN origin

\* "rather than leaving queued output without a wake-up": whatever the worker and
\* the draining owner thread do meanwhile, a queued batch or a published snapshot
\* has a message on its way or a drain that will still see it.
WakeUpPending ==
  /\ queue # <<>> => messages > 0 \/ uiPc = "drain" \/ stop
  /\ snapshotBox > 0  => messages > 0 \/ uiPc # "idle" \/ stop
  /\ messages <= 1

\* No line is lost, shown twice or overtaken on the way from the pipeline to the
\* overlay: each batch starts where the one before it, or what is shown, ends.
InTransit == queue \o pendingOutput
LinesConserved ==
  /\ \A i \in DOMAIN InTransit :
       /\ InTransit[i].after = IF i = 1 THEN shownLines ELSE InTransit[i - 1].upto
       /\ InTransit[i].upto >= InTransit[i].after
  /\ version = IF InTransit = <<>> THEN shownLines ELSE InTransit[Len(InTransit)].upto

\* "makes filesystem notification loss recoverable": every line of a log that stays
\* tracked is shown, whether or not its notification came and whatever the watcher
\* reported.
LinesShown ==
  <>[](~stop => /\ \A p \in tracked : unread[p] = 0
                /\ queue = <<>> /\ shownLines = version)

\* The overlay ends up with the newest combat snapshot, never an older one last.
NewestSnapshotShown == <>[](~stop => uiSnap = version)

\* stop() returns: the worker leaves its loop even with a full queue nobody drains.
StopJoins == []<>(stop => pc = "gone")

\* The hand-over between the worker and the owner thread loses nothing.
WorkerSound == LogTypeOK /\ ReadySound /\ WakeUpPending /\ LinesConserved

\* What was written is shown, and the worker can always be stopped.
WorkerDelivers == LinesShown /\ NewestSnapshotShown /\ StopJoins
=============================================================================
