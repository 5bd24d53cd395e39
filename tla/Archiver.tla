------------------------------ MODULE Archiver ------------------------------
(***************************************************************************)
(* The trade archiver (internal/archive, the local-file variant main      *)
(* starts when ArchiveDir is set) beside the trade writers that insert    *)
(* trades and the retention pruner (persist/retention.go) that deletes    *)
(* old ones from the same collection.                                     *)
(*                                                                         *)
(* Time is a small integer clock; a day is DayLen ticks.  A trade is      *)
(* (id, executed_at); SaveTrade stamps executed_at with the current time. *)
(* An archive file holds a set of trades under its day; its size, for     *)
(* rotate, is the number of trades in it.  Every Mongo call and every file *)
(* operation may fail, and the archiver process may restart at any point, *)
(* losing its cycle but not the cursor, the files or the collection.      *)
(*                                                                         *)
(* archiver.go holds two builds of package archive: the local-file        *)
(* Archiver (lines 1-254) and the S3 Glacier one (lines 255-480).  Their  *)
(* cycles are the same code but for the upload, PutObject to the day's    *)
(* key in place of writeBatch, and the S3 one has no rotate.  `backend`   *)
(* is the build, fixed for the whole behaviour; `files` is then the       *)
(* directory or the bucket.                                                *)
(***************************************************************************)
EXTENDS Naturals, FiniteSets, FiniteSetsExt

CONSTANTS
  DayLen,      \* ticks per day
  MaxAge,      \* ArchiveAfterHours, in ticks
  RetAge,      \* TradeRetentionDays, in ticks
  MaxBytes,    \* ArchiveMaxGB, as a number of archived trades
  MaxTime,     \* bound: the last tick
  MaxTrades    \* bound: trades inserted

ASSUME DayLen > 0 /\ MaxAge > 0 /\ RetAge > 0

VARIABLES
  now,        \* time.Now()
  nextId,     \* match numbers handed out so far
  trades,     \* the trades collection
  cursor,     \* sim_state archive_cursor (0: no document, the zero time)
  files,      \* day -> trades of dir/trades/<day>.jsonl.gz
  phase,      \* "idle" between cycles, "batches" inside cycle's loop
  cutoff,     \* the running cycle's cutoff
  batches,    \* the running cycle's groupByDay result still to archive
  archived,   \* ghost: trades deleteBatch removed after writeBatch
  rotated,    \* ghost: trades whose file rotate removed
  backend     \* "local" or "s3": which Archiver was built

vars == <<now, nextId, trades, cursor, files, phase, cutoff, batches,
          archived, rotated, backend>>

Days == 0..(MaxTime \div DayLen)
Trade == [id : 1..MaxTrades, at : 0..MaxTime]
Day(t) == t.at \div DayLen

\* A tick of the clock.
Advance ==
  /\ now < MaxTime
  /\ now' = now + 1
  /\ UNCHANGED <<nextId, trades, cursor, files, phase, cutoff, batches,
                 archived, rotated, backend>>

\* tradeWriter: SaveTrade inserts the trade with executed_at = time.Now().
Insert ==
  /\ nextId < MaxTrades
  /\ nextId' = nextId + 1
  /\ trades' = trades \cup {[id |-> nextId + 1, at |-> now]}
  /\ UNCHANGED <<now, cursor, files, phase, cutoff, batches, archived, rotated, backend>>

\* prune: DeleteMany executed_at < now - retention.  A failed call changes
\* nothing and is not a step.
Prune ==
  /\ trades' = {t \in trades : ~(t.at < now - RetAge)}
  /\ UNCHANGED <<now, nextId, cursor, files, phase, cutoff, batches,
                 archived, rotated, backend>>

(***************************************************************************)
(* cycle, up to the loop: loadCursor, cutoff, the early return when the   *)
(* cursor has caught up, queryTrades over [cursor, cutoff), and either    *)
(* saveCursor for an empty result or groupByDay.  A failed loadCursor or  *)
(* query returns with no change and is not a step; saveCursor's error is  *)
(* logged and leaves the cursor where it was.                             *)
(***************************************************************************)
\* Mutation: the query's upper bound is $lte in place of $lt.
QueryTradesInclusive(from, to) == {t \in trades : from <= t.at /\ t.at <= to}

\* queryTrades: the trades with cursor <= executed_at < cutoff.
QueryTrades(from, to) == {t \in trades : from <= t.at /\ t.at < to}

GroupByDay(ts) == [d \in {Day(t) : t \in ts} |-> {t \in ts : Day(t) = d}]

\* Mutation: no early return when the cursor has caught up with the cutoff.
CycleStartNoCatchUp ==
  /\ phase = "idle"
  /\ LET cut == now - MaxAge
         found == QueryTrades(cursor, cut)
     IN IF found = {}
          THEN /\ cursor' \in {cursor, cut}
               /\ UNCHANGED <<phase, cutoff, batches>>
          ELSE /\ phase' = "batches"
               /\ cutoff' = cut
               /\ batches' = GroupByDay(found)
               /\ UNCHANGED cursor
  /\ UNCHANGED <<now, nextId, trades, files, archived, rotated, backend>>

CycleStart ==
  /\ phase = "idle"
  /\ cursor < now - MaxAge
  /\ LET cut == now - MaxAge
         found == QueryTrades(cursor, cut)
     IN IF found = {}
          THEN /\ cursor' \in {cursor, cut}
               /\ UNCHANGED <<phase, cutoff, batches>>
          ELSE /\ phase' = "batches"
               /\ cutoff' = cut
               /\ batches' = GroupByDay(found)
               /\ UNCHANGED cursor
  /\ UNCHANGED <<now, nextId, trades, files, archived, rotated, backend>>

(***************************************************************************)
(* One iteration of cycle's loop over the batches, in Go's map order (any *)
(* day left).  writeBatch replaces the day's file with this batch; if it  *)
(* fails the cycle returns.  deleteBatch removes the batch's match numbers *)
(* from the collection; if it fails (or the process stops between the two *)
(* calls) the cycle returns with the file written.  A restart of the      *)
(* process inside the loop is a WriteFails: the cycle's state is lost and *)
(* the collection, the cursor document and the files survive; a write   *)
(* cut short may leave the day's file truncated.                          *)
(***************************************************************************)
Rest(d) == [e \in DOMAIN batches \ {d} |-> batches[e]]
NoBatches == [e \in {} |-> {}]

\* Mutation: the cycle saves the cursor on its way out even when a batch
\* failed (a deferred saveCursor).
WriteFailsSaveCursor ==
  \E d \in DOMAIN batches :
    /\ phase = "batches"
    /\ phase' = "idle" /\ batches' = NoBatches /\ cursor' = cutoff
    /\ UNCHANGED <<now, nextId, trades, files, cutoff, archived, rotated, backend>>

\* os.WriteFile truncates the day's file before writing, so a write that
\* fails part way (local build) leaves the earlier file unreadable; a
\* failed PutObject leaves the object as it was.
TruncatedBy(d) ==
  IF backend = "local" THEN {files, [files EXCEPT ![d] = {}]} ELSE {files}

WriteFails ==
  \E d \in DOMAIN batches :
    /\ phase = "batches"
    /\ files' \in TruncatedBy(d)
    /\ phase' = "idle" /\ batches' = NoBatches
    /\ UNCHANGED <<now, nextId, trades, cursor, cutoff, archived, rotated, backend>>

DeleteFails ==
  \E d \in DOMAIN batches :
    /\ phase = "batches"
    /\ files' = [files EXCEPT ![d] = batches[d]]
    /\ phase' = "idle" /\ batches' = NoBatches
    /\ UNCHANGED <<now, nextId, trades, cursor, cutoff, archived, rotated, backend>>

\* Mutation: the loop uploads the day but never calls deleteBatch.
ArchiveDayNoDelete ==
  \E d \in DOMAIN batches :
    /\ phase = "batches"
    /\ files' = [files EXCEPT ![d] = batches[d]]
    /\ batches' = Rest(d)
    /\ UNCHANGED <<now, nextId, trades, cursor, phase, cutoff, archived,
                   rotated, backend>>

ArchiveDay ==
  \E d \in DOMAIN batches :
    /\ phase = "batches"
    /\ files' = [files EXCEPT ![d] = batches[d]]
    /\ trades' = {t \in trades : t.id \notin {b.id : b \in batches[d]}}
    /\ archived' = archived \cup (trades \ trades')
    /\ batches' = Rest(d)
    /\ UNCHANGED <<now, nextId, cursor, phase, cutoff, rotated, backend>>

(***************************************************************************)
(* rotate: walk the archive files, and if their total size is above      *)
(* maxBytes remove them oldest first (a day's path sorts chronologically) *)
(* until it is not; a file whose Remove fails is skipped.                 *)
(***************************************************************************)
Total(fs) == MapThenSumSet(LAMBDA d : Cardinality(fs[d]), DOMAIN fs)
FileDays(fs) == {d \in DOMAIN fs : fs[d] # {}}

RECURSIVE RotateLoop(_, _, _)
RotateLoop(fs, ds, failed) ==
  IF ds = {} \/ Total(fs) <= MaxBytes THEN fs
  ELSE LET d == Min(ds) IN
         IF d \in failed THEN RotateLoop(fs, ds \ {d}, failed)
         ELSE RotateLoop([fs EXCEPT ![d] = {}], ds \ {d}, failed)

\* The loop has run over every day: saveCursor (its error leaves the cursor
\* as it was), then rotate.
CycleEnd ==
  /\ backend = "local"
  /\ phase = "batches" /\ DOMAIN batches = {}
  /\ cursor' \in {cursor, cutoff}
  /\ \E failed \in SUBSET FileDays(files) :
       LET fs == RotateLoop(files, FileDays(files), failed) IN
         /\ files' = fs
         /\ rotated' = rotated \cup UNION {files[d] \ fs[d] : d \in Days}
  /\ phase' = "idle"
  /\ UNCHANGED <<now, nextId, trades, cutoff, batches, archived, backend>>

\* The S3 build's cycle after its loop: saveCursor only, no rotate.
S3CycleEnd ==
  /\ backend = "s3"
  /\ phase = "batches" /\ DOMAIN batches = {}
  /\ cursor' \in {cursor, cutoff}
  /\ phase' = "idle"
  /\ UNCHANGED <<now, nextId, trades, files, cutoff, batches, archived,
                 rotated, backend>>

Init ==
  /\ now = 0
  /\ nextId = 0
  /\ trades = {}
  /\ cursor = 0
  /\ files = [d \in Days |-> {}]
  /\ phase = "idle"
  /\ cutoff = 0
  /\ batches = NoBatches
  /\ archived = {}
  /\ rotated = {}
  /\ backend \in {"local", "s3"}

Next ==
  \/ Advance \/ Insert \/ Prune
  \/ CycleStart \/ WriteFails \/ DeleteFails \/ ArchiveDay
  \/ CycleEnd \/ S3CycleEnd

Spec == Init /\ [][Next]_vars

(***************************************************************************)
(* Fairness.  The clock runs, and Run's ticker calls cycle every interval *)
(* for as long as the process lives (WF on Advance and CycleStart).  The *)
(* code after the loop never blocks (WF on the two cycle ends).  Every    *)
(* upload and delete may fail, and the code's answer is to retry at the   *)
(* next tick; that only helps if the store and the disk answer now and   *)
(* then, which is the assumption SF on ArchiveDay states: a day that      *)
(* keeps being tried is eventually uploaded and deleted.                  *)
(***************************************************************************)
Fairness ==
  /\ WF_vars(Advance) /\ WF_vars(CycleStart)
  /\ WF_vars(CycleEnd) /\ WF_vars(S3CycleEnd)
  /\ SF_vars(ArchiveDay)

LiveSpec == Spec /\ Fairness

-----------------------------------------------------------------------------
TypeOK ==
  /\ now \in 0..MaxTime
  /\ nextId \in 0..MaxTrades
  /\ trades \subseteq Trade
  /\ cursor \in 0..MaxTime
  /\ files \in [Days -> SUBSET Trade]
  /\ phase \in {"idle", "batches"}
  /\ cutoff \in 0..MaxTime
  /\ DOMAIN batches \subseteq Days
  /\ \A d \in DOMAIN batches : batches[d] \subseteq Trade
  /\ archived \subseteq Trade
  /\ rotated \subseteq Trade
  /\ backend \in {"local", "s3"}

\* The cursor only moves past trades that have left the collection: every
\* trade still stored is at or after the archive cursor, so the next
\* cycle's query [cursor, cutoff) still finds it.  The cycle saves the
\* cursor only after every day's batch was written and deleted, and SaveTrade
\* stamps new trades with the current time, after any cutoff.
CursorBelowTrades ==
  \A t \in trades : t.at >= cursor

\* Archiver.Run's purpose (archiver.go:20): every trade older than the
\* archive age eventually leaves the collection, whatever cycles failed
\* or were cut short by a restart before: a failed upload or delete leaves
\* the cursor where it was, so the next cycle queries the day again.
TradesEventuallyArchived ==
  \A t \in Trade : (t \in trades /\ t.at < now - MaxAge) ~> (t \notin trades)

\* A trade the archiver deleted from the collection is in an archive file,
\* unless rotate removed the file it was in (the size cap is the one
\* deliberate way archived trades go away).
ArchivedTradesKept ==
  archived \subseteq UNION {files[d] : d \in Days} \cup rotated

\* The archiver, the writers and the pruner together implement the
\* collection's promise (TradeLifecycle): a trade leaves the collection
\* only by retention or by being archived, and the archiver takes only
\* trades older than the archive age.  The cutoff is computed when the
\* cycle starts and deleteBatch runs later, by match number, so this
\* relates the query's bound to the delete across the whole loop.
Lifecycle == INSTANCE TradeLifecycle WITH archive <- archived

ArchiverImplementsLifecycle == Lifecycle!Spec

=============================================================================
