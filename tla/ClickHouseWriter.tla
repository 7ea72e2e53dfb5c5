-------------------------- MODULE ClickHouseWriter --------------------------
(***************************************************************************)
(* The market-data archive: events become rows, once for each natural key, *)
(* a batch is inserted table by table, the rows of a table that fails go   *)
(* to a spool file, and the spool is replayed when the process starts.  An *)
(* insert that times out may have landed all the same.                     *)
(***************************************************************************)
EXTENDS Integers, Sequences, FiniteSets, SequencesExt

CONSTANTS
  Rows, Tables, TableOf(_),
  RowsPerBatch, MaxKeys, SpoolCap, \* rows of a batch, keys of the filter, lines of the spool
  MaxCrashes, MaxErrors, MaxDeliveries \* bounds: crashes, failed inserts, events

VARIABLES
  up,               \* "down", "replay", "run"
  mem,              \* rows buffered
  dedup,            \* DedupFilter: keys in the order they were marked
  work,             \* a flush or a replay under way: tables left, rows, failed
  spool, torn,      \* the file's lines, and whether its last one is torn
  stored,           \* by row: how many times the database holds it
  taken, lost,      \* history: rows accepted, rows given up
  again,            \* history: rows an insert may have stored though it failed
  crashes, errors, deliveries

writerVars == <<up, mem, dedup, work, spool, torn, stored, taken, lost, again,
                crashes, errors, deliveries>>

NoWork == [tables |-> {}, rows |-> {}, failed |-> {}, at |-> "none"]

WriterInit ==
  /\ up = "down" /\ mem = {} /\ dedup = << >> /\ work = NoWork
  /\ spool = << >> /\ torn = FALSE
  /\ stored = [r \in Rows |-> 0]
  /\ taken = {} /\ lost = {} /\ again = {}
  /\ crashes = 0 /\ errors = 0 /\ deliveries = 0

Of(rows, t) == {r \in rows : TableOf(r) = t}
\* Bug: a batch is taken to be of one table.
FirstTable(rows) == {TableOf(CHOOSE r \in rows : TRUE)}

TablesOf(rows) == {TableOf(r) : r \in rows}
\* mark_seen: first in, first out beyond max_keys.
Marked(keys, new) ==
  LET all == keys \o SetToSeq(new \ ToSet(keys)) IN
  SubSeq(all, IF Len(all) > MaxKeys THEN Len(all) - MaxKeys + 1 ELSE 1, Len(all))

----------------------------------------------------------------------------
\* run: DDL, then replay_spool reads the file through the filter.
RunStarts ==
  LET lines == ToSet(spool) IN
  /\ up = "down"
  /\ IF lines = {}
     THEN up' = "run" /\ UNCHANGED <<work, dedup, again>>
     ELSE /\ up' = "replay"
          /\ work' = [tables |-> TablesOf(lines), rows |-> lines, failed |-> {}, at |-> "insert"]
          /\ dedup' = Marked(<< >>, lines)
          /\ again' = again \union (lines \ ToSet(dedup'))
  /\ UNCHANGED <<mem, spool, torn, stored, taken, lost, crashes, errors, deliveries>>

\* enqueue of one event, possibly one delivered before.
Receive(r) ==
  /\ up = "run" /\ work = NoWork /\ Cardinality(mem) < RowsPerBatch
  /\ deliveries < MaxDeliveries /\ deliveries' = deliveries + 1
  /\ IF r \in ToSet(dedup)
     THEN UNCHANGED <<mem, dedup, taken, lost, again>>
     ELSE /\ mem' = mem \union {r} /\ taken' = taken \union {r} /\ lost' = lost \ {r}
          /\ dedup' = Marked(dedup, {r})
          /\ again' = again \union ((ToSet(dedup) \union {r}) \ ToSet(dedup'))
  /\ UNCHANGED <<up, work, spool, torn, stored, crashes, errors>>

\* flush: the batch full, the interval elapsed, or the mailbox closed.
Flush ==
  /\ up = "run" /\ work = NoWork /\ mem # {}
  /\ work' = [tables |-> TablesOf(mem), rows |-> mem, failed |-> {}, at |-> "insert"]
  /\ mem' = {}
  /\ UNCHANGED <<up, dedup, spool, torn, stored, taken, lost, again, crashes, errors, deliveries>>

\* insert_pending of one table's rows, within INSERT_TIMEOUT.
InsertPending(t, how) ==
  LET rows == Of(work.rows, t) IN
  /\ work.at = "insert" /\ t \in work.tables
  /\ IF how = "ok" THEN UNCHANGED errors ELSE errors < MaxErrors /\ errors' = errors + 1
  /\ stored' = [r \in Rows |-> IF r \in rows /\ how # "failed" THEN stored[r] + 1 ELSE stored[r]]
  /\ again' = IF how = "landed" THEN again \union rows ELSE again
  /\ work' = [work EXCEPT !.tables = @ \ {t},
              !.failed = IF how = "ok" THEN @ ELSE @ \union rows,
              !.at = IF work.tables = {t} THEN "end" ELSE @]
  /\ UNCHANGED <<up, mem, dedup, spool, torn, taken, lost, crashes, deliveries>>

\* append_spool: nothing past the cap; the first line after a torn one joins it.
Spool ==
  LET new == SetToSeq(work.failed)
      dropped == Len(spool) + Len(new) > SpoolCap IN
  /\ up = "run" /\ work.at = "end" /\ work' = NoWork
  /\ IF work.failed = {} THEN UNCHANGED <<spool, torn, lost>>
     ELSE IF dropped THEN lost' = lost \union work.failed /\ UNCHANGED <<spool, torn>>
     ELSE /\ spool' = spool \o IF torn THEN Tail(new) ELSE new
          /\ lost' = IF torn THEN lost \union {Head(new)} ELSE lost
          /\ torn' = FALSE
  /\ UNCHANGED <<up, mem, dedup, stored, taken, again, crashes, errors, deliveries>>
\* The file is removed only when every table was written.
ReplayEnds ==
  /\ up = "replay" /\ work.at = "end" /\ work' = NoWork /\ up' = "run"
  /\ IF work.failed = {}
     THEN spool' = << >> /\ torn' = FALSE /\ UNCHANGED again
     ELSE UNCHANGED <<spool, torn>> /\ again' = again \union work.rows
  /\ UNCHANGED <<mem, dedup, stored, taken, lost, crashes, errors, deliveries>>

\* A crash: the buffer, the filter and the batch in hand go; an append under
\* way leaves a prefix of its lines, the last perhaps torn.
Crash(written, tear) ==
  LET new == SetToSeq(work.failed)
      kept == IF up = "run" /\ work.at = "end" /\ Len(spool) + Len(new) <= SpoolCap /\ ~torn
              THEN SubSeq(new, 1, written) ELSE << >> IN
  /\ up # "down" /\ crashes < MaxCrashes /\ crashes' = crashes + 1
  /\ written <= Len(new) /\ (kept = << >> => written = 0 /\ ~tear)
  /\ up' = "down" /\ mem' = {} /\ dedup' = << >> /\ work' = NoWork
  /\ spool' = spool \o IF tear THEN Front(kept) ELSE kept
  /\ torn' = (torn \/ tear)
  /\ lost' = lost \union mem
             \union IF up = "run" THEN work.rows \ ToSet(spool') ELSE {}
  /\ again' = again \union {r \in Rows : stored[r] > 0}
  /\ UNCHANGED <<stored, taken, errors, deliveries>>

WriterStep ==
  \/ RunStarts \/ Flush \/ Spool \/ ReplayEnds
  \/ \E t \in Tables, how \in {"ok", "failed", "landed"} : InsertPending(t, how)
WriterNext ==
  \/ WriterStep
  \/ \E r \in Rows : Receive(r)
  \/ \E n \in 0..RowsPerBatch, tear \in BOOLEAN : Crash(n, tear)

----------------------------------------------------------------------------
\* No accepted row disappears: it is in memory, on the spool, in the database,
\* or was given up to a crash, the spool's cap or a torn line; and a row is
\* stored a second time only after an insert of unknown outcome, a partly
\* failed replay, a crash, or its key's eviction from the filter (flush,
\* append_spool, replay_spool).
ArchiveSound ==
  /\ \A r \in taken :
       \/ r \in mem \union work.rows \union ToSet(spool) \union lost
       \/ stored[r] > 0
  /\ \A r \in Rows : stored[r] > 1 => r \in again
=============================================================================
