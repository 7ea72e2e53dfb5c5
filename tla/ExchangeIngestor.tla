------------------------- MODULE ExchangeIngestor -------------------------
(***************************************************************************)
(* The ingestor of authenticated exchange events and its transactional     *)
(* projector: a bounded live queue that may lose events, the recovery of   *)
(* REST history after durable cursors, one transaction per event behind an *)
(* inbox key, and the live tracker behind the commits.                     *)
(*                                                                         *)
(* An event is identified by its index in `venue`.  Money is abstracted:   *)
(* a fill is one lot bought or sold, every order is for OrderSize lots.    *)
(***************************************************************************)
EXTENDS Integers, Sequences, FiniteSets, OrderStatus

CONSTANTS
  Orders,      \* orders at the venue
  Placed,      \* those with a row written by persist_placement
  QueueCap, PageCap,
  MaxTime, MaxEvents, MaxFaults

OrderSize == 2
Streams == {"orders", "fills", "funding"}
NoRow == [oid |-> FALSE, size |-> 0, filled |-> 0, status |-> NoStatus]

VARIABLES
  now, venue,             \* the venue's clock and history
  queue, lost, live,      \* the live channel, what never came through it, and
                          \* whether anything did
  inbox, cursor, rows, pos, facts, booked,   \* the durable store
  tracker,                \* the in-memory projection
  task,                   \* the consumer: idle, or recovering a stream
  faults

durable == <<inbox, cursor, rows, pos, facts, booked>>
outside == <<now, venue>>
ingestVars == <<now, venue, queue, lost, live, inbox, cursor, rows, pos, facts, booked,
          tracker, task, faults>>

Ids == 1..Len(venue)
Segment(s, start, end) ==
  [stream |-> s, start |-> start, end |-> end, page |-> <<>>, full |-> FALSE]
Idle == Segment("none", 0, 0)
EmptyTracker == [pos |-> 0, applied |-> {}, funding |-> 0]
StreamOf(kind) == CASE kind = "fill" -> "fills" [] kind = "order" -> "orders"
                    [] OTHER -> "funding"
\* startPosition plus the signed size of fill i.
PositionAfter(i) == Cardinality({j \in 1..i : venue[j].val = "buy"})
                    - Cardinality({j \in 1..i : venue[j].val = "sell"})

IngestInit ==
  /\ now = 0 /\ venue = <<>> /\ queue = <<>> /\ lost = {} /\ live = FALSE
  /\ inbox = {} /\ cursor = [s \in Streams |-> 0]
  /\ rows = [o \in Orders |->
       [own |-> IF o \in Placed
                THEN [NoRow EXCEPT !.size = OrderSize, !.status = "Submitted"]
                ELSE NoRow,
        synthetic |-> NoRow]]
  /\ pos = 0 /\ facts = [i \in 1..MaxEvents |-> 0] /\ booked = {}
  /\ tracker = EmptyTracker /\ task = Idle /\ faults = 0

---------------------------------------------------------------------------
(* The venue and the WebSocket callback                                    *)

Tick == /\ now < MaxTime /\ now' = now + 1
        /\ UNCHANGED <<venue, queue, lost, live, durable, tracker, task, faults>>

\* A full or closed channel drops the event and logs it.
Enqueue(q, i) == IF Len(q) < QueueCap THEN Append(q, i) ELSE q

VenueEvent ==
  /\ Len(venue) < MaxEvents
  /\ \E k \in {"fill", "order", "funding"}, o \in Orders, c \in BOOLEAN,
        v \in {"buy", "sell", "Cancelled", "paid"}, up \in BOOLEAN :
       /\ v = CASE k = "fill" -> IF o \in Placed THEN "buy" ELSE "sell"
                [] k = "order" -> "Cancelled"
                [] OTHER -> "paid"
       /\ IF k = "fill" THEN c => o \in Placed ELSE c <=> k = "order" /\ o \in Placed
       /\ k = "order" => now < MaxTime    \* a later window can still end after it
       /\ k = "funding" => o = CHOOSE x \in Orders : TRUE
       /\ venue' = Append(venue, [kind |-> k, order |-> o, val |-> v,
                                  cloid |-> c, time |-> now])
       /\ queue' = IF up THEN Enqueue(queue, Len(venue) + 1) ELSE queue
       /\ lost' = IF Len(queue') > Len(queue) THEN lost
                  ELSE lost \cup {Len(venue) + 1}
  /\ UNCHANGED <<now, live, durable, tracker, task, faults>>

---------------------------------------------------------------------------
(* One transaction per event                                               *)

Exists(r) == r.status # NoStatus

\* The row an event of order o belongs to: the one bound to the venue's id,
\* else the one with the client id if the payload carries it, else a new one.
RowOf(o, known) ==
  IF rows[o].synthetic.oid THEN "synthetic"
  ELSE IF rows[o].own.oid \/ known THEN "own" ELSE "synthetic"

\* The row as find_or_create_order returns it; `size` is the payload's.
Found(r, size) ==
  IF Exists(r) THEN [r EXCEPT !.oid = TRUE]
  ELSE [oid |-> TRUE, size |-> size, filled |-> 0, status |-> "Acknowledged"]

AdvanceCursor(s, t) == [cursor EXCEPT ![s] = IF @ <= t THEN t ELSE @]

\* Bug: events are not claimed, so a replay is processed again.
NeverClaimed(i) == FALSE

Claimed(i) == i \in inbox

\* The live projection of a committed fill, each external id once.
ApplyFill(i) ==
  IF i \in tracker.applied THEN tracker
  ELSE [tracker EXCEPT !.pos = PositionAfter(i), !.applied = @ \cup {i}]

\* The venue is asked for the client id of a fill only when the payload has
\* none and its order is not bound yet; the lookup may fail.
LookedUp(i, found) ==
  found => /\ ~venue[i].cloid
           /\ ~rows[venue[i].order].own.oid /\ ~rows[venue[i].order].synthetic.oid

CommitFill(i, found) ==
  LET e == venue[i]
      which == RowOf(e.order, e.cloid \/ found)
      r == Found(rows[e.order][which], IF found THEN OrderSize ELSE 1)
      total == IF r.filled + 1 < r.size THEN r.filled + 1 ELSE r.size
  IN /\ rows' = [rows EXCEPT ![e.order][which] =
                   [r EXCEPT !.filled = total,
                             !.status = MergeFill(r.status, total, r.size)]]
     /\ pos' = PositionAfter(i)
     /\ booked' = booked \cup {<<i, which>>}
     /\ tracker' = ApplyFill(i)

\* An order update; the client id of the venue replaces a synthetic one.
Collides(e) == /\ e.cloid /\ RowOf(e.order, e.cloid) = "synthetic"
               /\ Exists(rows[e.order].own)

CommitOrder(i) ==
  LET e == venue[i]
      which == RowOf(e.order, e.cloid)
      r == Found(rows[e.order][which], OrderSize)
      new == [r EXCEPT !.size = OrderSize, !.status = MergeVenue(r.status, e.val)]
  IN /\ ~Collides(e)
     /\ rows' = [rows EXCEPT ![e.order] =
                   IF e.cloid THEN [own |-> new, synthetic |-> NoRow]
                   ELSE [@ EXCEPT ![which] = new]]
     /\ booked' = IF e.cloid /\ which = "synthetic"
                  THEN {<<b[1], IF venue[b[1]].order = e.order THEN "own" ELSE b[2]>> :
                          b \in booked}
                  ELSE booked
     /\ UNCHANGED <<pos, tracker>>

\* A live funding event is committed but not shown to the tracker.
CommitFunding(i, recovering) ==
  /\ tracker' = IF recovering THEN [tracker EXCEPT !.funding = @ + 1] ELSE tracker
  /\ UNCHANGED <<rows, pos, booked>>

Commit(i, recovering) ==
  /\ inbox' = inbox \cup {i}
  /\ facts' = [facts EXCEPT ![i] = @ + 1]
  /\ cursor' = AdvanceCursor(StreamOf(venue[i].kind), venue[i].time)
  /\ \/ /\ venue[i].kind = "fill"
        /\ \E found \in BOOLEAN : LookedUp(i, found) /\ CommitFill(i, found)
     \/ venue[i].kind = "order" /\ CommitOrder(i)
     \/ venue[i].kind = "funding" /\ CommitFunding(i, recovering)

\* The event was ingested before: nothing is written.
Duplicate(i) == Claimed(i) /\ UNCHANGED <<durable, tracker>>

\* The transaction rolls back: a fault, or a client id bound to another row.
Refused(i) ==
  /\ UNCHANGED <<durable, tracker>> /\ ~Claimed(i)
  /\ \/ faults < MaxFaults /\ faults' = faults + 1
     \/ venue[i].kind = "order" /\ Collides(venue[i]) /\ UNCHANGED faults

---------------------------------------------------------------------------
(* The consumer task                                                       *)

\* A live event: a refused one is logged and gone.
Receive ==
  /\ task = Idle /\ queue # <<>>
  /\ queue' = Tail(queue)
  /\ \/ UNCHANGED <<lost, live, faults>> /\ Duplicate(Head(queue))
     \/ /\ ~Claimed(Head(queue)) /\ Commit(Head(queue), FALSE)
        /\ live' = TRUE /\ UNCHANGED <<lost, faults>>
     \/ lost' = lost \cup {Head(queue)} /\ UNCHANGED live /\ Refused(Head(queue))
  /\ UNCHANGED <<outside, task>>

\* Bug: history is read from the cursor's own millisecond on, exclusively.
StartAfterCursor(s) == cursor[s] + 1

StartOf(s) == IF cursor[s] = 0 THEN 0 ELSE cursor[s] - 1

BeginSegment(s, end) == Segment(s, StartOf(s), end)

NextSegment ==
  CASE task.stream = "orders" -> BeginSegment("fills", task.end)
    [] task.stream = "fills"  -> BeginSegment("funding", task.end)
    [] OTHER -> Idle

RecoverStart ==
  /\ task = Idle
  /\ task' = BeginSegment("orders", now)
  /\ UNCHANGED <<outside, queue, lost, live, durable, tracker, faults>>

\* The events a request of the segment asks for.
InWindow(i) ==
  /\ StreamOf(venue[i].kind) = task.stream
  /\ task.start <= venue[i].time
  /\ IF task.stream = "orders" THEN venue[i].time < task.end
     ELSE venue[i].time <= task.end

\* A page is the oldest of them in the order of their ids (the venue's ids grow
\* with time), as many as fit.
Page(p) ==
  /\ \A k \in DOMAIN p : InWindow(p[k]) /\ \A l \in DOMAIN p : k < l => p[k] < p[l]
  /\ \A i \in Ids : InWindow(i) =>
       \/ \E k \in DOMAIN p : p[k] = i
       \/ Len(p) = PageCap /\ \A k \in DOMAIN p : p[k] < i

\* An empty page ends the segment, as a failed request does.
FetchPage ==
  /\ task # Idle /\ task.page = <<>>
  /\ \/ \E n \in 0..PageCap : \E p \in [1..n -> Ids] :
          /\ Page(p) /\ UNCHANGED faults
          /\ task' = IF n = 0 THEN NextSegment
                     ELSE [task EXCEPT !.page = p, !.full = n = PageCap]
     \/ faults < MaxFaults /\ faults' = faults + 1 /\ task' = NextSegment
  /\ UNCHANGED <<outside, queue, lost, live, durable, tracker>>

\* After the last event of a page: a short page ends the segment, a full one
\* continues at its last time, unless that does not advance.
After(i) ==
  IF Len(task.page) > 1 THEN [task EXCEPT !.page = Tail(@)]
  ELSE IF task.full /\ venue[i].time > task.start
       THEN Segment(task.stream, venue[i].time, task.end)
       ELSE NextSegment

\* Recovery ingests the page in order; a refused event ends the segment.
RecoverEvent ==
  /\ task # Idle /\ task.page # <<>>
  /\ LET i == Head(task.page)
     IN \/ task' = After(i) /\ UNCHANGED faults /\ Duplicate(i)
        \/ task' = After(i) /\ UNCHANGED faults /\ ~Claimed(i) /\ Commit(i, TRUE)
        \/ task' = NextSegment /\ Refused(i)
  /\ UNCHANGED <<outside, queue, lost, live>>

\* The process dies; what the queue held is gone.
Restart ==
  /\ faults < MaxFaults /\ faults' = faults + 1
  /\ lost' = lost \cup {queue[k] : k \in 1..Len(queue)}
  /\ queue' = <<>> /\ tracker' = EmptyTracker /\ task' = Idle
  /\ UNCHANGED <<outside, live, durable>>

IngestNext == \/ Tick \/ VenueEvent \/ Receive \/ RecoverStart \/ FetchPage
              \/ RecoverEvent \/ Restart

IngestSpec == IngestInit /\ [][IngestNext]_ingestVars

---------------------------------------------------------------------------
(* Properties                                                              *)

IngestTypeOK ==
  /\ now \in 0..MaxTime /\ Len(venue) <= MaxEvents
  /\ Len(queue) <= QueueCap /\ lost \subseteq Ids /\ inbox \subseteq Ids
  /\ cursor \in [Streams -> 0..MaxTime] /\ faults \in 0..MaxFaults
  /\ \A o \in Orders, w \in {"own", "synthetic"} :
       /\ rows[o][w].status \in Statuses \cup {NoStatus}
       /\ rows[o][w].filled <= rows[o][w].size

\* WebSocket replays, REST recovery and restarts together write the facts of
\* an event exactly once, on one row per venue order, and a row's fills are
\* those booked on it.
FactsOnce ==
  /\ \A i \in Ids : facts[i] = IF i \in inbox THEN 1 ELSE 0
  /\ \A i \in Ids : Cardinality({b \in booked : b[1] = i})
                     = IF i \in inbox /\ venue[i].kind = "fill" THEN 1 ELSE 0
  /\ \A o \in Orders :
       /\ ~(rows[o].own.oid /\ rows[o].synthetic.oid)
       /\ \A w \in {"own", "synthetic"} :
            LET n == Cardinality({b \in booked : venue[b[1]].order = o /\ b[2] = w})
            IN rows[o][w].filled <= n /\ (n > 0 => rows[o][w].filled > 0)
  /\ tracker.applied \subseteq inbox

\* Recovery starts one millisecond before the cursor.  An event it will not
\* ask for again was committed, or is one the live path lost: where only
\* recovery writes, a cursor never hides an event.
CursorCovers ==
  \A i \in Ids :
    LET s == StreamOf(venue[i].kind)
    IN venue[i].time < StartOf(s) => i \in inbox \/ (live /\ i \in lost)

\* Every event is committed in the end, unless the live path lost it, its
\* client id belongs to another row, or a full page
\* of events shares one millisecond, which paging cannot get past.
Excused(i) == \/ live /\ i \in lost
              \/ \E j \in Ids : venue[j].kind = "order" /\ Collides(venue[j])
              \/ \E t \in 0..MaxTime :
                   Cardinality({j \in Ids : venue[j].time = t}) >= PageCap

EverythingIngested == []<>(\A i \in Ids : i \in inbox \/ Excused(i))

=============================================================================
