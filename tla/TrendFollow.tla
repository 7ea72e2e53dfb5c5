---------------------------- MODULE TrendFollow ----------------------------
(***************************************************************************)
(* The trend follower between its candles, its orders and the account      *)
(* tracker: TrendFollowStrategy behind its runner.  An entry is one lot; a *)
(* close is reduce-only.  Indicators are abstracted to what a candle tells *)
(* the strategy: which side of its signal the MACD is on, whether momentum *)
(* confirms, and whether the price is through the stop.                    *)
(***************************************************************************)
EXTENDS Integers, Sequences, FiniteSets

CONSTANTS MaxOrders, MaxCandles, MaxTrendRestarts

VARIABLES
  market,           \* the venue's position of the strategy's symbol, in lots
  view,             \* the account tracker's position
  book,             \* the strategy's orders at the venue, by number
  news,             \* order events the runner has not delivered
  mem,              \* the strategy's memory
  candles, reboots,
  loose             \* history: an entry may live or have filled unknown to the
                    \* strategy: it was forgotten, or the tracker is behind

trendVars == <<market, view, book, news, mem, candles, reboots, loose>>

Ids == 1..MaxOrders
NoOrder == [side |-> 0, close |-> FALSE, state |-> "none"]
Sign(n) == IF n > 0 THEN 1 ELSE IF n < 0 THEN -1 ELSE 0

\* Sides are 1 and -1; a stop is on the side of the price that ends the
\* position: below a long, above a short.
Fresh == [on |-> TRUE, status |-> "running", pos |-> 0, stop |-> 0,
          working |-> 0, closing |-> FALSE, pending |-> 0, above |-> 0]

TrendInit ==
  /\ market = 0 /\ view = 0
  /\ book = [i \in Ids |-> NoOrder]
  /\ news = <<>>
  /\ mem = Fresh
  /\ candles = 0 /\ reboots = 0
  /\ loose = FALSE

\* sync_position_from_tracker: flat clears the stop, a position without one
\* gets a stop rebuilt from its entry.
Synced(m) ==
  IF view = 0 THEN [m EXCEPT !.pos = 0, !.stop = 0]
  ELSE [m EXCEPT !.pos = view, !.stop = IF m.stop = 0 THEN -Sign(view) ELSE m.stop]

FreeId == CHOOSE i \in Ids : book[i] = NoOrder
CanOrder == \E i \in Ids : book[i] = NoOrder
Placed(b, side, close) == [b EXCEPT ![FreeId] = [side |-> side, close |-> close, state |-> "live"]]

\* Bug: a resting order does not block a fresh entry.
NeverBlocked(m) == FALSE
Blocked(m) == m.working # 0

\* open_position: a working order blocks a fresh entry; the stop is set before
\* the order is.  A refused order leaves nothing working, a failed submission
\* ends the runner.
Opens(m, side) ==
  IF Blocked(m) THEN mem' = m /\ UNCHANGED <<book, loose>>
  ELSE /\ CanOrder
       /\ \/ /\ book' = Placed(book, side, FALSE)
             /\ mem' = Synced([m EXCEPT !.stop = -side, !.working = FreeId, !.closing = FALSE])
          \/ /\ book' = book
             /\ \E on \in BOOLEAN : mem' = [m EXCEPT !.stop = -side, !.on = on]
       /\ loose' = loose

\* close_position: the working order is cancelled and forgotten whatever the
\* cancel's answer, then a reduce-only market order is sent.
Closes(m, pending) ==
  LET w == m.working
      n == [m EXCEPT !.working = 0, !.closing = FALSE, !.pending = pending]
  IN \E cancelled \in BOOLEAN :
       LET rest == IF cancelled /\ w # 0 /\ book[w].state = "live"
                   THEN [book EXCEPT ![w].state = "cancelled"] ELSE book
       IN /\ CanOrder
          /\ loose' = (loose \/ (w # 0 /\ ~cancelled /\ book[w].state = "live"))
          /\ \/ /\ book' = Placed(rest, -Sign(m.pos), TRUE)
                /\ mem' = Synced([n EXCEPT !.working = FreeId, !.closing = TRUE])
             \/ /\ book' = rest
                /\ \E on \in {m.on, FALSE} : mem' = [Synced(n) EXCEPT !.on = on]

\* What process_candle decides once the indicators are warm.
Signals(m, up, confirmed) ==
  LET crossed == m.above # 0 /\ m.above # up
      n == [m EXCEPT !.above = up]
  IN IF m.pos = 0 /\ m.pending # 0 THEN Opens([n EXCEPT !.pending = 0], m.pending)
     ELSE IF ~crossed \/ ~confirmed \/ m.pos * up > 0
     THEN mem' = n /\ UNCHANGED <<book, loose>>
     ELSE IF m.pos = 0 THEN Opens(n, up) ELSE Closes(n, up)

\* on_event of a completed candle: the stop-loss first, warm or not, paused or
\* not; then the signals.
Candle ==
  /\ mem.on /\ candles < MaxCandles
  /\ candles' = candles + 1
  /\ \E up \in {1, -1}, confirmed, through, warm \in BOOLEAN :
       LET m == Synced(mem) IN
       IF through /\ m.pos # 0 /\ m.stop # 0
       THEN Closes(m, m.pending)
       ELSE IF ~warm \/ m.status = "paused" THEN mem' = m /\ UNCHANGED <<book, loose>>
       ELSE Signals(m, up, confirmed)
  /\ UNCHANGED <<market, view, news, reboots>>

\* on_event of an order's end: only the working order's counts; a close that
\* was not filled drops the queued reversal.
OrderEvent ==
  /\ mem.on /\ news # <<>>
  /\ LET e == Head(news) IN
     mem' = IF e.id # mem.working THEN mem
            ELSE [Synced(mem) EXCEPT !.working = 0, !.closing = FALSE,
                    !.pending = IF mem.closing /\ ~e.filled THEN 0 ELSE mem.pending]
  /\ news' = Tail(news)
  /\ loose' = (loose \/ (Head(news).id = mem.working /\ view # market))
  /\ UNCHANGED <<market, view, book, candles, reboots>>

\* The runner ends: on_stop closes what it holds, unless an order works.
StopRunner ==
  /\ mem.on
  /\ LET m == Synced([mem EXCEPT !.on = FALSE]) IN
     IF m.pos # 0 /\ m.working = 0 THEN Closes(m, m.pending)
     ELSE mem' = m /\ UNCHANGED <<book, loose>>
  /\ UNCHANGED <<market, view, news, candles, reboots>>

SetMode ==
  /\ mem.on
  /\ mem' = [mem EXCEPT !.status = IF mem.status = "paused" THEN "running" ELSE "paused"]
  /\ UNCHANGED <<market, view, book, news, candles, reboots, loose>>

(* The venue and the tracker.                                              *)
Fills(i) ==
  LET o == book[i]
      reduces == market * o.side < 0
      filled == ~o.close \/ reduces
  IN
  /\ o.state = "live"
  /\ market' = IF filled THEN market + o.side ELSE market
  /\ book' = [book EXCEPT ![i].state = IF filled THEN "filled" ELSE "cancelled"]
  /\ news' = Append(news, [id |-> i, filled |-> filled])
  /\ UNCHANGED <<view, mem, candles, reboots, loose>>

\* The tracker learns of fills from the ingestor, the strategy from the
\* engine: in either order.
Observe ==
  /\ view # market
  /\ view' = market
  /\ UNCHANGED <<market, book, news, mem, candles, reboots, loose>>

\* A stopped runner closes its position unless an order works; a process that
\* dies does not.  The next start finds its open orders in the engine's map, which a
\* restart of the process leaves empty.
Kept == CHOOSE i \in Ids : book[i].state = "live"
Reopened(process) ==
  IF process \/ \A i \in Ids : book[i].state # "live" THEN Synced(Fresh)
  ELSE Synced([Fresh EXCEPT !.working = Kept, !.closing = book[Kept].close])

Rebuilt ==
  /\ reboots < MaxTrendRestarts
  /\ reboots' = reboots + 1
  /\ \E process \in BOOLEAN :
       /\ mem' = Reopened(process)
       /\ loose' = (loose \/ view # market \/ (process /\ \E i \in Ids : book[i].state = "live"))
  /\ news' = <<>>
  /\ UNCHANGED <<market, view, book, candles>>

TrendNext ==
  \/ Candle \/ OrderEvent \/ StopRunner \/ SetMode \/ Observe \/ Rebuilt
  \/ \E i \in Ids : Fills(i)

TrendSpec == TrendInit /\ [][TrendNext]_trendVars

---------------------------------------------------------------------------
\* As long as the strategy lost sight of no entry: it never holds more than one
\* entry's worth, and the position it acts on has its stop below a long and
\* above a short.
OneEntryStopped ==
  loose \/ (market \in -1..1 /\ (mem.pos # 0 => mem.stop = -Sign(mem.pos)))

=============================================================================
