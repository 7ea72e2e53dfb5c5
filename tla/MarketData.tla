----------------------------- MODULE MarketData -----------------------------
(***************************************************************************)
(* Market data on its way from the socket to those who read it: the feed's *)
(* frames with their gap checks, the provider's lossy mailbox, its view of *)
(* prices, funding and candles, and the candle requests of the HTTP API.   *)
(* (market_data/ws_feed.rs, market_data/live_provider.rs,                  *)
(* market_data/book.rs)                                                    *)
(*                                                                         *)
(* One symbol and one candle interval.  A price is the time it was stamped *)
(* with; a bar is its open time, 1, 2, ...                                 *)
(***************************************************************************)
EXTENDS Integers, SequencesExt

CONSTANTS
  Capacity,         \* of the provider's mailbox
  MaxSeries,        \* max_candles_per_series
  Requests,         \* callers of the candles endpoint
  Wanted,           \* how many candles they ask for
  LastTime, LastTid, MaxReconnects, MaxFrames

VARIABLES
  now,
  bar,              \* the venue's current bar
  feed,             \* [lastTid, first]: last_tid and the socket's first
  delivered,        \* trades delivered on this socket
  reported,         \* trades the feed reported missing on this socket
  reconnects, frames,
  mailbox,          \* events published to the provider, oldest first
  hand,             \* the event its consumer works on, or Nothing
  mid, book, funding,   \* stamps of the provider's mid and book, funding's time
  series,           \* the candle series, as open times
  seen,             \* bars the consumer has put into the series
  lock,             \* who holds the candles' mutex
  request           \* caller -> "idle", "backfilling", "merging", "failed"

dataVars == <<now, bar, feed, delivered, reported, reconnects, frames,
              mailbox, hand, mid, book, funding, series, seen, lock, request>>
wire == <<bar, feed, delivered, reported, reconnects>>
view == <<mid, book, funding, series, seen>>

Nothing == [kind |-> "nothing", at |-> 0]
NoFeed == [lastTid |-> 0, first |-> 0]
Never == -1

DataInit ==
  /\ now = 0 /\ bar = 2 /\ feed = NoFeed
  /\ delivered = {} /\ reported = {} /\ reconnects = 0 /\ frames = 0
  /\ mailbox = <<>> /\ hand = Nothing
  /\ mid = Never /\ book = Never /\ funding = Never
  /\ series = <<>> /\ seen = {} /\ lock = "free"
  /\ request = [r \in Requests |-> "idle"]

\* publish_sync of an event that may be lost: a full mailbox drops its oldest.
Publish(kind, at) ==
  mailbox' = Append(IF Len(mailbox) >= Capacity THEN Tail(mailbox) ELSE mailbox,
                    [kind |-> kind, at |-> at])

Frame == frames < MaxFrames /\ frames' = frames + 1

---------------------------------------------------------------------------
(* The venue and the feed.                                                 *)

\* Time passes; a bar may end.
Tick == /\ now < LastTime /\ now' = now + 1
        /\ bar' \in {bar, bar + 1}
        /\ UNCHANGED <<feed, delivered, reported, reconnects, frames,
                       mailbox, hand, view, lock, request>>

Missing(t) == IF feed.lastTid > 0 THEN (feed.lastTid + 1)..(t - 1) ELSE {}

\* A trade's frame, after any others were lost or overtaken: a jump past the
\* next identifier is reported as a gap, an older trade leaves the baseline.
HandleTrades ==
  /\ Frame
  /\ \E t \in 1..LastTid \ delivered :
       /\ delivered' = delivered \union {t}
       /\ reported' = reported \union Missing(t)
       /\ feed' = [feed EXCEPT !.lastTid = Max({@, t}),
                               !.first = IF @ = 0 THEN t ELSE @]
  /\ UNCHANGED <<now, bar, reconnects, mailbox, hand, view, lock, request>>

\* A candle of the current bar or of the one before it.
HandleCandle ==
  /\ Frame
  /\ \E b \in {bar - 1, bar} \ {0} : Publish("candle", b)
  /\ UNCHANGED <<now, wire, hand, view, lock, request>>

\* Mids and books are stamped here; a funding frame brings its own time.
HandleAllMids == /\ Frame /\ Publish("mid", now)
                 /\ UNCHANGED <<now, wire, hand, view, lock, request>>
HandleBook == /\ Frame /\ Publish("book", now)
              /\ UNCHANGED <<now, wire, hand, view, lock, request>>
HandleAssetCtx == /\ Frame /\ \E t \in 0..now : Publish("funding", t)
                  /\ UNCHANGED <<now, wire, hand, view, lock, request>>

\* A new socket has no baselines.
OnReconnect ==
  /\ reconnects < MaxReconnects /\ reconnects' = reconnects + 1
  /\ feed' = NoFeed /\ delivered' = {} /\ reported' = {}
  /\ UNCHANGED <<now, bar, frames, mailbox, hand, view, lock, request>>

---------------------------------------------------------------------------
(* The provider's consumer.                                                *)

Take == /\ hand = Nothing /\ mailbox # <<>>
        /\ hand' = Head(mailbox) /\ mailbox' = Tail(mailbox)
        /\ UNCHANGED <<now, wire, frames, view, lock, request>>

\* Insert or replace: ascending, and no longer than the bound.
Upsert(s, b) ==
  IF s # <<>> /\ Last(s) = b THEN s
  ELSE LET all == SetToSortSeq(ToSet(s) \union {b}, <)
           extra == Max({0, Len(all) - MaxSeries})
       IN SubSeq(all, extra + 1, Len(all))

\* Handling the event in hand.  A candle waits for the mutex, and everything
\* behind it waits too.
Handle ==
  /\ hand # Nothing /\ hand' = Nothing
  /\ CASE hand.kind = "mid" ->
            mid' = hand.at /\ UNCHANGED <<book, funding, series, seen>>
       [] hand.kind = "book" ->
            book' = hand.at /\ UNCHANGED <<mid, funding, series, seen>>
       [] hand.kind = "funding" ->
            /\ funding' = Max({funding, hand.at})
            /\ UNCHANGED <<mid, book, series, seen>>
       [] OTHER ->
            /\ lock = "free"
            /\ series' = Upsert(series, hand.at)
            /\ seen' = seen \union {hand.at}
            /\ UNCHANGED <<mid, book, funding>>
  /\ UNCHANGED <<now, wire, frames, mailbox, lock, request>>

---------------------------------------------------------------------------
(* ensure_candles.                                                         *)

\* The series is long enough, or the history is fetched.
AskCandles(r) ==
  /\ request[r] = "idle" /\ lock = "free" /\ Len(series) < Wanted
  /\ request' = [request EXCEPT ![r] = "backfilling"]
  /\ UNCHANGED <<now, wire, frames, mailbox, hand, view, lock>>

BackfillFails(r) ==
  /\ request[r] = "backfilling"
  /\ request' = [request EXCEPT ![r] = "failed"]
  /\ UNCHANGED <<now, wire, frames, mailbox, hand, view, lock>>

\* The history is merged under the mutex, which is still held when the result
\* is read through get_candles, which takes it again.
Merge(r) ==
  /\ request[r] = "backfilling" /\ lock = "free"
  /\ lock' = r
  /\ series' = FoldLeft(Upsert, series, SetToSortSeq(Max({1, bar - Wanted})..bar, <))
  /\ request' = [request EXCEPT ![r] = "merging"]
  /\ UNCHANGED <<now, wire, frames, mailbox, hand, mid, book, funding, seen>>

\* The mutex is not reentrant: the caller waits for itself until its client
\* hangs up.
HangUp(r) ==
  /\ request[r] \in {"backfilling", "merging"}
  /\ request' = [request EXCEPT ![r] = "failed"]
  /\ lock' = IF lock = r THEN "free" ELSE lock
  /\ UNCHANGED <<now, wire, frames, mailbox, hand, view>>

DataNext ==
  \/ Tick \/ HandleTrades \/ HandleCandle \/ HandleAllMids
  \/ HandleBook \/ HandleAssetCtx \/ OnReconnect \/ Take \/ Handle
  \/ \E r \in Requests : AskCandles(r) \/ BackfillFails(r) \/ Merge(r) \/ HangUp(r)

---------------------------------------------------------------------------
(* Properties                                                              *)

\* A trade the venue made between two that reached this socket is delivered or
\* was reported missing, in whatever order the frames came.
GapsReported ==
  (feed.first + 1)..(feed.lastTid - 1) \subseteq delivered \union reported

\* Live candles and the history of a request interleave in any way: the series
\* stays ascending, without repetition and bounded, and never loses the newest
\* candle it was given.
SeriesSound ==
  /\ \A i \in 1..(Len(series) - 1) : series[i] < series[i + 1]
  /\ Len(series) <= MaxSeries
  /\ \A b \in seen : series # <<>> /\ Last(series) >= b

DataSound == GapsReported /\ SeriesSound

\* Through the mailbox, its losses and the waits behind the mutex, what readers
\* see never goes back: prices, books, funding, the newest candle.
ForwardStep ==
  /\ mid' >= mid /\ book' >= book /\ funding' >= funding
  /\ series # <<>> => Last(series') >= Last(series)

=============================================================================
