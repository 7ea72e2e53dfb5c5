----------------------------- MODULE RestTraffic -----------------------------
(***************************************************************************)
(* The REST traffic to the venue under one rate limiter: a history         *)
(* backfill that walks forward page by page, an information request with   *)
(* its retries, which may be the quota poll, and the weight of signed      *)
(* actions.  (market_data/rate_limiter.rs, market_data/rest_client.rs,     *)
(* acquire_exchange_weight of execution/engine.rs)                         *)
(*                                                                         *)
(* `clock` counts the seconds an acquire waits for; the bars' times are    *)
(* those of the history and have nothing to do with it.  The pauses before *)
(* a retry and between pages only delay, which any schedule here covers.   *)
(***************************************************************************)
EXTENDS Integers, SequencesExt

CONSTANTS
  Limit, Window,            \* weight allowed per sliding window
  MaxWaits,                 \* one-second waits of an acquire (60)
  SendTimeout,              \* how long a signed action waits for weight
  MaxInfoRetries, MaxFailures,  \* tries of a request; failures in a row of a backfill
  InfoWeight, CandleWeight, PerItem, ExchangeWeight,
  Fresh, Watermark, Quotas, \* age of usable credits, their floor, what is polled
  Interval, BatchSize, LastBar, Starts,  \* the history asked for
  LastTime, MaxCalls        \* bounds on the clock and on calls started

VARIABLES
  clock,
  stamps,           \* the limiter's window: [at, weight], oldest first
  granted,          \* every weight ever granted, for the properties
  info,             \* the information request
  send,             \* the signed action
  back,             \* the backfill
  bars,             \* the times of the rows the venue has
  credits,          \* [remaining, at]: the last quota read, or at = -1
  calls

restVars == <<clock, stamps, granted, info, send, back, bars, credits, calls>>

CeilDiv(a, b) == (a + b - 1) \div b
Weight(s) == FoldLeft(LAMBDA n, e : n + e.weight, 0, s)

---------------------------------------------------------------------------
(* The limiter.                                                            *)

InWindow == SelectSeq(stamps, LAMBDA e : e.at > clock - Window)

\* Bug: the weight to be taken is not counted.
HasAnyRoom(w) == Weight(InWindow) < Limit

HasRoom(w) == Weight(InWindow) + w <= Limit

\* Taking the weight: the check and the entry are under one lock.
Take(w) ==
  /\ HasRoom(w)
  /\ stamps' = Append(InWindow, [at |-> clock, weight |-> w])
  /\ granted' = Append(granted, [at |-> clock, weight |-> w])

\* No room: the window is pruned all the same.
NoRoom(w) == /\ ~HasRoom(w)
             /\ stamps' = InWindow
             /\ UNCHANGED granted

CreditsFresh == credits.at >= 0 /\ clock - credits.at <= Fresh
MayAct == CreditsFresh /\ credits.remaining >= Watermark

---------------------------------------------------------------------------

Idle == [phase |-> "idle", tries |-> 0, waits |-> 0, wake |-> 0]
Due(c) == clock >= c.wake

RestInit ==
  /\ clock = 0 /\ stamps = <<>> /\ granted = <<>> /\ calls = 0
  /\ info = Idle /\ send = Idle
  /\ bars \in SUBSET {k * Interval : k \in 0..(LastBar \div Interval)}
  /\ \E s \in Starts :
       back = [phase |-> "asking", cursor |-> s, start |-> s, pageEnd |-> s,
               failures |-> 0, waits |-> 0, wake |-> 0, rows |-> <<>>]
  /\ credits = [remaining |-> 0, at |-> -1]

Tick == /\ clock < LastTime /\ clock' = clock + 1
        /\ UNCHANGED <<stamps, granted, info, send, back, bars, credits, calls>>

---------------------------------------------------------------------------
(* An information request.                                                 *)

\* One try of a call's acquire: it goes on, sleeps a second, or gives up.
Acquired(c) == [c EXCEPT !.phase = "sent", !.waits = 0, !.wake = 0]
Waited(c) == IF c.waits + 1 > MaxWaits
             THEN [c EXCEPT !.phase = "failed", !.waits = 0, !.wake = 0]
             ELSE [c EXCEPT !.waits = @ + 1, !.wake = clock + 1]

InfoStart ==
  /\ info.phase \in {"idle", "done", "failed"} /\ calls < MaxCalls
  /\ info' = [Idle EXCEPT !.phase = "asking"]
  /\ calls' = calls + 1
  /\ UNCHANGED <<clock, stamps, granted, send, back, bars, credits>>

InfoAcquire ==
  /\ info.phase = "asking" /\ Due(info)
  /\ \/ Take(InfoWeight) /\ info' = Acquired(info)
     \/ NoRoom(InfoWeight) /\ info' = Waited(info)
  /\ UNCHANGED <<clock, send, back, bars, credits, calls>>

\* An answer: data, which the quota poll stores; a status that may be retried
\* or a lost connection; a status or a body that may not.
InfoAnswer ==
  /\ info.phase = "sent"
  /\ \/ /\ info' = [info EXCEPT !.phase = "done"]
        /\ \/ UNCHANGED credits
           \/ \E q \in Quotas : credits' = [remaining |-> q, at |-> clock]
     \/ /\ info' = IF info.tries + 1 >= MaxInfoRetries
                   THEN [info EXCEPT !.phase = "failed"]
                   ELSE [info EXCEPT !.phase = "asking", !.tries = @ + 1]
        /\ UNCHANGED credits
     \/ info' = [info EXCEPT !.phase = "failed"] /\ UNCHANGED credits
  /\ UNCHANGED <<clock, stamps, granted, send, back, bars, calls>>

---------------------------------------------------------------------------
(* A signed action: the acquire runs under a timeout.                      *)

SendStart ==
  /\ send.phase \in {"idle", "done", "failed"} /\ calls < MaxCalls /\ MayAct
  /\ send' = [Idle EXCEPT !.phase = "asking", !.tries = clock]
  /\ calls' = calls + 1
  /\ UNCHANGED <<clock, stamps, granted, info, back, bars, credits>>

SendAcquire ==
  /\ send.phase = "asking" /\ Due(send)
  /\ \/ Take(ExchangeWeight) /\ send' = [Acquired(send) EXCEPT !.phase = "done"]
     \/ NoRoom(ExchangeWeight) /\ send' = Waited(send)
  /\ UNCHANGED <<clock, info, back, bars, credits, calls>>

SendTimesOut ==
  /\ send.phase = "asking" /\ clock >= send.tries + SendTimeout
  /\ send' = [send EXCEPT !.phase = "failed"]
  /\ UNCHANGED <<clock, stamps, granted, info, back, bars, credits, calls>>

---------------------------------------------------------------------------
(* The backfill of candles; that of funding is the same walk.              *)

PageEnd == Min({LastBar, back.cursor + BatchSize * Interval})
Estimated == Max({1, Min({BatchSize, (PageEnd - back.cursor) \div Interval})})
BackWeight == CandleWeight + CeilDiv(Estimated, PerItem)

BackAcquire ==
  /\ back.phase = "asking" /\ Due(back) /\ back.cursor < LastBar
  /\ \/ Take(BackWeight)
        /\ back' = [Acquired(back) EXCEPT !.pageEnd = PageEnd]
     \/ NoRoom(BackWeight) /\ back' = Waited(back)
  /\ UNCHANGED <<clock, info, send, bars, credits, calls>>

BackReachesEnd ==
  /\ back.phase = "asking" /\ back.cursor >= LastBar
  /\ back' = [back EXCEPT !.phase = "done"]
  /\ UNCHANGED <<clock, stamps, granted, info, send, bars, credits, calls>>

\* The venue's page: the rows from the cursor to the page's end, both included.
Page == SetToSortSeq({t \in bars : back.cursor <= t /\ t <= back.pageEnd}, <)

\* An empty page moves the cursor to its end.  A page whose last row is at the
\* cursor ends the walk.
Advance ==
  LET kept == back.rows \o Page IN
  IF Page = <<>>
  THEN IF back.pageEnd >= LastBar THEN [back EXCEPT !.phase = "done", !.failures = 0]
       ELSE [back EXCEPT !.phase = "asking", !.cursor = back.pageEnd,
                         !.failures = 0]
  ELSE IF Last(Page) <= back.cursor
       THEN [back EXCEPT !.phase = "done", !.rows = kept, !.failures = 0]
       ELSE [back EXCEPT !.phase = "asking", !.rows = kept, !.failures = 0,
                         !.cursor = Last(Page) + 1]

BackAnswer ==
  /\ back.phase = "sent"
  /\ \/ back' = Advance
     \/ back' = IF back.failures + 1 >= MaxFailures
                THEN [back EXCEPT !.phase = "failed"]
                ELSE [back EXCEPT !.phase = "asking", !.failures = @ + 1]
     \/ back' = [back EXCEPT !.phase = "failed"]
  /\ UNCHANGED <<clock, stamps, granted, info, send, bars, credits, calls>>

RestNext == \/ Tick \/ InfoStart \/ InfoAcquire \/ InfoAnswer
            \/ SendStart \/ SendAcquire \/ SendTimesOut
            \/ BackAcquire \/ BackReachesEnd \/ BackAnswer

---------------------------------------------------------------------------
\* Whatever three clients ask for at once and however they retry, the weight
\* granted in any window's length of time stays within the venue's limit.
WindowHolds ==
  \A t \in 0..clock :
    Weight(SelectSeq(granted, LAMBDA e : e.at > t - Window /\ e.at <= t)) <= Limit

\* A backfill, over gaps, empty pages and retries, never repeats or skips a
\* row; and when it ends without an error it has them all, unless its first
\* row was alone in its page at the very start it was asked for.
Asked == SetToSortSeq({t \in bars : back.start <= t /\ t <= LastBar}, <)
BackfillExact ==
  /\ IsPrefix(back.rows, Asked)
  /\ back.phase = "done" =>
       \/ back.rows = Asked
       \/ back.rows = <<Last(back.rows)>> /\ Last(back.rows) = back.cursor

RestSound == WindowHolds /\ BackfillExact
=============================================================================
