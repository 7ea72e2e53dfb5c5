------------------------------- MODULE Replay -------------------------------
(***************************************************************************)
(* The market-maker replay: recorded quotes, cancels, trades, funding and  *)
(* paid actions are played, sorted by their time, against a model of the   *)
(* venue with a latency and a queue ahead of every order; the fills go     *)
(* into an average-cost ledger.                                            *)
(* (backtest/market_maker_replay.rs, backtest/market_maker_metrics.rs)     *)
(*                                                                         *)
(* A behaviour plays one recording event by event; the sort is the order   *)
(* of their times, equal times in any order (the caller's).  Prices are on *)
(* a grid on which averages are whole.                                     *)
(***************************************************************************)
EXTENDS Integers, SequencesExt

CONSTANTS
  OrderIds, QuotePrices, TradePrices, QuoteSizes, TradeSizes,
  Queues,           \* sizes that may be queued ahead of a quote
  Multiplier,       \* the scenario's queue multiplier
  Latency,          \* the scenario's latency
  RebateRate,       \* rebate per unit of notional
  MaxEvents, LastTime

VARIABLES
  time,             \* the time of the last event
  played,           \* events played
  shadow,           \* order id -> the resting order, for the ids quoted
  matched,          \* the fills, in order
  consumed,         \* queue consumed
  traded,           \* the size of all trades
  ledger,           \* [quantity, cost, realized, fees, funding, paid]
  aborted           \* the run returned an error

replayVars == <<time, played, shadow, matched, consumed, traded, ledger, aborted>>

Sides == {"buy", "sell"}
Opposite(d) == IF d = "buy" THEN "sell" ELSE "buy"
Signed(f) == IF f.side = "buy" THEN f.size ELSE -f.size
Abs(n) == IF n < 0 THEN -n ELSE n

---------------------------------------------------------------------------
(* The average-cost ledger.                                                *)

EmptyLedger == [quantity |-> 0, cost |-> 0, realized |-> 0, fees |-> 0,
                funding |-> 0, paid |-> 0]

RecordFill(l, f) ==
  LET q == Signed(f)
      after == l.quantity + q
      fees == l.fees + f.price * f.size * RebateRate
      closing == Min({Abs(l.quantity), f.size})
      direction == IF l.quantity > 0 THEN 1 ELSE -1
  IN IF l.quantity = 0 \/ (l.quantity > 0) = (q > 0)
     THEN [l EXCEPT !.quantity = after, !.fees = fees,
             !.cost = (Abs(l.quantity) * l.cost + f.size * f.price) \div Abs(after)]
     ELSE [l EXCEPT !.quantity = after, !.fees = fees,
             !.realized = l.realized + closing * (f.price - l.cost) * direction,
             !.cost = CASE after = 0 -> 0
                        [] after # 0 /\ (after > 0) = (l.quantity > 0) -> l.cost
                        [] OTHER -> f.price]

\* Closing the ledger at a mark, and the net of its accounting.
Unrealized(l, mark) == IF l.quantity = 0 THEN 0 ELSE l.quantity * (mark - l.cost)
Net(l, mark) == l.realized + Unrealized(l, mark) + l.fees + l.funding - l.paid

---------------------------------------------------------------------------
(* The matching.                                                           *)

Active(o, now) == ~o.cancelled /\ now >= o.activeAt

Eligible(t) ==
  {i \in DOMAIN shadow :
     /\ Active(shadow[i], time')
     /\ shadow[i].side = Opposite(t.side)
     /\ IF shadow[i].side = "buy" THEN shadow[i].price >= t.price
                                  ELSE shadow[i].price <= t.price}

\* First the order active longest, then by identifier; price plays no part.
Before(i, j) ==
  \/ shadow[i].activeAt < shadow[j].activeAt
  \/ shadow[i].activeAt = shadow[j].activeAt /\ i < j

\* One order's turn: the queue ahead of it eats first, then the order.
Turn(st, i) ==
  LET o == st.shadow[i]
      queued == Min({o.queue, st.available})
      size == Min({o.remaining, st.available - queued})
      fill == [id |-> i, side |-> o.side, price |-> o.price, size |-> size,
               at |-> st.now]
  IN [st EXCEPT
        !.shadow[i] = [o EXCEPT !.queue = o.queue - queued,
                                !.remaining = o.remaining - size],
        !.available = st.available - queued - size,
        !.consumed = st.consumed + queued,
        !.matched = IF size = 0 THEN st.matched ELSE Append(st.matched, fill),
        !.ledger = IF size = 0 THEN st.ledger ELSE RecordFill(st.ledger, fill)]

Match(t) ==
  FoldLeft(Turn, [shadow |-> shadow, available |-> t.size, consumed |-> consumed,
                  matched |-> matched, ledger |-> ledger, now |-> time'],
           SetToSortSeq(Eligible(t), Before))

---------------------------------------------------------------------------

ReplayInit ==
  /\ time = 0 /\ played = 0 /\ shadow = <<>> /\ matched = <<>>
  /\ consumed = 0 /\ traded = 0 /\ ledger = EmptyLedger /\ aborted = FALSE

\* The next event of the recording, at a time not before the last one's.
Event == /\ played < MaxEvents /\ ~aborted
         /\ time' \in time..LastTime
         /\ played' = played + 1

\* A quote under the identifier of an order that was not cancelled is an error,
\* even when that order is filled.
Quote ==
  /\ Event
  /\ \E i \in OrderIds, d \in Sides, p \in QuotePrices, n \in QuoteSizes,
        q \in Queues :
       IF i \in DOMAIN shadow /\ ~shadow[i].cancelled
       THEN aborted' = TRUE /\ UNCHANGED shadow
       ELSE /\ shadow' = [j \in DOMAIN shadow \union {i} |->
                            IF j = i
                            THEN [side |-> d, price |-> p, size |-> n,
                                  remaining |-> n, queue |-> q * Multiplier,
                                  activeAt |-> time' + Latency,
                                  cancelled |-> FALSE]
                            ELSE shadow[j]]
            /\ UNCHANGED aborted
  /\ UNCHANGED <<matched, consumed, traded, ledger>>

\* A cancel that precedes the order's activation is ignored.
CancelQuote ==
  /\ Event
  /\ \E i \in DOMAIN shadow :
       shadow' = [shadow EXCEPT ![i].cancelled = @ \/ time' >= shadow[i].activeAt]
  /\ UNCHANGED <<matched, consumed, traded, ledger, aborted>>

Trade ==
  /\ Event
  /\ \E d \in Sides, p \in TradePrices, n \in TradeSizes :
       LET m == Match([side |-> d, price |-> p, size |-> n]) IN
       /\ shadow' = m.shadow /\ matched' = m.matched /\ ledger' = m.ledger
       /\ consumed' = m.consumed
       /\ traded' = traded + n
  /\ UNCHANGED aborted

Fund ==
  /\ Event
  /\ \E a \in {-1, 1} : ledger' = [ledger EXCEPT !.funding = @ + a]
  /\ UNCHANGED <<shadow, matched, consumed, traded, aborted>>

\* A negative cost is an error.
PaidAction ==
  /\ Event
  /\ \E c \in {-1, 1} :
       IF c < 0 THEN aborted' = TRUE /\ UNCHANGED ledger
       ELSE ledger' = [ledger EXCEPT !.paid = @ + c] /\ UNCHANGED aborted
  /\ UNCHANGED <<shadow, matched, consumed, traded>>

ReplayNext == Quote \/ CancelQuote \/ Trade \/ Fund \/ PaidAction

---------------------------------------------------------------------------
\* The accounting's net is the money the fills moved, with rebates, funding and
\* paid actions, plus the inventory at the mark: the identity the ledger
\* promises, through additions, reductions and reversals.
LedgerIdentity ==
  \A mark \in QuotePrices :
    Net(ledger, mark)
      = MapThenSumSet(LAMBDA i : -Signed(matched[i]) * matched[i].price
                                   + RebateRate * matched[i].price * matched[i].size,
                      DOMAIN matched)
        + ledger.funding - ledger.paid
        + mark * MapThenSumSet(LAMBDA i : Signed(matched[i]), DOMAIN matched)

\* Fills and queues take no more than was traded, an order fills no more than
\* its size, and what a trade fills of it is what it lacks.
VolumeConserved ==
  /\ consumed + MapThenSumSet(LAMBDA i : matched[i].size, DOMAIN matched) <= traded
  /\ \A i \in DOMAIN shadow :
       /\ shadow[i].remaining >= 0 /\ shadow[i].queue >= 0
       /\ shadow[i].size - shadow[i].remaining <=
            MapThenSumSet(LAMBDA k : IF matched[k].id = i THEN matched[k].size ELSE 0,
                          DOMAIN matched)

ReplaySound == LedgerIdentity /\ VolumeConserved
=============================================================================
