------------------------------ MODULE Backtest ------------------------------
(***************************************************************************)
(* The backtest: candles are replayed against the orders a strategy puts   *)
(* into the simulated client; fills move cash and positions, funding       *)
(* records are charged, and each candle appends the marked equity.         *)
(* (backtest/engine.rs, backtest/broker.rs)                                *)
(*                                                                         *)
(* Prices are on a grid on which every average is a whole number; money is *)
(* counted in units of a price unit divided by Unit, so that fees are      *)
(* whole too.                                                              *)
(***************************************************************************)
EXTENDS Integers, SequencesExt

CONSTANTS
  Symbols,          \* the instruments replayed
  Levels,           \* the prices candles and limits are made of
  Sizes,            \* the order sizes
  Unit,             \* money per price unit
  Taker, Rebate,    \* fee and rebate per price unit, in money
  Slip,             \* slippage of a market order, as a price difference
  Funding,          \* funding records: [symbol, at, rate]
  MaxOrders,        \* orders submitted in a run
  MaxBars           \* candles of a run

VARIABLES
  open,             \* the orders the simulated client holds
  submitted,        \* how many orders were submitted: the next identifier
  bars,             \* candles replayed
  positions,        \* symbol -> [size, entry, mark], for the symbols held
  cash,             \* equity without the open positions
  filled,           \* the fills, in order
  charged,          \* the funding records applied
  totalFunding,
  curve             \* the last point of the equity curve

backtestVars == <<open, submitted, bars, positions, cash, filled, charged,
                  totalFunding, curve>>

Sides == {"buy", "sell"}
Signed(f) == IF f.side = "buy" THEN f.size ELSE -f.size
Abs(n) == IF n < 0 THEN -n ELSE n
SameSign(a, b) == (a > 0) = (b > 0)

---------------------------------------------------------------------------
(* The simulated broker.                                                   *)

FillPrice(o, c) ==
  IF o.kind = "market"
  THEN IF o.side = "buy" THEN c.close + Slip ELSE c.close - Slip
  ELSE o.price

\* A limit that the market traded through crossed the spread: a taker.
IsMaker(o, c) ==
  /\ o.kind = "limit"
  /\ IF o.side = "buy" THEN o.price < c.high ELSE o.price > c.low

Fills(o, c) ==
  \/ o.kind = "market"
  \/ o.kind = "limit" /\ IF o.side = "buy" THEN c.low <= o.price
                                           ELSE c.high >= o.price

FeeOf(price, size, maker) == price * size * (IF maker THEN -Rebate ELSE Taker)

\* The fill of an order on a candle.  Neither the client nor the broker looks
\* at the candle's symbol.
SimulateFill(o, c) ==
  LET p == FillPrice(o, c) IN
  [id |-> o.id, symbol |-> o.symbol, side |-> o.side, size |-> o.size,
   price |-> p, fee |-> FeeOf(p, o.size, IsMaker(o, c))]

---------------------------------------------------------------------------
(* Positions.                                                              *)

Flat == [size |-> 0, entry |-> 0, mark |-> 0]
At(ps, s) == IF s \in DOMAIN ps THEN ps[s] ELSE Flat

\* What a fill realises, and the position it leaves.
Realized(p, f) ==
  IF p.size = 0 \/ SameSign(p.size, Signed(f)) THEN 0
  ELSE (f.price - p.entry) * Min({Abs(p.size), f.size})
         * (IF p.size > 0 THEN 1 ELSE -1)

Updated(p, f) ==
  LET new == p.size + Signed(f) IN
  CASE p.size = 0 -> [size |-> new, entry |-> f.price, mark |-> f.price]
    [] p.size # 0 /\ SameSign(p.size, Signed(f)) ->
         [size |-> new, mark |-> f.price,
          entry |-> (Abs(p.size) * p.entry + f.size * f.price) \div Abs(new)]
    [] p.size # 0 /\ ~SameSign(p.size, Signed(f)) /\ SameSign(p.size, new) ->
         [p EXCEPT !.size = new, !.mark = f.price]
    [] OTHER -> [size |-> new, entry |-> f.price, mark |-> f.price]

\* A position that a fill takes to zero leaves the map.
UpdatePosition(ps, f) ==
  LET q == Updated(At(ps, f.symbol), f) IN
  IF q.size = 0 THEN Restrict(ps, DOMAIN ps \ {f.symbol})
  ELSE [s \in DOMAIN ps \union {f.symbol} |-> IF s = f.symbol THEN q ELSE ps[s]]

\* The candle's fills, applied one after another.
ApplyFill(st, f) ==
  [ps   |-> UpdatePosition(st.ps, f),
   cash |-> st.cash - f.fee + Unit * Realized(At(st.ps, f.symbol), f)]
ApplyFills(st, fs) == FoldLeft(ApplyFill, st, fs)

\* The funding records due now for the positions held now: each once, however
\* long before the position was opened it fell.
Due(ps, now) == {r \in Funding \ charged : r.at <= now /\ r.symbol \in DOMAIN ps}
FundingOf(ps, rs) ==
  MapThenSumSet(LAMBDA r : ps[r.symbol].size * ps[r.symbol].mark * r.rate, rs)

Unrealized(ps) ==
  Unit * MapThenSumSet(LAMBDA s : ps[s].size * (ps[s].mark - ps[s].entry),
                       DOMAIN ps)

---------------------------------------------------------------------------

BacktestInit ==
  /\ open = {} /\ submitted = 0 /\ bars = 0
  /\ positions = <<>> /\ cash = 0 /\ filled = <<>>
  /\ charged = {} /\ totalFunding = 0 /\ curve = 0

Submit ==
  /\ submitted < MaxOrders
  /\ \E s \in Symbols, d \in Sides, n \in Sizes,
        k \in {[kind |-> "market", price |-> 0]}
              \union [kind : {"limit"}, price : Levels] :
       open' = open \union {[id |-> submitted + 1, symbol |-> s, side |-> d,
                             size |-> n, kind |-> k.kind, price |-> k.price]}
  /\ submitted' = submitted + 1
  /\ UNCHANGED <<bars, positions, cash, filled, charged, totalFunding, curve>>

CancelOrder ==
  /\ \E o \in open : open' = open \ {o}
  /\ UNCHANGED <<submitted, bars, positions, cash, filled, charged,
                 totalFunding, curve>>

CancelAll ==
  /\ \E s \in Symbols : open' = {o \in open : o.symbol # s}
  /\ open' # open
  /\ UNCHANGED <<submitted, bars, positions, cash, filled, charged,
                 totalFunding, curve>>

\* The open orders a candle fills, each whole and at once.  The symbol of the
\* candle is not compared with the order's.
TryFill(c) == {o \in open : Fills(o, c)}

\* One candle: fill, book, mark, charge funding, append to the curve.  The
\* client's map gives its orders in any sequence.
PlayBar(c) ==
  LET hit == TryFill(c) IN
  \E order \in {q \in [1..Cardinality(hit) -> hit] : IsInjective(q)} :
    LET fs == [i \in DOMAIN order |-> SimulateFill(order[i], c)]
        booked == ApplyFills([ps |-> positions, cash |-> cash], fs)
        marked == IF c.symbol \in DOMAIN booked.ps
                  THEN [booked.ps EXCEPT ![c.symbol].mark = c.close]
                  ELSE booked.ps
        due == Due(marked, bars)
        paid == FundingOf(marked, due)
    IN /\ open' = open \ hit
       /\ filled' = filled \o fs
       /\ positions' = marked
       /\ charged' = charged \union due
       /\ totalFunding' = totalFunding + paid
       /\ cash' = booked.cash - paid
       /\ curve' = cash' + Unrealized(marked)
       /\ bars' = bars + 1
       /\ UNCHANGED submitted

Candles == {c \in [symbol : Symbols, low : Levels, high : Levels, close : Levels] :
              c.low <= c.close /\ c.close <= c.high}

PlayCandle == bars < MaxBars /\ \E c \in Candles : PlayBar(c)

BacktestNext == Submit \/ CancelOrder \/ CancelAll \/ PlayCandle

---------------------------------------------------------------------------
\* The curve's point is the money the fills moved, less fees and funding, plus
\* the value of what is held: whatever sequence of openings, additions,
\* reductions and reversals, on however many symbols, led there.
AccountIdentity ==
  bars > 0 =>
    curve = MapThenSumSet(
              LAMBDA i : -Unit * Signed(filled[i]) * filled[i].price - filled[i].fee,
              DOMAIN filled)
            - totalFunding
            + Unit * MapThenSumSet(LAMBDA s : positions[s].size * positions[s].mark,
                                   DOMAIN positions)

\* No order fills twice, nor after it was cancelled and while it is open, and a
\* symbol's position is the sum of its fills.
FilledOnce ==
  /\ \A i, j \in DOMAIN filled : filled[i].id = filled[j].id => i = j
  /\ \A o \in open : \A i \in DOMAIN filled : filled[i].id # o.id
  /\ \A s \in Symbols :
       At(positions, s).size
         = MapThenSumSet(LAMBDA i : IF filled[i].symbol = s
                                    THEN Signed(filled[i]) ELSE 0, DOMAIN filled)

BacktestSound == AccountIdentity /\ FilledOnce
=============================================================================
