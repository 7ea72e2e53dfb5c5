------------------------------ MODULE ArbEntry ------------------------------
(***************************************************************************)
(* How funding arbitrage finds an entry: the scanner's pairs, rates,       *)
(* cached volumes and books, read one after the other, the evaluation of   *)
(* every candidate, and the choice among them.  (funding_arb/              *)
(* live_scanner.rs, funding_arb/runtime.rs; what an entry does then is     *)
(* FundingArb's)                                                           *)
(*                                                                         *)
(* Prices, sizes and lots are integers, rates and costs basis points; a    *)
(* middle is kept doubled, a quotient as its numerator over Den.  The      *)
(* clock counts half seconds, ages are cut to whole ones.                  *)
(***************************************************************************)
EXTENDS Integers, SequencesExt

CONSTANTS
  Perps,          \* perpetual symbols: also the names of their base tokens
  SpotUniverse,   \* the spot pairs: [name, base, quote]
  Instruments,    \* symbol -> [spot, base, quote, lot, min], loaded or not
  Shapes,         \* books without their stamp: [bids, asks] of [price, size]
  FirstBook,      \* the one shown first
  Rates, Volumes,
  MarketStale, CacheTtl,            \* in seconds
  Slippage, MaxBasis, MaxSpread,    \* in basis points
  EntryRate, ExitRate, HoldHours, Fees, MinEdge,
  MaxNotional, MinDepth, MinVolume,
  Hedge,          \* spot for a hundred perpetual
  Horizon, MaxMoves

VARIABLES
  time, moves,
  rate,           \* the funding rate the provider shows
  books,          \* the provider's books, by symbol
  volume,         \* at the venue: perp -> the smaller leg's
  lowSince,       \* perp -> since when its volume is too low, or -1
  context,        \* asset_ctxs_cache: [at, of] or {}
  loaded,         \* the instrument cache is
  step,           \* of the scan: "idle", "asking", "answer", "collect"
  asked,          \* what the venue answers to the request under way, and when
  using,          \* the volumes this scan goes by, and since when
  snapshots,      \* of this scan
  todo,           \* pairs it has not read yet
  plan            \* the plan opened, with the moment it was made; or {}

entryVars == <<time, moves, rate, books, volume, lowSince, context, loaded,
               step, asked, using, snapshots, todo, plan>>
marketVars == <<moves, rate, books, volume, lowSince>>
scanning == <<context, loaded, asked, using, snapshots, todo>>

\* refresh_spot_map: a base token quoted in USDC is its perpetual's spot leg.
SpotMap == {[perp |-> s.base, spot |-> s.name] : s \in {s \in SpotUniverse : s.quote = "USDC" /\ s.base \in Perps}}
Spots == {pair.spot : pair \in SpotMap}

EntryInit == /\ time = 0 /\ moves = 0 /\ lowSince = [p \in Perps |-> -1]
             /\ rate = [p \in Perps |-> EntryRate]
             /\ books = [s \in Perps \union Spots |-> [shape |-> FirstBook, at |-> 0]]
             /\ volume = [p \in Perps |-> MinVolume]
             /\ context = {} /\ loaded = FALSE /\ step = "idle" /\ asked = {} /\ using = [of |-> [p \in Perps |-> 0], at |-> 0]
             /\ snapshots = {} /\ todo = {} /\ plan = {}

---------------------------------------------------------------------------
(* The market                                                              *)

Moved == moves < MaxMoves /\ moves' = moves + 1 /\ UNCHANGED <<time, scanning, step, plan>>
BookMoves(s, shape) == /\ Moved /\ books' = [books EXCEPT ![s] = [shape |-> shape, at |-> time]]
                       /\ UNCHANGED <<rate, volume, lowSince>>
RateMoves(p, r) == Moved /\ rate' = [rate EXCEPT ![p] = r] /\ UNCHANGED <<books, volume, lowSince>>
VolumeMoves(p, v) ==
  /\ Moved /\ volume' = [volume EXCEPT ![p] = v]
  /\ lowSince' = [lowSince EXCEPT ![p] = IF v >= MinVolume THEN -1 ELSE IF @ = -1 THEN time ELSE @]
  /\ UNCHANGED <<rate, books>>

\* A request is answered within a second.
Tick == /\ time < Horizon /\ time' = time + 1
        /\ \A a \in asked : time - a.at < 2
        /\ UNCHANGED <<marketVars, scanning, step, plan>>

InstrumentsLoad == /\ ~loaded /\ loaded' = TRUE
                   /\ UNCHANGED <<time, marketVars, step, context, asked, using, snapshots, todo, plan>>

---------------------------------------------------------------------------
(* The scan                                                                *)

\* The metadata requests fail, or the map is replaced; then all rates are read.
Scan == /\ step = "idle" /\ plan = {} /\ step' = "asking" /\ snapshots' = {}
        /\ todo' = {[perp |-> q.perp, spot |-> q.spot, rate |-> rate[q.perp]] : q \in SpotMap}
        /\ UNCHANGED <<time, marketVars, loaded, context, asked, using, plan>>

Fresh(c) == time - c.at < 2 * CacheTtl

UseCache == /\ step = "asking" /\ \E c \in context : Fresh(c) /\ using' = [of |-> c.of, at |-> time]
            /\ step' = "collect"
            /\ UNCHANGED <<time, marketVars, loaded, context, asked, snapshots, todo, plan>>
AskContexts == /\ step = "asking" /\ \A c \in context : ~Fresh(c)
               /\ asked' = {[at |-> time, of |-> volume]} /\ step' = "answer"
               /\ UNCHANGED <<time, marketVars, loaded, context, using, snapshots, todo, plan>>
\* What comes back is stamped when it comes back; without it all volumes are 0.
ContextsAnswered(arrives) ==
  /\ step = "answer" /\ step' = "collect" /\ asked' = {}
  /\ \E a \in asked :
       /\ context' = IF arrives THEN {[at |-> time, of |-> a.of]} ELSE context
       /\ using' = [of |-> IF arrives THEN a.of ELSE [p \in Perps |-> 0], at |-> time]
  /\ UNCHANGED <<time, marketVars, loaded, snapshots, todo, plan>>

Snapshot(pair) == [perp |-> pair.perp, spot |-> pair.spot, rate |-> pair.rate,
                   volume |-> using.of[pair.perp], perpBook |-> books[pair.perp], spotBook |-> books[pair.spot]]

Collect(pair) == /\ step = "collect" /\ pair \in todo /\ todo' = todo \ {pair}
                 /\ snapshots' = snapshots \union {Snapshot(pair)}
                 /\ UNCHANGED <<time, marketVars, loaded, context, asked, using, step, plan>>

---------------------------------------------------------------------------
(* The evaluation                                                          *)

Bid(b) == b.shape.bids[1].price
Ask(b) == b.shape.asks[1].price
Mid2(b) == Bid(b) + Ask(b)

\* An age is cut to whole seconds; a stamp ahead of the clock is not old.
ValidBook(b) == Bid(b) < Ask(b) /\ (time - b.at) \div 2 <= MarketStale

Within(price, best, isBid) ==
  IF isBid THEN 10000 * price >= best * (10000 - Slippage) ELSE 10000 * price <= best * (10000 + Slippage)
BookDepth(b, isBid) ==
  LET levels == IF isBid THEN b.shape.bids ELSE b.shape.asks
      beyond == {i \in DOMAIN levels : ~Within(levels[i].price, levels[1].price, isBid)}
      reach == IF beyond = {} THEN Len(levels) ELSE (CHOOSE i \in beyond : \A j \in beyond : i <= j) - 1
  IN FoldLeft(LAMBDA sum, l : sum + l.price * l.size, 0, SubSeq(levels, 1, reach))

Depths(s) == {BookDepth(b, side) : b \in {s.perpBook, s.spotBook}, side \in BOOLEAN}
TopBookDepth(s) == CHOOSE d \in Depths(s) : \A e \in Depths(s) : d <= e

Den(s) == Mid2(s.perpBook) * Mid2(s.spotBook)
SpreadCost(s) == 20000 * ((Ask(s.perpBook) - Bid(s.perpBook)) * Mid2(s.spotBook)
                        + (Ask(s.spotBook) - Bid(s.spotBook)) * Mid2(s.perpBook))
ExpectedEdge(s) == (s.rate * HoldHours - Fees) * Den(s) - SpreadCost(s)

FloorTo(n, step_) == (n \div step_) * step_
PerpSize(s) == FloorTo((2 * MaxNotional) \div Mid2(s.perpBook), Instruments[s.perp].lot)
SpotSize(s) == FloorTo((PerpSize(s) * Hedge) \div 100, Instruments[s.spot].lot)

Matched(s) == /\ loaded /\ {s.perp, s.spot} \subseteq DOMAIN Instruments
              /\ Instruments[s.spot].spot /\ ~Instruments[s.perp].spot
              /\ Instruments[s.spot].base = s.perp /\ Instruments[s.spot].quote = "USDC"

Needed == IF MinDepth > MaxNotional THEN MinDepth ELSE MaxNotional

CandidatePlan(s) ==
  /\ Matched(s) /\ s.volume >= MinVolume
  /\ ValidBook(s.perpBook) /\ ValidBook(s.spotBook) /\ s.rate >= EntryRate
  /\ \A gap \in {Mid2(s.perpBook) - Mid2(s.spotBook), Mid2(s.spotBook) - Mid2(s.perpBook)} :
       10000 * gap <= MaxBasis * Mid2(s.spotBook)
  /\ SpreadCost(s) <= MaxSpread * Den(s)
  /\ TopBookDepth(s) >= Needed
  /\ ExpectedEdge(s) >= MinEdge * Den(s)
  /\ PerpSize(s) >= Instruments[s.perp].min /\ SpotSize(s) >= Instruments[s.spot].min

Eligible == {s \in snapshots : CandidatePlan(s)}
\* The edge decides, here to a basis point, then the volume, then the depth.
Better(s, t) == LET a == ExpectedEdge(s) \div Den(s)
                    b == ExpectedEdge(t) \div Den(t)
                IN \/ a > b
                   \/ a = b /\ s.volume > t.volume
                   \/ a = b /\ s.volume = t.volume /\ TopBookDepth(s) > TopBookDepth(t)

Evaluate ==
  /\ step = "collect" /\ todo = {} /\ step' = "idle" /\ snapshots' = {}
  /\ IF Eligible = {} THEN plan' = {}
     ELSE \E s \in Eligible :
            /\ \A t \in Eligible : ~Better(t, s)
            /\ plan' = {[on |-> s, at |-> time, volumeAt |-> using.at, perp |-> PerpSize(s), spot |-> SpotSize(s)]}
  /\ UNCHANGED <<time, marketVars, loaded, context, asked, using, todo>>

\* The open cycle looks its market up again: rate and both books must be there.
CheckExit == /\ \E p \in plan : rate[p.on.perp] <= ExitRate
             /\ plan' = {} /\ UNCHANGED <<time, marketVars, scanning, step>>

EntryNext ==
  \/ \E s \in DOMAIN books, shape \in Shapes : BookMoves(s, shape)
  \/ \E p \in Perps, r \in Rates : RateMoves(p, r)
  \/ \E p \in Perps, v \in Volumes : VolumeMoves(p, v)
  \/ Tick
  \/ InstrumentsLoad
  \/ Scan
  \/ UseCache
  \/ AskContexts
  \/ \E b \in BOOLEAN : ContextsAnswered(b)
  \/ \E pair \in todo : Collect(pair)
  \/ Evaluate
  \/ CheckExit

---------------------------------------------------------------------------
(* Properties                                                              *)

\* What a taker can get from one side without paying past the slippage limit.
Fillable(levels, isBid) ==
  FoldLeft(LAMBDA sum, l : IF Within(l.price, levels[1].price, isBid) THEN sum + l.price * l.size ELSE sum,
           0, levels)

\* Both legs of an entry can be filled and unwound for its whole notional
\* within the slippage limit, on books less than a second over the limit.
EntryFills == \A p \in plan : \A b \in {p.on.perpBook, p.on.spotBook} :
  /\ p.at - b.at < 2 * (MarketStale + 1)
  /\ Fillable(b.shape.bids, TRUE) >= MaxNotional /\ Fillable(b.shape.asks, FALSE) >= MaxNotional
  /\ 2 * MaxNotional >= p.perp * Mid2(p.on.perpBook)

\* The legs hedge each other to less than a lot of the spot, each tradable, and
\* are of one token.
EntryHedged == \A p \in plan :
  LET short == p.perp * Hedge - p.spot * 100
      lot == Instruments[p.on.spot].lot
  IN /\ p.spot > 0 /\ short >= 0 /\ short < 100 * lot
     /\ p.perp % Instruments[p.on.perp].lot = 0 /\ p.spot % lot = 0
     /\ \E s \in SpotUniverse : s.name = p.on.spot /\ s.base = p.on.perp

\* A market is not entered on a volume it lost longer ago than the cache and
\* the request that filled it explain (M-FA4).
EntryLiquid == \A p \in plan :
  lowSince[p.on.perp] = -1 \/ p.volumeAt - lowSince[p.on.perp] < 2 * (CacheTtl + 1)
==============================================================================
