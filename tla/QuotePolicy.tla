---------------------------- MODULE QuotePolicy ----------------------------
(***************************************************************************)
(* The market-making policy: fair value, inventory bands, spread and size  *)
(* of the two quotes, and the adverse-markout estimate they rest on.       *)
(*                                                                         *)
(* Prices are integers around Fair with ticks of Tick of them; inventory,  *)
(* limits and sizes are lots, a lot being worth Fair.                      *)
(***************************************************************************)
EXTENDS Integers, SequencesExt

CONSTANTS
  Fair, Tick,          \* the book's mid price, a multiple of the tick
  Shifts,              \* raw fair-value shifts of the book's imbalance
  Spreads,             \* markout and toxicity part of the half spread, bps
  MinHalfSpread, MaxFairShift, SkewBps, MaxSkewBps,
  Limits,              \* offered configurations
  Depth,               \* the depth-participation cap in lots
  Losses, Fills, MinSamples, MaxSamples, DefaultMarkout

VARIABLES
  limits,        \* soft, hard, emergency and quote size; NoLimits before
  position,
  resting,       \* the size resting on each side
  quoted,        \* the prices and inputs of the last candidate
  samples        \* the markout window of the strategy, oldest first

policyVars == <<limits, position, resting, quoted, samples>>

Buy == "buy"
Sell == "sell"
BothSides == {Buy, Sell}
NoLimits == [soft |-> 0, hard |-> 0, emergency |-> 0, size |-> 0]
NoQuotes == [bid |-> 0, ask |-> 0, bestBid |-> 0, bestAsk |-> 0]

PolicyInit ==
  /\ limits = NoLimits /\ position = 0
  /\ resting = [s \in BothSides |-> 0]
  /\ quoted = NoQuotes /\ samples = <<>>

Abs(n) == IF n < 0 THEN -n ELSE n
Least(a, b) == IF a < b THEN a ELSE b
Most(a, b) == IF a > b THEN a ELSE b
Clamp(n, cap) == IF n > cap THEN cap ELSE IF n < -cap THEN -cap ELSE n
FloorTo(n, step) == (n \div step) * step
CeilTo(n, step) == -FloorTo(-n, step)

\* MarketMakerConfig::validate, as decode_market_maker_config calls it.
ValidLimits(c) ==
  /\ 0 < c.soft /\ c.soft < c.hard /\ c.hard < c.emergency
  /\ 0 < c.size

Configure(c) ==
  /\ limits = NoLimits
  /\ limits' = IF ValidLimits(c) THEN c ELSE limits
  /\ UNCHANGED <<position, resting, quoted, samples>>

\* FairValueModel::calculate
FairPrice(shift) == Fair + Clamp(shift, MaxFairShift * Tick)

\* InventoryController: the reservation price leans against the inventory.
Reservation(fair) ==
  LET z == Clamp((position * 100) \div limits.soft, 200)
  IN  fair - (fair * Clamp((SkewBps * z) \div 100, MaxSkewBps)) \div 10000

AtSoft == Abs(position) >= limits.soft
AtHard == Abs(position) >= limits.hard
Emergency == Abs(position) >= limits.emergency
Reduces(s) == IF s = Buy THEN position < 0 ELSE position > 0

\* allow_bid and allow_ask, then the critical budget.
SideAllowed(s, budget) ==
  /\ ~Emergency
  /\ IF AtHard THEN Reduces(s)
     ELSE ~(AtSoft /\ IF s = Buy THEN position > 0 ELSE position < 0)
  /\ budget = "critical" => Reduces(s)

\* quote_size: half of what the hard band leaves, but a bounded floor for the
\* side that unwinds beyond it.
Headroom == IF AtHard THEN 0 ELSE (limits.hard - Abs(position)) \div 2
SizeOf(s) ==
  IF Reduces(s) /\ AtHard THEN Least(limits.size, Depth)
  ELSE Least(Least(limits.size, Headroom), Depth)

\* The candidate: no quote for a market or budget that is not healthy.
Wanted(s, budget, edge) ==
  IF /\ budget \in {"normal", "critical"} /\ SideAllowed(s, budget) /\ SizeOf(s) >= 1
     /\ edge \/ (AtHard /\ Reduces(s))
  THEN SizeOf(s) ELSE 0

\* Bids round down and stay under the best ask, asks round up and stay over
\* the best bid.
HalfSpread(spread) == Most(MinHalfSpread, spread)
Bid(fair, spread, bestAsk) ==
  Least(FloorTo((Reservation(fair) * (10000 - HalfSpread(spread))) \div 10000, Tick),
        bestAsk - Tick)
Ask(fair, spread, bestBid) ==
  Most(CeilTo(-((-Reservation(fair) * (10000 + HalfSpread(spread))) \div 10000), Tick),
       bestBid + Tick)

\* A candidate coordinated: the old quote of a side is replaced or withdrawn,
\* and may be kept where a quote is still wanted.
Requote(shift, spread, half, budget, edges) ==
  LET fair == FairPrice(shift)
      bestBid == Fair - half
      bestAsk == Fair + half
      size(s) == Wanted(s, budget, edges[s])
  IN /\ limits # NoLimits
     /\ quoted' = [bestBid |-> bestBid, bestAsk |-> bestAsk,
                   bid |-> Bid(fair, spread, bestAsk), ask |-> Ask(fair, spread, bestBid)]
     /\ \E kept \in SUBSET BothSides :
          resting' = [s \in BothSides |->
            IF size(s) > 0 /\ s \in kept /\ resting[s] > 0 THEN resting[s] ELSE size(s)]
     /\ UNCHANGED <<limits, position, samples>>

Filled(s) ==
  /\ resting[s] > 0
  /\ resting' = [resting EXCEPT ![s] = @ - 1]
  /\ position' = IF s = Buy THEN position + 1 ELSE position - 1
  /\ UNCHANGED <<limits, quoted, samples>>

\* AdverseMarkoutEstimator: a fill is sampled once while it is in the window.
Observe(fill, loss) ==
  /\ \A i \in DOMAIN samples : samples[i].fill # fill
  /\ samples' = Append(IF Len(samples) >= MaxSamples THEN Tail(samples) ELSE samples,
                       [fill |-> fill, loss |-> Most(loss, 0)])
  /\ UNCHANGED <<limits, position, resting, quoted>>

\* estimate: the sample three quarters up the sorted window.
SortedLosses == SortSeq([i \in DOMAIN samples |-> samples[i].loss], LAMBDA a, b : a < b)
Quarter(n) == Least(n - 1, (n * 3) \div 4) + 1
Estimate == IF Len(samples) < MinSamples THEN DefaultMarkout
            ELSE SortedLosses[Quarter(Len(samples))]

PolicyNext ==
  \/ \E c \in Limits : Configure(c)
  \/ \E shift \in Shifts, spread \in Spreads, half \in {Tick, 2 * Tick},
        budget \in {"normal", "critical", "stopped"}, edges \in [BothSides -> BOOLEAN] :
       Requote(shift, spread, half, budget, edges)
  \/ \E s \in BothSides : Filled(s)

MarkoutNext == \E fill \in Fills, loss \in Losses : Observe(fill, loss)

-----------------------------------------------------------------------------
\* Whatever fills, in whatever order between requotes, inventory stays within
\* the hard band.
BandHolds ==
  limits # NoLimits =>
    /\ position + resting[Buy] <= limits.hard
    /\ position - resting[Sell] >= -limits.hard

\* The quotes never cross each other nor the book.
PassiveQuotes ==
  quoted # NoQuotes =>
    /\ quoted.bid < quoted.ask
    /\ quoted.bid < quoted.bestAsk /\ quoted.ask > quoted.bestBid

\* A mature estimate covers three of four of the losses it was made from.
EstimateCovers ==
  Len(samples) >= MinSamples =>
    4 * Len(SelectSeq(samples, LAMBDA x : x.loss <= Estimate)) >= 3 * Len(samples)
=============================================================================
