---------------------------- MODULE MCComponents ----------------------------
(***************************************************************************)
(* The components around the durable core: thirty-two state machines that  *)
(* share no state, one of them running in a behaviour.  `part` names it,   *)
(* x1, x2, ... are the variables of the one that runs, in the order of its *)
(* VARIABLES; those it does not need are 0.  A constant of the same name   *)
(* has one value everywhere.  Components with proofs are instances of the  *)
(* modules that hold them, several at a time: Components_proofs cites the  *)
(* theorems of Ven, Rsk, Quo, Str and Que.                                 *)
(***************************************************************************)
EXTENDS Integers, Sequences, FiniteSets, TLC

CONSTANTS
  Orders, OrdersPlaced, QueueCap, PageCap, MaxTime, MaxEvents, MaxFaults,
  Symbols, Cloids, MaxFills, MaxClock, MaxAge, MaxPollFailures, MaxReports,
  Estimates, Assets, OpenOrders, Subs, MaxAttempts, MaxRejects, MaxBreaks,
  MaxDelay, MaxQuotes, StaleAfter, BasisMaxAge, FeatureMaxAge, Coins, Perps,
  MaxListings, MaxFailures, MaxSeq, QueueSize, BatchSize, MaxDrops,
  MaxRestarts, MaxPurges, MaxFails, Capacity, MaxPublished, Rows, Tables,
  RowsPerBatch, MaxKeys, SpoolCap, MaxCrashes, MaxErrors, MaxDeliveries,
  SymbolLimit, TotalLimit, MaxPolls, Scale, Bits, MaxDigits, Prec,
  MaxExponent, MaxPlaces, Limit, Window, MaxWaits, SendTimeout,
  MaxInfoRetries, InfoWeight, CandleWeight, PerItem, ExchangeWeight, FreshFor,
  Watermark, Quotas, Interval, PageSize, LastBar, Starts, LastRest, MaxCalls,
  MailboxSize, MaxSeries, Requests, CandlesWanted, LastTime, LastTid,
  MaxReconnects, MaxFrames, FlowWindow, MaxKept, Cycles, LastFlow, MaxTrades,
  MaxBuilds, Workers, MaxPlans, MaxChildren, AttemptIds, FullSize, FillSize,
  MinLifetime, Cooldown, MaxQuoteAge, PriceHysteresis, Validity, LastTick,
  MaxRevision, MaxOrders, MaxShifts, MaxRefusals, Fair, PriceTick, Spreads,
  MinHalfSpread, MaxFairShift, SkewBps, MaxSkewBps, Depth, MarkedFills,
  MinSamples, MaxSamples, DefaultMarkout, RunnerTasks, Strategies, Trend,
  Offered, MaxLifecycle, MaxVersions, MaxStoreFailures, Editors, MaxPeriod,
  MaxEdits, MaxTrendOrders, MaxCandles, MaxTrendRestarts, LegTarget, PerpLot,
  MaxTries, OwnSpot, MaxCycles, MaxLate, Cap, Buffer, CloseReserve,
  ConserveAt, CriticalAt, CancelOnlyAt, BudgetAge, Minute, IpLimit, IpReserve,
  HardLimit, LastEvent, LiveTargets, MaxCancels, MaxOps, Callers, RequestIds,
  Lot, MinSize, MaxSize, MaxRequests, MaxChanges, Slots, Sla, LastHour, Worst,
  BacktestMarkets, Levels, BacktestSizes, SizeUnit, Taker, Rebate, Slip,
  MaxBars, OrderIds, QuotePrices, TradePrices, QuoteSizes, TradeSizes, Queues,
  Multiplier, Latency, RebateRate, MaxPlayed, ArbPerps, Rates, Volumes,
  MarketStale, CacheTtl, Slippage, MaxBasis, MaxSpread, EntryRate, ExitRate,
  HoldHours, Fees, MinEdge, MaxNotional, MinDepth, MinVolume, Hedge, Horizon,
  MaxMoves, Clients, Handlers, RateWindow, SweepAt, RequestLimit,
  MutationLimit, FailureLimit, MaxLag, StartPosition, MaxArrivals,
  MaxPosition, MaxSent

VARIABLES
  part,
  x1, x2, x3, x4, x5, x6, x7, x8, x9, x10, x11, x12, x13, x14, x15,
  x16, x17, x18

vars == <<part, x1, x2, x3, x4, x5, x6, x7, x8, x9, x10, x11, x12, x13, x14,
          x15, x16, x17, x18>>

\* Three of the four spot pairs bear the same display name.
NameOf(c) == IF c = "@4" THEN "B" ELSE "A"
\* Rows of two tables; what the orders of the book are; operands.
TableOf(r) == IF r = "b" THEN "u" ELSE "t"
Ids == 1..3
Traded == {"s", "t"}
Order(s, b, n, r) == [symbol |-> s, buy |-> b, size |-> n, reduce |-> r, risk |-> FALSE]
OrderOf(i) == CASE i = 1 -> Order("s", TRUE, 2, FALSE)
                [] i = 2 -> Order("t", FALSE, 1, FALSE)
                [] i = 3 -> Order("s", FALSE, 1, TRUE)
Others == {-37, -3, -1, 0, 2, 30, 99, 1023}
Publishers == {"p", "q"}
Boxes == {"x"}

\* The supervisor's callers are interchangeable.
RunnerSymmetry == Permutations(RunnerTasks)

\* A machine of n variables leaves the others alone.
Blank17 == x18 = 0
Blank16 == x17 = 0 /\ Blank17
Blank15 == x16 = 0 /\ Blank16
Blank14 == x15 = 0 /\ Blank15
Blank13 == x14 = 0 /\ Blank14
Blank12 == x13 = 0 /\ Blank13
Blank11 == x12 = 0 /\ Blank12
Blank10 == x11 = 0 /\ Blank11
Blank9 == x10 = 0 /\ Blank10
Blank8 == x9 = 0 /\ Blank9
Blank7 == x8 = 0 /\ Blank8
Blank6 == x7 = 0 /\ Blank7
Blank5 == x6 = 0 /\ Blank6
Blank4 == x5 = 0 /\ Blank5
Blank3 == x4 = 0 /\ Blank4
Kept17 == UNCHANGED <<part, x18>>
Kept16 == UNCHANGED <<x17>> /\ Kept17
Kept15 == UNCHANGED <<x16>> /\ Kept16
Kept14 == UNCHANGED <<x15>> /\ Kept15
Kept13 == UNCHANGED <<x14>> /\ Kept14
Kept12 == UNCHANGED <<x13>> /\ Kept13
Kept11 == UNCHANGED <<x12>> /\ Kept12
Kept10 == UNCHANGED <<x11>> /\ Kept11
Kept9 == UNCHANGED <<x10>> /\ Kept10
Kept8 == UNCHANGED <<x9>> /\ Kept9
Kept7 == UNCHANGED <<x8>> /\ Kept8
Kept6 == UNCHANGED <<x7>> /\ Kept7
Kept5 == UNCHANGED <<x6>> /\ Kept6
Kept4 == UNCHANGED <<x5>> /\ Kept5
Kept3 == UNCHANGED <<x4>> /\ Kept4

Ins == INSTANCE InstrumentCache WITH
  listing <- x1, listings <- x2, instruments <- x3, aliases <- x4,
  loaded <- x5, refresh <- x6, failures <- x7
Bus == INSTANCE EventBus WITH
  MaxEvents <- MaxPublished, items <- x1, listed <- x2, shut <- x3,
  gone <- x4, permit <- x5, job <- x6, events <- x7, pushed <- x8,
  taken <- x9, failed <- x10
Dec == INSTANCE FixedPoint WITH
  x <- x1, y <- x2, places <- x3
Rest == INSTANCE RestTraffic WITH
  BatchSize <- PageSize, LastTime <- LastRest, Fresh <- FreshFor,
  clock <- x1, stamps <- x2, granted <- x3, info <- x4, send <- x5,
  back <- x6, bars <- x7, credits <- x8, calls <- x9
Dat == INSTANCE MarketData WITH
  Capacity <- MailboxSize, Wanted <- CandlesWanted, now <- x1, bar <- x2,
  feed <- x3, delivered <- x4, reported <- x5, reconnects <- x6,
  frames <- x7, mailbox <- x8, hand <- x9, mid <- x10, book <- x11,
  funding <- x12, series <- x13, seen <- x14, lock <- x15, request <- x16
Feat == INSTANCE FeatureWindows WITH
  Window <- FlowWindow, LastTime <- LastFlow, now <- x1, book <- x2,
  copy <- x3, history <- x4, trades <- x5, seen <- x6, trimmedAt <- x7,
  features <- x8, beside <- x9, builds <- x10

\* The bid follows the market; at its higher price it meets the ask.
Prices == [bid |-> {1, 2}, ask |-> {2}]

\* Raw fair-value shifts, configurations (one of them invalid) and markouts.
Shifts == {-20, 8}
Losses == {-1, 2, 4}
Limits == {[soft |-> 2, hard |-> 4, emergency |-> 6, size |-> 2],
           [soft |-> 4, hard |-> 4, emergency |-> 6, size |-> 2],
           [soft |-> 1, hard |-> 5, emergency |-> 7, size |-> 3]}

\* One strategy trades a market, the other any.
SymbolOf(s) == IF s = "a" THEN "BTC" ELSE "AUTO"

\* Configurations as clients write them: in every form, with a field left out,
\* not ordered, with fractions, out of range.
V(n, f) == [n |-> n, form |-> f]
Draft(f, s, p) == [fast |-> f, slow |-> s, pct |-> p]
Drafts == {Draft(V(10, "number"), V(20, "number"), V(5, "text")),
           Draft(V(10, "text"), V(-10, "number"), V(5, "padded")),
           Draft(V(10, "number"), V(30, "text"), V(5, "number")),
           Draft(V(20, "number"), V(30, "number"), V(10, "number")),
           Draft(V(20, "number"), V(10, "number"), V(10, "number")),
           Draft(V(15, "number"), V(20, "number"), V(10, "number")),
           Draft(V(10, "padded"), V(20, "number"), V(10, "number")),
           Draft(V(10, "number"), V(40, "number"), V(0, "number"))}

\* What callers submit: a post-only buy, a reducing sale, a spot sale.
Intents == {[side |-> 1, size |-> 3, spot |-> FALSE, reduce |-> FALSE, risk |-> FALSE, post |-> TRUE],
            [side |-> -1, size |-> 2, spot |-> FALSE, reduce |-> TRUE, risk |-> FALSE, post |-> FALSE],
            [side |-> -1, size |-> 2, spot |-> TRUE, reduce |-> FALSE, risk |-> TRUE, post |-> FALSE]}

\* The funding records of a recording.
Funding == {[symbol |-> "x", at |-> 0, rate |-> 1], [symbol |-> "x", at |-> 1, rate |-> -1],
            [symbol |-> "y", at |-> 1, rate |-> 2]}


\* Books with liquidity at the limit, short of it, and crossed; two tokens of
\* the perpetual's name, one of them not quoted in USDC.
L(p, s) == [price |-> p, size |-> s]
FirstBook == [bids |-> <<L(100, 1), L(99, 3)>>, asks |-> <<L(101, 4), L(120, 1)>>]
Shapes == {FirstBook, [bids |-> <<L(99, 3), L(90, 9)>>, asks |-> <<L(101, 3)>>],
           [bids |-> <<L(101, 4)>>, asks |-> <<L(101, 4)>>]}
SpotUniverse == {[name |-> "@1", base |-> "A", quote |-> "USDC"],
                 [name |-> "@3", base |-> "A", quote |-> "USDH"]}
Instruments == [s \in {"A", "@1"} |-> [spot |-> s = "@1", base |-> "A", quote |-> "USDC",
                                      lot |-> 2, min |-> 2]]

\* A viewer's and an operator's token; requests that run into the limits, and
\* orders that race each other.
Tokens == {<<"v", 1>>, <<"o", 2>>}
Traffic == {[kinds |-> {"read", "cancel"}, bearers |-> {"z", "o"}, keyed |-> {TRUE}, until |-> 3],
            [kinds |-> {"close", "submit", "cancel"}, bearers |-> {"o"}, keyed |-> BOOLEAN, until |-> 0]}

\* What a deployment's layers say: complete, with one thing missing, spelled
\* two ways, or contradicting each other.
Means(n) == CASE n = "Kill" -> "kill" [] n = "Key" -> "key" [] OTHER -> n
Chain == [ledger |-> "true", execution |-> "true", stream |-> "true",
          reconciliation |-> "true", runner |-> "true"]
Secrets == [ENV |-> "mainnet", address |-> "given", key |-> "hex", postgres |-> "tls",
            admin |-> "long", optIn |-> "1"]
Processes == {[ENV |-> "testnet", key |-> "hex", address |-> "given"],
              [environment |-> "testnet", ENV |-> "mainnet"],
              [environment |-> "", kill |-> "false"], [ENV |-> ""], Secrets,
              [Secrets EXCEPT !.postgres = "plain"], [Secrets EXCEPT !.optIn = "0"],
              [Secrets EXCEPT !.admin = "short"], [Secrets EXCEPT !.key = ""],
              [viewer |-> "digits", environment |-> "testnet"]}
Dotenvs == {[Kill |-> "false", Key |-> "hex", unknown |-> "x"], [kill |-> "false", key |-> "malformed"],
            [ENV |-> "testnet", key |-> "hex", address |-> "given"],
            [ENV |-> "nowhere", admin |-> "long", viewer |-> "long"]}
Broken == {[leverage |-> 21], [shares |-> <<20, 5, 101>>], [bands |-> <<2, 1, 3>>],
           [exposure |-> <<20, 15>>], [scan |-> <<6, 5, 30>>], [weights |-> <<50, 60>>],
           [typo |-> "x"], [runner |-> "true"], [Chain EXCEPT !.stream = "false"]}
Deployments ==
  {[argument |-> "", process |-> p, dotenv |-> d, yaml |-> file] :
     p \in Processes, d \in Dotenvs,
     file \in {Chain, [execution |-> "false"], [arb |-> "true"] @@ Chain, [legacy |-> "true"] @@ Chain}}
  \union {[argument |-> "testnet", process |-> [Kill |-> "true"], dotenv |-> [kill |-> "false"], yaml |-> file] :
     file \in Broken}
Sup == INSTANCE StrategySupervisor WITH
  MaxCalls <- MaxLifecycle, MaxFailures <- MaxStoreFailures,
  Tasks <- RunnerTasks, instances <- x1, runtimes <- x2, versions <- x3,
  leases <- x4, handles <- x5, calls <- x6, restoring <- x7, booting <- x8,
  called <- x9, restarts <- x10, failures <- x11, halted <- x12,
  raced <- x13, unleased <- x14
Bak == INSTANCE Backtest WITH
  Symbols <- BacktestMarkets, Sizes <- BacktestSizes, Unit <- SizeUnit,
  open <- x1, submitted <- x2, bars <- x3, positions <- x4, cash <- x5,
  filled <- x6, charged <- x7, totalFunding <- x8, curve <- x9
Rep == INSTANCE Replay WITH
  MaxEvents <- MaxPlayed, time <- x1, played <- x2, shadow <- x3,
  matched <- x4, consumed <- x5, traded <- x6, ledger <- x7, aborted <- x8

Ven == INSTANCE Venue_proofs WITH
  Placed <- OrdersPlaced, Targets <- LiveTargets, now <- x1, venue <- x2,
  queue <- x3, lost <- x4, live <- x5, inbox <- x6, cursor <- x7, rows <- x8,
  pos <- x9, facts <- x10, booked <- x11, tracker <- x12, task <- x13,
  faults <- x14, clock <- x1, trades <- x2, held <- x3, fees <- x4,
  count <- x5, applied <- x6, keyed <- x7, prov <- x8, reports <- x9,
  announced <- x10, excess <- x11, exact <- x12, spotAt <- x13,
  observed <- x14, posRows <- x15, poll <- x16, pollFailures <- x17,
  local <- x1, venueTruth <- x2, corrected <- x3, socket <- x1,
  generation <- x2, delay <- x3, breaks <- x4, asked <- x5, active <- x6,
  failed <- x7, attempts <- x8, rested <- x9, rejects <- x10, bookGen <- x11,
  open <- x1, wire <- x2, resolvable <- x3, attempt <- x4, tail <- x5,
  op <- x6, reported <- x7, ops <- x8, crashes <- x9
Rsk == INSTANCE Risk_proofs WITH
  Symbols <- Traded, MaxCalls <- MaxRequests, LastTime <- LastHour,
  Perps <- ArbPerps, status <- x1, reserved <- x2, position <- x3,
  fresh <- x4, resting <- x5, truth <- x6, fills <- x7, ingested <- x8,
  answers <- x9, snapshot <- x10, polls <- x11, mode <- x1, market <- x2,
  account <- x3, budget <- x4, tracked <- x5, venuePosition <- x6,
  call <- x7, receipt <- x8, finger <- x9, open <- x10, unseen <- x11,
  told <- x12, crowded <- x13, calls <- x14, changes <- x15, stage <- x1,
  measure <- x2, healthy <- x3, registry <- x4, venue <- x5, now <- x6,
  given <- x1, phase <- x2, selected <- x3, values <- x4, pending <- x5,
  endpoint <- x6, time <- x1, moves <- x2, rate <- x3, books <- x4,
  volume <- x5, lowSince <- x6, context <- x7, loaded <- x8, step <- x9,
  asked <- x10, using <- x11, snapshots <- x12, todo <- x13, plan <- x14
Quo == INSTANCE Quoting_proofs WITH
  Tick <- PriceTick, Fills <- MarkedFills, mode <- x1, configured <- x2,
  alive <- x3, market <- x4, account <- x5, orders <- x6, doubted <- x7,
  revision <- x8, task <- x9, calls <- x10, shifts <- x11, refusals <- x12,
  tick <- x1, slots <- x2, candidate <- x3, made <- x4, limits <- x1,
  position <- x2, resting <- x3, quoted <- x4, samples <- x5, children <- x1,
  attempts <- x2, closed <- x3, time <- x1, sent <- x2, inFlight <- x3,
  line <- x4, quotes <- x5, basisAt <- x6, arrived <- x7
Str == INSTANCE Strategies_proofs WITH
  MaxOrders <- MaxTrendOrders, Target <- LegTarget, Held <- OwnSpot,
  market <- x1, view <- x2, book <- x3, news <- x4, mem <- x5, candles <- x6,
  reboots <- x7, loose <- x8, account <- x1, tracked <- x2, late <- x3,
  row <- x4, bound <- x5, stale <- x6, known <- x7, task <- x8, life <- x9,
  allowed <- x10, killed <- x11, faults <- x12, instance <- x1, stored <- x2,
  editors <- x3, edits <- x4
Que == INSTANCE Queues_proofs WITH
  MaxAge <- BudgetAge, Slots <- Handlers, Window <- RateWindow,
  MaxDelay <- MaxLag, Start <- StartPosition, items <- x1, commands <- x2,
  slot <- x3, source <- x4, reservations <- x5, orders <- x6, worker <- x7,
  overtaken <- x8, used <- x1, resting <- x2, mapped <- x3, now <- x4,
  remote <- x5, headroom <- x6, forced <- x7, possibleLive <- x8,
  attempts <- x9, asked <- x10, job <- x11, runway <- x12, unseen <- x13,
  row <- x1, published <- x2, claimed <- x3, owed <- x4, batch <- x5,
  marking <- x6, seen <- x7, sub <- x8, box <- x9, closed <- x10,
  stream <- x11, lastId <- x12, got <- x13, resynced <- x14, drops <- x15,
  restarts <- x16, purges <- x17, fails <- x18, up <- x1, mem <- x2,
  dedup <- x3, work <- x4, spool <- x5, torn <- x6, stored <- x7,
  taken <- x8, lost <- x9, again <- x10, crashes <- x11, errors <- x12,
  deliveries <- x13, clock <- x1, tokens <- x2, traffic <- x3, windows <- x4,
  admitted <- x5, serving <- x6, arrivals <- x7, sent <- x8, position <- x9,
  tracked <- x10, last <- x11
AccountInit ==
  \/ part = "ingestor" /\ Ven!IngestInit /\ Blank14
  \/ part = "tracker" /\ Ven!TrackerInit /\ Blank17
  \/ part = "reconciler" /\ Ven!ReconcilerInit /\ Blank3
  \/ part = "feed" /\ Ven!FeedInit /\ Blank11
  \/ part = "reference" /\ Quo!ReferenceInit /\ Blank7
  \/ part = "instruments" /\ Ins!CacheInit /\ Blank7
  \/ part = "delivery" /\ Que!DeliveryInit
  \/ part = "bus" /\ Bus!BusInit /\ Blank10
  \/ part = "archive" /\ Que!WriterInit /\ Blank13
  \/ part = "reservations" /\ Rsk!ReservationInit /\ Blank11
  \/ part = "decimal" /\ Dec!FixedInit /\ Blank3
  \/ part = "rest" /\ Rest!RestInit /\ Blank9
  \/ part = "data" /\ Dat!DataInit /\ Blank16
  \/ part = "features" /\ Feat!FeaturesInit /\ Blank10

AccountNext ==
  \/ part = "ingestor" /\ Ven!IngestNext /\ Kept14
  \/ part = "tracker" /\ Ven!TrackerNext /\ Kept17
  \/ part = "reconciler" /\ Ven!ReconcilerNext /\ Kept3
  \/ part = "feed" /\ Ven!FeedNext /\ Kept11
  \/ part = "reference" /\ Quo!ReferenceNext /\ Kept7
  \/ part = "instruments" /\ Ins!CacheNext /\ Kept7
  \/ part = "delivery" /\ Que!DeliveryNext /\ UNCHANGED part
  \/ part = "bus" /\ Bus!BusNext /\ Kept10
  \/ part = "archive" /\ Que!WriterNext /\ Kept13
  \/ part = "reservations" /\ Rsk!ReservationNext /\ Kept11
  \/ part = "decimal" /\ Dec!FixedNext /\ Kept3
  \/ part = "rest" /\ Rest!RestNext /\ Kept9
  \/ part = "data" /\ Dat!DataNext /\ Kept16
  \/ part = "features" /\ Feat!FeaturesNext /\ Kept10

StrategyInit ==
  \/ part = "plans" /\ Que!PlansInit /\ Blank8
  \/ part = "batch" /\ Quo!BatchInit /\ Blank3
  \/ part = "coordinator" /\ Quo!CoordinatorInit /\ Blank4
  \/ part = "maker" /\ Quo!MakerInit /\ Blank12
  \/ part = "policy" /\ Quo!PolicyInit /\ Blank5
  \/ part = "markout" /\ Quo!PolicyInit /\ Blank5
  \/ part = "supervisor" /\ Sup!SupervisorInit /\ Blank14
  \/ part = "versions" /\ Str!ConfigInit /\ Blank4
  \/ part = "trend" /\ Str!TrendInit /\ Blank8
  \/ part = "arb" /\ Str!ArbInit /\ Blank12
  \/ part = "budget" /\ Que!BudgetInit /\ Blank13
  \/ part = "emergency" /\ Ven!CancelInit /\ Blank9
  \/ part = "admission" /\ Rsk!AdmissionInit /\ Blank15
  \/ part = "canary" /\ Rsk!CanaryInit /\ Blank6
  \/ part = "backtest" /\ Bak!BacktestInit /\ Blank9
  \/ part = "replay" /\ Rep!ReplayInit /\ Blank8
  \/ part = "entry" /\ Rsk!EntryInit /\ Blank14
  \/ part = "launch" /\ Rsk!ConfigInit /\ Blank6
  \/ part = "gate" /\ Que!GateInit /\ Blank11

StrategyNext ==
  \/ part = "plans" /\ Que!PlansNext /\ Kept8
  \/ part = "batch" /\ Quo!BatchNext /\ Kept3
  \/ part = "coordinator" /\ Quo!CoordinatorNext /\ Kept4
  \/ part = "maker" /\ Quo!MakerNext /\ Kept12
  \/ part = "policy" /\ Quo!PolicyNext /\ Kept5
  \/ part = "markout" /\ Quo!MarkoutNext /\ Kept5
  \/ part = "supervisor" /\ Sup!SupervisorNext /\ Kept14
  \/ part = "versions" /\ Str!ConfigNext /\ Kept4
  \/ part = "trend" /\ Str!TrendNext /\ Kept8
  \/ part = "arb" /\ Str!ArbNext /\ Kept12
  \/ part = "budget" /\ Que!BudgetNext /\ Kept13
  \/ part = "emergency" /\ Ven!CancelNext /\ Kept9
  \/ part = "admission" /\ Rsk!AdmissionNext /\ Kept15
  \/ part = "canary" /\ Rsk!CanaryNext /\ Kept6
  \/ part = "backtest" /\ Bak!BacktestNext /\ Kept9
  \/ part = "replay" /\ Rep!ReplayNext /\ Kept8
  \/ part = "entry" /\ Rsk!EntryNext /\ Kept14
  \/ part = "launch" /\ Rsk!ConfigurationNext /\ Kept6
  \/ part = "gate" /\ Que!GateNext /\ Kept11

---------------------------------------------------------------------------
\* What the theorems about the components ask of their constants.
ASSUME ComponentBounds ==
  /\ Ven!BoundsAreNumbers /\ Ven!TrackerNumbers /\ Ven!AssetsAreFinite
  /\ Ven!LimitsAreNumbers /\ Ven!CancelBounds
  /\ Rsk!SizesAreLots /\ Rsk!AdmissionBounds /\ Sla \in Nat
  /\ Rsk!EntryBounds
  /\ Quo!CountsAreNumbers /\ Quo!SizesAreNumbers /\ Quo!PolicyBounds
  /\ Quo!PriceBounds /\ Quo!QuotesAreBounded
  /\ Str!CountsAreNumbers /\ Str!DraftsAreConfigs
  /\ Que!BoundsAreNumbers /\ Que!BudgetNumbers
  /\ Que!DeliveryBounds /\ Que!WriterBounds /\ Que!GateBounds

---------------------------------------------------------------------------
Init == AccountInit \/ StrategyInit

Next == AccountNext \/ StrategyNext

Spec == Init /\ [][Next]_vars

---------------------------------------------------------------------------
(* Properties: each is stated and explained in its own module.             *)

\* ExchangeIngestor: an event's facts are written exactly once.
FactsOnce == part = "ingestor" => Ven!IngestTypeOK /\ Ven!FactsOnce
\* ExchangeIngestor: a cursor hides only what the live path lost.
CursorCovers == part = "ingestor" => Ven!CursorCovers
\* AccountTracker: what fees and counts come to whatever the order of reports and
\* commits, and fresh health means applied state.
TrackerSound == part = "tracker" => Ven!FeesConverge /\ Ven!FreshIsApplied
\* Reconciler: applying the venue's truth settles every difference.
TruthSettles == [][part = "reconciler" => Ven!SettlingStep]_vars
\* WsFeed: no channel is forgotten.  ExternalReference: the newest quote counts.
FeedsSound ==
  /\ part = "feed" => Ven!FeedTypeOK /\ Ven!NoChannelForgotten
  /\ part = "reference" => Quo!ReferenceTypeOK /\ Quo!ReferenceIsNewest
\* EventDelivery, ClickHouseWriter: no client is led past an event, no accepted
\* row disappears.
DeliverySound ==
  /\ part = "delivery" => Que!NothingJumpedOver
  /\ part = "archive" => Que!ArchiveSound
\* RiskReservations: what may still fill is reserved.
LiveOrdersReserved == part = "reservations" => Rsk!LiveOrdersReserved
\* RiskReservations: what is admitted fits the limits, whatever fills later.
\* MarketData: what a reader sees never goes back.
StepsHold == [][/\ part = "reservations" => Rsk!AdmissionFits
                /\ part = "data" => Dat!ForwardStep]_vars
\* InstrumentCache, MarketData, FeatureWindows, EventBus: a name finds one of its
\* bearers or none, gaps are reported and series ascend, the windows hold what is
\* recent, no mailbox evicts one that must arrive.  FixedPoint, RestTraffic,
\* QuotePolicy, AccountTracker, FundingArb, Backtest, Replay: arithmetic and
\* parsing are exact or at the word's end, the venue's limit holds and a
\* backfill neither repeats nor skips, the markout estimate covers, amounts stay
\* within what was traded, the books balance.
DataSound ==
  /\ part = "instruments" => Ins!CacheTypeOK /\ Ins!NamesFindBearers
  /\ part = "data" => Dat!DataSound
  /\ part = "features" => Feat!WindowsSound
  /\ part = "bus" => Bus!BusSound
  /\ part = "decimal" => Dec!FixedSound
  /\ part = "rest" => Rest!RestSound
  /\ part = "markout" => Quo!EstimateCovers
  /\ part = "tracker" => Ven!TrackerTypeOK
  /\ part = "arb" => Str!ArbTypeOK
  /\ part = "backtest" => Bak!BacktestSound
  /\ part = "replay" => Rep!ReplaySound
\* QuotePlans: what is replaced is gone, what rests is reserved, the slot and
\* the parent command agree with the children.  Batch: so does its outcome.
PlansSound ==
  /\ part = "plans" => /\ Que!ReplacedIsGone /\ Que!ReservationHeld
                       /\ Que!OwnerFollowsPlan /\ Que!ParentAgrees
  /\ part = "batch" => Quo!BatchSound
\* QuoteCoordinator: a fenced plan only protects, an owner in doubt is left
\* alone.  QuotePolicy: no sequence of fills takes inventory over its band, and
\* no quote crosses the book it was made from.
QuotingSound ==
  /\ part = "coordinator" => Quo!PlanIsSafe /\ Quo!NoSnapBack
  /\ part = "policy" => Quo!BandHolds /\ Quo!PassiveQuotes
\* MarketMaker: a halt leaves nothing resting but unconfirmed cancels.
HaltLeavesNothing == part = "maker" => Quo!HaltLeavesNothing
\* FundingArb: the runtime drives what its row says.  ArbEntry: the legs of an
\* entry hedge each other, its volume was there lately.  ConfigVersions: a
\* version of a configuration is one meaning.  Configuration: what trades is
\* what was chosen.
RecordsSound ==
  /\ part = "arb" => Str!Driven
  /\ part = "versions" => Str!VersionsAreMeanings
  /\ part = "entry" => Rsk!EntryHedged /\ Rsk!EntryLiquid
  /\ part = "launch" => Rsk!ConfigurationSound
\* StrategySupervisor: markets are exclusive, nothing trades unseen, a halt
\* holds, for the strategies no failed start or overlap of calls has touched.
\* ArbEntry: an entry's legs fill, on books that are fresh.
ControlSound ==
  /\ part = "supervisor" => Sup!MarketsExclusive /\ Sup!NothingTradesUnseen /\ Sup!HaltHolds
  /\ part = "entry" => Rsk!EntryFills
\* TrendFollow: one entry at a time, with its stop on the right side.
OneEntryStopped == part = "trend" => Str!OneEntryStopped
\* ActionBudget, Admission, EmergencyCancel, Canary: the ledger promises no
\* more than the venue has, an answer is what the sink keeps, the journal knows
\* every request on its way, nothing expands past an alarm.  RequestGate: limits
\* hold, only operators reach the engine, closes only close.
GatesSound ==
  /\ part = "budget" => Que!BudgetSound
  /\ part = "admission" => Rsk!AdmissionSound
  /\ part = "emergency" => Ven!EmergencySound
  /\ part = "canary" => Rsk!CanarySound
  /\ part = "gate" => Que!RequestsGated

=============================================================================
