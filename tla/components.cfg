SPECIFICATION Spec
CONSTANTS
  \* ExchangeIngestor, AccountTracker, Reconciler
  Orders = {o1, o2}  OrdersPlaced = {o1}  QueueCap = 1  PageCap = 2
  MaxTime = 2  MaxEvents = 2  MaxFaults = 1
  Symbols = {s1}  Cloids = {c1, c2}  MaxFills = 2  MaxClock = 1  MaxAge = 0
  MaxPollFailures = 1  Estimates = {1, 2}  MaxReports = 2
  Assets = {a1, a2}  OpenOrders = {c1}
  \* WsFeed, ExternalReference, InstrumentCache
  Subs = {s1, s2}  MaxAttempts = 2  MaxRejects = 1  MaxBreaks = 2  MaxDelay = 2
  MaxQuotes = 2  StaleAfter = 1  BasisMaxAge = 1  FeatureMaxAge = 2
  Coins = {"p", "@1", "@2", "@3", "@4"}  Perps = {"p"}  MaxListings = 2  MaxFailures = 2
  \* EventDelivery, EventBus, ClickHouseWriter
  MaxSeq = 3  QueueSize = 2  BatchSize = 2  RowsPerBatch = 2  MaxDrops = 1  MaxRestarts = 1
  MaxPurges = 1  MaxFails = 0
  Capacity = 1  MaxPublished = 3
  Rows = {"a", "b", "c"}  Tables = {"t", "u"}  MaxKeys = 2  SpoolCap = 3
  MaxCrashes = 1  MaxErrors = 2  MaxDeliveries = 4
  \* RiskReservations, FixedPoint, RestTraffic
  SymbolLimit = 2  TotalLimit = 2  MaxPolls = 2
  Scale = 2  Bits = 11  MaxDigits = 3  Prec = 3  MaxExponent = 3  MaxPlaces = 3
  Limit = 3  Window = 2  MaxWaits = 1  SendTimeout = 1  MaxInfoRetries = 2
  InfoWeight = 2  CandleWeight = 1  PerItem = 2  ExchangeWeight = 1  FreshFor = 2
  Watermark = 1  Quotas = {0, 1}  Interval = 2  PageSize = 1  LastBar = 5
  Starts = {0, 1}  LastRest = 3  MaxCalls = 2
  \* MarketData, FeatureWindows
  MailboxSize = 2  MaxSeries = 2  Requests = {r1}  CandlesWanted = 2  LastTime = 1
  LastTid = 3  MaxReconnects = 1  MaxFrames = 3
  FlowWindow = 1  MaxKept = 2  Cycles = {"loop", "control"}  LastFlow = 4
  MaxTrades = 3  MaxBuilds = 3
  \* QuotePlans, Batch, QuoteCoordinator
  Workers = {w1, w2}  MaxPlans = 2
  MaxChildren = 3  AttemptIds = {1, 2}
  FullSize = 50  FillSize = 25  MinLifetime = 1  Cooldown = 1
  MaxQuoteAge = 2  PriceHysteresis = 0  Validity = 2  LastTick = 2  MaxRevision = 2
  \* MarketMaker, QuotePolicy
  MaxOrders = 2  MaxShifts = 2  MaxRefusals = 1
  Fair = 10000  PriceTick = 4  Spreads = {0, 7}  MinHalfSpread = 1  MaxFairShift = 2
  SkewBps = 5  MaxSkewBps = 20  Depth = 3
  MarkedFills = {1, 2, 3}  MinSamples = 2  MaxSamples = 3  DefaultMarkout = 1
  \* StrategySupervisor, ConfigVersions, TrendFollow
  RunnerTasks = {t1, t2}  Strategies = {"a", "b"}  Trend = {"b"}  MaxLifecycle = 3
  MaxVersions = 2  MaxStoreFailures = 1
  Offered = {"start", "resume", "pause", "drain", "stop", "activate",
             "upsert", "snapshot", "fault", "suspend", "unsuspend",
             "recover"}
  Editors = {e1, e2}  MaxPeriod = 3  MaxEdits = 4
  MaxTrendOrders = 4  MaxCandles = 5  MaxTrendRestarts = 1
  \* FundingArb, ActionBudget, EmergencyCancel
  LegTarget = 2  PerpLot = 2  MaxTries = 1  OwnSpot = 1  MaxLate = 1  MaxCycles = 1
  Cap = 6  Buffer = 1  CloseReserve = 1  ConserveAt = 3  CriticalAt = 2
  CancelOnlyAt = 0  BudgetAge = 4  Minute = 4  IpLimit = 4  IpReserve = 1
  HardLimit = 1  LastEvent = 8
  LiveTargets = {"x", "y"}  MaxCancels = 4  MaxOps = 2
  \* Admission, Canary
  Callers = {"c", "d"}  RequestIds = {1, 2}  Lot = 2  MinSize = 2  MaxSize = 3
  MaxRequests = 2  MaxChanges = 1
  Slots = {q1}  Sla = 0  LastHour = 1  Worst = 1
  \* ArbEntry, RequestGate (Configuration's layers are MCComponents')
  ArbPerps = {"A"}  Rates = {0}  Volumes = {0, 5}  MarketStale = 2  CacheTtl = 1
  Slippage = 200  MaxBasis = 200  MaxSpread = 500  EntryRate = 60  ExitRate = 10
  HoldHours = 8  Fees = 20  MinEdge = 5  MaxNotional = 300  MinDepth = 100
  MinVolume = 3  Hedge = 150  Horizon = 6  MaxMoves = 1
  Clients = {"x"}  Handlers = {r1, r2}  RateWindow = 2  SweepAt = 1
  RequestLimit = 2  MutationLimit = 2  FailureLimit = 1  MaxLag = 1  StartPosition = 1
  MaxArrivals = 3  MaxPosition = 2  MaxSent = 2
  \* Backtest, Replay
  BacktestMarkets = {"x", "y"}  Levels = {120, 240}  BacktestSizes = {1, 2}  SizeUnit = 10
  Taker = 2  Rebate = 1  Slip = 60  MaxBars = 2
  OrderIds = {1, 2}  QuotePrices = {60, 120}  TradePrices = {60, 120}
  QuoteSizes = {1, 2}  TradeSizes = {3}  Queues = {0, 1}  Multiplier = 1
  Latency = 1  RebateRate = 1  MaxPlayed = 3
  o1 = o1  o2 = o2  s1 = s1  s2 = s2  c1 = c1  c2 = c2  a1 = a1  a2 = a2
  r1 = r1  r2 = r2  w1 = w1  w2 = w2  t1 = t1  t2 = t2  e1 = e1  e2 = e2  q1 = q1
SYMMETRY RunnerSymmetry
INVARIANTS
  FactsOnce CursorCovers TrackerSound FeedsSound LiveOrdersReserved PlansSound
  QuotingSound HaltLeavesNothing OneEntryStopped RecordsSound GatesSound
  DeliverySound  DataSound
PROPERTIES TruthSettles StepsHold
CHECK_DEADLOCK FALSE
