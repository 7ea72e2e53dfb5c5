SPECIFICATION Spec
CONSTANTS
  \* ExchangeIngestor, AccountTracker, WsFeed
  Orders = {o1}  OrdersPlaced = {o1}  QueueCap = 1  PageCap = 2
  MaxTime = 2  MaxEvents = 2  MaxFaults = 1
  Symbols = {s1}  Cloids = {c1, c2}  MaxFills = 2  MaxClock = 0  MaxAge = 0
  MaxPollFailures = 1  Estimates = {1}  MaxReports = 1
  Subs = {s1, s2}  MaxAttempts = 2  MaxRejects = 1  MaxBreaks = 2  MaxDelay = 2
  \* EventDelivery, EventBus
  MaxSeq = 3  QueueSize = 2  BatchSize = 2  MaxDrops = 1  MaxRestarts = 0
  MaxPurges = 0  MaxFails = 1
  Capacity = 1  MaxPublished = 3
  \* QuotePlans, MarketMaker, FundingArb
  Workers = {w1}  MaxPlans = 2
  MaxOrders = 2  MaxCalls = 1  MaxShifts = 2  MaxRefusals = 0
  LegTarget = 2  PerpLot = 2  MaxTries = 1  OwnSpot = 0  MaxCycles = 1  MaxLate = 1
  o1 = o1  s1 = s1  s2 = s2  c1 = c1  c2 = c2  w1 = w1
PROPERTIES
  EverythingIngested TrackerConverges EventuallySubscribed EventsArrive
  StrategiesProgress
CHECK_DEADLOCK FALSE
