---------------------------- MODULE MCProgress ----------------------------
(***************************************************************************)
(* What must eventually happen, in the eight state machines that promise   *)
(* it.  They share no state; `part` names the one a behaviour runs.        *)
(***************************************************************************)
EXTENDS Integers, Sequences

CONSTANTS
  Orders, OrdersPlaced, QueueCap, PageCap, MaxTime, MaxEvents, MaxFaults,
  Symbols, Cloids, MaxFills, MaxClock, MaxAge, MaxPollFailures, MaxReports,
  Estimates, Subs, MaxAttempts, MaxRejects, MaxBreaks, MaxDelay, MaxSeq,
  QueueSize, BatchSize, MaxDrops, MaxRestarts, MaxPurges, MaxFails, Capacity,
  MaxPublished, Workers, MaxPlans, MaxOrders, MaxCalls, MaxShifts,
  MaxRefusals, LegTarget, PerpLot, MaxTries, OwnSpot, MaxCycles, MaxLate

VARIABLES
  part,
  now, venue, queue, lost, live, inbox, cursor, rows, pos, facts, booked,
  tracker, task, faults, clock, trades, held, fees, count, applied, keyed,
  prov, reports, announced, excess, exact, spotAt, observed, posRows, poll,
  pollFailures, socket, generation, delay, breaks, asked, active, failed,
  attempts, rested, rejects, bookGen, row, published, claimed, owed, batch,
  marking, seen, sub, box, closed, stream, lastId, got, resynced, drops,
  restarts, purges, fails, items, listed, shut, gone, permit, job, events,
  pushed, taken, refused, children, commands, slot, source, reservations,
  orders, worker, overtaken, mode, configured, alive, market, account,
  makerOrders, doubted, revision, cycle, makerCalls, shifts, refusals, legs,
  tracked, late, arbRow, bound, stale, known, driving, life, allowed, killed,
  arbFaults

Publishers == {"p", "q"}
Boxes == {"x"}

Ing == INSTANCE ExchangeIngestor WITH Placed <- OrdersPlaced
Trk == INSTANCE AccountTracker
Feed == INSTANCE WsFeed
Del == INSTANCE EventDelivery
Bus == INSTANCE EventBus WITH MaxEvents <- MaxPublished, failed <- refused
Plan == INSTANCE QuotePlans WITH items <- children
Mkr == INSTANCE MarketMaker WITH orders <- makerOrders, calls <- makerCalls,
                                 task <- cycle
Arb == INSTANCE FundingArb WITH Target <- LegTarget, Held <- OwnSpot,
                                task <- driving, faults <- arbFaults,
                                row <- arbRow, account <- legs

vIng == <<now, venue, queue, lost, live, inbox, cursor, rows, pos, facts,
          booked, tracker, task, faults>>
vTrk == <<clock, trades, held, fees, count, applied, keyed, prov, reports,
          announced, excess, exact, spotAt, observed, posRows, poll,
          pollFailures>>
vFeed == <<socket, generation, delay, breaks, asked, active, failed, attempts,
           rested, rejects, bookGen>>
vDel == <<row, published, claimed, owed, batch, marking, seen, sub, box, closed,
          stream, lastId, got, resynced, drops, restarts, purges, fails>>
vBus == <<items, listed, shut, gone, permit, job, events, pushed, taken, refused>>
vPlan == <<children, commands, slot, source, reservations, orders, worker,
           overtaken>>
vMkr == <<mode, configured, alive, market, account, makerOrders, doubted,
          revision, cycle, makerCalls, shifts, refusals>>
vArb == <<legs, tracked, late, arbRow, bound, stale, known, driving, life,
          allowed, killed, arbFaults>>
vars == <<part, vIng, vTrk, vFeed, vDel, vBus, vPlan, vMkr, vArb>>

Parts == {"ingestor", "tracker", "feed", "delivery", "bus", "plans",
          "maker", "arb"}

Init ==
  /\ part \in Parts
  /\ Ing!IngestInit /\ Trk!TrackerInit /\ Feed!FeedInit /\ Del!DeliveryInit
  /\ Bus!BusInit /\ Plan!PlansInit /\ Mkr!MakerInit /\ Arb!ArbInit

NotIng == UNCHANGED <<part, vTrk, vFeed, vDel, vBus, vPlan, vMkr, vArb>>
NotTrk == UNCHANGED <<part, vIng, vFeed, vDel, vBus, vPlan, vMkr, vArb>>
NotFeed == UNCHANGED <<part, vIng, vTrk, vDel, vBus, vPlan, vMkr, vArb>>
NotDel == UNCHANGED <<part, vIng, vTrk, vFeed, vBus, vPlan, vMkr, vArb>>
NotBus == UNCHANGED <<part, vIng, vTrk, vFeed, vDel, vPlan, vMkr, vArb>>
NotPlan == UNCHANGED <<part, vIng, vTrk, vFeed, vDel, vBus, vMkr, vArb>>
NotMkr == UNCHANGED <<part, vIng, vTrk, vFeed, vDel, vBus, vPlan, vArb>>
NotArb == UNCHANGED <<part, vIng, vTrk, vFeed, vDel, vBus, vPlan, vMkr>>

Next ==
  \/ part = "ingestor" /\ Ing!IngestNext /\ NotIng
  \/ part = "tracker" /\ Trk!TrackerNext /\ NotTrk
  \/ part = "feed" /\ Feed!FeedNext /\ NotFeed
  \/ part = "delivery" /\ Del!DeliveryNext /\ NotDel
  \/ part = "bus" /\ Bus!BusNext /\ NotBus
  \/ part = "plans" /\ Plan!PlansNext /\ NotPlan
  \/ part = "maker" /\ Mkr!MakerNext /\ NotMkr
  \/ part = "arb" /\ Arb!ArbNext /\ NotArb

---------------------------------------------------------------------------
(* Fairness: tasks the runtime keeps scheduling, timers and leases that    *)
(* run out, a venue that answers and keeps sending.  A behaviour has one   *)
(* part, so one condition stands for an action of each.                    *)

Turn1 ==
  \/ part = "ingestor" /\ Ing!RecoverStart /\ NotIng
  \/ part = "tracker" /\ Trk!PollStep /\ NotTrk
  \/ part = "feed" /\ Feed!Connect /\ NotFeed
  \/ part = "delivery" /\ Del!StreamStep /\ NotDel
  \/ part = "bus" /\ Bus!BusStep("p") /\ NotBus
  \/ part = "plans" /\ (\E w \in Workers : Plan!WorkerStep(w)) /\ NotPlan
  \/ part = "maker" /\ Mkr!TaskStep("loop") /\ NotMkr
  \/ part = "arb" /\ Arb!Tick /\ NotArb
Turn2 ==
  \/ part = "ingestor" /\ (Ing!FetchPage \/ Ing!RecoverEvent) /\ NotIng
  \/ part = "feed" /\ Feed!Answer /\ NotFeed
  \/ part = "delivery" /\ Del!RelayStep /\ NotDel
  \/ part = "bus" /\ Bus!BusStep("q") /\ NotBus
  \/ part = "plans" /\ (\E c \in Plan!Children : Plan!LeaseRunsOut(c)) /\ NotPlan
  \/ part = "maker" /\ Mkr!TaskStep("control") /\ NotMkr
  \/ part = "arb" /\ Arb!CycleStep /\ NotArb
Turn3 ==
  \/ part = "ingestor" /\ Ing!Tick /\ NotIng
  \/ part = "feed" /\ Feed!Frame /\ NotFeed
  \/ part = "bus" /\ Bus!Recv("x") /\ NotBus
  \/ part = "arb" /\ Arb!Poll /\ NotArb
Turn4 ==
  \/ part = "feed" /\ (Feed!Rest \/ Feed!Dies \/ Feed!ReadTimeout) /\ NotFeed
  \/ part = "arb" /\ Arb!Start /\ NotArb

Spec == Init /\ [][Next]_vars
             /\ WF_vars(Turn1) /\ WF_vars(Turn2) /\ WF_vars(Turn3) /\ WF_vars(Turn4)

---------------------------------------------------------------------------
(* Properties: each is stated and explained in its own module.             *)

\* ExchangeIngestor: recovery commits every event the live path did not lose.
EverythingIngested == part = "ingestor" => Ing!EverythingIngested
\* AccountTracker: with a quiet venue the poller repairs tracker and rows.
TrackerConverges == part = "tracker" => Trk!TrackerConverges
\* WsFeed: rejected and broken subscriptions end up fed.
EventuallySubscribed == part = "feed" => Feed!EventuallySubscribed
\* EventDelivery, EventBus: an event reaches the client, a publisher returns.
EventsArrive == []<>(/\ part = "delivery" => Del!CaughtUp
                     /\ part = "bus" => Bus!NobodyWaits)
\* QuotePlans, MarketMaker, FundingArb: plans are settled, a stale book is
\* cleared of quotes, an entry that was begun comes to an end.
StrategiesProgress == []<>(/\ part = "plans" => Plan!Settled
                           /\ part = "maker" => Mkr!Cleared
                           /\ part = "arb" => Arb!EntryDone)

=============================================================================
