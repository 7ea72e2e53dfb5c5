-------------------------- MODULE Components_proofs --------------------------
(***************************************************************************)
(* What is proved of a component holds where the components stand beside   *)
(* each other: a behaviour of Spec runs one part from its initial state by *)
(* its own steps.                                                          *)
(***************************************************************************)
EXTENDS MCComponents, TLAPS

LEMMA PartKept == [Next]_vars => part' = part
BY DEF Next, AccountNext, StrategyNext, vars, Kept3, Kept4, Kept5, Kept6, Kept7, Kept8, Kept9, Kept10, Kept11,
       Kept12, Kept13, Kept14, Kept15, Kept16, Kept17

-----------------------------------------------------------------------------
(* A behaviour of Spec that starts with a part is one of that component; one *)
(* that does not never comes to it.                                          *)

LEMMA IngestorRuns ==
  /\ Spec /\ part = "ingestor" => Ven!IngestSpec
  /\ Spec /\ ~(part = "ingestor") => []~(part = "ingestor")
<1>1. /\ Init /\ part = "ingestor" => Ven!IngestInit
      /\ [Next]_vars /\ part = "ingestor" => (part = "ingestor")' /\ [Ven!IngestNext]_(Ven!ingestVars)
      /\ [Next]_vars /\ ~(part = "ingestor") => ~(part = "ingestor")'
  BY PartKept
  DEF Init, AccountInit, StrategyInit, Next, AccountNext, StrategyNext, vars, Ven!ingestVars
<1> QED
  BY <1>1, PTL DEF Spec, Ven!IngestSpec

LEMMA TrackerRuns ==
  /\ Spec /\ part = "tracker" => Ven!TrackerSpec
  /\ Spec /\ ~(part = "tracker") => []~(part = "tracker")
<1>1. /\ Init /\ part = "tracker" => Ven!TrackerInit
      /\ [Next]_vars /\ part = "tracker" => (part = "tracker")' /\ [Ven!TrackerNext]_(Ven!trackerVars)
      /\ [Next]_vars /\ ~(part = "tracker") => ~(part = "tracker")'
  BY PartKept
  DEF Init, AccountInit, StrategyInit, Next, AccountNext, StrategyNext, vars, Ven!trackerVars
<1> QED
  BY <1>1, PTL DEF Spec, Ven!TrackerSpec

LEMMA ReconcilerRuns ==
  /\ Spec /\ part = "reconciler" => Ven!ReconcilerSpec
  /\ Spec /\ ~(part = "reconciler") => []~(part = "reconciler")
<1>1. /\ Init /\ part = "reconciler" => Ven!ReconcilerInit
      /\ [Next]_vars /\ part = "reconciler" => (part = "reconciler")' /\ [Ven!ReconcilerNext]_(Ven!reconcilerVars)
      /\ [Next]_vars /\ ~(part = "reconciler") => ~(part = "reconciler")'
  BY PartKept
  DEF Init, AccountInit, StrategyInit, Next, AccountNext, StrategyNext, vars, Ven!reconcilerVars
<1> QED
  BY <1>1, PTL DEF Spec, Ven!ReconcilerSpec

LEMMA FeedRuns ==
  /\ Spec /\ part = "feed" => Ven!FeedSpec
  /\ Spec /\ ~(part = "feed") => []~(part = "feed")
<1>1. /\ Init /\ part = "feed" => Ven!FeedInit
      /\ [Next]_vars /\ part = "feed" => (part = "feed")' /\ [Ven!FeedNext]_(Ven!feedVars)
      /\ [Next]_vars /\ ~(part = "feed") => ~(part = "feed")'
  BY PartKept
  DEF Init, AccountInit, StrategyInit, Next, AccountNext, StrategyNext, vars, Ven!feedVars
<1> QED
  BY <1>1, PTL DEF Spec, Ven!FeedSpec

LEMMA EmergencyRuns ==
  /\ Spec /\ part = "emergency" => Ven!EmergencySpec
  /\ Spec /\ ~(part = "emergency") => []~(part = "emergency")
<1>1. /\ Init /\ part = "emergency" => Ven!CancelInit
      /\ [Next]_vars /\ part = "emergency" => (part = "emergency")' /\ [Ven!CancelNext]_(Ven!cancelVars)
      /\ [Next]_vars /\ ~(part = "emergency") => ~(part = "emergency")'
  BY PartKept
  DEF Init, AccountInit, StrategyInit, Next, AccountNext, StrategyNext, vars, Ven!cancelVars
<1> QED
  BY <1>1, PTL DEF Spec, Ven!EmergencySpec

LEMMA ReservationsRun ==
  /\ Spec /\ part = "reservations" => Rsk!ReservationSpec
  /\ Spec /\ ~(part = "reservations") => []~(part = "reservations")
<1>1. /\ Init /\ part = "reservations" => Rsk!ReservationInit
      /\ [Next]_vars /\ part = "reservations" => (part = "reservations")' /\ [Rsk!ReservationNext]_(Rsk!reservationVars)
      /\ [Next]_vars /\ ~(part = "reservations") => ~(part = "reservations")'
  BY PartKept
  DEF Init, AccountInit, StrategyInit, Next, AccountNext, StrategyNext, vars, Rsk!reservationVars
<1> QED
  BY <1>1, PTL DEF Spec, Rsk!ReservationSpec

LEMMA AdmissionRuns ==
  /\ Spec /\ part = "admission" => Rsk!AdmissionSpec
  /\ Spec /\ ~(part = "admission") => []~(part = "admission")
<1>1. /\ Init /\ part = "admission" => Rsk!AdmissionInit
      /\ [Next]_vars /\ part = "admission" => (part = "admission")' /\ [Rsk!AdmissionNext]_(Rsk!admissionVars)
      /\ [Next]_vars /\ ~(part = "admission") => ~(part = "admission")'
  BY PartKept
  DEF Init, AccountInit, StrategyInit, Next, AccountNext, StrategyNext, vars, Rsk!admissionVars, Rsk!gateVars, Rsk!positionVars, Rsk!sinkVars
<1> QED
  BY <1>1, PTL DEF Spec, Rsk!AdmissionSpec

LEMMA CanaryRuns ==
  /\ Spec /\ part = "canary" => Rsk!CanarySpec
  /\ Spec /\ ~(part = "canary") => []~(part = "canary")
<1>1. /\ Init /\ part = "canary" => Rsk!CanaryInit
      /\ [Next]_vars /\ part = "canary" => (part = "canary")' /\ [Rsk!CanaryNext]_(Rsk!canaryVars)
      /\ [Next]_vars /\ ~(part = "canary") => ~(part = "canary")'
  BY PartKept
  DEF Init, AccountInit, StrategyInit, Next, AccountNext, StrategyNext, vars, Rsk!canaryVars
<1> QED
  BY <1>1, PTL DEF Spec, Rsk!CanarySpec

LEMMA MakerRuns ==
  /\ Spec /\ part = "maker" => Quo!MakerSpec
  /\ Spec /\ ~(part = "maker") => []~(part = "maker")
<1>1. /\ Init /\ part = "maker" => Quo!MakerInit
      /\ [Next]_vars /\ part = "maker" => (part = "maker")' /\ [Quo!MakerNext]_(Quo!makerVars)
      /\ [Next]_vars /\ ~(part = "maker") => ~(part = "maker")'
  BY PartKept
  DEF Init, AccountInit, StrategyInit, Next, AccountNext, StrategyNext, vars, Quo!makerVars
<1> QED
  BY <1>1, PTL DEF Spec, Quo!MakerSpec

LEMMA CoordinatorRuns ==
  /\ Spec /\ part = "coordinator" => Quo!CoordinatorSpec
  /\ Spec /\ ~(part = "coordinator") => []~(part = "coordinator")
<1>1. /\ Init /\ part = "coordinator" => Quo!CoordinatorInit
      /\ [Next]_vars /\ part = "coordinator" => (part = "coordinator")' /\ [Quo!CoordinatorNext]_(Quo!coordinatorVars)
      /\ [Next]_vars /\ ~(part = "coordinator") => ~(part = "coordinator")'
  BY PartKept
  DEF Init, AccountInit, StrategyInit, Next, AccountNext, StrategyNext, vars, Quo!coordinatorVars
<1> QED
  BY <1>1, PTL DEF Spec, Quo!CoordinatorSpec

LEMMA PolicyRuns ==
  /\ Spec /\ part = "policy" => Quo!PolicySpec
  /\ Spec /\ ~(part = "policy") => []~(part = "policy")
<1>1. /\ Init /\ part = "policy" => Quo!PolicyInit
      /\ [Next]_vars /\ part = "policy" => (part = "policy")' /\ [Quo!PolicyNext]_(Quo!policyVars)
      /\ [Next]_vars /\ ~(part = "policy") => ~(part = "policy")'
  BY PartKept
  DEF Init, AccountInit, StrategyInit, Next, AccountNext, StrategyNext, vars, Quo!policyVars
<1> QED
  BY <1>1, PTL DEF Spec, Quo!PolicySpec

LEMMA BatchRuns ==
  /\ Spec /\ part = "batch" => Quo!BatchSpec
  /\ Spec /\ ~(part = "batch") => []~(part = "batch")
<1>1. /\ Init /\ part = "batch" => Quo!BatchInit
      /\ [Next]_vars /\ part = "batch" => (part = "batch")' /\ [Quo!BatchNext]_(Quo!batchVars)
      /\ [Next]_vars /\ ~(part = "batch") => ~(part = "batch")'
  BY PartKept
  DEF Init, AccountInit, StrategyInit, Next, AccountNext, StrategyNext, vars, Quo!batchVars
<1> QED
  BY <1>1, PTL DEF Spec, Quo!BatchSpec

LEMMA ReferenceRuns ==
  /\ Spec /\ part = "reference" => Quo!ReferenceSpec
  /\ Spec /\ ~(part = "reference") => []~(part = "reference")
<1>1. /\ Init /\ part = "reference" => Quo!ReferenceInit
      /\ [Next]_vars /\ part = "reference" => (part = "reference")' /\ [Quo!ReferenceNext]_(Quo!referenceVars)
      /\ [Next]_vars /\ ~(part = "reference") => ~(part = "reference")'
  BY PartKept
  DEF Init, AccountInit, StrategyInit, Next, AccountNext, StrategyNext, vars, Quo!referenceVars
<1> QED
  BY <1>1, PTL DEF Spec, Quo!ReferenceSpec

LEMMA TrendRuns ==
  /\ Spec /\ part = "trend" => Str!TrendSpec
  /\ Spec /\ ~(part = "trend") => []~(part = "trend")
<1>1. /\ Init /\ part = "trend" => Str!TrendInit
      /\ [Next]_vars /\ part = "trend" => (part = "trend")' /\ [Str!TrendNext]_(Str!trendVars)
      /\ [Next]_vars /\ ~(part = "trend") => ~(part = "trend")'
  BY PartKept
  DEF Init, AccountInit, StrategyInit, Next, AccountNext, StrategyNext, vars, Str!trendVars
<1> QED
  BY <1>1, PTL DEF Spec, Str!TrendSpec

LEMMA ArbRuns ==
  /\ Spec /\ part = "arb" => Str!ArbSpec
  /\ Spec /\ ~(part = "arb") => []~(part = "arb")
<1>1. /\ Init /\ part = "arb" => Str!ArbInit
      /\ [Next]_vars /\ part = "arb" => (part = "arb")' /\ [Str!ArbNext]_(Str!arbVars)
      /\ [Next]_vars /\ ~(part = "arb") => ~(part = "arb")'
  BY PartKept
  DEF Init, AccountInit, StrategyInit, Next, AccountNext, StrategyNext, vars, Str!arbVars
<1> QED
  BY <1>1, PTL DEF Spec, Str!ArbSpec

LEMMA VersionsRun ==
  /\ Spec /\ part = "versions" => Str!ConfigSpec
  /\ Spec /\ ~(part = "versions") => []~(part = "versions")
<1>1. /\ Init /\ part = "versions" => Str!ConfigInit
      /\ [Next]_vars /\ part = "versions" => (part = "versions")' /\ [Str!ConfigNext]_(Str!configVars)
      /\ [Next]_vars /\ ~(part = "versions") => ~(part = "versions")'
  BY PartKept
  DEF Init, AccountInit, StrategyInit, Next, AccountNext, StrategyNext, vars, Str!configVars
<1> QED
  BY <1>1, PTL DEF Spec, Str!ConfigSpec

LEMMA PlansRun ==
  /\ Spec /\ part = "plans" => Que!PlansSpec
  /\ Spec /\ ~(part = "plans") => []~(part = "plans")
<1>1. /\ Init /\ part = "plans" => Que!PlansInit
      /\ [Next]_vars /\ part = "plans" => (part = "plans")' /\ [Que!PlansNext]_(Que!plansVars)
      /\ [Next]_vars /\ ~(part = "plans") => ~(part = "plans")'
  BY PartKept
  DEF Init, AccountInit, StrategyInit, Next, AccountNext, StrategyNext, vars, Que!plansVars
<1> QED
  BY <1>1, PTL DEF Spec, Que!PlansSpec

LEMMA BudgetRuns ==
  /\ Spec /\ part = "budget" => Que!BudgetSpec
  /\ Spec /\ ~(part = "budget") => []~(part = "budget")
<1>1. /\ Init /\ part = "budget" => Que!BudgetInit
      /\ [Next]_vars /\ part = "budget" => (part = "budget")' /\ [Que!BudgetNext]_(Que!budgetVars)
      /\ [Next]_vars /\ ~(part = "budget") => ~(part = "budget")'
  BY PartKept
  DEF Init, AccountInit, StrategyInit, Next, AccountNext, StrategyNext, vars, Que!budgetVars
<1> QED
  BY <1>1, PTL DEF Spec, Que!BudgetSpec

LEMMA DeliveryRuns ==
  /\ Spec /\ part = "delivery" => Que!DeliverySpec
  /\ Spec /\ ~(part = "delivery") => []~(part = "delivery")
<1>1. /\ Init /\ part = "delivery" => Que!DeliveryInit
      /\ [Next]_vars /\ part = "delivery" => (part = "delivery")' /\ [Que!DeliveryNext]_(Que!deliveryVars)
      /\ [Next]_vars /\ ~(part = "delivery") => ~(part = "delivery")'
  BY PartKept
  DEF Init, AccountInit, StrategyInit, Next, AccountNext, StrategyNext, vars, Que!deliveryVars, Que!tableVars, Que!relayVars, Que!serverVars, Que!clientVars, Que!faultVars
<1> QED
  BY <1>1, PTL DEF Spec, Que!DeliverySpec

LEMMA ArchiveRuns ==
  /\ Spec /\ part = "archive" => Que!WriterSpec
  /\ Spec /\ ~(part = "archive") => []~(part = "archive")
<1>1. /\ Init /\ part = "archive" => Que!WriterInit
      /\ [Next]_vars /\ part = "archive" => (part = "archive")' /\ [Que!WriterNext]_(Que!writerVars)
      /\ [Next]_vars /\ ~(part = "archive") => ~(part = "archive")'
  BY PartKept
  DEF Init, AccountInit, StrategyInit, Next, AccountNext, StrategyNext, vars, Que!writerVars
<1> QED
  BY <1>1, PTL DEF Spec, Que!WriterSpec

LEMMA GateRuns ==
  /\ Spec /\ part = "gate" => Que!GateSpec
  /\ Spec /\ ~(part = "gate") => []~(part = "gate")
<1>1. /\ Init /\ part = "gate" => Que!GateInit
      /\ [Next]_vars /\ part = "gate" => (part = "gate")' /\ [Que!GateNext]_(Que!gateVars)
      /\ [Next]_vars /\ ~(part = "gate") => ~(part = "gate")'
  BY PartKept
  DEF Init, AccountInit, StrategyInit, Next, AccountNext, StrategyNext, vars, Que!gateVars
<1> QED
  BY <1>1, PTL DEF Spec, Que!GateSpec

LEMMA LaunchRuns ==
  /\ Spec /\ part = "launch" => Rsk!ConfigurationSpec
  /\ Spec /\ ~(part = "launch") => []~(part = "launch")
<1>1. /\ Init /\ part = "launch" => Rsk!ConfigInit
      /\ [Next]_vars /\ part = "launch" => (part = "launch")' /\ [Rsk!ConfigurationNext]_(Rsk!configVars)
      /\ [Next]_vars /\ ~(part = "launch") => ~(part = "launch")'
  BY PartKept
  DEF Init, AccountInit, StrategyInit, Next, AccountNext, StrategyNext, vars, Rsk!configVars
<1> QED
  BY <1>1, PTL DEF Spec, Rsk!ConfigurationSpec

LEMMA EntryRuns ==
  /\ Spec /\ part = "entry" => Rsk!EntrySpec
  /\ Spec /\ ~(part = "entry") => []~(part = "entry")
<1>1. /\ Init /\ part = "entry" => Rsk!EntryInit
      /\ [Next]_vars /\ part = "entry" => (part = "entry")' /\ [Rsk!EntryNext]_(Rsk!entryVars)
      /\ [Next]_vars /\ ~(part = "entry") => ~(part = "entry")'
  BY PartKept
  DEF Init, AccountInit, StrategyInit, Next, AccountNext, StrategyNext, vars, Rsk!entryVars
<1> QED
  BY <1>1, PTL DEF Spec, Rsk!EntrySpec

-----------------------------------------------------------------------------
(* The venue: facts, account, feeds *)

\* ExchangeIngestor among the components: every event of the venue is written
\* once, whatever path it takes, and what a row has filled is booked on it
\* (exchange_ingestor.rs), for every bound.
THEOREM FactsWrittenOnce == Spec => []FactsOnce
<1>1. Spec => [](part = "ingestor" => Ven!IngestTypeOK /\ Ven!FactsOnce)
  <2>1. Ven!IngestSpec => []Ven!IngestTypeOK
    BY ComponentBounds, Ven!IngestTypeCorrect
  <2>2. Ven!IngestSpec => []Ven!FactsOnce
    BY ComponentBounds, Ven!FactsWrittenOnce
  <2> QED BY <2>1, <2>2, IngestorRuns, PTL
<1>2. (part = "ingestor" => Ven!IngestTypeOK /\ Ven!FactsOnce) => FactsOnce
  BY DEF FactsOnce
<1> QED BY <1>1, <1>2, PTL

\* ExchangeIngestor among the components: a stream's cursor passes an event
\* uncommitted only where the live path lost it (advance_cursor), for every
\* bound.
THEOREM NothingSkipped == Spec => []CursorCovers
<1>1. Spec => [](part = "ingestor" => Ven!CursorCovers)
  <2>1. Ven!IngestSpec => []Ven!CursorCovers
    BY ComponentBounds, Ven!NothingSkipped
  <2> QED BY <2>1, IngestorRuns, PTL
<1>2. (part = "ingestor" => Ven!CursorCovers) => CursorCovers
  BY DEF CursorCovers
<1> QED BY <1>1, <1>2, PTL

\* AccountTracker among the components: whatever order reports and commits of
\* fills come in, the fees are those of the commits and of what still waits,
\* a commit replaces its order's report, and a clearinghouse or an inventory
\* counts as fresh only where its snapshot was applied (tracker.rs,
\* account_health.rs).
THEOREM TrackerAgrees == Spec => []TrackerSound
<1>1. Spec => [](part = "tracker" => Ven!FeesConverge /\ Ven!FreshIsApplied)
  <2>1. Ven!TrackerSpec => []Ven!FeesConverge
    BY ComponentBounds, Ven!FeesAreCountedOnce
  <2>2. Ven!TrackerSpec => []Ven!FreshIsApplied
    BY ComponentBounds, Ven!FreshMeansApplied
  <2> QED BY <2>1, <2>2, TrackerRuns, PTL
<1>2. (part = "tracker" => Ven!FeesConverge /\ Ven!FreshIsApplied) => TrackerSound
  BY DEF TrackerSound
<1> QED BY <1>1, <1>2, PTL

\* Reconciler among the components: applying the venue's truth leaves no
\* difference but open orders and symbols that are flat (reconciler.rs), for
\* any assets.
THEOREM TruthIsSettled == Spec => TruthSettles
<1>1. Ven!ReconcilerSpec => [][Ven!SettlingStep]_(Ven!reconcilerVars)
  BY ComponentBounds, Ven!TruthSettlesAll
<1>2. part = "reconciler" /\ [Next]_vars /\ [Ven!SettlingStep]_(Ven!reconcilerVars)
        => [part = "reconciler" => Ven!SettlingStep]_vars
  BY DEF Next, AccountNext, StrategyNext, vars, Ven!reconcilerVars,
         Kept3, Kept4, Kept5, Kept6, Kept7, Kept8, Kept9, Kept10, Kept11,
         Kept12, Kept13, Kept14, Kept15, Kept16, Kept17
<1>3. ~(part = "reconciler") /\ [Next]_vars => [part = "reconciler" => Ven!SettlingStep]_vars
  OBVIOUS
<1> QED BY <1>1, <1>2, <1>3, ReconcilerRuns, PTL DEF TruthSettles, Spec

\* WsFeed and ExternalReference among the components: no configured channel
\* is missing from a working socket by accident (ws_feed.rs), and a market
\* shows the newest quote that arrived (external_reference.rs), for every
\* bound.
THEOREM FeedsAreWhole == Spec => []FeedsSound
<1>1. Spec => [](part = "feed" => Ven!FeedTypeOK /\ Ven!NoChannelForgotten)
  <2>1. Ven!FeedSpec => [](Ven!FeedTypeOK /\ Ven!NoChannelForgotten)
    BY ComponentBounds, Ven!NoChannelIsForgotten
  <2> QED BY <2>1, FeedRuns, PTL
<1>2. Spec => [](part = "reference" => Quo!ReferenceTypeOK /\ Quo!ReferenceIsNewest)
  <2>1. Quo!ReferenceSpec => [](Quo!ReferenceTypeOK /\ Quo!ReferenceIsNewest)
    BY ComponentBounds, Quo!ReferenceIsTheNewest
  <2> QED BY <2>1, ReferenceRuns, PTL
<1>3.
  /\ (part = "feed" => Ven!FeedTypeOK /\ Ven!NoChannelForgotten)
  /\ (part = "reference" => Quo!ReferenceTypeOK /\ Quo!ReferenceIsNewest)
  => FeedsSound
  BY DEF FeedsSound
<1> QED BY <1>1, <1>2, <1>3, PTL

-----------------------------------------------------------------------------
(* Gates and plans *)

\* RiskReservations among the components: what the venue may still fill of an
\* order is reserved (durable_order_store.rs), whatever the limits.
THEOREM ReservationsKept == Spec => []LiveOrdersReserved
<1>1. Spec => [](part = "reservations" => Rsk!LiveOrdersReserved)
  <2>1. Rsk!ReservationSpec => []Rsk!LiveOrdersReserved
    BY ComponentBounds, Rsk!LiveOrdersKept
  <2> QED BY <2>1, ReservationsRun, PTL
<1>2. (part = "reservations" => Rsk!LiveOrdersReserved) => LiveOrdersReserved
  BY DEF LiveOrdersReserved
<1> QED BY <1>1, <1>2, PTL

\* ActionBudget, Admission, EmergencyCancel, Canary and RequestGate among the
\* components: the ledger promises no more requests than the venue would
\* answer, an answer is what the sink keeps, the journal knows every cancel
\* on its way, nothing expands past an alarm, and a request reaches the
\* engine within its limits and from an operator, for every bound.
THEOREM GatesHold == Spec => []GatesSound
<1>1. Spec => [](part = "budget" => Que!BudgetSound)
  <2>1. Que!BudgetSpec => []Que!BudgetSound
    BY ComponentBounds, Que!BudgetIsNotOverstated
  <2> QED BY <2>1, BudgetRuns, PTL
<1>2. Spec => [](part = "admission" => Rsk!AdmissionSound)
  <2>1. Rsk!AdmissionSpec => []Rsk!AdmissionSound
    BY ComponentBounds, Rsk!AdmissionHolds
  <2> QED BY <2>1, AdmissionRuns, PTL
<1>3. Spec => [](part = "emergency" => Ven!EmergencySound)
  <2>1. Ven!EmergencySpec => []Ven!EmergencySound
    BY ComponentBounds, Ven!NoCancelIsForgotten
  <2> QED BY <2>1, EmergencyRuns, PTL
<1>4. Spec => [](part = "canary" => Rsk!CanarySound)
  <2>1. Rsk!CanarySpec => []Rsk!CanarySound
    BY ComponentBounds, Rsk!CanaryHoldsBack
  <2> QED BY <2>1, CanaryRuns, PTL
<1>5. Spec => [](part = "gate" => Que!RequestsGated)
  <2>1. Que!GateSpec => []Que!RequestsGated
    BY ComponentBounds, Que!RequestsAreGated
  <2> QED BY <2>1, GateRuns, PTL
<1>6.
  /\ (part = "budget" => Que!BudgetSound)
  /\ (part = "admission" => Rsk!AdmissionSound)
  /\ (part = "emergency" => Ven!EmergencySound)
  /\ (part = "canary" => Rsk!CanarySound)
  /\ (part = "gate" => Que!RequestsGated)
  => GatesSound
  BY DEF GatesSound
<1> QED BY <1>1, <1>2, <1>3, <1>4, <1>5, <1>6, PTL

\* QuotePlans and Batch among the components: a replacement stands only once
\* the order it replaces is gone, what rests is reserved, the slot and the
\* parent command follow the children, and a batch hides nothing (quote_plan
\* store and worker, batch.rs), for every bound.
THEOREM PlansHold == Spec => []PlansSound
<1>1. Spec => [](part = "plans" => Que!ReplacedIsGone /\ Que!ReservationHeld /\ Que!OwnerFollowsPlan /\ Que!ParentAgrees)
  <2>1. Que!PlansSpec => [](Que!ReplacedIsGone /\ Que!ReservationHeld /\ Que!OwnerFollowsPlan /\ Que!ParentAgrees)
    BY ComponentBounds, Que!PlansAreSound
  <2> QED BY <2>1, PlansRun, PTL
<1>2. Spec => [](part = "batch" => Quo!BatchSound)
  <2>1. Quo!BatchSpec => []Quo!BatchSound
    BY ComponentBounds, Quo!BatchesAreSound
  <2> QED BY <2>1, BatchRuns, PTL
<1>3.
  /\ (part = "plans" => Que!ReplacedIsGone /\ Que!ReservationHeld /\ Que!OwnerFollowsPlan /\ Que!ParentAgrees)
  /\ (part = "batch" => Quo!BatchSound)
  => PlansSound
  BY DEF PlansSound
<1> QED BY <1>1, <1>2, <1>3, PTL

\* EventDelivery and ClickHouseWriter among the components: a client is never
\* led past an event it was owed, unless it is told to resync, over late
\* commits, reconnects, retention and restarts (sse_broker.rs, stream
\* routes), and no accepted row of the archive disappears unnoticed or is
\* stored twice without a reason (clickhouse_writer.rs), for every bound.
THEOREM NothingDisappears == Spec => []DeliverySound
<1>1. Spec => [](part = "delivery" => Que!NothingJumpedOver)
  <2>1. Que!DeliverySpec => []Que!NothingJumpedOver
    BY ComponentBounds, Que!NoEventIsJumped
  <2> QED BY <2>1, DeliveryRuns, PTL
<1>2. Spec => [](part = "archive" => Que!ArchiveSound)
  <2>1. Que!WriterSpec => []Que!ArchiveSound
    BY ComponentBounds, Que!ArchiveKeepsRows
  <2> QED BY <2>1, ArchiveRuns, PTL
<1>3.
  /\ (part = "delivery" => Que!NothingJumpedOver)
  /\ (part = "archive" => Que!ArchiveSound)
  => DeliverySound
  BY DEF DeliverySound
<1> QED BY <1>1, <1>2, <1>3, PTL

-----------------------------------------------------------------------------
(* Quotes and strategies *)

\* QuoteCoordinator and QuotePolicy among the components: a fenced plan only
\* protects, an owner in doubt is left alone, inventory stays in its band and
\* no quote crosses its book, for every size, shift and band the hypotheses
\* allow.
THEOREM QuotesHold == Spec => []QuotingSound
<1>1. Spec => [](part = "coordinator" => Quo!PlanIsSafe /\ Quo!NoSnapBack)
  <2>1. Quo!CoordinatorSpec => [](Quo!PlanIsSafe /\ Quo!NoSnapBack)
    BY ComponentBounds, Quo!CoordinatorIsSafe
  <2> QED BY <2>1, CoordinatorRuns, PTL
<1>2. Spec => [](part = "policy" => Quo!BandHolds /\ Quo!PassiveQuotes)
  <2>1. Quo!PolicySpec => []Quo!BandHolds
    BY ComponentBounds, Quo!InventoryStaysInBand
  <2>2. Quo!PolicySpec => []Quo!PassiveQuotes
    BY ComponentBounds, Quo!QuotesArePassive
  <2> QED BY <2>1, <2>2, PolicyRuns, PTL
<1>3.
  /\ (part = "coordinator" => Quo!PlanIsSafe /\ Quo!NoSnapBack)
  /\ (part = "policy" => Quo!BandHolds /\ Quo!PassiveQuotes)
  => QuotingSound
  BY DEF QuotingSound
<1> QED BY <1>1, <1>2, <1>3, PTL

\* MarketMaker among the components: a halting call that came back without
\* error left nothing at rest but what was not confirmed (runtime.rs),
\* whatever the bounds.
THEOREM HaltClears == Spec => []HaltLeavesNothing
<1>1. Spec => [](part = "maker" => Quo!HaltLeavesNothing)
  <2>1. Quo!MakerSpec => []Quo!HaltLeavesNothing
    BY ComponentBounds, Quo!HaltClears
  <2> QED BY <2>1, MakerRuns, PTL
<1>2. (part = "maker" => Quo!HaltLeavesNothing) => HaltLeavesNothing
  BY DEF HaltLeavesNothing
<1> QED BY <1>1, <1>2, PTL

\* TrendFollow among the components: while the strategy lost sight of no
\* entry, it holds one entry's worth with its stop on the right side,
\* whatever the bounds on orders, candles and restarts.
THEOREM OneEntryIsStopped == Spec => []OneEntryStopped
<1>1. Spec => [](part = "trend" => Str!OneEntryStopped)
  <2>1. Str!TrendSpec => []Str!OneEntryStopped
    BY ComponentBounds, Str!OneEntryIsStopped
  <2> QED BY <2>1, TrendRuns, PTL
<1>2. (part = "trend" => Str!OneEntryStopped) => OneEntryStopped
  BY DEF OneEntryStopped
<1> QED BY <1>1, <1>2, PTL

\* FundingArb, ArbEntry, ConfigVersions and Configuration among the
\* components: a running strategy drives the cycle its durable row says is
\* active, the legs of an entry hedge each other on a volume that was there
\* lately, a version of a configuration is one meaning, and what trades is
\* what was chosen (funding_arb, strategy_config_store.rs, loader.rs), for
\* every bound.
THEOREM RecordsAreMeant == Spec => []RecordsSound
<1>1. Spec => [](part = "arb" => Str!Driven)
  <2>1. Str!ArbSpec => []Str!Driven
    BY ComponentBounds, Str!TheRowIsDriven
  <2> QED BY <2>1, ArbRuns, PTL
<1>2. Spec => [](part = "entry" => Rsk!EntryHedged /\ Rsk!EntryLiquid)
  <2>1. Rsk!EntrySpec => []Rsk!EntryHedged
    BY ComponentBounds, Rsk!EntriesHedge
  <2>2. Rsk!EntrySpec => []Rsk!EntryLiquid
    BY ComponentBounds, Rsk!EntriesAreLiquid
  <2> QED BY <2>1, <2>2, EntryRuns, PTL
<1>3. Spec => [](part = "versions" => Str!VersionsAreMeanings)
  <2>1. Str!ConfigSpec => []Str!VersionsAreMeanings
    BY ComponentBounds, Str!VersionsMean
  <2> QED BY <2>1, VersionsRun, PTL
<1>4. Spec => [](part = "launch" => Rsk!ConfigurationSound)
  <2>1. Rsk!ConfigurationSpec => []Rsk!ConfigurationSound
    BY ComponentBounds, Rsk!ChosenIsWhatTrades
  <2> QED BY <2>1, LaunchRuns, PTL
<1>5.
  /\ (part = "arb" => Str!Driven)
  /\ (part = "entry" => Rsk!EntryHedged /\ Rsk!EntryLiquid)
  /\ (part = "versions" => Str!VersionsAreMeanings)
  /\ (part = "launch" => Rsk!ConfigurationSound)
  => RecordsSound
  BY DEF RecordsSound
<1> QED BY <1>1, <1>2, <1>3, <1>4, <1>5, PTL

=============================================================================
