----------------------------- MODULE FundingArb -----------------------------
(***************************************************************************)
(* One funding-arbitrage strategy: a spot leg bought, a perp leg sold      *)
(* against it, both taken down again (FundingArbRuntimeHandle), its durable *)
(* cycle rows (PostgresFundingArbCycleStore) and the driver around it.     *)
(* Sizes are in spot lots, the hedge ratio is one, a perp lot is PerpLot.  *)
(*                                                                         *)
(* A step of the runtime is what happens between two waits; `task` is      *)
(* where it waits.  The account it reads is the tracker's, and its         *)
(* "authoritative refresh" asks only whether the tracker has ever been     *)
(* filled (app/runtime.rs).                                                *)
(***************************************************************************)
EXTENDS Integers, FiniteSets

CONSTANTS
  Target,           \* the planned size of both legs
  PerpLot,
  MaxTries,         \* max_leg_attempts
  Held,             \* spot the account holds of its own
  MaxCycles, MaxLate,
  MaxFaults         \* stops, crashes, failed database steps and kills together

VARIABLES
  account,          \* the venue's truth: spot held, perp sold
  tracked,          \* the account tracker's copy
  late,             \* orders whose outcome the runtime gave up on, still open
  row,              \* the newest row of funding_arb_cycles
  bound,            \* the state in the runtime's copy of it
  stale,            \* that copy is a revision behind its row
  known,            \* the engine remembers an entry order of the row that filled
  task,
  life,             \* "off", "starting", "on"
  allowed, killed,
  faults

arbVars == <<account, tracked, late, row, bound, stale, known, task, life,
             allowed, killed, faults>>
outside == <<account, tracked, late, killed>>
driver == <<life, allowed>>

Larger(a, b) == IF a < b THEN b ELSE a
Smaller(a, b) == IF a < b THEN a ELSE b
PerpFloor(n) == (n \div PerpLot) * PerpLot

Entering == {"entering_spot", "entering_perp", "compensating_entry"}
Exiting == {"exiting_perp", "exiting_spot"}
CycleStates == Entering \union Exiting \union {"open", "rebalancing", "closed", "faulted"}

Nothing == [ready |-> FALSE, spot |-> 0, perp |-> 0]
NoRow == [state |-> "closed", number |-> 0, base |-> 0]
\* `back` is where a finished reduction returns to, `fail` where an error does.
At(l) == [at |-> l, leg |-> "spot", size |-> 0, tries |-> 0, back |-> "idle", fail |-> "idle"]
Idle == At("idle")

ArbInit ==
  /\ account = [spot |-> Held, perp |-> 0]
  /\ tracked = Nothing
  /\ late = {}
  /\ row = NoRow /\ bound = "none" /\ stale = FALSE /\ known = FALSE
  /\ task = Idle /\ life = "off"
  /\ allowed = FALSE /\ killed = FALSE
  /\ faults = 0

----------------------------------------------------------------------------
\* What the tracker shows of the cycle: the spot above its baseline, the short.
Spot == IF bound = "none" THEN 0 ELSE Larger(tracked.spot - row.base, 0)
Perp == IF bound = "none" THEN 0 ELSE tracked.perp
Refreshed == tracked.ready

\* The end of a tick or of a start.
Ends(ok) ==
  /\ task' = Idle
  /\ life' = IF life = "starting" THEN (IF ok THEN "on" ELSE "off") ELSE life
  /\ UNCHANGED allowed

GoTo(t) == /\ task' = t /\ UNCHANGED driver
Label(l) == GoTo([task EXCEPT !.at = l])

\* An error returns to the wrapper that handles it, or ends the tick.
Fails ==
  IF task.at = "fault_open" THEN GoTo([At("compensate") EXCEPT !.back = "fault"])
  ELSE IF task.fail = "idle" THEN Ends(FALSE)
  ELSE GoTo([task EXCEPT !.at = task.fail, !.back = "fault", !.fail = "idle"])

\* The wait for an entry leg ran out.
EntryUnknown == GoTo([At("compensate") EXCEPT !.back = "fault_open"])

\* transition: fenced by the revision.  It may fail, and a lost commit answer
\* leaves the runtime a revision behind.
Written(s) ==
  /\ ~stale
  /\ row' = [row EXCEPT !.state = s] /\ bound' = s
  /\ UNCHANGED <<stale, faults>>

NotWritten(s) ==
  \/ stale /\ UNCHANGED <<row, bound, stale, faults>>
  \/ /\ ~stale /\ faults < MaxFaults /\ faults' = faults + 1
     /\ \/ UNCHANGED <<row, stale>>
        \/ row' = [row EXCEPT !.state = s] /\ stale' = TRUE
     /\ UNCHANGED bound

Moves(s, label) ==
  /\ \/ Written(s) /\ Label(label)
     \/ NotWritten(s) /\ Fails
  /\ UNCHANGED <<outside, known>>

\* fault: a closed or unbound cycle is left alone.
Faults ==
  /\ IF bound \in {"none", "closed"}
     THEN UNCHANGED <<row, bound, stale, faults>> /\ Ends(TRUE)
     ELSE \/ Written("faulted") /\ Ends(TRUE)
          \/ NotWritten("faulted") /\ Fails
  /\ UNCHANGED <<outside, known>>

\* Closed, and the binding released.
Retires ==
  /\ \/ /\ ~stale /\ row' = [row EXCEPT !.state = "closed"]
        /\ bound' = "none" /\ UNCHANGED <<stale, faults>> /\ Ends(TRUE)
     \/ NotWritten("closed") /\ Fails
  /\ UNCHANGED <<outside, known>>

\* One MARKET/IOC leg: its submission fails, its outcome is authoritative, or
\* the wait for it runs out (or breaks) with the order still open.
Order(leg, entry, size) ==
  [leg |-> leg, entry |-> entry, size |-> size, number |-> row.number]

Fillable(o) ==
  {n \in 0..(CASE o.entry -> o.size
               [] o.leg = "spot" -> Smaller(o.size, account.spot)
               [] OTHER -> Smaller(o.size, account.perp)) :
     o.leg = "perp" => n % PerpLot = 0}

AccountAfter(o, n) ==
  [account EXCEPT ![o.leg] = IF o.entry THEN @ + n ELSE @ - n]

Filled(o, n) ==
  /\ account' = AccountAfter(o, n)
  /\ known' = (known \/ (o.entry /\ n > 0))
  /\ UNCHANGED late

LeftOpen(o) ==
  /\ Cardinality(late) < MaxLate
  /\ late' = late \union {o} /\ UNCHANGED <<account, known>>

NotSent == UNCHANGED <<account, late, known>>

----------------------------------------------------------------------------
(* The driver's tick (under the handle's lock) and a cycle's start.        *)
\* uq_funding_arb_cycles_active_strategy: one row that is not closed.
Free == row.state = "closed"
Tick ==
  /\ life = "on" /\ task = Idle
  /\ \/ /\ bound = "none" /\ allowed /\ ~killed /\ Refreshed
        /\ ~Free \/ row.number < MaxCycles
        /\ Label("create")
     \/ killed /\ bound # "none" /\ Label("close")
     \/ ~killed /\ bound \in Entering /\ GoTo([At("compensate") EXCEPT !.back = "fault"])
     \/ ~killed /\ bound \in {"open", "rebalancing"} \union Exiting /\ Label("close")
     \/ ~killed /\ bound \in {"open", "rebalancing"} /\ Label("rebalance")
  /\ UNCHANGED <<outside, row, bound, stale, known, faults>>

Create ==
  /\ task.at = "create"
  /\ LET new == [state |-> "entering_spot", number |-> row.number + 1, base |-> tracked.spot]
     IN \/ /\ Free /\ row' = new /\ bound' = "entering_spot"
           /\ known' = FALSE /\ UNCHANGED faults
           /\ GoTo([At("leverage") EXCEPT !.fail = "compensate"])
        \/ /\ ~Free /\ Ends(TRUE) /\ UNCHANGED <<row, bound, known, faults>>
        \/ /\ Free /\ faults < MaxFaults /\ faults' = faults + 1 /\ Ends(TRUE)
           /\ row' \in {row, new} /\ UNCHANGED <<bound, known>>
  /\ UNCHANGED <<outside, stale>>

Leverage ==
  /\ task.at = "leverage"
  /\ Label("buy") \/ Fails
  /\ UNCHANGED <<outside, row, bound, stale, known, faults>>

\* A spot fill below a perp lot is sold back; none closes the cycle.
BuySpot ==
  /\ task.at = "buy"
  /\ LET o == Order("spot", TRUE, Target)
     IN \/ \E n \in Fillable(o) :
             /\ Filled(o, n)
             /\ GoTo([task EXCEPT !.size = n,
                 !.at = IF n = 0 THEN "retire" ELSE IF PerpFloor(n) = 0 THEN "comp" ELSE "sell"])
        \/ LeftOpen(o) /\ (EntryUnknown \/ Fails)
        \/ NotSent /\ Fails
  /\ UNCHANGED <<tracked, row, bound, stale, killed, faults>>

\* The transition to entering_perp carries the order's cloid.
SellPerp ==
  /\ task.at = "sell"
  /\ LET o == Order("perp", TRUE, Smaller(PerpFloor(task.size), Target))
     IN \/ /\ Written("entering_perp")
           /\ \/ \E n \in Fillable(o) : Filled(o, n) /\ Label("align")
              \/ LeftOpen(o) /\ (EntryUnknown \/ Fails)
              \/ NotSent /\ Fails
        \/ NotWritten("entering_perp") /\ NotSent /\ Fails
  /\ UNCHANGED <<tracked, killed>>

Retire == task.at = "retire" /\ Retires
FaultIt == task.at \in {"fault", "fault_open"} /\ Faults

----------------------------------------------------------------------------
(* Reductions.                                                             *)
\* reduce_larger_leg: the larger leg down to the hedge, never both.
SpotExcess == Spot - Perp
PerpExcess == PerpFloor(Perp - PerpFloor(Spot))
Reduces(back, fail) ==
  LET r == [At("reduce") EXCEPT !.back = back, !.fail = fail]
  IN IF SpotExcess > 0 THEN GoTo([r EXCEPT !.size = SpotExcess])
     ELSE IF SpotExcess < 0 /\ PerpExcess > 0
     THEN GoTo([r EXCEPT !.leg = "perp", !.size = PerpExcess])
     ELSE GoTo([r EXCEPT !.at = back])

\* execute_reducing: an attempt, its cloid written with the state as it is.
\* An unknown outcome faults the cycle and gives control back to the caller.
Reduce ==
  /\ task.at = "reduce"
  /\ IF task.size = 0 \/ task.tries = MaxTries
     THEN Label(task.back) /\ UNCHANGED <<account, late, known, row, bound, stale, faults>>
     ELSE LET o == Order(task.leg, FALSE, task.size)
              left(n) == IF task.leg = "perp" THEN PerpFloor(task.size - n) ELSE task.size - n
          IN \/ /\ Written(bound)
                /\ \/ \E n \in Fillable(o) :
                        /\ Filled(o, n)
                        /\ GoTo([task EXCEPT !.size = left(n), !.tries = @ + 1])
                   \/ LeftOpen(o) /\ (Fails \/ Label("unknown"))
                   \/ NotSent /\ Fails
             \/ NotWritten(bound) /\ NotSent /\ Fails
  /\ UNCHANGED <<tracked, killed>>

ReduceUnknown ==
  /\ task.at = "unknown"
  /\ Moves("faulted", task.back)

\* fault_after_unknown, fault_after_internal_error: the larger leg down, then
\* the fault; a failed reduction faults all the same.
Compensate ==
  /\ task.at = "compensate"
  /\ Reduces(task.back, task.back)
  /\ UNCHANGED <<outside, row, bound, stale, known, faults>>

\* align_and_open, in three parts.
Align == /\ task.at = "align"
         /\ Moves("compensating_entry", "align_reduce")

AlignReduce ==
  /\ task.at = "align_reduce"
  /\ IF Refreshed THEN Reduces("opened", "compensate") ELSE Label("fault")
  /\ UNCHANGED <<outside, row, bound, stale, known, faults>>

Opened ==
  /\ task.at = "opened"
  /\ IF ~Refreshed THEN Label("fault") /\ UNCHANGED <<outside, row, bound, stale, known, faults>>
     ELSE IF Spot = 0 /\ Perp = 0 THEN Retires
     ELSE IF Spot # Perp THEN Label("fault") /\ UNCHANGED <<outside, row, bound, stale, known, faults>>
     ELSE /\ \/ Written("open") /\ Ends(TRUE)
             \/ NotWritten("open") /\ Fails
          /\ UNCHANGED <<outside, known>>

\* compensate_spot.
Comp == /\ task.at = "comp"
        /\ Moves("compensating_entry", "comp_sell")

CompSell ==
  /\ task.at = "comp_sell"
  /\ IF ~Refreshed \/ 2 * Perp > PerpLot
     THEN Label("fault") /\ UNCHANGED <<outside, row, bound, stale, known, faults>>
     ELSE IF Spot = 0 THEN Retires
     ELSE /\ GoTo([At("reduce") EXCEPT !.size = Spot, !.back = "comp_end", !.fail = task.fail])
          /\ UNCHANGED <<outside, row, bound, stale, known, faults>>

CompEnd ==
  /\ task.at = "comp_end"
  /\ IF ~Refreshed \/ Spot > 0 \/ 2 * Perp > PerpLot
     THEN Label("fault") /\ UNCHANGED <<outside, row, bound, stale, known, faults>>
     ELSE Retires

\* close_cycle: the perp bought back, then the spot sold.
Close ==
  /\ task.at = "close"
  /\ IF ~Refreshed THEN Label("fault") /\ UNCHANGED <<outside, row, bound, stale, known, faults>>
     ELSE Moves("exiting_perp", "exit_perp")

ExitPerp ==
  /\ task.at = "exit_perp"
  /\ GoTo([At("reduce") EXCEPT !.leg = "perp", !.size = Perp, !.back = "exit_mid"])
  /\ UNCHANGED <<outside, row, bound, stale, known, faults>>

ExitMid ==
  /\ task.at = "exit_mid"
  /\ IF ~Refreshed \/ 2 * Perp > PerpLot
     THEN Label("fault") /\ UNCHANGED <<outside, row, bound, stale, known, faults>>
     ELSE Moves("exiting_spot", "exit_spot")

ExitSpot ==
  /\ task.at = "exit_spot"
  /\ GoTo([At("reduce") EXCEPT !.size = Spot, !.back = "exit_end"])
  /\ UNCHANGED <<outside, row, bound, stale, known, faults>>

ExitEnd ==
  /\ task.at = "exit_end"
  /\ IF Spot > 0 \/ 2 * Perp > PerpLot
     THEN Label("fault") /\ UNCHANGED <<outside, row, bound, stale, known, faults>>
     ELSE Retires

\* rebalance_if_needed: a hedge inside its threshold is left as it is, in
\* whatever state the cycle is.
Rebalance ==
  /\ task.at = "rebalance"
  /\ IF ~Refreshed \/ Spot = Perp
     THEN Ends(TRUE) /\ UNCHANGED <<outside, row, bound, stale, known, faults>>
     ELSE Moves("rebalancing", "rebalance_reduce")

RebalanceReduce ==
  /\ task.at = "rebalance_reduce"
  /\ Reduces("rebalanced", "idle")
  /\ UNCHANGED <<outside, row, bound, stale, known, faults>>

Rebalanced ==
  /\ task.at = "rebalanced"
  /\ IF ~Refreshed \/ Spot # Perp
     THEN Label("fault") /\ UNCHANGED <<outside, row, bound, stale, known, faults>>
     ELSE /\ \/ Written("open") /\ Ends(TRUE)
             \/ NotWritten("open") /\ Fails
          /\ UNCHANGED <<outside, known>>

----------------------------------------------------------------------------
(* Starts, stops, crashes and the world outside.                           *)
\* recover_active_cycle: get_active leaves faulted rows out.
Active == row.state \notin {"closed", "faulted"}
Start ==
  /\ life = "off" /\ task = Idle
  /\ bound' = IF Active THEN row.state ELSE "none"
  /\ stale' = FALSE
  /\ IF Active /\ row.state \in Entering
     THEN task' = At("recover") /\ life' = "starting"
     ELSE UNCHANGED task /\ life' = "on"
  /\ allowed' = TRUE
  /\ UNCHANGED <<outside, row, known, faults>>

\* recover_intermediate_cycle.  A cycle found flat after a fill it can prove
\* is closed, and stays bound.
Recover ==
  /\ task.at = "recover"
  /\ IF Perp > 0 THEN Label("close") /\ UNCHANGED <<outside, row, bound, stale, known, faults>>
     ELSE IF Spot > 0 THEN Label("comp") /\ UNCHANGED <<outside, row, bound, stale, known, faults>>
     ELSE IF known
     THEN /\ \/ Written("closed") /\ Ends(TRUE)
             \/ NotWritten("closed") /\ Fails
          /\ UNCHANGED <<outside, known>>
     ELSE Label("fault") /\ UNCHANGED <<outside, row, bound, stale, known, faults>>

\* A stop waits for the tick; the runtime is built anew by the next start.
Stop ==
  /\ life = "on" /\ task = Idle /\ faults < MaxFaults
  /\ life' = "off" /\ allowed' = FALSE /\ bound' = "none" /\ stale' = FALSE
  /\ faults' = faults + 1
  /\ UNCHANGED <<account, tracked, late, row, known, task, killed>>

Crash ==
  /\ life # "off" /\ faults < MaxFaults
  /\ life' = "off" /\ allowed' = FALSE /\ task' = Idle
  /\ bound' = "none" /\ stale' = FALSE /\ known' = FALSE /\ tracked' = Nothing
  /\ faults' = faults + 1
  /\ UNCHANGED <<account, late, row, killed>>

\* set_mode(Paused) and set_mode(Running).
Pause ==
  /\ life = "on" /\ task = Idle /\ allowed' = ~allowed
  /\ UNCHANGED <<outside, row, bound, stale, known, task, life, faults>>

Kill ==
  /\ faults < MaxFaults /\ killed' = ~killed /\ faults' = faults + 1
  /\ UNCHANGED <<account, tracked, late, row, bound, stale, known, task, driver>>

\* The account poller.
Poll ==
  /\ tracked' = [ready |-> TRUE, spot |-> account.spot, perp |-> account.perp]
  /\ tracked' # tracked
  /\ UNCHANGED <<account, late, row, bound, stale, known, task, driver, killed, faults>>

\* A fill event moves the position; spot balances come with the poll only.
Event ==
  /\ tracked' = [tracked EXCEPT !.perp = account.perp]
  /\ tracked' # tracked
  /\ UNCHANGED <<account, late, row, bound, stale, known, task, driver, killed, faults>>

\* An order left open trades, in part or not at all, and is gone.
Late ==
  \E o \in late, n \in 0..(2 * Target) :
    /\ n \in Fillable(o)
    /\ account' = AccountAfter(o, n)
    /\ known' \in {known, known \/ (o.entry /\ n > 0 /\ o.number = row.number)}
    /\ late' = late \ {o}
    /\ UNCHANGED <<tracked, row, bound, stale, task, driver, killed, faults>>

CycleStep ==
  \/ Create \/ Leverage \/ BuySpot \/ SellPerp \/ Retire \/ FaultIt
  \/ Reduce \/ ReduceUnknown \/ Compensate
  \/ Align \/ AlignReduce \/ Opened \/ Comp \/ CompSell \/ CompEnd
  \/ Close \/ ExitPerp \/ ExitMid \/ ExitSpot \/ ExitEnd
  \/ Rebalance \/ RebalanceReduce \/ Rebalanced \/ Recover

World == Stop \/ Crash \/ Pause \/ Kill \/ Poll \/ Event \/ Late
ArbNext == Tick \/ CycleStep \/ Start \/ World

----------------------------------------------------------------------------
ArbTypeOK ==
  /\ account \in [spot : 0..(Held + MaxCycles * Target), perp : 0..(MaxCycles * Target)]
  /\ row \in [state : CycleStates, number : 0..MaxCycles, base : Nat]
  /\ bound \in CycleStates \union {"none"}
  /\ life \in {"off", "starting", "on"}

\* The runtime's copy of its cycle says what the row says, unless an answer to
\* a commit was lost; and a running strategy drives the row that is active.
Driven ==
  /\ bound # "none" /\ ~stale => bound = row.state
  /\ life = "on" /\ Active => bound # "none" \/ (faults > 0 /\ row.state = "entering_spot")

\* An entry that was begun comes to an end: open, closed or faulted, whatever
\* fills late, is lost or fails on the way, unless the strategy is stopped or
\* lost the answer to a commit ([]<>EntryDone: tick, open_cycle_inner, recover).
EntryDone == bound \notin Entering \/ stale \/ life = "off"
=============================================================================
