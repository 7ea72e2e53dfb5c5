---------------------------- MODULE MarketMaker ----------------------------
(***************************************************************************)
(* The market-maker runtime and the adapters that carry its plans to the   *)
(* execution engine: the event loop's cycles, and the lifecycle calls of   *)
(* the supervisor, which cancel and run cycles of their own beside it.     *)
(***************************************************************************)
EXTENDS Integers, SequencesExt

CONSTANTS
  MaxOrders,     \* bound on the orders of the strategy
  MaxCalls,      \* bound on lifecycle calls
  MaxShifts,     \* bound on changes of the market and of the account's freshness
  MaxRefusals    \* bound on cancels that do not confirm

VARIABLES
  mode,          \* MarketMakerLifecycle
  configured,    \* config is Some
  alive,         \* the event loop runs
  market,        \* the last book: "none", "fresh", "stale" or "broken"
  account,       \* tracker_is_fresh
  orders,        \* the strategy's orders at the engine
  doubted,       \* orders whose cancel was answered false or failed
  revision,      \* who holds the lock of `revision`
  task,          \* the event loop and the caller of the handle
  calls, shifts, refusals

makerVars == <<mode, configured, alive, market, account, orders, doubted, revision,
          task, calls, shifts, refusals>>
budgets == <<calls, shifts, refusals>>

Tasks == {"loop", "control"}
QuoteSides == {"bid", "ask"}
Ids == 1..MaxOrders
Halting == {"paused", "stopped"}     \* also draining and faulted
Modes == {"shadow", "running"} \cup Halting

NoOrder == [side |-> "none", st |-> "none"]
\* then: what the caller does after its cancels ("cycle", "end").
Resting == [pc |-> "idle", view |-> {}, shadow |-> FALSE, healthy |-> FALSE,
            known |-> FALSE, todo |-> <<>>, then |-> "end", ok |-> TRUE]

\* As the supervisor leaves a runtime it has started and configured.
MakerInit ==
  /\ mode = "warming" /\ configured = TRUE /\ alive = TRUE
  /\ market = "none" /\ account = TRUE
  /\ orders = [i \in Ids |-> NoOrder] /\ doubted = {}
  /\ revision = "free"
  /\ task = [t \in Tasks |-> Resting]
  /\ calls = 0 /\ shifts = 0 /\ refusals = 0

Open == {i \in Ids : orders[i].st \in {"live", "unknown"}}
On(s, os) == {i \in os : orders[i].side = s}
Doubled == \E s \in QuoteSides : Cardinality(On(s, Open)) > 1
World == <<mode, configured, alive, market, account>>

Set(t, rec) == task' = [task EXCEPT ![t] = rec]
Rest(t) == [Resting EXCEPT !.ok = task[t].ok]

-----------------------------------------------------------------------------
(* A cycle.  Everything before the revision lock is read without it.       *)

\* The book and its health, then the features: an invalid book is answered
\* by cancelling, a missing book or configuration by nothing.
Begin(t) ==
  LET rec == [task[t] EXCEPT !.healthy = market = "fresh" /\ account, !.then = "end"] IN
  Set(t, IF ~configured \/ market = "none" THEN Rest(t)
         ELSE IF market = "broken" THEN [rec EXCEPT !.pc = "cancel"]
         ELSE [rec EXCEPT !.pc = "view"])

\* The inventory, and the slots: shadow ones in shadow mode, else the open
\* orders, which are an error when a side has two.
View(t) ==
  /\ task[t].pc = "view"
  /\ Set(t, IF mode = "shadow"
            THEN [task[t] EXCEPT !.pc = "decide", !.shadow = TRUE, !.known = account]
            ELSE IF Doubled THEN Rest(t)
            ELSE [task[t] EXCEPT !.pc = "decide", !.shadow = FALSE,
                                 !.known = account, !.view = Open])
  /\ UNCHANGED <<World, orders, doubted, revision, budgets>>

\* What policy and coordinator may answer for one side of the viewed slots.
\* Bug: a quote that is no longer wanted is left to be replaced.
CancelsNothing(o) == <<>>
CancelOf(o) == [act |-> "cancel", order |-> o, side |-> "none"]
Cancels(o) == <<CancelOf(o)>>
Places(s) == <<[act |-> "place", order |-> 0, side |-> s]>>
Diffs(t, s, quote) ==
  LET own == On(s, task[t].view)
      o == CHOOSE i \in own : TRUE
  IN IF task[t].shadow
     THEN IF quote THEN {<<>>, Places(s)} ELSE {<<>>}
     ELSE IF \E i \in own : orders[i].st = "unknown" THEN {<<>>}
     ELSE IF own = {} THEN {IF quote THEN Places(s) ELSE <<>>}
     ELSE IF quote THEN {<<>>, Cancels(o) \o Places(s)} ELSE {Cancels(o)}

\* Bug: the mode is the one the views were taken in.
ModeAtView(t) == IF task[t].shadow THEN "shadow" ELSE "running"

\* Under the lock: the policy fails without a healthy inventory; the mode is
\* read; only a running strategy submits.
Mode(t) == mode
Decide(t) ==
  /\ task[t].pc = "decide" /\ revision = "free"
  /\ IF ~task[t].known \/ Mode(t) # "running"
     THEN Set(t, Rest(t)) /\ UNCHANGED revision
     ELSE \E qb \in BOOLEAN, qa \in BOOLEAN :
          /\ qb \/ qa => task[t].healthy
          /\ \E bid \in Diffs(t, "bid", qb), ask \in Diffs(t, "ask", qa) :
               /\ Set(t, [Rest(t) EXCEPT !.pc = "submit", !.todo = bid \o ask])
               /\ revision' = t
  /\ UNCHANGED <<World, orders, doubted, budgets>>

\* submit_quote_plan: diff by diff, each await may fail and end the plan.
Done(t) == revision' = "free" /\ Set(t, Rest(t))
Advance(t) == UNCHANGED revision /\ Set(t, [task[t] EXCEPT !.todo = Tail(@)])

\* cancel_order: confirmed, or answered false whatever the order then is; the
\* adapters do not look at the answer.
Unconfirmed(o) ==
  /\ refusals < MaxRefusals /\ refusals' = refusals + 1
  /\ doubted' = doubted \cup {o}
Confirmed(o) ==
  /\ orders' = [orders EXCEPT ![o] = IF @.st = "none" THEN @ ELSE [@ EXCEPT !.st = "gone"]]
  /\ UNCHANGED <<doubted, refusals>>

CancelOp(t, o) ==
  \/ Confirmed(o) /\ Advance(t)
  \/ /\ Unconfirmed(o)
     /\ orders[o].st = "live"
     /\ \E st \in {"live", "unknown"} : orders' = [orders EXCEPT ![o].st = st]
     /\ Advance(t) \/ Done(t)

PlaceOp(t, s) ==
  \/ /\ \E i \in Ids : /\ orders[i] = NoOrder
                       /\ \A j \in 1..(i - 1) : orders[j] # NoOrder
                       /\ orders' = [orders EXCEPT ![i] = [side |-> s, st |-> "live"]]
     /\ Advance(t)
  \/ Done(t) /\ UNCHANGED orders

Submit(t) ==
  /\ task[t].pc = "submit"
  /\ IF task[t].todo = <<>> THEN Done(t) /\ UNCHANGED <<orders, doubted, refusals>>
     ELSE LET op == Head(task[t].todo) IN
          IF op.act = "cancel" THEN CancelOp(t, op.order)
          ELSE PlaceOp(t, op.side) /\ UNCHANGED <<doubted, refusals>>
  /\ UNCHANGED <<World, calls, shifts>>

\* cancel_live_quotes: the lock, the open orders, one cancel after another, in
\* the order of the engine's hash map.
CancelStart(t) ==
  /\ task[t].pc = "cancel" /\ revision = "free"
  /\ revision' = t
  /\ \E todo \in SetToSeqs({CancelOf(i) : i \in Open}) :
       Set(t, [task[t] EXCEPT !.pc = "cancelling", !.todo = todo])
  /\ UNCHANGED <<World, orders, doubted, budgets>>

\* An error ends the cancels, with the rest of the orders untouched.
Cancelled(t, ok) ==
  /\ revision' = "free"
  /\ Set(t, [Resting EXCEPT !.ok = ok,
                            !.pc = IF task[t].then = "cycle" THEN "begin" ELSE "idle"])

Cancelling(t) ==
  /\ task[t].pc = "cancelling"
  /\ IF task[t].todo = <<>>
     THEN Cancelled(t, TRUE) /\ UNCHANGED <<orders, doubted, refusals>>
     ELSE LET o == Head(task[t].todo).order IN
          \/ Confirmed(o) /\ Advance(t)
          \/ Unconfirmed(o) /\ UNCHANGED orders /\ (Advance(t) \/ Cancelled(t, FALSE))
  /\ UNCHANGED <<World, calls, shifts>>

-----------------------------------------------------------------------------
(* Events, and the handle's calls.                                         *)

\* An event of a mailbox, or the watchdog's tick.
LoopEvent ==
  /\ alive /\ task["loop"].pc = "idle"
  /\ Begin("loop")
  /\ UNCHANGED <<World, orders, doubted, revision, budgets>>

ControlCycle ==
  /\ task["control"].pc = "begin"
  /\ Begin("control")
  /\ UNCHANGED <<World, orders, doubted, revision, budgets>>

Call == task["control"].pc = "idle" /\ calls < MaxCalls /\ calls' = calls + 1

Start ==
  /\ Call /\ ~alive /\ alive' = TRUE
  /\ UNCHANGED <<mode, configured, market, account, orders, doubted, revision,
                 task, shifts, refusals>>

ApplyConfig ==
  /\ Call /\ configured' = TRUE
  /\ Set("control", [Resting EXCEPT !.pc = "begin", !.ok = task["control"].ok])
  /\ UNCHANGED <<mode, alive, market, account, orders, doubted, revision,
                 shifts, refusals>>

\* set_mode: halting cancels first and then runs a cycle whatever happened.
Entering(m) ==
  IF m \in Halting THEN [Resting EXCEPT !.pc = "cancel", !.then = "cycle"]
  ELSE IF m = "shadow" /\ mode = "running" THEN [Resting EXCEPT !.pc = "cancel"]
  ELSE [Resting EXCEPT !.pc = "begin"]

SetMode(m) ==
  /\ Call /\ mode' = m
  /\ Set("control", Entering(m))
  /\ UNCHANGED <<configured, alive, market, account, orders, doubted, revision,
                 shifts, refusals>>

\* stop: the loop ends once the mode is set and its current event handled.
Stop ==
  /\ mode = "stopped" /\ task["control"].pc = "idle" /\ task["control"].ok
  /\ alive /\ task["loop"].pc = "idle"
  /\ alive' = FALSE
  /\ UNCHANGED <<mode, configured, market, account, orders, doubted, revision,
                 task, budgets>>

Shift == shifts < MaxShifts /\ shifts' = shifts + 1

MarketMoves(m) ==
  /\ Shift /\ m # market /\ market' = m
  /\ UNCHANGED <<mode, configured, alive, account, orders, doubted, revision,
                 task, calls, refusals>>

AccountMoves ==
  /\ Shift /\ account' = ~account
  /\ UNCHANGED <<mode, configured, alive, market, orders, doubted, revision,
                 task, calls, refusals>>

VenueFills(i) ==
  /\ orders[i].st \in {"live", "unknown"}
  /\ orders' = [orders EXCEPT ![i].st = "gone"]
  /\ UNCHANGED <<World, doubted, revision, task, budgets>>

TaskStep(t) ==
  \/ View(t) \/ Decide(t) \/ Submit(t) \/ CancelStart(t) \/ Cancelling(t)
  \/ t = "loop" /\ LoopEvent
  \/ t = "control" /\ ControlCycle

MakerNext ==
  \/ \E t \in Tasks : TaskStep(t)
  \/ Start \/ ApplyConfig \/ Stop
  \/ \E m \in Modes : SetMode(m)
  \/ \E m \in {"fresh", "stale", "broken"} : MarketMoves(m)
  \/ AccountMoves
  \/ \E i \in Ids : VenueFills(i)

MakerSpec == MakerInit /\ [][MakerNext]_makerVars

-----------------------------------------------------------------------------
\* Once a halting call has come back without error, whatever cycle was under
\* way, nothing rests but orders whose cancel was not confirmed.
HaltLeavesNothing ==
  (mode \in Halting /\ task["control"].pc \in {"begin", "idle"} /\ task["control"].ok)
    => \A i \in Open : i \in doubted

\* While the strategy runs on a book that stays stale and an account that is
\* known, its quotes go, unless a cancel was not confirmed or a side has two
\* ([]<>Cleared).
Quoting == mode = "running" /\ alive /\ configured
Cleared == Quoting /\ market \in {"stale", "broken"} /\ account
             => Open \subseteq doubted \/ Doubled

=============================================================================
