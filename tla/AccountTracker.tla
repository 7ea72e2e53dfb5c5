-------------------------- MODULE AccountTracker --------------------------
(***************************************************************************)
(* The in-memory account: positions, fees and balances written by two      *)
(* tasks that share it, the fill commits of the ingestor and the poller of *)
(* the clearinghouse state, and the health record the poller keeps.        *)
(*                                                                         *)
(* A fill is one lot of a perpetual and costs a fee of 1; one of a spot    *)
(* pair goes the same way but moves no position.  Equity, prices and entry *)
(* prices are left out: nothing stated here depends on them.               *)
(***************************************************************************)
EXTENDS Integers, Sequences, FiniteSets

CONSTANTS
  Symbols, Cloids, MaxFills, MaxClock, MaxAge, MaxPollFailures,
  MaxReports,    \* bound on the reports of fills by an order's response
  Estimates      \* the fee such a report may carry; the fee itself is 1

VARIABLES
  clock, trades,                    \* wall clock; the venue's fills, in order
  held, fees, count, applied,       \* TrackerState
  keyed, prov,                      \* provisional_fill_fees: its keys, its amounts
  reports,                          \* reports made so far
  announced, excess, exact,          \* history of the reports, see ProvisionalFill
  spotAt,                           \* last_spot_update_ts
  observed,                         \* the health observation per dimension
  posRows,                          \* the durable positions of the account
  poll, pollFailures                \* the poller task

world == <<clock, trades>>
history == <<reports, announced, excess, exact>>
accounting == <<fees, count, applied, keyed, prov, history>>
health == <<observed, spotAt>>
poller == <<poll, pollFailures>>
trackerVars == <<clock, trades, held, fees, count, applied, keyed, prov, reports,
          announced, excess, exact, spotAt, observed, posRows, poll, pollFailures>>

Dimensions == {"inventory", "clearinghouse", "user_stream", "reconciliation"}
Unobserved == [seen |-> FALSE, at |-> 0, healthy |-> FALSE]
Asleep == [phase |-> "asleep", snap |-> [s \in Symbols |-> 0], at |-> 0, todo |-> {}]
Fills == 1..Len(trades)

\* The position of s after the venue's first i fills.
VenuePosition(s, i) ==
  LET Lots(side) == {j \in 1..i : trades[j].symbol = s /\ trades[j].side = side}
  IN Cardinality(Lots("buy")) - Cardinality(Lots("sell"))
VenueNow == [s \in Symbols |-> VenuePosition(s, Len(trades))]
Signed(side) == IF side = "buy" THEN 1 ELSE -1

TrackerInit ==
  /\ clock = 0 /\ trades = <<>>
  /\ held = [s \in Symbols |-> 0] /\ posRows = [s \in Symbols |-> 0]
  /\ fees = 0 /\ count = 0 /\ applied = {}
  /\ keyed = {} /\ prov = [c \in Cloids |-> 0]
  /\ reports = 0 /\ announced = {} /\ excess = {} /\ exact = TRUE
  /\ spotAt = 0 /\ observed = [d \in Dimensions |-> Unobserved]
  /\ poll = Asleep /\ pollFailures = 0

ClockTick == /\ clock < MaxClock /\ clock' = clock + 1
             /\ UNCHANGED <<trades, held, accounting, health, posRows, poller>>

VenueFill ==
  /\ Len(trades) < MaxFills
  /\ \E s \in Symbols, c \in Cloids, side \in {"buy", "sell"} :
       LET fill == [symbol |-> s, cloid |-> c, side |-> side]
       IN /\ \A j \in Fills : trades[j].cloid = c => trades[j] = fill
          /\ trades' = Append(trades, fill)
  /\ UNCHANGED <<clock, held, accounting, health, posRows, poller>>

---------------------------------------------------------------------------
(* Fills                                                                   *)

RecordFillAccounting(c, fee) ==
  /\ fees' = fees + fee /\ count' = count + 1
  /\ keyed' = keyed \cup {c} /\ prov' = [prov EXCEPT ![c] = @ + fee]

\* A fill known from an order's response is added whenever it comes: nothing
\* tells whether its commit was applied, or whether it was announced before.
\* History: the fills announced; the orders with a report above the fee, after
\* the commit or repeated; whether every report carried the fee.
ProvisionalFill(i, fee) ==
  LET c == trades[i].cloid
  IN /\ reports < MaxReports /\ reports' = reports + 1
     /\ held' = [held EXCEPT ![trades[i].symbol] = @ + Signed(trades[i].side)]
     /\ RecordFillAccounting(c, fee)
     /\ announced' = announced \cup {i}
     /\ excess' = IF fee > 1 \/ i \in applied \cup announced
                  THEN excess \cup {c} ELSE excess
     /\ exact' = (exact /\ fee = 1)
     /\ UNCHANGED <<world, applied, health, posRows, poller>>

\* Bug: the remaining provisional fee of the order is not consulted.
ConsumedNothing(c) == 0

Consumed(c) == IF prov[c] < 1 THEN prov[c] ELSE 1

\* The ingestor committed fill i, in whatever order history and the live
\* stream bring it: the position is replaced by the one the fill carries.
AuthoritativeFill(i) ==
  LET c == trades[i].cloid
      s == trades[i].symbol
  IN /\ i \notin applied
     /\ held' = [held EXCEPT ![s] = VenuePosition(s, i)]
     /\ posRows' = [posRows EXCEPT ![s] = VenuePosition(s, i)]
     /\ applied' = applied \cup {i}
     /\ fees' = fees + 1 - Consumed(c)
     /\ count' = IF c \in keyed THEN count ELSE count + 1
     /\ prov' = [prov EXCEPT ![c] = @ - Consumed(c)]
     /\ keyed' = IF prov[c] > Consumed(c) THEN keyed ELSE keyed \ {c}
     /\ UNCHANGED <<world, history, health, poller>>

---------------------------------------------------------------------------
(* The poller: fetch, apply symbol by symbol, persist, record health       *)

Record(d, at, ok) == [observed EXCEPT ![d] = [seen |-> TRUE, at |-> at, healthy |-> ok]]

PollFails ==
  /\ poll.phase = "asleep" /\ pollFailures < MaxPollFailures
  /\ pollFailures' = pollFailures + 1
  /\ observed' = Record("clearinghouse", clock, FALSE)
  /\ UNCHANGED <<world, held, accounting, spotAt, posRows, poll>>

\* What was read is older than what the tracker may learn before it is applied.
PollFetch ==
  /\ poll.phase = "asleep"
  /\ poll' = [Asleep EXCEPT !.phase = "fetched", !.snap = VenueNow, !.at = clock]
  /\ UNCHANGED <<world, held, accounting, health, posRows, pollFailures>>

\* Bug: symbols the snapshot does not hold are left alone.
OnlyListed == {s \in Symbols : poll.snap[s] # 0}

ToApply == {s \in Symbols : held[s] # 0 \/ poll.snap[s] # 0}

\* apply_snapshot lists the symbols held now, then takes the lock per symbol.
PollList ==
  /\ poll.phase = "fetched"
  /\ poll' = [poll EXCEPT !.phase = "applying", !.todo = ToApply]
  /\ UNCHANGED <<world, held, accounting, health, posRows, pollFailures>>

PollSymbol(s) ==
  /\ poll.phase = "applying" /\ s \in poll.todo
  /\ held' = [held EXCEPT ![s] = poll.snap[s]]
  /\ poll' = [poll EXCEPT !.todo = @ \ {s}]
  /\ UNCHANGED <<world, accounting, health, posRows, pollFailures>>

PollRecorded == [d \in Dimensions |->
  IF d \in {"clearinghouse", "inventory"}
  THEN [seen |-> TRUE, at |-> poll.at, healthy |-> TRUE] ELSE observed[d]]

\* Balances are replaced; a failed write of the rows is only logged.
PollPersist ==
  /\ poll.phase = "applying" /\ poll.todo = {}
  /\ spotAt' = poll.at
  /\ poll' = [poll EXCEPT !.phase = "persisted"]
  /\ \/ posRows' = poll.snap /\ UNCHANGED pollFailures
     \/ /\ pollFailures < MaxPollFailures /\ pollFailures' = pollFailures + 1
        /\ UNCHANGED posRows
  /\ UNCHANGED <<world, held, accounting, observed>>

PollHealthy ==
  /\ poll.phase = "persisted"
  /\ observed' = PollRecorded
  /\ poll' = Asleep
  /\ UNCHANGED <<world, held, accounting, spotAt, posRows, pollFailures>>

PollStep == PollFetch \/ PollList \/ (\E s \in Symbols : PollSymbol(s))
            \/ PollPersist \/ PollHealthy

TrackerNext == \/ ClockTick \/ VenueFill \/ PollFails \/ PollStep
               \/ \E i \in Fills : AuthoritativeFill(i)
               \/ \E i \in Fills, fee \in Estimates : ProvisionalFill(i, fee)

---------------------------------------------------------------------------
(* evaluate                                                                *)

Status(d) ==
  CASE ~observed[d].seen -> "unknown"
    [] observed[d].seen /\ ~observed[d].healthy -> "unhealthy"
    [] observed[d].healthy /\ clock - observed[d].at > MaxAge -> "stale"
    [] OTHER -> "fresh"

---------------------------------------------------------------------------
(* Properties                                                              *)

TrackerTypeOK ==
  /\ LET most == MaxFills + MaxReports
     IN held \in [Symbols -> -most..most] /\ count \in 0..most
  /\ posRows \in [Symbols -> -MaxFills..MaxFills]
  /\ keyed \subseteq Cloids /\ \A c \in Cloids : prov[c] \in Nat /\ (prov[c] > 0 => c \in keyed)
  /\ fees \in Nat /\ applied \subseteq Fills /\ announced \subseteq Fills
  /\ poll.phase \in {"asleep", "fetched", "applying", "persisted"}

\* The provisional fees that wait for a commit, one pair for each unit.
Units == UNION {{<<c, k>> : k \in 1..prov[c]} : c \in Cloids}
\* The fills of an order that were announced and are not committed.
Owed(c) == {i \in announced \ applied : trades[i].cloid = c}

\* The fees are those of the commits and what still waits for one, whatever the
\* order of reports and commits.  A commit replaces the report of its order: no
\* more waits than the announced fills can still bring, so nothing does once they
\* came, unless a report was above the fee, late or repeated; such a report is
\* counted beside the commit and stays counted.  While every report carries the
\* fee, as many fills as fees are counted.
FeesConverge ==
  /\ fees = Cardinality(applied) + Cardinality(Units)
  /\ \A c \in Cloids \ excess : prov[c] <= Cardinality(Owed(c))
  /\ exact => count = fees

\* A clearinghouse or an inventory that counts as fresh is one whose snapshot
\* the tracker shows: balances, and so positions, at least as new as what was
\* observed, also while later polls fail or are under way.
FreshIsApplied ==
  \A d \in {"clearinghouse", "inventory"} : Status(d) = "fresh" =>
    clock - spotAt <= MaxAge /\ spotAt >= observed[d].at

\* A commit may put back a position the poller had overtaken, and a snapshot
\* one a commit had overtaken; once the venue is quiet the poller repairs the
\* tracker and the rows for good.
TrackerConverges == <>[](held = VenueNow /\ posRows = VenueNow)

=============================================================================
