------------------------- MODULE QuoteCoordinator -------------------------
(***************************************************************************)
(* From a candidate pair of quotes and the two slots to the smallest plan, *)
(* and the virtual book of shadow mode to which plans are applied.         *)
(*                                                                         *)
(* Prices are ticks, sizes multiples of the lot, edges and costs units of  *)
(* USDC, time the ticks of a clock.                                        *)
(***************************************************************************)
EXTENDS Integers

CONSTANTS
  Prices,       \* by side
  FullSize, FillSize,
  MinLifetime, Cooldown, MaxQuoteAge, PriceHysteresis,
  Validity,     \* how long a candidate stays valid
  LastTick,     \* bound on time
  MaxRevision   \* bound on candidates

VARIABLES
  tick,
  slots,        \* by side: the slot's revision, plan_revision and owner
  candidate,    \* the DesiredQuoteSet on its way to the coordinator
  made          \* the revision of the last candidate

coordinatorVars == <<tick, slots, candidate, made>>

Sides == {"bid", "ask"}
NoOwner == [price |-> 0, remaining |-> 0, since |-> 0, status |-> "none", plan |-> 0]
NoCandidate == [revision |-> 0]

ActionCost == 1
UsdHysteresis == 0

CoordinatorInit ==
  /\ tick = 0
  /\ slots = [s \in Sides |-> [revision |-> 0, plan |-> 0, owner |-> NoOwner, last |-> -9]]
  /\ candidate = NoCandidate /\ made = 0

Larger(a, b) == IF a > b THEN a ELSE b
Smaller(a, b) == IF a < b THEN a ELSE b
Distance(a, b) == IF a > b THEN a - b ELSE b - a

\* One side of a candidate: a policy that quotes, keeps or withdraws.
NoQuote == [decision |-> "no_quote", price |-> 0, size |-> 0, edge |-> 0]
KeepQuote == [NoQuote EXCEPT !.decision = "keep"]
Desires(s) == {NoQuote, KeepQuote} \cup
  [decision : {"quote"}, price : Prices[s], size : {FullSize}, edge : {1, 5}]

\* A candidate is made from the slots as they are now.
Propose(bid, ask) ==
  /\ candidate = NoCandidate /\ made < MaxRevision
  /\ made' = made + 1
  /\ candidate' = [revision |-> made + 1, bid |-> bid, ask |-> ask,
       slotRevision |-> Larger(slots["bid"].revision, slots["ask"].revision),
       until |-> tick + Validity]
  /\ UNCHANGED <<tick, slots>>

Live(v) == v.owner.status # "none"
Unknown(v) == v.owner.status = "unknown"
Inflight(v) == v.owner.status = "inflight"
Orphaned(v) == Live(v) /\ v.owner.plan # v.plan
Blocked(v) == Unknown(v) \/ Orphaned(v)

\* reject_crossed: both sides are withdrawn, so that their owners are cancelled.
Uncrossed(c) ==
  IF /\ c.bid.decision = "quote" /\ c.ask.decision = "quote"
     /\ c.bid.price >= c.ask.price
  THEN [c EXCEPT !.bid = NoQuote, !.ask = NoQuote] ELSE c

\* fence_reason
Fenced(c) ==
  \/ tick >= c.until
  \/ c.revision <= Larger(slots["bid"].plan, slots["ask"].plan)
  \/ c.slotRevision # Larger(slots["bid"].revision, slots["ask"].revision)

\* fenced_diffs: only protective cancels outlive the fence.
FencedDiff(d, v) ==
  IF Blocked(v) THEN "blocked_unknown"
  ELSE IF d.decision # "no_quote" THEN "none"
  ELSE IF Live(v) THEN "cancel" ELSE "no_action"

\* Bug: a replacement snaps back to the size before the fill.
Unclamped(size, owner) == size

\* clamp_to_partial_fill: a fifth above what is left, never the full size again.
Clamped(size, owner) ==
  IF size <= owner.remaining THEN size ELSE Smaller(size, (owner.remaining * 6) \div 5)

ReplaceSize(d, v) == Clamped(d.size, v.owner)

\* diff_slot on a slot with an owner the candidate wants to quote beside.
Worth(d, v) ==
  LET age == tick - v.owner.since IN
  /\ \/ Distance(d.price, v.owner.price) > PriceHysteresis
     \/ ReplaceSize(d, v) # v.owner.remaining
  /\ age >= MinLifetime
  /\ tick - v.last >= Cooldown
  /\ age >= MaxQuoteAge \/ d.edge - 2 * ActionCost > UsdHysteresis

Diff(d, v) ==
  IF Blocked(v) THEN "blocked_unknown"
  ELSE IF Inflight(v) THEN "keep"
  ELSE IF d.decision = "keep" THEN IF Live(v) THEN "keep" ELSE "no_action"
  ELSE IF d.decision = "no_quote" THEN IF Live(v) THEN "cancel" ELSE "no_action"
  ELSE IF ~Live(v) THEN "place"
  ELSE IF Worth(d, v) THEN "cancel_then_place" ELSE "keep"

\* A virtual order after a plan: fenced plans leave the shadow book alone.
NewOwner(d, v, act, rev) ==
  [price |-> d.price, since |-> tick, status |-> "live", plan |-> rev,
   remaining |-> IF act = "place" THEN d.size ELSE ReplaceSize(d, v)]

Applied(d, v, act, rev) ==
  IF act \notin {"cancel", "place", "cancel_then_place"} THEN v
  ELSE [revision |-> v.revision + 1, plan |-> rev, last |-> tick,
        owner |-> IF act = "cancel" THEN NoOwner ELSE NewOwner(d, v, act, rev)]

\* coordinate: what the plan of the present candidate does to a slot.
Act(s) ==
  LET c == Uncrossed(candidate) IN
  IF Fenced(c) THEN FencedDiff(c[s], slots[s]) ELSE Diff(c[s], slots[s])

Coordinate ==
  LET c == Uncrossed(candidate) IN
  /\ candidate # NoCandidate
  /\ slots' = IF Fenced(c) THEN slots
              ELSE [s \in Sides |-> Applied(c[s], slots[s], Act(s), c.revision)]
  /\ candidate' = NoCandidate
  /\ UNCHANGED <<tick, made>>

\* simulate_fill: the slot's revision moves under a candidate already made.
Fill(s) ==
  LET v == slots[s]
      left == IF v.owner.remaining <= FillSize THEN NoOwner
              ELSE [v.owner EXCEPT !.remaining = @ - FillSize]
  IN /\ Live(v) /\ v.owner.plan = v.plan
     /\ slots' = [slots EXCEPT ![s] = [v EXCEPT !.revision = v.revision + 1, !.owner = left]]
     /\ UNCHANGED <<tick, candidate, made>>

\* What the authoritative slots of live trading may also show.
Authoritative(s, st) ==
  /\ Live(slots[s]) /\ st # slots[s].owner.status
  /\ slots' = [slots EXCEPT ![s].owner =
       IF st = "orphaned" THEN [@ EXCEPT !.plan = 0] ELSE [@ EXCEPT !.status = st]]
  /\ UNCHANGED <<tick, candidate, made>>

Pass ==
  /\ tick < LastTick /\ tick' = tick + 1
  /\ UNCHANGED <<slots, candidate, made>>

CoordinatorNext ==
  \/ \E bid \in Desires("bid"), ask \in Desires("ask") : Propose(bid, ask)
  \/ Coordinate
  \/ \E s \in Sides : Fill(s)
  \/ \E s \in Sides, st \in {"live", "unknown", "inflight", "orphaned"} : Authoritative(s, st)
  \/ Pass

-----------------------------------------------------------------------------
\* A withdrawn quote is cancelled even behind a fence; an owner in doubt is
\* never touched; a stale candidate places nothing; a crossed pair never rests.
PlanIsSafe ==
  candidate # NoCandidate => \A s \in Sides :
    LET v == slots[s]
        quoted(t) == candidate[t].decision = "quote"
        crossed == /\ quoted("bid") /\ quoted("ask")
                   /\ candidate.bid.price >= candidate.ask.price
        withdrawn == candidate[s].decision = "no_quote" \/ crossed
        stale == tick >= candidate.until \/ candidate.slotRevision
                   < Larger(slots["bid"].revision, slots["ask"].revision)
    IN /\ Blocked(v) => Act(s) = "blocked_unknown"
       /\ withdrawn /\ Live(v) /\ ~Blocked(v) => Act(s) = "cancel" \/ (~stale /\ Inflight(v))
       /\ stale \/ crossed => Act(s) \notin {"place", "cancel_then_place"}

\* An order grows back by at most a fifth of what its fills left of it, and is
\* not replaced before its minimum lifetime.
NoSnapBack ==
  candidate # NoCandidate => \A s \in Sides :
    Act(s) = "cancel_then_place" =>
      /\ 5 * NewOwner(candidate[s], slots[s], Act(s), 0).remaining
           <= 6 * slots[s].owner.remaining
      /\ tick >= slots[s].owner.since + MinLifetime
=============================================================================
