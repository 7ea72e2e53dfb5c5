------------------------------- MODULE Canary -------------------------------
(***************************************************************************)
(* The release gates of a mainnet canary and the registry of possible-live *)
(* orders that feeds one of them: the age of the oldest order whose fate   *)
(* is unknown.  (risk/canary.rs, execution/recovery.rs)                    *)
(*                                                                         *)
(* A measure is abstracted to how far it is past its limit: "within",      *)
(* "at" the limit, "past" it; "at" is what an off-by-one would confuse.    *)
(* The stage of the deployment is the caller's.                            *)
(***************************************************************************)
EXTENDS Integers, FiniteSets

CONSTANTS
  Cloids,           \* the orders that may need recovery
  Slots,            \* the quote slots they belong to
  Sla,              \* the age beyond which an unknown order is a breach
  LastTime,         \* bound on the clock
  Worst             \* measures and healths that may be amiss at once

VARIABLES
  stage,            \* "shadow", "canary", "expanded": the caller's
  measure,          \* measure -> "within", "at", "past"
  healthy,          \* the healths reported
  registry,         \* the recovery owners: [cloid, slot, found, status]
  venue,            \* cloid -> "none", "live", "terminal"
  now

canaryVars == <<stage, measure, healthy, registry, venue, now>>

Healths == {"reconciliation", "market_data", "account"}

\* Measures whose limit is an upper bound, by the directive they force.
HaltingMeasures == {"deployed_equity", "cumulative_loss", "total_actions", "duration",
                    "filled_volume", "forced_flattens", "flatten_cost"}
PausingMeasures == {"quote_notional", "daily_loss", "daily_actions"}
\* Measures whose limit is a lower bound: "past" it is below it.
Headrooms == {"action_credits", "cancel_headroom"}
Measures == HaltingMeasures \union PausingMeasures \union Headrooms

\* Evidence for the gates before and after the canary, by the same ranks.  The
\* edge that must be positive fails at its limit; the others fail past it.
ReleaseEvidence == {"shadow_days", "testnet_days", "diffs", "duplicates",
                    "bypasses", "breaches", "unknowns", "edge", "runway"}
ExpansionEvidence == {"window_days", "episodes", "regimes", "edge_ci", "marginal",
                      "critical_diffs", "repeats", "hard_breaches",
                      "unknowns_unresolved", "concentration"}
Evidence == ReleaseEvidence \union ExpansionEvidence

Past(k) == measure[k] = "past"

---------------------------------------------------------------------------
(* The registry.                                                           *)

Unresolved == {r \in registry : r.status # "resolved_terminal"}
PlacementBlocked(s) == \E r \in Unresolved : r.slot = s

\* A clock that went back gives an age of zero.
Age(r) == IF now >= r.found THEN now - r.found ELSE 0
SlaExceeded == \E r \in Unresolved : Age(r) > Sla

---------------------------------------------------------------------------
(* The gates.                                                              *)

CanStart == \A k \in ReleaseEvidence : ~Past(k)
CanExpand == /\ \A k \in ExpansionEvidence : ~Past(k)
             /\ measure["edge_ci"] = "within"

Halted == "reconciliation" \notin healthy \/ \E k \in HaltingMeasures : Past(k)
CancelOnly == \/ SlaExceeded
              \/ \E k \in Headrooms : Past(k)
              \/ ~({"market_data", "account"} \subseteq healthy)
Paused == \E k \in PausingMeasures : Past(k)

Directive == CASE Halted -> "halted"
               [] ~Halted /\ CancelOnly -> "cancel_only"
               [] ~Halted /\ ~CancelOnly /\ Paused -> "paused"
               [] OTHER -> "running"

---------------------------------------------------------------------------

CanaryInit ==
  /\ stage = "shadow"
  /\ measure = [k \in Measures \union Evidence |-> "within"]
  /\ healthy = Healths /\ registry = {}
  /\ venue = [c \in Cloids |-> "none"] /\ now = 0

\* How much is out of order at once.
Amiss(m, h) == Cardinality({k \in DOMAIN m : m[k] # "within"})
                 + Cardinality(Healths \ h)

\* A measure moves; a health comes or goes.
Measure ==
  /\ \E k \in DOMAIN measure : \E v \in {"within", "at", "past"} \ {measure[k]} :
       /\ measure' = [measure EXCEPT ![k] = v]
       /\ Amiss(measure', healthy) <= Worst
  /\ UNCHANGED <<stage, healthy, registry, venue, now>>
Report ==
  /\ \E h \in Healths :
       /\ healthy' = IF h \in healthy THEN healthy \ {h} ELSE healthy \union {h}
       /\ Amiss(measure, healthy') <= Worst
  /\ UNCHANGED <<stage, measure, registry, venue, now>>

\* The caller asks a gate and moves on when it allows.
Start == /\ stage = "shadow" /\ CanStart /\ stage' = "canary"
         /\ UNCHANGED <<measure, healthy, registry, venue, now>>
Expand == /\ stage = "canary" /\ CanExpand /\ stage' = "expanded"
          /\ UNCHANGED <<measure, healthy, registry, venue, now>>

\* The canary places while its directive lets it and the slot is not blocked;
\* the answer is lost, and the order becomes a recovery fact.
PlaceUnknown ==
  /\ stage # "shadow" /\ Directive = "running"
  /\ \E c \in Cloids, s \in Slots :
       /\ venue[c] = "none" /\ ~PlacementBlocked(s)
       /\ venue' = [venue EXCEPT ![c] = "live"]
       /\ registry' = registry \union
            {[cloid |-> c, slot |-> s, found |-> now, status |-> "required"]}
  /\ UNCHANGED <<stage, measure, healthy, now>>

\* Registering an order again changes nothing, whatever its entry says.
Register ==
  /\ \E c \in Cloids, s \in Slots :
       /\ venue[c] = "live"
       /\ registry' = IF \E r \in registry : r.cloid = c THEN registry
                      ELSE registry \union {[cloid |-> c, slot |-> s,
                                             found |-> now, status |-> "required"]}
  /\ UNCHANGED <<stage, measure, healthy, venue, now>>

MarkCancelPending ==
  /\ \E r \in Unresolved :
       registry' = (registry \ {r}) \union {[r EXCEPT !.status = "cancel_pending"]}
  /\ UNCHANGED <<stage, measure, healthy, venue, now>>

\* An order is reconciled with the venue's status: only a terminal one ends it.
Reconcile ==
  /\ \E r \in registry :
       registry' = IF venue[r.cloid] = "terminal"
                   THEN (registry \ {r}) \union
                        {[r EXCEPT !.status = "resolved_terminal"]}
                   ELSE registry
  /\ UNCHANGED <<stage, measure, healthy, venue, now>>

OrderEnds == /\ \E c \in Cloids : /\ venue[c] = "live"
                                  /\ venue' = [venue EXCEPT ![c] = "terminal"]
             /\ UNCHANGED <<stage, measure, healthy, registry, now>>

\* The wall clock, which may be set back.
Clock == /\ now' \in {now - 1, now + 1} \intersect 0..LastTime
         /\ UNCHANGED <<stage, measure, healthy, registry, venue>>

CanaryNext == \/ Measure \/ Report \/ Start \/ Expand \/ PlaceUnknown \/ Register
              \/ MarkCancelPending \/ Reconcile \/ OrderEnds \/ Clock

---------------------------------------------------------------------------
\* A slot never holds two orders that may be live, every one that may be live
\* is in the registry unresolved, and while one is overdue, a health is missing
\* or a limit is passed, nothing but protection is allowed.
CanarySound ==
  /\ \A c \in Cloids : venue[c] = "live" =>
       \E r \in Unresolved : r.cloid = c
  /\ \A r, q \in Unresolved :
       venue[r.cloid] = "live" /\ venue[q.cloid] = "live" /\ r.slot = q.slot => r = q
  /\ Directive = "running" =>
       /\ healthy = Healths
       /\ \A k \in Measures : measure[k] # "past"
       /\ \A r \in registry : venue[r.cloid] = "live" => now - r.found <= Sla
=============================================================================
