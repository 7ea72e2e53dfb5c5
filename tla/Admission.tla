------------------------------ MODULE Admission ------------------------------
(***************************************************************************)
(* TradingCommandService: a placement passes the gates safety, data        *)
(* health, risk, action budget and normalization in that order, each of    *)
(* them asked at its own moment, and what comes out, accepted or rejected, *)
(* goes to a sink that keeps the first receipt of each command id.  The    *)
(* risk gate is the RiskChecker: it looks at the tracked position, not at  *)
(* the orders accepted since.                                              *)
(***************************************************************************)
EXTENDS Integers, FiniteSets

CONSTANTS
  Callers, RequestIds,
  Intents,          \* side (1, -1), size, spot, reduce (reduce_only), risk (risk_reducing), post
  Lot, MinSize,     \* of the instrument
  MaxSize,          \* what equity, price and max_position_pct, max_leverage allow
  MaxCalls, MaxChanges \* bounds: submissions, changes of the environment

VARIABLES
  mode,             \* of the safety controller
  market,           \* "good", "crossed" (the book is inside a post-only price), "priceless", "bad"
  account,          \* "missing", "stale", "drawdown", "broke", "good"
  budget,           \* the action budget permits a placement
  tracked, venuePosition,   \* perpetual position: the tracker's, the venue's
  call,             \* each caller's submit_order
  receipt, finger,  \* the sink, by command id
  open,             \* accepted orders not executed yet
  unseen,           \* accepted orders the tracker does not show
  told,             \* what each caller was last answered, and for which id
  crowded,          \* history: a check passed with another order unseen
  calls, changes

gateVars == <<mode, market, account, budget>>
positionVars == <<tracked, venuePosition, open, unseen>>
sinkVars == <<receipt, finger>>
admissionVars == <<gateVars, positionVars, call, sinkVars, told, crowded, calls, changes>>

NoIntent == [side |-> 1, size |-> 0, spot |-> FALSE, reduce |-> FALSE, risk |-> FALSE, post |-> FALSE]
NoCall == [at |-> "none", id |-> 0, intent |-> NoIntent, market |-> "bad", gate |-> "none"]
NoReceipt == [status |-> "none", intent |-> NoIntent]

AdmissionInit ==
  /\ mode = "normal" /\ market = "good" /\ account = "good" /\ budget = TRUE
  /\ tracked = 0 /\ venuePosition = 0 /\ open = {} /\ unseen = {}
  /\ call = [c \in Callers |-> NoCall]
  /\ receipt = [i \in RequestIds |-> NoReceipt] /\ finger = [i \in RequestIds |-> <<>>]
  /\ told = [c \in Callers |-> [id |-> 0, answer |-> "none"]]
  /\ crowded = FALSE /\ calls = 0 /\ changes = 0

Size(n) == IF n < 0 THEN -n ELSE n
Delta(i) == IF i.spot THEN 0 ELSE i.side * i.size

----------------------------------------------------------------------------
\* SafetyController::check_placement.
SafetyAllows(i) == mode = "normal" \/ (mode = "reduce_only" /\ (i.reduce \/ i.risk))

\* RiskChecker::run_checks.  The reference price is the data gate's; without
\* one the order's own limit, and the mark of the position, stand in.
RiskAllows(i) ==
  /\ account \notin {"missing", "stale"}
  /\ IF i.spot
     THEN /\ ~i.reduce
          /\ IF i.risk THEN i.side = -1
             ELSE /\ account = "good"
                  /\ i.side = 1 => i.size <= MaxSize
     ELSE account = "good" /\ Size(tracked + i.side * i.size) <= MaxSize

\* OrderNormalizer::normalize: whole lots, and no post-only price that crosses
\* the book the data gate saw.
Normal(i) == [i EXCEPT !.size = (i.size \div Lot) * Lot]
Normalizes(i, book) == Normal(i).size >= MinSize /\ ~(i.post /\ book = "crossed")

----------------------------------------------------------------------------
Submit(c, id, i) ==
  /\ call[c] = NoCall /\ calls < MaxCalls /\ calls' = calls + 1
  /\ call' = [call EXCEPT ![c] = [NoCall EXCEPT !.at = "safety", !.id = id, !.intent = i]]
  /\ UNCHANGED <<gateVars, positionVars, sinkVars, told, crowded, changes>>

\* One gate: on to the next, or to the sink with a rejection.
Passes(c, next) == [call EXCEPT ![c].at = next]
Refused(c) == [call EXCEPT ![c].at = "reject", ![c].gate = call[c].at]
Quiet == UNCHANGED <<gateVars, positionVars, sinkVars, told, calls, changes>>

Safety(c) ==
  /\ call[c].at = "safety" /\ Quiet /\ UNCHANGED crowded
  /\ call' = IF SafetyAllows(call[c].intent) THEN Passes(c, "data") ELSE Refused(c)
Data(c) ==
  /\ call[c].at = "data" /\ Quiet /\ UNCHANGED crowded
  /\ call' = IF market = "bad" THEN Refused(c)
             ELSE [call EXCEPT ![c].at = "risk", ![c].market = market]
\* A timeout of the check is a rejection too.
InFlight(c) == {d \in Callers \ {c} : call[d].at \in {"budget", "normalize", "accept"}}
Risk(c) ==
  /\ call[c].at = "risk" /\ Quiet
  /\ \/ /\ RiskAllows(call[c].intent) /\ call[c].market # "priceless"
        /\ call' = Passes(c, "budget")
        /\ crowded' = (crowded \/ unseen # {} \/ InFlight(c) # {})
     \/ call' = Refused(c) /\ UNCHANGED crowded
Budget(c) ==
  /\ call[c].at = "budget" /\ Quiet /\ UNCHANGED crowded
  /\ call' = IF budget THEN Passes(c, "normalize") ELSE Refused(c)
Normalize(c) ==
  /\ call[c].at = "normalize" /\ Quiet /\ UNCHANGED crowded
  /\ call' = IF Normalizes(call[c].intent, call[c].market)
             THEN [call EXCEPT ![c].at = "accept", ![c].intent = Normal(call[c].intent)]
             ELSE Refused(c)

\* persist and persist_rejection: the sink keeps the first command of an id,
\* answers a repetition with its receipt and anything else with a conflict.
Fingerprint(c) ==
  LET i == call[c].intent IN
  <<call[c].at, call[c].gate, i.side, i.size, i.reduce>>
Persist(c) ==
  LET id == call[c].id
      status == IF call[c].at = "accept" THEN "accepted" ELSE "rejected"
      new == receipt[id].status = "none" IN
  /\ call[c].at \in {"accept", "reject"}
  /\ IF new
     THEN /\ receipt' = [receipt EXCEPT ![id] = [status |-> status, intent |-> call[c].intent]]
          /\ finger' = [finger EXCEPT ![id] = Fingerprint(c)]
          /\ open' = IF status = "accepted" THEN open \union {id} ELSE open
          /\ unseen' = IF status = "accepted" THEN unseen \union {id} ELSE unseen
     ELSE UNCHANGED <<sinkVars, open, unseen>>
  /\ told' = [told EXCEPT ![c] = [id |-> id,
       answer |-> IF new \/ finger[id] = Fingerprint(c) THEN receipt'[id].status ELSE "conflict"]]
  /\ call' = [call EXCEPT ![c] = NoCall]
  /\ UNCHANGED <<gateVars, tracked, venuePosition, crowded, calls, changes>>
\* The caller goes away before it is answered; it may submit the id again.
Abandon(c) ==
  /\ call[c] # NoCall
  /\ call' = [call EXCEPT ![c] = NoCall]
  /\ UNCHANGED <<gateVars, positionVars, sinkVars, told, crowded, calls, changes>>

----------------------------------------------------------------------------
\* Around the service: executions, the tracker's refresh, the gates' inputs.
Execute(id) ==
  /\ id \in open /\ open' = open \ {id}
  /\ venuePosition' = venuePosition + Delta(receipt[id].intent)
  /\ UNCHANGED <<gateVars, tracked, unseen, call, sinkVars, told, crowded, calls, changes>>
Refresh ==
  /\ tracked' = venuePosition /\ unseen' = open
  /\ <<tracked', unseen'>> # <<tracked, unseen>>
  /\ UNCHANGED <<gateVars, venuePosition, open, call, sinkVars, told, crowded, calls, changes>>
Change ==
  /\ changes < MaxChanges /\ changes' = changes + 1
  /\ \/ mode' \in {"normal", "reduce_only", "cancel_only"} \ {mode} /\ UNCHANGED <<market, account, budget>>
     \/ market' \in {"good", "crossed", "priceless", "bad"} \ {market} /\ UNCHANGED <<mode, account, budget>>
     \/ account' \in {"missing", "stale", "drawdown", "broke", "good"} \ {account} /\ UNCHANGED <<mode, market, budget>>
     \/ budget' = ~budget /\ UNCHANGED <<mode, market, account>>
  /\ UNCHANGED <<positionVars, call, sinkVars, told, crowded, calls>>

GateStep(c) == Safety(c) \/ Data(c) \/ Risk(c) \/ Budget(c) \/ Normalize(c)
AdmissionNext ==
  \/ \E c \in Callers :
       \/ GateStep(c) \/ Persist(c) \/ Abandon(c)
       \/ \E id \in RequestIds, i \in Intents : Submit(c, id, i)
  \/ \E id \in RequestIds : Execute(id)
  \/ Refresh \/ Change

----------------------------------------------------------------------------
\* The position exceeds what the limits allow only if some check passed while
\* another accepted order was not in the tracked position (RiskChecker reads
\* the tracker alone); a caller told "accepted" or "rejected" was told what the
\* sink keeps for its id, whoever wrote it; and no accepted size is below the
\* instrument's minimum or off its lots.
AdmissionSound ==
  /\ Size(venuePosition) > MaxSize => crowded
  /\ \A c \in Callers :
       told[c].answer \in {"accepted", "rejected"} => receipt[told[c].id].status = told[c].answer
  /\ \A id \in RequestIds : receipt[id].status = "accepted" =>
       receipt[id].intent.size >= MinSize /\ receipt[id].intent.size % Lot = 0
=============================================================================
