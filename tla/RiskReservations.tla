-------------------------- MODULE RiskReservations --------------------------
(* The exposure admission of the order database: the reservation a placement *)
(* takes, the position rows it is checked against, and everything that       *)
(* shortens or ends a reservation (storage/src/durable_order_store.rs,       *)
(* exchange_ingestor_store.rs and account_state_store.rs).                   *)
(*                                                                           *)
(* Prices are 1, so a limit on notional is a limit on size: SymbolLimit is   *)
(* equity * max_position_pct, TotalLimit is equity * max_leverage.  Each     *)
(* action is one transaction; the account row's FOR UPDATE lock serialises   *)
(* the ones that admit, so the whole check and the inserts are one step.     *)
EXTENDS Integers, FiniteSets, FiniteSetsExt

CONSTANTS
    Ids,            \* the orders (client order ids)
    OrderOf(_),     \* what each asks: symbol, buy, size, reduce, risk
    Symbols,        \* the perpetuals of the account
    SymbolLimit,    \* largest size of one symbol's exposure
    TotalLimit,     \* largest sum of the exposures
    MaxPolls        \* bound: account polls and stale spells taken together

VARIABLES
    status,     \* the order row of each id, "none" before it is persisted
    reserved,   \* risk_reservations: size and status of each order's row
    position,   \* the position rows of the account's scope
    fresh,      \* whether the account row is present and recent enough
    resting,    \* what the exchange may still fill of each order
    truth,      \* the exchange's positions
    fills,      \* fills the exchange has made, each with its startPosition
    ingested,   \* those the ingestor has committed
    answers,    \* verdicts of the exchange that the transport or the feed owes
    snapshot,   \* the positions a running poll has read, or NoSnapshot
    polls       \* polls and stale spells so far

reservationVars == <<status, reserved, position, fresh, resting, truth, fills,
                     ingested, answers, snapshot, polls>>

Abs(n) == IF n < 0 THEN -n ELSE n
Larger(a, b) == IF a < b THEN b ELSE a
Signed(i, n) == IF OrderOf(i).buy THEN n ELSE -n
NoSnapshot == [taken |-> FALSE]
NoReservation == [size |-> 0, state |-> "none", opens |-> FALSE]

ReservationInit ==
    /\ status = [i \in Ids |-> "none"]
    /\ reserved = [i \in Ids |-> NoReservation]
    /\ position = [s \in Symbols |-> 0]
    /\ fresh = FALSE
    /\ resting = [i \in Ids |-> 0]
    /\ truth = [s \in Symbols |-> 0]
    /\ fills = {}
    /\ ingested = {}
    /\ answers = {}
    /\ snapshot = NoSnapshot
    /\ polls = 0

(* The active opening reservations of a symbol on one side, summed.  A row   *)
(* written for a reduce-only or risk-reducing order is not an opening one.   *)
Opening(s, buy) ==
    {i \in Ids : /\ reserved[i].state = "active" /\ reserved[i].opens
                 /\ OrderOf(i).symbol = s /\ OrderOf(i).buy = buy}
Booked(s, buy) == MapThenSumSet(LAMBDA i : reserved[i].size, Opening(s, buy))

(* What the order itself adds to its side. *)
Asked(i, s, buy) ==
    IF OrderOf(i).symbol = s /\ OrderOf(i).buy = buy /\ ~OrderOf(i).reduce
    THEN OrderOf(i).size ELSE 0

(* Bug: only the order itself is counted, not those already admitted. *)
WorstAlone(i, s) ==
    Larger(Abs(position[s] + Asked(i, s, TRUE)), Abs(position[s] - Asked(i, s, FALSE)))

WorstCase(i, s) ==
    Larger(Abs(position[s] + Booked(s, TRUE) + Asked(i, s, TRUE)),
           Abs(position[s] - Booked(s, FALSE) - Asked(i, s, FALSE)))

StrictlyReduces(i) ==
    LET now  == position[OrderOf(i).symbol]
        then == now + Signed(i, OrderOf(i).size)
    IN  /\ Abs(then) < Abs(now)
        /\ then = 0 \/ (then > 0) = (now > 0)

(* check_and_lock_risk_scope: a reduce-only order must shrink the row's      *)
(* position; any other must leave every worst case within both limits.       *)
Admits(i) ==
    /\ fresh
    /\ IF OrderOf(i).reduce THEN StrictlyReduces(i)
       ELSE LET s == OrderOf(i).symbol
            IN  /\ Larger(Abs(position[s]), WorstCase(i, s)) <= SymbolLimit
                /\ MapThenSumSet(LAMBDA t : WorstCase(i, t), Symbols) <= TotalLimit

(* persist_placement: the order row, and with it the reservation when the    *)
(* check passes.  A second call for the same id changes nothing.             *)
Place(i) ==
    /\ status[i] = "none"
    /\ IF Admits(i)
       THEN /\ status' = [status EXCEPT ![i] = "submitting"]
            /\ reserved' = [reserved EXCEPT ![i] =
                 [size |-> OrderOf(i).size, state |-> "active",
                  opens |-> ~(OrderOf(i).reduce \/ OrderOf(i).risk)]]
       ELSE /\ status' = [status EXCEPT ![i] = "rejected"]
            /\ UNCHANGED reserved
    /\ UNCHANGED <<position, fresh, resting, truth, fills, ingested, answers,
                   snapshot, polls>>

(* The command reaches the exchange, which rests the order or refuses it;    *)
(* every verdict may later come back by the response or by the feed.         *)
Send(i) ==
    /\ status[i] = "submitting"
    /\ status' = [status EXCEPT ![i] = "sent"]
    /\ \/ /\ resting' = [resting EXCEPT ![i] = OrderOf(i).size]
          /\ UNCHANGED answers
       \/ /\ answers' = answers \union {[id |-> i, verdict |-> "rejected"]}
          /\ UNCHANGED resting
    /\ UNCHANGED <<reserved, position, fresh, truth, fills, ingested, snapshot, polls>>

(* The exchange fills one unit.  A reduce-only order is filled only while it *)
(* reduces.                                                                  *)
Fill(i) ==
    LET s == OrderOf(i).symbol
    IN  /\ resting[i] > 0
        /\ OrderOf(i).reduce => Abs(truth[s] + Signed(i, 1)) < Abs(truth[s])
        /\ resting' = [resting EXCEPT ![i] = @ - 1]
        /\ truth' = [truth EXCEPT ![s] = @ + Signed(i, 1)]
        /\ fills' = fills \union
             {[id |-> i, left |-> resting[i] - 1, start |-> truth[s]]}
        /\ answers' = IF resting[i] = 1
                      THEN answers \union {[id |-> i, verdict |-> "filled"]} ELSE answers
        /\ UNCHANGED <<status, reserved, position, fresh, ingested, snapshot, polls>>

CancelAtExchange(i) ==
    /\ resting[i] > 0
    /\ resting' = [resting EXCEPT ![i] = 0]
    /\ answers' = answers \union {[id |-> i, verdict |-> "cancelled"]}
    /\ UNCHANGED <<status, reserved, position, fresh, truth, fills, ingested,
                   snapshot, polls>>

Resized(r, n, state) == [size |-> n, state |-> state, opens |-> r.opens]
Ended(r, verdict) ==
    IF r.state # "active" THEN r
    ELSE Resized(r, r.size, IF verdict = "filled" THEN "consumed" ELSE "released")

(* A terminal verdict is persisted: by persist_transition or                 *)
(* persist_reconciled_order for a response or a lookup, by                   *)
(* ingest_order_update for the feed.  None of them looks at the positions.   *)
Verdict(a) ==
    /\ a \in answers
    /\ answers' = answers \ {a}
    /\ status' = [status EXCEPT ![a.id] = a.verdict]
    /\ reserved' = [reserved EXCEPT ![a.id] = Ended(@, a.verdict)]
    /\ UNCHANGED <<position, fresh, resting, truth, fills, ingested, snapshot, polls>>

(* Bug: the first fill ends the reservation. *)
NothingLeft(i) == 0

(* What of the reservation a fill leaves: its own size less. *)
Left(i) == Larger(reserved[i].size - 1, 0)

(* ingest_fill: the fill shortens the reservation and overwrites the         *)
(* position row with startPosition plus the fill, in whatever order the      *)
(* fills are ingested (a live fill may precede a recovered older one).       *)
IngestFill(f) ==
    LET left == Left(f.id)
        done == Cardinality({g \in ingested : g.id = f.id}) + 1 >= OrderOf(f.id).size
    IN  /\ f \in fills \ ingested
        /\ ingested' = ingested \union {f}
        /\ status' = IF done THEN [status EXCEPT ![f.id] = "filled"] ELSE status
        /\ reserved' = IF reserved[f.id].state # "active" THEN reserved
                       ELSE [reserved EXCEPT ![f.id] = Resized(@, left,
                              IF left = 0 \/ status'[f.id] = "filled"
                              THEN "consumed" ELSE "active")]
        /\ position' = [position EXCEPT ![OrderOf(f.id).symbol] = f.start + Signed(f.id, 1)]
        /\ UNCHANGED <<fresh, resting, truth, fills, answers, snapshot, polls>>

(* The account poller reads the clearinghouse, and some time later replaces  *)
(* the account row and every position row of the scope with what it read.    *)
PollReads ==
    /\ polls < MaxPolls
    /\ ~snapshot.taken
    /\ snapshot' = [taken |-> TRUE, at |-> truth]
    /\ polls' = polls + 1
    /\ UNCHANGED <<status, reserved, position, fresh, resting, truth, fills,
                   ingested, answers>>

PollCommits ==
    /\ snapshot.taken
    /\ position' = snapshot.at
    /\ fresh' = TRUE
    /\ snapshot' = NoSnapshot
    /\ UNCHANGED <<status, reserved, resting, truth, fills, ingested, answers, polls>>

(* No poll succeeds for longer than the stale limit. *)
GoesStale ==
    /\ fresh /\ polls < MaxPolls
    /\ fresh' = FALSE
    /\ polls' = polls + 1
    /\ UNCHANGED <<status, reserved, position, resting, truth, fills, ingested,
                   answers, snapshot>>

ReservationNext ==
    \/ \E i \in Ids : \/ Place(i) \/ Send(i) \/ Fill(i) \/ CancelAtExchange(i)
    \/ \E a \in answers : Verdict(a)
    \/ \E f \in fills : IngestFill(f)
    \/ PollReads \/ PollCommits \/ GoesStale

ReservationSpec == ReservationInit /\ [][ReservationNext]_reservationVars

-----------------------------------------------------------------------------
(* What the admission promises of the exchange.                              *)

Pending(i) == IF status[i] = "submitting" THEN OrderOf(i).size ELSE resting[i]

(* Every opening order the exchange may still fill, whether resting or on    *)
(* its way, keeps an active reservation of at least what may still be filled *)
(* (persist_transition, ingest_fill and ingest_order_update must not shorten *)
(* one early).                                                               *)
LiveOrdersReserved ==
    \A i \in Ids : Pending(i) > 0 =>
        reserved[i].state = "active" /\ reserved[i].size >= Pending(i)

(* The size of a symbol once every opening order on one side is filled. *)
Openers(s, buy) ==
    {i \in Ids : OrderOf(i).symbol = s /\ OrderOf(i).buy = buy /\ ~OrderOf(i).reduce}
Exposure(s) ==
    LET side(buy) == MapThenSumSet(Pending, Openers(s, buy))
    IN  Larger(Abs(truth[s] + side(TRUE)), Abs(truth[s] - side(FALSE)))

(* An order admitted while the rows show the exchange's positions leaves the *)
(* account's worst exposure within the symbol and leverage limits, whatever  *)
(* was admitted, filled or cancelled before it.                              *)
AdmissionFits ==
    \A i \in Ids :
      status[i] = "none" /\ status'[i] = "submitting" /\ ~OrderOf(i).reduce
          /\ position = truth
      => /\ Exposure(OrderOf(i).symbol)' <= SymbolLimit
         /\ MapThenSumSet(LAMBDA s : Exposure(s)', Symbols) <= TotalLimit

AdmittedWithinLimits == [][AdmissionFits]_reservationVars
=============================================================================
