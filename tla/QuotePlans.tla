---------------------------- MODULE QuotePlans ----------------------------
(***************************************************************************)
(* Quote plans of one slot, as PostgreSQL keeps them and the workers       *)
(* dispatch them: children leased, guarded, sent and settled.              *)
(*                                                                         *)
(* The plan's rows are written by code that is not in the repository, and  *)
(* so are the executor and the guard's facts; only their interfaces are.   *)
(***************************************************************************)
EXTENDS Integers, FiniteSets

CONSTANTS
  Workers,
  MaxPlans,      \* bound: plan revisions 1..MaxPlans
  MaxAttempts    \* bound on the attempts of one child

VARIABLES
  items,         \* execution_command_items, by <<plan, action>>
  commands,      \* status of the plan's execution_commands row
  slot,          \* quote_slots
  source,        \* source_cloid of each plan: the plan of that order, or 0
  reservations,  \* risk_reservations of each plan's placement
  orders,        \* the order of each plan, at the executor and the venue
  worker,        \* what each worker does
  overtaken      \* children whose lease ran out under a worker

plansVars == <<items, commands, slot, source, reservations, orders, worker,
          overtaken>>

Plans == 1..MaxPlans
Children == Plans \X {"cancel", "place"}
Shapes == {{"cancel"}, {"place"}, {"cancel", "place"}}

Unsettled == {"pending", "processing"}
NoItem == [status |-> "none", attempt |-> 0, leased |-> FALSE]
Idle == [pc |-> "idle", child |-> <<0, "none">>, attempt |-> 0, result |-> "none"]

PlansInit ==
  /\ items = [c \in Children |-> NoItem]
  /\ commands = [p \in Plans |-> "none"]
  /\ slot = [plan |-> 0, owner |-> 0, state |-> "empty"]
  /\ source = [p \in Plans |-> 0]
  /\ reservations = [p \in Plans |-> "none"]
  /\ orders = [p \in Plans |-> "none"]
  /\ worker = [w \in Workers |-> Idle]
  /\ overtaken = {}

Latest == Cardinality({p \in Plans : commands[p] # "none"})

\* A coordinated plan is persisted: its children, a reservation for a
\* placement, and the slot taken over by its revision.
Persist(shape) ==
  LET p == Latest + 1 IN
  /\ Latest < MaxPlans
  /\ items' = [c \in Children |->
       IF c[1] = p /\ c[2] \in shape THEN [NoItem EXCEPT !.status = "pending"]
       ELSE items[c]]
  /\ commands' = [commands EXCEPT ![p] = "pending"]
  /\ source' = [source EXCEPT ![p] = slot.owner]
  /\ reservations' = [reservations EXCEPT
       ![p] = IF "place" \in shape THEN "active" ELSE "none"]
  /\ slot' = [slot EXCEPT !.plan = p]
  /\ UNCHANGED <<orders, worker, overtaken>>

\* lease_seconds pass since the child was claimed.
LeaseRunsOut(c) ==
  /\ items[c].status = "processing" /\ items[c].leased
  /\ items[c].attempt < MaxAttempts
  /\ items' = [items EXCEPT ![c].leased = FALSE]
  /\ overtaken' = overtaken \cup {c}
  /\ UNCHANGED <<commands, slot, source, reservations, orders, worker>>

\* What the claim's first statement leaves: expired leases are pending again.
Reaped == [c \in Children |->
  IF items[c].status = "processing" /\ ~items[c].leased
  THEN [items[c] EXCEPT !.status = "pending"] ELSE items[c]]

\* A child waits for every cancel of its plan item but itself.
Claimable(its) == {c \in Children :
  /\ its[c].status = "pending"
  /\ commands[c[1]] \in Unsettled
  /\ c[2] = "place" => its[<<c[1], "cancel">>].status \in {"none", "succeeded"}}

Claim(w) ==
  /\ worker[w].pc = "idle"
  /\ IF Claimable(Reaped) = {}
     THEN items' = Reaped /\ UNCHANGED <<commands, worker>>
     ELSE \E c \in Claimable(Reaped) :
            /\ items' = [Reaped EXCEPT ![c] =
                 [status |-> "processing", attempt |-> @.attempt + 1, leased |-> TRUE]]
            /\ commands' = [commands EXCEPT ![c[1]] = "processing"]
            /\ worker' = [worker EXCEPT ![w] =
                 [pc |-> "claimed", child |-> c,
                  attempt |-> items[c].attempt + 1, result |-> "none"]]
  /\ UNCHANGED <<slot, source, reservations, orders, overtaken>>

\* evaluate_dispatch_guard: a cancel is never held back.  The deadline and
\* the freshness, safety and budget facts may stand either way when asked.
GuardAnswers(c) ==
  IF c[2] = "cancel" THEN {"allow"}
  ELSE IF c[1] # Latest THEN {"expired", "superseded"}
  ELSE {"expired", "blocked", "allow"}

AskGuard(w) ==
  /\ worker[w].pc = "claimed"
  /\ \E d \in GuardAnswers(worker[w].child) :
       worker' = [worker EXCEPT ![w] =
         IF d = "allow" THEN [@ EXCEPT !.pc = "allowed"]
         ELSE [@ EXCEPT !.pc = "refused", !.result = d]]
  /\ UNCHANGED <<items, commands, slot, source, reservations, orders, overtaken>>

\* finish_parent_if_terminal
Parent(p, its) ==
  LET sts == {its[c].status : c \in {d \in Children : d[1] = p}} \ {"none"}
  IN  [commands EXCEPT ![p] =
         IF sts \cap Unsettled # {} THEN @
         ELSE IF "unknown" \in sts THEN "unknown"
         ELSE IF sts = {"succeeded"} THEN "succeeded" ELSE "failed"]

\* Only a child still in processing is finished, but by any worker's lease.
FinishWithoutSend(w) ==
  LET c == worker[w].child
      its == [items EXCEPT ![c] =
                [@ EXCEPT !.status = worker[w].result, !.leased = FALSE]]
  IN /\ worker[w].pc = "refused"
     /\ worker' = [worker EXCEPT ![w] = Idle]
     /\ IF items[c].status # "processing"
        THEN UNCHANGED <<items, commands, reservations>>
        ELSE /\ items' = its
             /\ commands' = Parent(c[1], its)
             /\ reservations' = [reservations EXCEPT
                  ![c[1]] = IF @ = "active" THEN "released" ELSE @]
     /\ UNCHANGED <<slot, source, orders, overtaken>>

\* submit_order is idempotent by cloid: a second call finds the first order.
\* An order that does not exist yet may be placed, refused, lost with its row
\* ("doubt": at the venue or not), or never written at all.
Submitted(o) ==
  CASE o \in {"none", "doubt"} ->
         {<<"live", "succeeded">>, <<"dead", "failed">>, <<"live", "unknown">>,
          <<"doubt", "unknown">>} \cup {<<o, "unknown">>}
    [] o = "live" -> {<<"live", "succeeded">>, <<"live", "unknown">>}
    [] OTHER -> {<<"dead", "failed">>}

SendPlace(w) ==
  LET c == worker[w].child IN
  /\ worker[w].pc = "allowed" /\ c[2] = "place"
  /\ \E o \in Submitted(orders[c[1]]) :
       /\ orders' = [orders EXCEPT ![c[1]] = o[1]]
       /\ worker' = [worker EXCEPT ![w] = [@ EXCEPT !.pc = "answered", !.result = o[2]]]
  /\ UNCHANGED <<items, commands, slot, source, reservations, overtaken>>

\* A true answer is an authoritative cancel; anything else is unknown, and a
\* child without a source order fails.
SendCancel(w) ==
  LET c == worker[w].child
      s == source[c[1]]
  IN /\ worker[w].pc = "allowed" /\ c[2] = "cancel"
     /\ \/ /\ s = 0
           /\ worker' = [worker EXCEPT ![w] =
                [@ EXCEPT !.pc = "answered", !.result = "failed"]]
           /\ UNCHANGED orders
        \/ /\ s # 0
           /\ \E ok \in BOOLEAN, gone \in BOOLEAN :
                /\ ok => gone
                /\ orders' = [orders EXCEPT ![s] = IF gone THEN "dead" ELSE @]
                /\ worker' = [worker EXCEPT ![w] = [@ EXCEPT !.pc = "answered",
                     !.result = IF ok THEN "succeeded" ELSE "unknown"]]
     /\ UNCHANGED <<items, commands, slot, source, reservations, overtaken>>

\* link_placement_state: the slot follows only its own plan revision, and a
\* reservation once consumed stays consumed.
SlotState(st) ==
  IF st = "unknown" THEN "unknown" ELSE IF st = "succeeded" THEN "live" ELSE "empty"

\* Bug: a placement in doubt gives its reservation back.
DoubtReleases(r, st) ==
  IF r \in {"none", "consumed"} THEN r
  ELSE IF st = "succeeded" THEN "consumed" ELSE "released"

SettledReservation(r, st) ==
  IF r \in {"none", "consumed"} THEN r
  ELSE IF st \in {"succeeded", "unknown"} THEN "consumed" ELSE "released"

SlotAfter(p, st) ==
  IF orders[p] = "none" \/ slot.plan # p THEN slot
  ELSE [slot EXCEPT !.owner = p, !.state = SlotState(st)]

\* The item's row is locked but its lease and attempt are not compared: the
\* answer of a worker that lost its lease overwrites the newer one.
Record(w) ==
  LET c == worker[w].child
      st == worker[w].result
      its == [items EXCEPT ![c] = [@ EXCEPT !.status = st, !.leased = FALSE]]
  IN /\ worker[w].pc = "answered"
     /\ worker' = [worker EXCEPT ![w] = Idle]
     /\ items' = its
     /\ commands' = Parent(c[1], its)
     /\ IF c[2] = "place"
        THEN /\ slot' = SlotAfter(c[1], st)
             /\ reservations' = [reservations EXCEPT ![c[1]] = SettledReservation(@, st)]
        ELSE UNCHANGED <<slot, reservations>>
     /\ UNCHANGED <<source, orders, overtaken>>

\* The process dies, the store fails, or the child has no valid intent: the
\* lease is all that is left.
Abandon(w) ==
  /\ worker[w].pc # "idle"
  /\ items[worker[w].child].attempt < MaxAttempts
  /\ worker' = [worker EXCEPT ![w] = Idle]
  /\ UNCHANGED <<items, commands, slot, source, reservations, orders, overtaken>>

VenueCloses(p) ==
  /\ orders[p] = "live"
  /\ orders' = [orders EXCEPT ![p] = "dead"]
  /\ UNCHANGED <<items, commands, slot, source, reservations,
                 worker, overtaken>>

WorkerStep(w) ==
  \/ Claim(w) \/ AskGuard(w) \/ FinishWithoutSend(w)
  \/ SendPlace(w) \/ SendCancel(w) \/ Record(w)

PlansNext ==
  \/ \E shape \in Shapes : Persist(shape)
  \/ \E p \in Plans : VenueCloses(p)
  \/ \E c \in Children : LeaseRunsOut(c)
  \/ \E w \in Workers : WorkerStep(w) \/ Abandon(w)

-----------------------------------------------------------------------------
\* A replacement never stands beside the order it replaces: once its own
\* order exists, the order the plan had to cancel is gone.
ReplacedIsGone ==
  \A p \in Plans :
    (items[<<p, "cancel">>].status # "none" /\ source[p] # 0 /\ orders[p] # "none")
      => orders[source[p]] = "dead"

\* An order at the venue is covered by its reservation, unless a worker lost
\* the child's lease and another gave the reservation back.
ReservationHeld ==
  \A p \in Plans :
    (orders[p] = "live" /\ <<p, "place">> \notin overtaken)
      => reservations[p] \in {"active", "consumed"}

\* The slot's owner is never an order of an older plan than one it had, and a
\* slot said to be live belongs to a placement that succeeded.
OwnerFollowsPlan ==
  /\ slot.owner <= slot.plan
  /\ slot.state = "live" => orders[slot.owner] \in {"live", "dead"}

\* A plan's command is closed exactly when its children are settled.
ParentAgrees ==
  \A p \in Plans : commands[p] # "none" =>
    ((\E c \in Children : c[1] = p /\ items[c].status \in Unsettled)
       <=> commands[p] \in Unsettled)

\* While workers run, every child is settled, except a placement whose cancel
\* ended in anything but success: nothing resolves that one ([]<>Settled).
Stuck(p) == items[<<p, "cancel">>].status \in {"unknown", "failed"}
Settled == \A p \in Plans : commands[p] \notin Unsettled \/ Stuck(p)
=============================================================================
