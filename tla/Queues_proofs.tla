---------------------------- MODULE Queues_proofs ----------------------------
(***************************************************************************)
(* What is handed on: quote plans on their way to the venue, worker by     *)
(* worker, and the ledger of requests that they and all other orders draw  *)
(* on; events on their way from the outbox to a client; rows on their way  *)
(* to the archive; requests on their way through the limiters.             *)
(***************************************************************************)
EXTENDS QuotePlans, ActionBudget, EventDelivery, ClickHouseWriter, RequestGate,
        FiniteSetTheorems, SequenceTheorems, TLAPS

(***************************************************************************)
(* QuotePlans: children, workers, reservations                             *)
(***************************************************************************)

PlansSpec == PlansInit /\ [][PlansNext]_plansVars

BoundsAreNumbers == MaxPlans \in Nat /\ MaxAttempts \in Nat

Statuses == {"none", "pending", "processing", "succeeded", "failed", "unknown",
             "expired", "blocked", "superseded"}
Item == [status : Statuses, attempt : Nat, leased : BOOLEAN]
Work == [pc : {"idle", "claimed", "allowed", "refused", "answered"},
         child : Children \cup {<<0, "none">>}, attempt : Nat, result : Statuses]

Types ==
  /\ items \in [Children -> Item]
  /\ commands \in [Plans -> {"none", "pending", "processing", "unknown", "succeeded", "failed"}]
  /\ slot \in [plan : 0..MaxPlans, owner : 0..MaxPlans, state : {"empty", "live", "unknown"}]
  /\ source \in [Plans -> 0..MaxPlans]
  /\ reservations \in [Plans -> {"none", "active", "consumed", "released"}]
  /\ orders \in [Plans -> {"none", "live", "dead", "doubt"}]
  /\ worker \in [Workers -> Work]

\* Plans are written one after the other; slot.plan is the newest.
InOrder == \A p \in Plans : commands[p] # "none" <=> p <= slot.plan

Holds(w, c) == worker[w].pc # "idle" /\ worker[w].child = c

\* Of a plan that is not written yet there is nothing.
Unwritten == \A p \in Plans : p > slot.plan =>
  /\ orders[p] = "none" /\ reservations[p] = "none"
  /\ \A k \in {"cancel", "place"} : items[<<p, k>>].status = "none"

\* A worker is on a child that exists, with a result that fits its stage.
Working == \A w \in Workers : worker[w].pc # "idle" =>
  /\ worker[w].child \in Children
  /\ items[worker[w].child].status # "none"
  /\ worker[w].pc = "refused" =>
       /\ worker[w].child[2] = "place"
       /\ worker[w].result \in {"expired", "blocked", "superseded"}
  /\ worker[w].pc = "answered" => worker[w].result \in {"succeeded", "failed", "unknown"}

\* The order the plan replaces is gone.
Gone(p) == source[p] # 0 /\ orders[source[p]] = "dead"
Ready(p) == items[<<p, "cancel">>].status = "none" \/ Gone(p)

\* A cancel is said to have succeeded only of an order that is gone, whoever
\* says it and however late.
CancelsAreTrue ==
  /\ \A p \in Plans : items[<<p, "cancel">>].status = "succeeded" => Gone(p)
  /\ \A w \in Workers, p \in Plans :
       (Holds(w, <<p, "cancel">>) /\ worker[w].pc = "answered" /\ worker[w].result = "succeeded")
         => Gone(p)

\* A placement in a worker's hand, or sent, had its cancel first.
CancelledFirst ==
  /\ \A w \in Workers, p \in Plans : Holds(w, <<p, "place">>) => Ready(p)
  /\ \A p \in Plans : orders[p] # "none" => Ready(p)

\* A reservation and an order belong to a plan that places.
ForPlacements == \A p \in Plans :
  /\ reservations[p] = "none" <=> items[<<p, "place">>].status = "none"
  /\ orders[p] # "none" => items[<<p, "place">>].status # "none"

\* While its lease never ran out, a placement is in one hand, and its
\* reservation lasts until an answer that ends it.
OneHand(p) == \A v, w \in Workers : Holds(v, <<p, "place">>) /\ Holds(w, <<p, "place">>) => v = w
Unclaimed(p) == /\ orders[p] = "none" /\ reservations[p] = "active"
                /\ \A w \in Workers : ~Holds(w, <<p, "place">>)
InHand(p) ==
  /\ items[<<p, "place">>].leased /\ reservations[p] = "active"
  /\ \A w \in Workers : Holds(w, <<p, "place">>) =>
       /\ worker[w].pc # "answered" => orders[p] = "none"
       /\ (worker[w].pc = "answered" /\ worker[w].result = "failed") => orders[p] = "dead"
Done(p) == /\ \A w \in Workers : ~Holds(w, <<p, "place">>)
           /\ orders[p] = "live" => reservations[p] = "consumed"
Lease(p) ==
  /\ OneHand(p)
  /\ items[<<p, "place">>].status = "pending" => Unclaimed(p)
  /\ items[<<p, "place">>].status = "processing" => InHand(p)
  /\ items[<<p, "place">>].status \notin Unsettled => Done(p)
Leases == \A p \in Plans :
  (items[<<p, "place">>].status # "none" /\ <<p, "place">> \notin overtaken) => Lease(p)

\* What succeeded was live, and what a plan replaces was sent.
Placed ==
  /\ slot.state = "live" => slot.owner \in Plans /\ orders[slot.owner] \in {"live", "dead"}
  /\ \A w \in Workers, p \in Plans :
       (Holds(w, <<p, "place">>) /\ worker[w].pc = "answered" /\ worker[w].result = "succeeded")
         => orders[p] \in {"live", "dead"}
  /\ slot.owner <= slot.plan
  /\ slot.owner # 0 => orders[slot.owner] # "none"
  /\ \A p \in Plans : source[p] # 0 => orders[source[p]] # "none"

Inv == /\ Types /\ InOrder /\ Unwritten /\ Working /\ CancelsAreTrue /\ CancelledFirst
       /\ ForPlacements /\ Leases /\ Placed /\ ParentAgrees

-----------------------------------------------------------------------------
(* The records *)

Closed(i, st) == [i EXCEPT !.status = st, !.leased = FALSE]
Unleased(i) == [i EXCEPT !.leased = FALSE]
Staged(k, s) == [k EXCEPT !.pc = s]
Resulted(k, s, r) == [k EXCEPT !.pc = s, !.result = r]

LEMMA ItemClosed ==
  ASSUME NEW i \in Item, NEW st \in Statuses
  PROVE  Closed(i, st) \in Item /\ Closed(i, st).status = st
BY DEF Item, Closed

LEMMA ItemUnleased ==
  ASSUME NEW i \in Item
  PROVE  /\ Unleased(i) \in Item /\ Unleased(i).status = i.status
BY DEF Item, Unleased

LEMMA NoItemIsItem == NoItem \in Item /\ NoItem.status = "none"
BY DEF NoItem, Item, Statuses

LEMMA ItemPending ==
  ASSUME NEW i \in Item
  PROVE  [i EXCEPT !.status = "pending"] \in Item /\ [i EXCEPT !.status = "pending"].status = "pending"
BY DEF Item, Statuses

LEMMA WorkStaged ==
  ASSUME NEW k \in Work, NEW s \in {"idle", "claimed", "allowed", "refused", "answered"}
  PROVE  Staged(k, s) \in Work
BY DEF Work, Staged

LEMMA StagedWork ==
  ASSUME NEW k \in Work, NEW s
  PROVE  Staged(k, s).pc = s /\ Staged(k, s).child = k.child /\ Staged(k, s).result = k.result
BY DEF Work, Staged

LEMMA WorkResulted ==
  ASSUME NEW k \in Work, NEW s \in {"idle", "claimed", "allowed", "refused", "answered"},
         NEW r \in Statuses
  PROVE  Resulted(k, s, r) \in Work
BY DEF Work, Resulted

LEMMA ResultedWork ==
  ASSUME NEW k \in Work, NEW s, NEW r
  PROVE  Resulted(k, s, r).pc = s /\ Resulted(k, s, r).child = k.child /\ Resulted(k, s, r).result = r
BY DEF Work, Resulted

LEMMA IdleWork == Idle \in Work /\ Idle.pc = "idle"
BY DEF Idle, Work, Statuses

LEMMA ChildrenOfPlans ==
  /\ \A p \in Plans : <<p, "cancel">> \in Children /\ <<p, "place">> \in Children
  /\ \A c \in Children : c[1] \in Plans /\ c[2] \in {"cancel", "place"} /\ c = <<c[1], c[2]>>
BY DEF Children

LEMMA WrittenPlan ==
  ASSUME BoundsAreNumbers, Inv, NEW c \in Children, items[c].status # "none"
  PROVE  c[1] <= slot.plan /\ commands[c[1]] # "none"
<1>1. c[1] \in Plans /\ c[2] \in {"cancel", "place"} /\ c = <<c[1], c[2]>>
  BY ChildrenOfPlans
<1>2. ~(c[1] > slot.plan)
  BY <1>1 DEF Inv, Unwritten
<1>3. c[1] \in Int /\ slot.plan \in Int
  BY <1>1 DEF Inv, Types, Plans, BoundsAreNumbers
<1> QED BY <1>1, <1>2, <1>3 DEF Inv, InOrder

LEMMA VenueClosesKeeps ==
  ASSUME BoundsAreNumbers, Inv, NEW p \in Plans, VenueCloses(p) PROVE Inv'
<1>1. Types'
  BY ChildrenOfPlans
  DEF Inv, BoundsAreNumbers, Types, VenueCloses
<1>2. InOrder'
  BY ChildrenOfPlans
  DEF Inv, BoundsAreNumbers, Types, VenueCloses, InOrder
<1>3. Unwritten'
  BY ChildrenOfPlans
  DEF Inv, BoundsAreNumbers, Types, VenueCloses, Unwritten
<1>4. Working'
  BY ChildrenOfPlans
  DEF Inv, BoundsAreNumbers, Types, VenueCloses, Working
<1>5. CancelsAreTrue'
  BY ChildrenOfPlans
  DEF Inv, BoundsAreNumbers, Types, VenueCloses, CancelsAreTrue, Gone, Holds
<1>6. CancelledFirst'
  BY ChildrenOfPlans
  DEF Inv, BoundsAreNumbers, Types, VenueCloses, CancelledFirst, Ready, Gone, Holds
<1>7. ForPlacements'
  BY ChildrenOfPlans
  DEF Inv, BoundsAreNumbers, Types, VenueCloses, ForPlacements
<1>8. Leases'
  BY ChildrenOfPlans
  DEF Inv, BoundsAreNumbers, Types, VenueCloses, Leases, Lease, OneHand, Unclaimed, InHand, Done, Holds
<1>9. Placed'
  BY ChildrenOfPlans
  DEF Inv, BoundsAreNumbers, Types, VenueCloses, Placed, Holds
<1>10. ParentAgrees'
  BY ChildrenOfPlans
  DEF Inv, BoundsAreNumbers, Types, VenueCloses, ParentAgrees
<1> QED BY <1>1, <1>2, <1>3, <1>4, <1>5, <1>6, <1>7, <1>8, <1>9, <1>10 DEF Inv

LEMMA AbandonKeeps ==
  ASSUME BoundsAreNumbers, Inv, NEW w \in Workers, Abandon(w) PROVE Inv'
<1>f1. UNCHANGED <<items, commands, slot, source, reservations, orders, overtaken>>
  BY DEF Abandon
<1>f2. worker' \in [Workers -> Work] /\ worker'[w].pc = "idle"
  BY IdleWork DEF Inv, Types, Abandon
<1>f3. \A v \in Workers \ {w} : worker'[v] = worker[v]
  BY DEF Inv, Types, Abandon
<1>1. Types'
  BY ChildrenOfPlans, <1>f1, <1>f2, <1>f3
  DEF Inv, BoundsAreNumbers, Types
<1>2. InOrder'
  BY ChildrenOfPlans, <1>f1, <1>f2, <1>f3
  DEF Inv, BoundsAreNumbers, Types, InOrder
<1>3. Unwritten'
  BY ChildrenOfPlans, <1>f1, <1>f2, <1>f3
  DEF Inv, BoundsAreNumbers, Types, Unwritten
<1>4. Working'
  BY ChildrenOfPlans, <1>f1, <1>f2, <1>f3
  DEF Inv, BoundsAreNumbers, Types, Working
<1>5. CancelsAreTrue'
  BY ChildrenOfPlans, <1>f1, <1>f2, <1>f3
  DEF Inv, BoundsAreNumbers, Types, CancelsAreTrue, Gone, Holds
<1>6. CancelledFirst'
  BY ChildrenOfPlans, <1>f1, <1>f2, <1>f3
  DEF Inv, BoundsAreNumbers, Types, CancelledFirst, Ready, Gone, Holds
<1>7. ForPlacements'
  BY ChildrenOfPlans, <1>f1, <1>f2, <1>f3
  DEF Inv, BoundsAreNumbers, Types, ForPlacements
<1>8. Leases'
  <2> SUFFICES ASSUME NEW p \in Plans, items'[<<p, "place">>].status # "none",
                      <<p, "place">> \notin overtaken'
               PROVE  Lease(p)'
    BY DEF Leases
  <2> DEFINE c == <<p, "place">>
  <2>1. Lease(p) /\ c \in Children
    BY ChildrenOfPlans, <1>f1, <1>f2, <1>f3 DEF Inv, Leases
  <2>2. \A v \in Workers : Holds(v, c)' => v # w /\ Holds(v, c)
    BY <1>f1, <1>f2, <1>f3 DEF Holds
  <2>3. OneHand(p)'
    BY <2>1, <2>2 DEF Lease, OneHand
  <2>4. items'[c].status = "pending" => Unclaimed(p)'
    BY <2>1, <2>2, <1>f1, <1>f2, <1>f3 DEF Lease, Unclaimed
  <2>5. items'[c].status = "processing" => InHand(p)'
    BY <2>1, <2>2, <1>f1, <1>f2, <1>f3 DEF Lease, InHand, Holds
  <2>6. items'[c].status \notin Unsettled => Done(p)'
    BY <2>1, <2>2, <1>f1, <1>f2, <1>f3 DEF Lease, Done
  <2> QED BY <2>3, <2>4, <2>5, <2>6 DEF Lease
<1>9. Placed'
  BY ChildrenOfPlans, <1>f1, <1>f2, <1>f3
  DEF Inv, BoundsAreNumbers, Types, Placed, Holds
<1>10. ParentAgrees'
  BY ChildrenOfPlans, <1>f1, <1>f2, <1>f3
  DEF Inv, BoundsAreNumbers, Types, ParentAgrees
<1> QED BY <1>1, <1>2, <1>3, <1>4, <1>5, <1>6, <1>7, <1>8, <1>9, <1>10 DEF Inv

LEMMA AskGuardKeeps ==
  ASSUME BoundsAreNumbers, Inv, NEW w \in Workers, AskGuard(w) PROVE Inv'
<1>f1. UNCHANGED <<items, commands, slot, source, reservations, orders, overtaken>>
  BY DEF AskGuard
<1>f2. PICK d \in GuardAnswers(worker[w].child) :
         worker' = [worker EXCEPT ![w] =
           IF d = "allow" THEN [@ EXCEPT !.pc = "allowed"]
           ELSE [@ EXCEPT !.pc = "refused", !.result = d]]
  BY DEF AskGuard
<1>f3. worker[w] \in Work /\ worker[w].pc = "claimed"
  BY DEF Inv, Types, AskGuard
<1>f4. d \in Statuses \cup {"allow"} /\ (d # "allow" => worker[w].child[2] # "cancel" /\ d \in {"expired", "blocked", "superseded"})
  BY <1>f2 DEF GuardAnswers, Statuses
<1>f5. worker'[w] = IF d = "allow" THEN Staged(worker[w], "allowed")
           ELSE Resulted(worker[w], "refused", d)
  BY <1>f2 DEF Inv, Types, Staged, Resulted
<1>f6. worker'[w] \in Work /\ worker'[w].child = worker[w].child
       /\ worker'[w].pc \in {"allowed", "refused"}
       /\ (worker'[w].pc = "refused" => worker[w].child[2] # "cancel" /\ worker'[w].result \in {"expired", "blocked", "superseded"})
  <2>1. CASE d = "allow" BY <2>1, <1>f3, <1>f5, WorkStaged, StagedWork
  <2>2. CASE d # "allow"
    <3>1. d \in Statuses BY <2>2, <1>f4
    <3>2. worker'[w] = Resulted(worker[w], "refused", d) BY <2>2, <1>f5
    <3>3. worker'[w] \in Work BY <3>1, <3>2, <1>f3, WorkResulted
    <3>4. worker'[w].child = worker[w].child /\ worker'[w].pc = "refused" /\ worker'[w].result = d
      BY <3>2, <1>f3, ResultedWork
    <3> QED BY <2>2, <3>3, <3>4, <1>f4
  <2> QED BY <2>1, <2>2
<1>f7. \A v \in Workers \ {w} : worker'[v] = worker[v]
  BY <1>f2 DEF Inv, Types
<1>f8. worker' \in [Workers -> Work]
  BY <1>f2, <1>f6, <1>f7 DEF Inv, Types
<1>1. Types'
  BY ChildrenOfPlans, <1>f1, <1>f3, <1>f6, <1>f7, <1>f8
  DEF Inv, BoundsAreNumbers, Types
<1>2. InOrder'
  BY ChildrenOfPlans, <1>f1, <1>f3, <1>f6, <1>f7, <1>f8
  DEF Inv, BoundsAreNumbers, Types, InOrder
<1>3. Unwritten'
  BY ChildrenOfPlans, <1>f1, <1>f3, <1>f6, <1>f7, <1>f8
  DEF Inv, BoundsAreNumbers, Types, Unwritten
<1>4. Working'
  <2> SUFFICES ASSUME NEW v \in Workers, worker'[v].pc # "idle"
               PROVE  /\ worker'[v].child \in Children
                      /\ items'[worker'[v].child].status # "none"
                      /\ worker'[v].pc = "refused" =>
                           /\ worker'[v].child[2] = "place"
                           /\ worker'[v].result \in {"expired", "blocked", "superseded"}
                      /\ worker'[v].pc = "answered" => worker'[v].result \in {"succeeded", "failed", "unknown"}
    BY DEF Working
  <2>1. CASE v = w
    BY <2>1, <1>f1, <1>f3, <1>f6, ChildrenOfPlans DEF Inv, Working
  <2>2. CASE v # w
    <3>1. worker'[v] = worker[v] BY <2>2, <1>f7
    <3> QED BY <3>1, <1>f1 DEF Inv, Working
  <2> QED BY <2>1, <2>2
<1>5. CancelsAreTrue'
  BY ChildrenOfPlans, <1>f1, <1>f3, <1>f6, <1>f7, <1>f8
  DEF Inv, BoundsAreNumbers, Types, CancelsAreTrue, Gone, Holds
<1>6. CancelledFirst'
  BY ChildrenOfPlans, <1>f1, <1>f3, <1>f6, <1>f7, <1>f8
  DEF Inv, BoundsAreNumbers, Types, CancelledFirst, Ready, Gone, Holds
<1>7. ForPlacements'
  BY ChildrenOfPlans, <1>f1, <1>f3, <1>f6, <1>f7, <1>f8
  DEF Inv, BoundsAreNumbers, Types, ForPlacements
<1>8. Leases'
  <2> SUFFICES ASSUME NEW p \in Plans, items'[<<p, "place">>].status # "none",
                      <<p, "place">> \notin overtaken'
               PROVE  Lease(p)'
    BY DEF Leases
  <2> DEFINE c == <<p, "place">>
  <2>1. Lease(p) /\ c \in Children
    BY ChildrenOfPlans, <1>f1, <1>f3, <1>f6, <1>f7 DEF Inv, Leases
  <2>2. \A v \in Workers : Holds(v, c)' => Holds(v, c) /\ (worker'[v].pc # "answered" => worker[v].pc # "answered")
        /\ (worker'[v].pc = "answered" => worker[v] = worker'[v])
    BY <1>f1, <1>f3, <1>f6, <1>f7 DEF Holds
  <2>3. OneHand(p)'
    BY <2>1, <2>2 DEF Lease, OneHand
  <2>4. items'[c].status = "pending" => Unclaimed(p)'
    BY <2>1, <2>2, <1>f1, <1>f3, <1>f6, <1>f7 DEF Lease, Unclaimed
  <2>5. items'[c].status = "processing" => InHand(p)'
    BY <2>1, <2>2, <1>f1, <1>f3, <1>f6, <1>f7 DEF Lease, InHand, Holds
  <2>6. items'[c].status \notin Unsettled => Done(p)'
    BY <2>1, <2>2, <1>f1, <1>f3, <1>f6, <1>f7 DEF Lease, Done
  <2> QED BY <2>3, <2>4, <2>5, <2>6 DEF Lease
<1>9. Placed'
  BY ChildrenOfPlans, <1>f1, <1>f3, <1>f6, <1>f7, <1>f8
  DEF Inv, BoundsAreNumbers, Types, Placed, Holds
<1>10. ParentAgrees'
  BY ChildrenOfPlans, <1>f1, <1>f3, <1>f6, <1>f7, <1>f8
  DEF Inv, BoundsAreNumbers, Types, ParentAgrees
<1> QED BY <1>1, <1>2, <1>3, <1>4, <1>5, <1>6, <1>7, <1>8, <1>9, <1>10 DEF Inv

LEMMA LeaseRunsOutKeeps ==
  ASSUME BoundsAreNumbers, Inv, NEW d \in Children, LeaseRunsOut(d) PROVE Inv'
<1>f1. UNCHANGED <<commands, slot, source, reservations, orders, worker>> /\ overtaken' = overtaken \cup {d}
  BY DEF LeaseRunsOut
<1>f2. items[d].status = "processing"
  BY DEF LeaseRunsOut
<1>f3. items' = [items EXCEPT ![d] = Unleased(items[d])]
  BY DEF LeaseRunsOut, Unleased, Inv, Types
<1>f4. items' \in [Children -> Item]
  BY <1>f3, ItemUnleased DEF Inv, Types
<1>f5. \A e \in Children : items'[e].status = items[e].status
  BY <1>f3, ItemUnleased DEF Inv, Types
<1>f6. \A e \in Children \ {d} : items'[e] = items[e]
  BY <1>f3 DEF Inv, Types
<1>1. Types'
  BY ChildrenOfPlans, <1>f1, <1>f4, <1>f5, <1>f6
  DEF Inv, BoundsAreNumbers, Types
<1>2. InOrder'
  BY ChildrenOfPlans, <1>f1, <1>f4, <1>f5, <1>f6
  DEF Inv, BoundsAreNumbers, Types, InOrder
<1>3. Unwritten'
  BY ChildrenOfPlans, <1>f1, <1>f4, <1>f5, <1>f6
  DEF Inv, BoundsAreNumbers, Types, Unwritten
<1>4. Working'
  BY <1>f1, <1>f5 DEF Inv, Working
<1>5. CancelsAreTrue'
  <2>1. \A p \in Plans : items'[<<p, "cancel">>].status = items[<<p, "cancel">>].status
    BY <1>f5, ChildrenOfPlans
  <2> QED BY <2>1, <1>f1 DEF Inv, CancelsAreTrue, Gone, Holds
<1>6. CancelledFirst'
  <2>1. \A p \in Plans : items'[<<p, "cancel">>].status = items[<<p, "cancel">>].status
    BY <1>f5, ChildrenOfPlans
  <2> QED BY <2>1, <1>f1 DEF Inv, CancelledFirst, Ready, Gone, Holds
<1>7. ForPlacements'
  <2>1. \A p \in Plans : items'[<<p, "place">>].status = items[<<p, "place">>].status
    BY <1>f5, ChildrenOfPlans
  <2> QED BY <2>1, <1>f1 DEF Inv, ForPlacements
<1>8. Leases'
  <2> SUFFICES ASSUME NEW p \in Plans, items'[<<p, "place">>].status # "none",
                      <<p, "place">> \notin overtaken'
               PROVE  Lease(p)'
    BY DEF Leases
  <2> DEFINE c == <<p, "place">>
  <2>0. c \in Children /\ items'[c] = items[c] /\ c \notin overtaken
    BY ChildrenOfPlans, <1>f1, <1>f6
  <2>1. Lease(p) /\ c \in Children
    BY ChildrenOfPlans, <1>f1, <1>f5, <1>f6, <2>0 DEF Inv, Leases
  <2>2. \A v \in Workers : Holds(v, c)' => Holds(v, c)
    BY <1>f1, <1>f5, <1>f6, <2>0 DEF Holds
  <2>3. OneHand(p)'
    BY <2>1, <2>2 DEF Lease, OneHand
  <2>4. items'[c].status = "pending" => Unclaimed(p)'
    BY <2>1, <2>2, <1>f1, <1>f5, <1>f6, <2>0 DEF Lease, Unclaimed
  <2>5. items'[c].status = "processing" => InHand(p)'
    BY <2>1, <2>2, <1>f1, <1>f5, <1>f6, <2>0 DEF Lease, InHand, Holds
  <2>6. items'[c].status \notin Unsettled => Done(p)'
    BY <2>1, <2>2, <1>f1, <1>f5, <1>f6, <2>0 DEF Lease, Done
  <2> QED BY <2>3, <2>4, <2>5, <2>6 DEF Lease
<1>9. Placed'
  BY ChildrenOfPlans, <1>f1, <1>f4, <1>f5, <1>f6
  DEF Inv, BoundsAreNumbers, Types, Placed, Holds
<1>10. ParentAgrees'
  BY ChildrenOfPlans, <1>f1, <1>f4, <1>f5, <1>f6
  DEF Inv, BoundsAreNumbers, Types, ParentAgrees
<1> QED BY <1>1, <1>2, <1>3, <1>4, <1>5, <1>6, <1>7, <1>8, <1>9, <1>10 DEF Inv

LEMMA SendPlaceKeeps ==
  ASSUME BoundsAreNumbers, Inv, NEW w \in Workers, SendPlace(w) PROVE Inv'
<1>f1. UNCHANGED <<items, commands, slot, source, reservations, overtaken>> /\ worker[w].pc = "allowed"
  BY DEF SendPlace
<1>f2. PICK p \in Plans : worker[w].child = <<p, "place">> /\ <<p, "place">> \in Children
  BY ChildrenOfPlans DEF SendPlace, Inv, Working
<1>f3. PICK a \in {"none", "live", "dead", "doubt"}, b \in {"succeeded", "failed", "unknown"} :
       /\ orders' = [orders EXCEPT ![p] = a]
       /\ worker' = [worker EXCEPT ![w] = Resulted(worker[w], "answered", b)]
       /\ b = "succeeded" => a = "live"
       /\ b = "failed" => a = "dead"
       /\ orders[p] \in {"live", "dead"} => a = orders[p]
       /\ orders[p] # "none" => a # "none"
  <2>1. PICK o \in Submitted(orders[worker[w].child[1]]) :
         /\ orders' = [orders EXCEPT ![worker[w].child[1]] = o[1]]
         /\ worker' = [worker EXCEPT ![w] = [@ EXCEPT !.pc = "answered", !.result = o[2]]]
    BY DEF SendPlace
  <2>2. worker[w].child[1] = p /\ orders[p] \in {"none", "live", "dead", "doubt"}
    BY <1>f2 DEF Inv, Types
  <2>3. o \in Submitted(orders[p])
    BY <2>1, <2>2
  <2>4. /\ o[1] \in {"none", "live", "dead", "doubt"} /\ o[2] \in {"succeeded", "failed", "unknown"}
        /\ o[2] = "succeeded" => o[1] = "live"
        /\ o[2] = "failed" => o[1] = "dead"
        /\ orders[p] \in {"live", "dead"} => o[1] = orders[p]
        /\ orders[p] # "none" => o[1] # "none"
    BY <2>2, <2>3 DEF Submitted
  <2>5. orders' = [orders EXCEPT ![p] = o[1]]
    BY <2>1, <2>2
  <2>6. worker' = [worker EXCEPT ![w] = Resulted(worker[w], "answered", o[2])]
    BY <2>1 DEF Resulted, Inv, Types
  <2> QED BY <2>4, <2>5, <2>6
<1>f5. /\ orders' \in [Plans -> {"none", "live", "dead", "doubt"}] /\ orders'[p] = a
       /\ \A q \in Plans \ {p} : orders'[q] = orders[q]
  BY <1>f3 DEF Inv, Types
<1>f6. /\ worker'[w] \in Work /\ worker'[w].pc = "answered" /\ worker'[w].child = <<p, "place">>
       /\ worker'[w].result = b
  <2>1. worker[w] \in Work BY DEF Inv, Types
  <2>0. b \in Statuses BY DEF Statuses
  <2>2. worker'[w] = Resulted(worker[w], "answered", b) BY <1>f3 DEF Inv, Types
  <2>3. worker'[w] \in Work BY <2>0, <2>1, <2>2, WorkResulted
  <2> QED BY <2>1, <2>2, <2>3, <1>f2, ResultedWork
<1>f7. worker' \in [Workers -> Work] /\ \A v \in Workers \ {w} : worker'[v] = worker[v]
  BY <1>f3, <1>f6 DEF Inv, Types
<1>f8. Ready(p) /\ items[<<p, "place">>].status # "none" /\ Holds(w, <<p, "place">>)
  BY <1>f1, <1>f2 DEF Inv, CancelledFirst, Working, Holds
<1>1. Types'
  BY ChildrenOfPlans, <1>f1, <1>f2, <1>f3, <1>f5, <1>f6, <1>f7, <1>f8
  DEF Inv, BoundsAreNumbers, Types
<1>2. InOrder'
  BY ChildrenOfPlans, <1>f1, <1>f2, <1>f3, <1>f5, <1>f6, <1>f7, <1>f8
  DEF Inv, BoundsAreNumbers, Types, InOrder
<1>3. Unwritten'
  BY ChildrenOfPlans, <1>f1, <1>f2, <1>f3, <1>f5, <1>f6, <1>f7, <1>f8
  DEF Inv, BoundsAreNumbers, Types, Unwritten
<1>4. Working'
  <2> SUFFICES ASSUME NEW v \in Workers, worker'[v].pc # "idle"
               PROVE  /\ worker'[v].child \in Children
                      /\ items'[worker'[v].child].status # "none"
                      /\ worker'[v].pc = "refused" =>
                           /\ worker'[v].child[2] = "place"
                           /\ worker'[v].result \in {"expired", "blocked", "superseded"}
                      /\ worker'[v].pc = "answered" => worker'[v].result \in {"succeeded", "failed", "unknown"}
    BY DEF Working
  <2>1. CASE v = w
    BY <2>1, <1>f1, <1>f2, <1>f3, <1>f6, <1>f8
  <2>2. CASE v # w
    <3>1. worker'[v] = worker[v] BY <2>2, <1>f7
    <3> QED BY <3>1, <1>f1 DEF Inv, Working
  <2> QED BY <2>1, <2>2
<1>5. CancelsAreTrue'
  <2>1. \A q \in Plans : Gone(q) => Gone(q)'
    BY <1>f1, <1>f3, <1>f5 DEF Gone, Inv, Types, Plans, BoundsAreNumbers
  <2>2. \A v \in Workers, q \in Plans : Holds(v, <<q, "cancel">>)' => Holds(v, <<q, "cancel">>) /\ worker'[v] = worker[v]
    BY <1>f2, <1>f6, <1>f7 DEF Holds
  <2> QED BY <2>1, <2>2, <1>f1 DEF Inv, CancelsAreTrue
<1>6. CancelledFirst'
  <2>1. \A q \in Plans : Ready(q) => Ready(q)'
    BY <1>f1, <1>f3, <1>f5 DEF Ready, Gone, Inv, Types, Plans, BoundsAreNumbers
  <2>2. \A v \in Workers, q \in Plans : Holds(v, <<q, "place">>)' => Holds(v, <<q, "place">>)
    BY <1>f1, <1>f2, <1>f6, <1>f7 DEF Holds
  <2> QED BY <2>1, <2>2, <1>f1, <1>f5, <1>f8 DEF Inv, CancelledFirst
<1>7. ForPlacements'
  BY <1>f1, <1>f5, <1>f8 DEF Inv, ForPlacements
<1>8. Leases'
  <2> SUFFICES ASSUME NEW q \in Plans, items'[<<q, "place">>].status # "none",
                      <<q, "place">> \notin overtaken'
               PROVE  Lease(q)'
    BY DEF Leases
  <2> DEFINE c == <<q, "place">>
  <2>1. Lease(q) /\ c \in Children
    BY ChildrenOfPlans, <1>f1, <1>f2, <1>f3, <1>f5, <1>f6, <1>f7, <1>f8 DEF Inv, Leases
  <2>2. \A v \in Workers : Holds(v, c)' => Holds(v, c)
    BY <1>f1, <1>f2, <1>f3, <1>f5, <1>f6, <1>f7, <1>f8 DEF Holds
  <2>3. OneHand(q)'
    BY <2>1, <2>2 DEF Lease, OneHand
  <2>4. items'[c].status = "pending" => Unclaimed(q)'
    BY <2>1, <2>2, <1>f1, <1>f2, <1>f3, <1>f5, <1>f6, <1>f7, <1>f8 DEF Lease, Unclaimed
  <2>5. items'[c].status = "processing" => InHand(q)'
    <3> SUFFICES ASSUME items'[c].status = "processing" PROVE InHand(q)'
      OBVIOUS
    <3>1. items[c].status = "processing" /\ InHand(q) /\ OneHand(q)
      BY <2>1, <1>f1 DEF Lease
    <3>2. items'[c].leased /\ reservations'[q] = "active"
      BY <3>1, <1>f1 DEF InHand
    <3>3. ASSUME NEW v \in Workers, Holds(v, c)'
          PROVE  /\ worker'[v].pc # "answered" => orders'[q] = "none"
                 /\ (worker'[v].pc = "answered" /\ worker'[v].result = "failed") => orders'[q] = "dead"
      <4>1. CASE q = p
        <5>1. v = w
          BY <4>1, <3>1, <3>3, <2>2, <1>f8 DEF OneHand
        <5> QED BY <5>1, <4>1, <1>f3, <1>f5, <1>f6
      <4>2. CASE q # p
        <5>1. v # w
          BY <4>2, <3>3, <1>f6 DEF Holds
        <5>2. worker'[v] = worker[v] /\ Holds(v, c) /\ orders'[q] = orders[q]
          BY <5>1, <4>2, <3>3, <2>2, <1>f5, <1>f7
        <5> QED BY <5>2, <3>1 DEF InHand
      <4> QED BY <4>1, <4>2
    <3> QED BY <3>2, <3>3 DEF InHand
  <2>6. items'[c].status \notin Unsettled => Done(q)'
    BY <2>1, <2>2, <1>f1, <1>f2, <1>f3, <1>f5, <1>f6, <1>f7, <1>f8 DEF Lease, Done
  <2> QED BY <2>3, <2>4, <2>5, <2>6 DEF Lease
<1>9. Placed'
  <2>1. \A v \in Workers \ {w}, q \in Plans : Holds(v, <<q, "place">>)' => Holds(v, <<q, "place">>) /\ worker'[v] = worker[v]
    BY <1>f7 DEF Holds
  <2>2. \A q \in Plans : Holds(w, <<q, "place">>)' => q = p
    BY <1>f6 DEF Holds
  <2>3. slot.owner \in 0..MaxPlans /\ \A q \in Plans : source[q] \in 0..MaxPlans
    BY DEF Inv, Types
  <2>4. \A q \in Plans : (orders[q] \in {"live", "dead"} => orders'[q] \in {"live", "dead"}) /\ (orders[q] # "none" => orders'[q] # "none")
    BY <1>f3, <1>f5
  <2> QED BY <2>1, <2>2, <2>3, <2>4, <1>f1, <1>f3, <1>f5, <1>f6 DEF Inv, Placed, Plans, BoundsAreNumbers
<1>10. ParentAgrees'
  BY ChildrenOfPlans, <1>f1, <1>f2, <1>f3, <1>f5, <1>f6, <1>f7, <1>f8
  DEF Inv, BoundsAreNumbers, Types, ParentAgrees
<1> QED BY <1>1, <1>2, <1>3, <1>4, <1>5, <1>6, <1>7, <1>8, <1>9, <1>10 DEF Inv

LEMMA SendCancelKeeps ==
  ASSUME BoundsAreNumbers, Inv, NEW w \in Workers, SendCancel(w) PROVE Inv'
<1>f1. UNCHANGED <<items, commands, slot, source, reservations, overtaken>> /\ worker[w].pc = "allowed"
  BY Zenon DEF SendCancel
<1>f2. PICK p \in Plans : worker[w].child = <<p, "cancel">> /\ <<p, "cancel">> \in Children
  BY ChildrenOfPlans, Zenon DEF SendCancel, Inv, Working
<1>f3. PICK st \in {"succeeded", "failed", "unknown"} :
       /\ worker' = [worker EXCEPT ![w] = Resulted(worker[w], "answered", st)]
       /\ st = "succeeded" => Gone(p)'
       /\ (UNCHANGED orders \/ (source[p] # 0 /\ orders' = [orders EXCEPT ![source[p]] = "dead"]))
  <2>1. CASE source[p] = 0
    <3>1. source[worker[w].child[1]] = 0
      BY <2>1, <1>f2
    <3>2. UNCHANGED orders /\ worker' = [worker EXCEPT ![w] = [@ EXCEPT !.pc = "answered", !.result = "failed"]]
      BY <3>1 DEF SendCancel
    <3>3. worker' = [worker EXCEPT ![w] = Resulted(worker[w], "answered", "failed")]
      BY <3>2 DEF Resulted, Inv, Types
    <3> QED BY <3>2, <3>3
  <2>2. CASE source[p] # 0
    <3>1. PICK ok \in BOOLEAN, gone \in BOOLEAN :
            /\ ok => gone
            /\ orders' = [orders EXCEPT ![source[p]] = IF gone THEN "dead" ELSE @]
            /\ worker' = [worker EXCEPT ![w] = [@ EXCEPT !.pc = "answered",
                           !.result = IF ok THEN "succeeded" ELSE "unknown"]]
      <4>1. source[worker[w].child[1]] = source[p]
        BY <1>f2
      <4> QED BY <4>1, <2>2 DEF SendCancel
    <3>2. source[p] \in Plans
      BY <2>2 DEF Inv, Types, Plans, BoundsAreNumbers
    <3>3. worker' = [worker EXCEPT ![w] = Resulted(worker[w], "answered", IF ok THEN "succeeded" ELSE "unknown")]
      BY <3>1 DEF Resulted, Inv, Types
    <3>4. CASE gone
      <4>1. orders' = [orders EXCEPT ![source[p]] = "dead"]
        BY <3>1, <3>4
      <4>2. Gone(p)'
        BY <4>1, <3>2, <2>2, <1>f1 DEF Gone, Inv, Types
      <4> QED BY <4>1, <4>2, <3>3, <2>2
    <3>5. CASE ~gone
      <4>1. UNCHANGED orders
        BY <3>1, <3>5 DEF Inv, Types
      <4>2. ok = FALSE
        BY <3>1, <3>5
      <4>3. worker' = [worker EXCEPT ![w] = Resulted(worker[w], "answered", "unknown")]
        BY <3>3, <4>2
      <4> QED BY <4>1, <4>3
    <3> QED BY <3>4, <3>5
  <2> QED BY <2>1, <2>2
<1>f4. source[p] # 0 => source[p] \in Plans /\ orders[source[p]] # "none"
  BY DEF Inv, Types, Plans, BoundsAreNumbers, Placed
<1>f5. /\ orders' \in [Plans -> {"none", "live", "dead", "doubt"}]
       /\ \A q \in Plans : orders'[q] = orders[q] \/ (orders[q] # "none" /\ orders'[q] = "dead")
  BY <1>f3, <1>f4 DEF Inv, Types
<1>f6. /\ worker'[w] \in Work /\ worker'[w].pc = "answered" /\ worker'[w].child = <<p, "cancel">>
       /\ worker'[w].result = st
  <2>1. worker[w] \in Work /\ st \in Statuses BY <1>f3 DEF Inv, Types, Statuses
  <2>2. worker'[w] = Resulted(worker[w], "answered", st) BY <1>f3 DEF Inv, Types
  <2>3. worker'[w] \in Work BY <2>1, <2>2, WorkResulted
  <2> QED BY <2>1, <2>2, <2>3, <1>f2, ResultedWork
<1>f7. worker' \in [Workers -> Work] /\ \A v \in Workers \ {w} : worker'[v] = worker[v]
  BY <1>f3, <1>f6 DEF Inv, Types
<1>f8. items[<<p, "cancel">>].status # "none"
  BY <1>f1, <1>f2 DEF Inv, Working
<1>1. Types'
  BY ChildrenOfPlans, <1>f1, <1>f2, <1>f3, <1>f5, <1>f6, <1>f7, <1>f8
  DEF Inv, BoundsAreNumbers, Types
<1>2. InOrder'
  BY ChildrenOfPlans, <1>f1, <1>f2, <1>f3, <1>f5, <1>f6, <1>f7, <1>f8
  DEF Inv, BoundsAreNumbers, Types, InOrder
<1>3. Unwritten'
  BY ChildrenOfPlans, <1>f1, <1>f2, <1>f3, <1>f5, <1>f6, <1>f7, <1>f8
  DEF Inv, BoundsAreNumbers, Types, Unwritten
<1>4. Working'
  <2> SUFFICES ASSUME NEW v \in Workers, worker'[v].pc # "idle"
               PROVE  /\ worker'[v].child \in Children
                      /\ items'[worker'[v].child].status # "none"
                      /\ worker'[v].pc = "refused" =>
                           /\ worker'[v].child[2] = "place"
                           /\ worker'[v].result \in {"expired", "blocked", "superseded"}
                      /\ worker'[v].pc = "answered" => worker'[v].result \in {"succeeded", "failed", "unknown"}
    BY DEF Working
  <2>1. CASE v = w
    BY <2>1, <1>f1, <1>f2, <1>f3, <1>f6, <1>f8
  <2>2. CASE v # w
    <3>1. worker'[v] = worker[v] BY <2>2, <1>f7
    <3> QED BY <3>1, <1>f1 DEF Inv, Working
  <2> QED BY <2>1, <2>2
<1>5. CancelsAreTrue'
  <2>1. \A q \in Plans : Gone(q) => Gone(q)'
    BY <1>f1, <1>f5 DEF Gone, Inv, Types, Plans, BoundsAreNumbers
  <2>2. \A v \in Workers \ {w}, q \in Plans : Holds(v, <<q, "cancel">>)' => Holds(v, <<q, "cancel">>) /\ worker'[v] = worker[v]
    BY <1>f2, <1>f7 DEF Holds
  <2>3. \A q \in Plans : Holds(w, <<q, "cancel">>)' => q = p
    BY <1>f6 DEF Holds
  <2> QED BY <2>1, <2>2, <2>3, <1>f1, <1>f3, <1>f6 DEF Inv, CancelsAreTrue
<1>6. CancelledFirst'
  <2>1. \A q \in Plans : Ready(q) => Ready(q)'
    BY <1>f1, <1>f5 DEF Ready, Gone, Inv, Types, Plans, BoundsAreNumbers
  <2>2. \A v \in Workers, q \in Plans : Holds(v, <<q, "place">>)' => Holds(v, <<q, "place">>)
    BY <1>f1, <1>f2, <1>f6, <1>f7 DEF Holds
  <2> QED BY <2>1, <2>2, <1>f1, <1>f5 DEF Inv, CancelledFirst
<1>7. ForPlacements'
  BY <1>f1, <1>f5 DEF Inv, ForPlacements
<1>8. Leases'
  <2> SUFFICES ASSUME NEW q \in Plans, items'[<<q, "place">>].status # "none",
                      <<q, "place">> \notin overtaken'
               PROVE  Lease(q)'
    BY DEF Leases
  <2> DEFINE c == <<q, "place">>
  <2>1. Lease(q) /\ c \in Children
    BY ChildrenOfPlans, <1>f1, <1>f2, <1>f5, <1>f6, <1>f7 DEF Inv, Leases
  <2>2. \A v \in Workers : Holds(v, c)' => Holds(v, c) /\ worker'[v] = worker[v]
    BY <1>f1, <1>f2, <1>f5, <1>f6, <1>f7 DEF Holds
  <2>3. OneHand(q)'
    BY <2>1, <2>2 DEF Lease, OneHand
  <2>4. items'[c].status = "pending" => Unclaimed(q)'
    BY <2>1, <2>2, <1>f1, <1>f2, <1>f5, <1>f6, <1>f7 DEF Lease, Unclaimed
  <2>5. items'[c].status = "processing" => InHand(q)'
    BY <2>1, <2>2, <1>f1, <1>f2, <1>f5, <1>f6, <1>f7 DEF Lease, InHand, Holds
  <2>6. items'[c].status \notin Unsettled => Done(q)'
    BY <2>1, <2>2, <1>f1, <1>f2, <1>f5, <1>f6, <1>f7 DEF Lease, Done
  <2> QED BY <2>3, <2>4, <2>5, <2>6 DEF Lease
<1>9. Placed'
  <2>1. \A v \in Workers, q \in Plans : Holds(v, <<q, "place">>)' => Holds(v, <<q, "place">>) /\ worker'[v] = worker[v]
    BY <1>f1, <1>f2, <1>f6, <1>f7 DEF Holds
  <2>2. slot.owner \in 0..MaxPlans /\ \A q \in Plans : source[q] \in 0..MaxPlans
    BY DEF Inv, Types
  <2> QED BY <2>1, <2>2, <1>f1, <1>f5 DEF Inv, Placed, Plans, BoundsAreNumbers
<1>10. ParentAgrees'
  BY ChildrenOfPlans, <1>f1, <1>f2, <1>f3, <1>f5, <1>f6, <1>f7, <1>f8
  DEF Inv, BoundsAreNumbers, Types, ParentAgrees
<1> QED BY <1>1, <1>2, <1>3, <1>4, <1>5, <1>6, <1>7, <1>8, <1>9, <1>10 DEF Inv


\* The command of plan p once the children stand as in its: closed exactly
\* when none of them is unsettled.
LEMMA ParentClosed ==
  ASSUME BoundsAreNumbers, Inv, NEW c \in Children, NEW its \in [Children -> Item],
         items[c].status # "none",
         its[c].status \notin Unsettled, \A d \in Children \ {c} : its[d] = items[d]
  PROVE  /\ Parent(c[1], its) \in [Plans -> {"none", "pending", "processing", "unknown", "succeeded", "failed"}]
         /\ \A p \in Plans \ {c[1]} : Parent(c[1], its)[p] = commands[p]
         /\ Parent(c[1], its)[c[1]] # "none"
         /\ (\E d \in Children : d[1] = c[1] /\ its[d].status \in Unsettled)
              <=> Parent(c[1], its)[c[1]] \in Unsettled
<1> DEFINE sts == {its[d].status : d \in {e \in Children : e[1] = c[1]}} \ {"none"}
           n == IF sts \cap Unsettled # {} THEN commands[c[1]]
                ELSE IF "unknown" \in sts THEN "unknown"
                ELSE IF sts = {"succeeded"} THEN "succeeded" ELSE "failed"
<1>1. c[1] \in Plans /\ c[2] \in {"cancel", "place"} /\ c = <<c[1], c[2]>>
  BY ChildrenOfPlans
<1>2. Parent(c[1], its) = [commands EXCEPT ![c[1]] = n]
  BY DEF Parent
<1>3. sts \cap Unsettled # {} <=> \E d \in Children : d[1] = c[1] /\ its[d].status \in Unsettled
  BY DEF Unsettled
<1>4. sts \cap Unsettled # {} => commands[c[1]] \in Unsettled
  <2> SUFFICES ASSUME NEW d \in Children, d[1] = c[1], its[d].status \in Unsettled
               PROVE  commands[c[1]] \in Unsettled
    BY <1>3
  <2>1. items[d].status \in Unsettled
    OBVIOUS
  <2>2. commands[c[1]] # "none"
    BY WrittenPlan
  <2> QED BY <1>1, <2>1, <2>2 DEF Inv, ParentAgrees
<1>5. n \in {"pending", "processing", "unknown", "succeeded", "failed"}
  BY <1>4 DEF Unsettled
<1>6. n \in Unsettled <=> sts \cap Unsettled # {}
  BY <1>4 DEF Unsettled
<1> HIDE DEF n, sts
<1>7. commands \in [Plans -> {"none", "pending", "processing", "unknown", "succeeded", "failed"}]
  BY DEF Inv, Types
<1> QED BY <1>1, <1>2, <1>3, <1>5, <1>6, <1>7

\* Closing a child keeps its plan's command in step with its children.
LEMMA ChildClosed ==
  ASSUME BoundsAreNumbers, Inv, NEW c \in Children, items[c].status # "none",
         items' \in [Children -> Item], items'[c].status \notin Unsettled,
         \A d \in Children \ {c} : items'[d] = items[d],
         commands' = Parent(c[1], items')
  PROVE  /\ commands' \in [Plans -> {"none", "pending", "processing", "unknown", "succeeded", "failed"}]
         /\ \A q \in Plans : commands'[q] = "none" <=> commands[q] = "none"
         /\ ParentAgrees'
<1>1. /\ commands' \in [Plans -> {"none", "pending", "processing", "unknown", "succeeded", "failed"}]
      /\ \A q \in Plans \ {c[1]} : commands'[q] = commands[q]
      /\ commands'[c[1]] # "none"
      /\ (\E d \in Children : d[1] = c[1] /\ items'[d].status \in Unsettled)
           <=> commands'[c[1]] \in Unsettled
  BY ParentClosed
<1>2. commands[c[1]] # "none" /\ c[1] \in Plans
  BY WrittenPlan, ChildrenOfPlans
<1>3. ParentAgrees'
  <2> SUFFICES ASSUME NEW q \in Plans, commands'[q] # "none"
               PROVE  ((\E d \in Children : d[1] = q /\ items'[d].status \in Unsettled)
                        <=> commands'[q] \in Unsettled)
    BY DEF ParentAgrees
  <2>1. CASE q = c[1]
    BY <2>1, <1>1
  <2>2. CASE q # c[1]
    <3>1. commands'[q] = commands[q]
      BY <2>2, <1>1
    <3>2. \A d \in Children : d[1] = q => items'[d] = items[d]
      BY <2>2
    <3> QED BY <3>1, <3>2 DEF Inv, ParentAgrees
  <2> QED BY <2>1, <2>2
<1> QED BY <1>1, <1>2, <1>3

LEMMA FinishWithoutSendKeeps ==
  ASSUME BoundsAreNumbers, Inv, NEW w \in Workers, FinishWithoutSend(w) PROVE Inv'
<1>f1. /\ UNCHANGED <<slot, source, orders, overtaken>> /\ worker[w].pc = "refused" /\ worker[w] \in Work
  BY DEF FinishWithoutSend, Inv, Types
<1>f2. PICK p \in Plans : worker[w].child = <<p, "place">> /\ <<p, "place">> \in Children
  BY <1>f1, ChildrenOfPlans DEF Inv, Working
<1>f3. /\ worker[w].result \in {"expired", "blocked", "superseded"} /\ Holds(w, <<p, "place">>)
       /\ items[<<p, "place">>].status # "none"
  BY <1>f1, <1>f2 DEF Inv, Working, Holds
<1>f4. /\ worker' \in [Workers -> Work] /\ worker'[w].pc = "idle"
       /\ \A v \in Workers \ {w} : worker'[v] = worker[v]
  BY IdleWork DEF FinishWithoutSend, Inv, Types
<1>f5. \/ UNCHANGED <<items, commands, reservations>> /\ items[<<p, "place">>].status # "processing"
      \/ /\ items[<<p, "place">>].status = "processing"
         /\ items' = [items EXCEPT ![<<p, "place">>] = Closed(items[<<p, "place">>], worker[w].result)]
         /\ commands' = Parent(p, items')
         /\ reservations' = [reservations EXCEPT ![p] = IF @ = "active" THEN "released" ELSE @]
  <2> DEFINE c == worker[w].child
             its == [items EXCEPT ![c] = [@ EXCEPT !.status = worker[w].result, !.leased = FALSE]]
  <2>1. CASE items[c].status # "processing"
    BY <2>1, <1>f2 DEF FinishWithoutSend
  <2>2. CASE items[c].status = "processing"
    <3>1. /\ items' = its
          /\ commands' = Parent(c[1], its)
          /\ reservations' = [reservations EXCEPT ![c[1]] = IF @ = "active" THEN "released" ELSE @]
      BY <2>2 DEF FinishWithoutSend
    <3>2. c[1] = p
      BY <1>f2
    <3>3. its = [items EXCEPT ![<<p, "place">>] = Closed(items[<<p, "place">>], worker[w].result)]
      BY <1>f2 DEF Closed, Inv, Types
    <3> HIDE DEF its
    <3> QED BY <2>2, <3>1, <3>2, <3>3, <1>f2
  <2> QED BY <2>1, <2>2
<1>f6. /\ items' \in [Children -> Item]
       /\ \A d \in Children : d # <<p, "place">> => items'[d] = items[d]
       /\ items'[<<p, "place">>].status # "none"
  <2>1. CASE UNCHANGED items
    BY <2>1, <1>f3 DEF Inv, Types
  <2>2. CASE items' = [items EXCEPT ![<<p, "place">>] = Closed(items[<<p, "place">>], worker[w].result)]
    <3>1. worker[w].result \in Statuses /\ items[<<p, "place">>] \in Item
      BY <1>f2, <1>f3 DEF Statuses, Inv, Types
    <3> QED BY <2>2, <3>1, <1>f2, <1>f3, ItemClosed DEF Inv, Types
  <2> QED BY <2>1, <2>2, <1>f5
<1>f7. items[<<p, "place">>].status = "processing" => items'[<<p, "place">>].status = worker[w].result
  <2>1. worker[w].result \in Statuses /\ items[<<p, "place">>] \in Item
    BY <1>f2, <1>f3 DEF Statuses, Inv, Types
  <2> QED BY <2>1, <1>f2, <1>f5, ItemClosed DEF Inv, Types
<1>f8. /\ commands' \in [Plans -> {"none", "pending", "processing", "unknown", "succeeded", "failed"}]
       /\ \A q \in Plans : commands'[q] = "none" <=> commands[q] = "none"
       /\ ParentAgrees'
  <2>1. CASE UNCHANGED <<items, commands>>
    BY <2>1 DEF Inv, Types, ParentAgrees
  <2>2. CASE items[<<p, "place">>].status = "processing" /\ commands' = Parent(p, items')
    <3> DEFINE c == <<p, "place">>
    <3>1. c \in Children /\ c[1] = p
      BY <1>f2
    <3>2. items'[c].status \notin Unsettled
      BY <2>2, <1>f3, <1>f7 DEF Unsettled
    <3>3. \A d \in Children \ {c} : items'[d] = items[d]
      BY <1>f6
    <3>3a. items' \in [Children -> Item] /\ items[c].status # "none"
      BY <1>f3, <1>f6
    <3> HIDE DEF c
    <3>4. commands' = Parent(c[1], items')
      BY <2>2, <3>1
    <3> QED BY <3>1, <3>2, <3>3, <3>3a, <3>4, ChildClosed
  <2> QED BY <2>1, <2>2, <1>f5
<1>f9. /\ reservations' \in [Plans -> {"none", "active", "consumed", "released"}]
       /\ \A q \in Plans : reservations'[q] = "none" <=> reservations[q] = "none"
       /\ \A q \in Plans : q # p => reservations'[q] = reservations[q]
       /\ items[<<p, "place">>].status # "processing" => UNCHANGED <<items, reservations>>
  BY <1>f5 DEF Inv, Types
<1>1. Types'
  BY ChildrenOfPlans, <1>f1, <1>f2, <1>f3, <1>f4, <1>f6, <1>f8, <1>f9
  DEF Inv, BoundsAreNumbers, Types
<1>2. InOrder'
  BY <1>f1, <1>f8 DEF Inv, InOrder
<1>3. Unwritten'
  <2>1. p <= slot.plan
    BY <1>f2, <1>f3, WrittenPlan
  <2>2. slot.plan \in Int /\ p \in Int
    BY DEF Inv, Types, Plans, BoundsAreNumbers
  <2>3. \A q \in Plans : q > slot.plan => q # p
    BY <2>1, <2>2
  <2>4. \A q \in Plans \ {p}, k \in {"cancel", "place"} : items'[<<q, k>>] = items[<<q, k>>]
    BY <1>f6, ChildrenOfPlans
  <2> QED BY <2>3, <2>4, <1>f1, <1>f9 DEF Inv, Unwritten
<1>4. Working'
  <2>1. \A d \in Children : items[d].status # "none" => items'[d].status # "none"
    BY <1>f6
  <2>2. \A v \in Workers : worker'[v].pc # "idle" => worker'[v] = worker[v]
    BY <1>f4
  <2> QED BY <2>1, <2>2 DEF Inv, Working
<1>5. CancelsAreTrue'
  <2>1. \A q \in Plans : items'[<<q, "cancel">>] = items[<<q, "cancel">>]
    BY <1>f6, ChildrenOfPlans
  <2>2. \A v \in Workers, q \in Plans : Holds(v, <<q, "cancel">>)' => Holds(v, <<q, "cancel">>) /\ worker'[v] = worker[v]
    BY <1>f4 DEF Holds
  <2> QED BY <2>1, <2>2, <1>f1 DEF Inv, CancelsAreTrue, Gone
<1>6. CancelledFirst'
  <2>1. \A q \in Plans : items'[<<q, "cancel">>] = items[<<q, "cancel">>]
    BY <1>f6, ChildrenOfPlans
  <2>2. \A v \in Workers, q \in Plans : Holds(v, <<q, "place">>)' => Holds(v, <<q, "place">>)
    BY <1>f4 DEF Holds
  <2> QED BY <2>1, <2>2, <1>f1 DEF Inv, CancelledFirst, Ready, Gone
<1>7. ForPlacements'
  <2>1. \A q \in Plans : items'[<<q, "place">>].status = "none" <=> items[<<q, "place">>].status = "none"
    BY <1>f3, <1>f6, ChildrenOfPlans
  <2> QED BY <2>1, <1>f1, <1>f9 DEF Inv, ForPlacements
<1>8. Leases'
  <2> SUFFICES ASSUME NEW q \in Plans, items'[<<q, "place">>].status # "none",
                      <<q, "place">> \notin overtaken'
               PROVE  Lease(q)'
    BY DEF Leases
  <2> DEFINE c == <<q, "place">>
  <2>1. c \in Children /\ items[c].status # "none" /\ c \notin overtaken
    BY ChildrenOfPlans, <1>f1, <1>f3, <1>f6
  <2>2. Lease(q)
    BY <2>1 DEF Inv, Leases
  <2>3. \A v \in Workers : Holds(v, c)' => v # w /\ Holds(v, c) /\ worker'[v] = worker[v]
    BY <1>f4 DEF Holds
  <2>4. OneHand(q)'
    BY <2>2, <2>3 DEF Lease, OneHand
  <2>5. CASE q = p
    <3>1. items[c].status = "processing" /\ OneHand(q) /\ InHand(q)
      BY <2>1, <2>2, <2>5, <1>f3 DEF Lease, Unclaimed, Done, Unsettled
    <3>2. orders[q] = "none"
      BY <3>1, <2>5, <1>f1, <1>f3 DEF InHand
    <3>3. \A v \in Workers : ~Holds(v, c)'
      BY <2>3, <2>5, <3>1, <1>f3 DEF OneHand
    <3>4. items'[c].status \notin Unsettled
      BY <2>5, <3>1, <1>f3, <1>f7 DEF Unsettled
    <3>5. Done(q)'
      BY <3>2, <3>3, <1>f1 DEF Done
    <3> QED BY <2>4, <3>4, <3>5 DEF Lease, Unsettled
  <2>6. CASE q # p
    <3>1. items'[c] = items[c] /\ reservations'[q] = reservations[q] /\ orders'[q] = orders[q]
      BY <2>1, <2>6, <1>f1, <1>f6, <1>f9
    <3>2. items'[c].status = "pending" => Unclaimed(q)'
      BY <2>2, <2>3, <3>1 DEF Lease, Unclaimed
    <3>3. items'[c].status = "processing" => InHand(q)'
      BY <2>2, <2>3, <3>1 DEF Lease, InHand
    <3>4. items'[c].status \notin Unsettled => Done(q)'
      BY <2>2, <2>3, <3>1 DEF Lease, Done
    <3> QED BY <2>4, <3>2, <3>3, <3>4 DEF Lease
  <2> QED BY <2>5, <2>6
<1>9. Placed'
  <2>1. \A v \in Workers, q \in Plans : Holds(v, <<q, "place">>)' => Holds(v, <<q, "place">>) /\ worker'[v] = worker[v]
    BY <1>f4 DEF Holds
  <2> QED BY <2>1, <1>f1, <1>f4 DEF Inv, Placed
<1>10. ParentAgrees'
  BY <1>f8
<1> QED BY <1>1, <1>2, <1>3, <1>4, <1>5, <1>6, <1>7, <1>8, <1>9, <1>10 DEF Inv

LEMMA RecordKeeps ==
  ASSUME BoundsAreNumbers, Inv, NEW w \in Workers, Record(w) PROVE Inv'
<1>f1. /\ UNCHANGED <<source, orders, overtaken>> /\ worker[w].pc = "answered" /\ worker[w] \in Work
  BY DEF Record, Inv, Types
<1>f2. PICK c \in Children : worker[w].child = c /\ items[c].status # "none" /\ Holds(w, c)
  BY <1>f1 DEF Inv, Working, Holds
<1>f3. c[1] \in Plans /\ c[2] \in {"cancel", "place"} /\ c = <<c[1], c[2]>>
  BY ChildrenOfPlans
<1>f4. PICK st \in {"succeeded", "failed", "unknown"} : worker[w].result = st
  BY <1>f1 DEF Inv, Working
<1>f5. /\ worker' \in [Workers -> Work] /\ worker'[w].pc = "idle"
       /\ \A v \in Workers \ {w} : worker'[v] = worker[v]
  BY IdleWork DEF Record, Inv, Types
<1>f6. /\ items' = [items EXCEPT ![c] = Closed(items[c], st)]
       /\ commands' = Parent(c[1], items')
  <2>1. /\ items' = [items EXCEPT ![c] = [@ EXCEPT !.status = st, !.leased = FALSE]]
        /\ commands' = Parent(c[1], [items EXCEPT ![c] = [@ EXCEPT !.status = st, !.leased = FALSE]])
    BY <1>f2, <1>f4 DEF Record
  <2> QED BY <2>1 DEF Closed, Inv, Types
<1>f7. /\ items' \in [Children -> Item]
       /\ \A d \in Children \ {c} : items'[d] = items[d]
       /\ items'[c].status = st
  <2>1. st \in Statuses /\ items[c] \in Item
    BY DEF Statuses, Inv, Types
  <2> QED BY <2>1, <1>f6, ItemClosed DEF Inv, Types
<1>f8. /\ commands' \in [Plans -> {"none", "pending", "processing", "unknown", "succeeded", "failed"}]
       /\ \A q \in Plans : commands'[q] = "none" <=> commands[q] = "none"
       /\ ParentAgrees'
  <2>1. items'[c].status \notin Unsettled
    BY <1>f7 DEF Unsettled
  <2> QED BY <2>1, <1>f2, <1>f6, <1>f7, ChildClosed
<1>f9. c[2] = "cancel" => UNCHANGED <<slot, reservations>>
  BY <1>f2 DEF Record
<1>f10. c[2] = "place" => /\ slot' = SlotAfter(c[1], st)
                          /\ reservations' = [reservations EXCEPT ![c[1]] = SettledReservation(@, st)]
  BY <1>f2, <1>f4 DEF Record
<1>f11. /\ reservations' \in [Plans -> {"none", "active", "consumed", "released"}]
        /\ \A q \in Plans : reservations'[q] = "none" <=> reservations[q] = "none"
        /\ \A q \in Plans \ {c[1]} : reservations'[q] = reservations[q]
        /\ c[2] = "cancel" => UNCHANGED reservations
        /\ (c[2] = "place" /\ st # "failed" /\ reservations[c[1]] # "none") => reservations'[c[1]] = "consumed"
  BY <1>f3, <1>f9, <1>f10 DEF SettledReservation, Inv, Types
<1>f12. \/ UNCHANGED slot
        \/ /\ slot'.owner = c[1] /\ slot'.plan = slot.plan /\ slot.plan = c[1] /\ c[2] = "place"
           /\ orders[c[1]] # "none"
           /\ slot'.state = SlotState(st)
           /\ slot' \in [plan : 0..MaxPlans, owner : 0..MaxPlans, state : {"empty", "live", "unknown"}]
  <2>1. CASE c[2] = "cancel" \/ orders[c[1]] = "none" \/ slot.plan # c[1]
    BY <2>1, <1>f3, <1>f9, <1>f10 DEF SlotAfter
  <2>2. CASE c[2] = "place" /\ orders[c[1]] # "none" /\ slot.plan = c[1]
    <3>1. slot' = [slot EXCEPT !.owner = c[1], !.state = SlotState(st)]
      BY <2>2, <1>f10 DEF SlotAfter
    <3>2. SlotState(st) \in {"empty", "live", "unknown"} /\ c[1] \in 0..MaxPlans
      BY <1>f3 DEF SlotState, Plans, BoundsAreNumbers
    <3>3. slot \in [plan : 0..MaxPlans, owner : 0..MaxPlans, state : {"empty", "live", "unknown"}]
      BY DEF Inv, Types
    <3>4. slot'.owner = c[1] /\ slot'.plan = slot.plan /\ slot'.state = SlotState(st)
      BY <3>1, <3>3
    <3>5. slot' \in [plan : 0..MaxPlans, owner : 0..MaxPlans, state : {"empty", "live", "unknown"}]
      BY <3>1, <3>2, <3>3
    <3> QED BY <2>2, <3>4, <3>5
  <2> QED BY <2>1, <2>2, <1>f3
<1>f13. slot'.plan = slot.plan /\ c[1] <= slot.plan
  BY <1>f2, <1>f12, WrittenPlan
<1>1. Types'
  BY <1>f1, <1>f5, <1>f7, <1>f8, <1>f11, <1>f12 DEF Inv, Types
<1>2. InOrder'
  BY <1>f8, <1>f13 DEF Inv, InOrder
<1>3. Unwritten'
  <2>1. slot.plan \in Int /\ c[1] \in Int
    BY <1>f3 DEF Inv, Types, Plans, BoundsAreNumbers
  <2>2. \A q \in Plans : q > slot.plan => q # c[1]
    BY <2>1, <1>f13
  <2>3. \A q \in Plans, k \in {"cancel", "place"} : q # c[1] => items'[<<q, k>>] = items[<<q, k>>]
    <3>1. \A q \in Plans, k \in {"cancel", "place"} : <<q, k>> \in Children /\ (q # c[1] => <<q, k>> # c)
      <4>1. \A q \in Plans, k \in {"cancel", "place"} : <<q, k>> \in Children
        BY DEF Children
      <4>2. \A q \in Plans, k \in {"cancel", "place"} : <<q, k>>[1] = q
        OBVIOUS
      <4> QED BY <4>1, <4>2
    <3> QED BY <3>1, <1>f7
  <2> QED BY <2>2, <2>3, <1>f1, <1>f11, <1>f13 DEF Inv, Unwritten
<1>4. Working'
  <2>1. \A d \in Children : items[d].status # "none" => items'[d].status # "none"
    BY <1>f7
  <2>2. \A v \in Workers : worker'[v].pc # "idle" => worker'[v] = worker[v]
    BY <1>f5
  <2> QED BY <2>1, <2>2 DEF Inv, Working
<1>5. CancelsAreTrue'
  <2>1. \A q \in Plans : items'[<<q, "cancel">>].status = "succeeded" => Gone(q)
    <3> SUFFICES ASSUME NEW q \in Plans, items'[<<q, "cancel">>].status = "succeeded" PROVE Gone(q)
      OBVIOUS
    <3>1. CASE c = <<q, "cancel">>
      BY <3>1, <1>f1, <1>f2, <1>f4, <1>f7 DEF Inv, CancelsAreTrue
    <3>2. CASE c # <<q, "cancel">>
      <4>1. items'[<<q, "cancel">>] = items[<<q, "cancel">>]
        BY <3>2, <1>f7, ChildrenOfPlans
      <4> QED BY <4>1 DEF Inv, CancelsAreTrue
    <3> QED BY <3>1, <3>2
  <2>2. \A v \in Workers, q \in Plans : Holds(v, <<q, "cancel">>)' => Holds(v, <<q, "cancel">>) /\ worker'[v] = worker[v]
    BY <1>f5 DEF Holds
  <2> QED BY <2>1, <2>2, <1>f1 DEF Inv, CancelsAreTrue, Gone
<1>6. CancelledFirst'
  <2>1. \A q \in Plans : Ready(q) => Ready(q)'
    <3> SUFFICES ASSUME NEW q \in Plans, Ready(q) PROVE Ready(q)'
      OBVIOUS
    <3>1. CASE c = <<q, "cancel">>
      BY <3>1, <1>f1, <1>f2 DEF Ready, Gone
    <3>2. CASE c # <<q, "cancel">>
      <4>1. items'[<<q, "cancel">>] = items[<<q, "cancel">>]
        BY <3>2, <1>f7, ChildrenOfPlans
      <4> QED BY <4>1, <1>f1 DEF Ready, Gone
    <3> QED BY <3>1, <3>2
  <2>2. \A v \in Workers, q \in Plans : Holds(v, <<q, "place">>)' => Holds(v, <<q, "place">>)
    BY <1>f5 DEF Holds
  <2> QED BY <2>1, <2>2, <1>f1 DEF Inv, CancelledFirst
<1>7. ForPlacements'
  <2>1. \A d \in Children : items'[d].status = "none" <=> items[d].status = "none"
    BY <1>f2, <1>f7
  <2>2. \A q \in Plans : items'[<<q, "place">>].status = "none" <=> items[<<q, "place">>].status = "none"
    BY <2>1, ChildrenOfPlans
  <2> QED BY <2>2, <1>f1, <1>f11 DEF Inv, ForPlacements
<1>8. Leases'
  <2> SUFFICES ASSUME NEW q \in Plans, items'[<<q, "place">>].status # "none",
                      <<q, "place">> \notin overtaken'
               PROVE  Lease(q)'
    BY DEF Leases
  <2> DEFINE b == <<q, "place">>
  <2>1. b \in Children /\ items[b].status # "none" /\ b \notin overtaken
    BY ChildrenOfPlans, <1>f1, <1>f2, <1>f7
  <2>2. Lease(q)
    BY <2>1 DEF Inv, Leases
  <2>3. \A v \in Workers : Holds(v, b)' => v # w /\ Holds(v, b) /\ worker'[v] = worker[v]
    BY <1>f5 DEF Holds
  <2>4. OneHand(q)'
    BY <2>2, <2>3 DEF Lease, OneHand
  <2>5. CASE c = b
    <3>1. items[b].status = "processing" /\ OneHand(q) /\ InHand(q)
      BY <2>1, <2>2, <2>5, <1>f2 DEF Lease, Unclaimed, Done, Unsettled
    <3>2. c[1] = q /\ c[2] = "place"
      BY <2>5
    <3>3. \A v \in Workers : ~Holds(v, b)'
      BY <2>3, <2>5, <3>1, <1>f2 DEF OneHand
    <3>4. items'[b].status \notin Unsettled
      BY <2>5, <1>f7 DEF Unsettled
    <3>5. orders[q] = "live" => st # "failed"
      BY <3>1, <2>5, <1>f1, <1>f2, <1>f4 DEF InHand
    <3>6. orders'[q] = "live" => reservations'[q] = "consumed"
      BY <3>1, <3>2, <3>5, <1>f1, <1>f11 DEF InHand
    <3>7. Done(q)'
      BY <3>3, <3>6 DEF Done
    <3> QED BY <2>4, <3>4, <3>7 DEF Lease, Unsettled
  <2>6. CASE c # b
    <3>1. items'[b] = items[b] /\ orders'[q] = orders[q]
      BY <2>1, <2>6, <1>f1, <1>f7
    <3>0. reservations'[q] = reservations[q]
      <4>1. CASE c[1] = q
        BY <4>1, <2>6, <1>f3, <1>f11
      <4>2. CASE c[1] # q
        BY <4>2, <1>f11
      <4> QED BY <4>1, <4>2
    <3>2. items'[b].status = "pending" => Unclaimed(q)'
      BY <2>2, <2>3, <3>0, <3>1 DEF Lease, Unclaimed
    <3>3. items'[b].status = "processing" => InHand(q)'
      BY <2>2, <2>3, <3>0, <3>1 DEF Lease, InHand
    <3>4. items'[b].status \notin Unsettled => Done(q)'
      BY <2>2, <2>3, <3>0, <3>1 DEF Lease, Done
    <3> QED BY <2>4, <3>2, <3>3, <3>4 DEF Lease
  <2> QED BY <2>5, <2>6
<1>9. Placed'
  <2>1. \A v \in Workers, q \in Plans : Holds(v, <<q, "place">>)' => Holds(v, <<q, "place">>) /\ worker'[v] = worker[v]
    BY <1>f5 DEF Holds
  <2>2. (c[2] = "place" /\ SlotState(st) = "live") => orders[c[1]] \in {"live", "dead"}
    <3> SUFFICES ASSUME c[2] = "place", SlotState(st) = "live" PROVE orders[c[1]] \in {"live", "dead"}
      OBVIOUS
    <3>1. st = "succeeded" /\ c = <<c[1], "place">>
      BY <1>f3 DEF SlotState
    <3> QED BY <3>1, <1>f1, <1>f2, <1>f3, <1>f4 DEF Inv, Placed
  <2>3. /\ slot'.state = "live" => slot'.owner \in Plans /\ orders[slot'.owner] \in {"live", "dead"}
        /\ slot'.owner # 0 => orders[slot'.owner] # "none"
        /\ slot'.owner <= slot'.plan
    BY <2>2, <1>f3, <1>f12, <1>f13 DEF Inv, Placed
  <2> QED BY <2>1, <2>3, <1>f1 DEF Inv, Placed
<1>10. ParentAgrees'
  BY <1>f8
<1> QED BY <1>1, <1>2, <1>3, <1>4, <1>5, <1>6, <1>7, <1>8, <1>9, <1>10 DEF Inv


\* Taking expired leases back disturbs no child that is leased or waiting.
LEMMA ReapedChildren ==
  ASSUME Inv
  PROVE  /\ Reaped \in [Children -> Item]
         /\ \A d \in Children : \/ Reaped[d] = items[d]
                                \/ /\ items[d].status = "processing" /\ ~items[d].leased
                                   /\ Reaped[d].status = "pending"
<1>1. ASSUME NEW d \in Children, items[d].status = "processing", ~items[d].leased
      PROVE  [items[d] EXCEPT !.status = "pending"] \in Item /\ [items[d] EXCEPT !.status = "pending"].status = "pending"
  BY DEF Inv, Types, Item, Statuses
<1>2. \A d \in Children : items[d] \in Item
  BY DEF Inv, Types
<1> QED BY <1>1, <1>2 DEF Reaped

LEMMA ClaimKeeps ==
  ASSUME BoundsAreNumbers, Inv, NEW w \in Workers, Claim(w), Claimable(Reaped) # {} PROVE Inv'
<1>f1. /\ UNCHANGED <<slot, source, reservations, orders, overtaken>> /\ worker[w].pc = "idle"
  BY DEF Claim
<1>f2. /\ Reaped \in [Children -> Item]
       /\ \A d \in Children : Reaped[d] = items[d] \/ (items[d].status = "processing" /\ ~items[d].leased /\ Reaped[d].status = "pending")
  BY ReapedChildren
<1>f3. PICK c \in Children :
       /\ Reaped[c].status = "pending"
       /\ commands[c[1]] \in Unsettled
       /\ c[2] = "place" => Reaped[<<c[1], "cancel">>].status \in {"none", "succeeded"}
       /\ items' = [Reaped EXCEPT ![c] = [status |-> "processing", attempt |-> @.attempt + 1, leased |-> TRUE]]
       /\ commands' = [commands EXCEPT ![c[1]] = "processing"]
       /\ worker' = [worker EXCEPT ![w] = [pc |-> "claimed", child |-> c, attempt |-> items[c].attempt + 1, result |-> "none"]]
  BY DEF Claim, Claimable
<1>f4. /\ items' \in [Children -> Item]
       /\ items'[c].status = "processing" /\ items'[c].leased
       /\ \A d \in Children \ {c} : items'[d] = Reaped[d]
  <2>1. Reaped[c].attempt + 1 \in Nat
    BY <1>f2 DEF Item
  <2>2. [status |-> "processing", attempt |-> Reaped[c].attempt + 1, leased |-> TRUE] \in Item
    BY <2>1 DEF Item, Statuses
  <2>3. items' = [Reaped EXCEPT ![c] = [status |-> "processing", attempt |-> Reaped[c].attempt + 1, leased |-> TRUE]]
    BY <1>f3
  <2> QED BY <2>2, <2>3, <1>f2
<1>f5. /\ worker'[w] \in Work /\ worker'[w].pc = "claimed" /\ worker'[w].child = c
       /\ \A v \in Workers \ {w} : worker'[v] = worker[v]
       /\ worker' \in [Workers -> Work]
  <2>1. items[c].attempt + 1 \in Nat
    BY DEF Inv, Types, Item
  <2>2. [pc |-> "claimed", child |-> c, attempt |-> items[c].attempt + 1, result |-> "none"] \in Work
    BY <2>1 DEF Work, Statuses
  <2> QED BY <2>2, <1>f3 DEF Inv, Types
<1>f6. \A d \in Children :
          /\ items[d].status \in Unsettled <=> items'[d].status \in Unsettled
          /\ items[d].status = "none" <=> items'[d].status = "none"
          /\ items'[d].status = "succeeded" => items[d].status = "succeeded"
  <2> SUFFICES ASSUME NEW d \in Children
               PROVE  /\ items[d].status \in Unsettled <=> items'[d].status \in Unsettled
                      /\ items[d].status = "none" <=> items'[d].status = "none"
                      /\ items'[d].status = "succeeded" => items[d].status = "succeeded"
    OBVIOUS
  <2>1. CASE d = c
    BY <2>1, <1>f2, <1>f3, <1>f4 DEF Unsettled
  <2>2. CASE d # c
    BY <2>2, <1>f2, <1>f4 DEF Unsettled
  <2> QED BY <2>1, <2>2
<1>f7. c[1] \in Plans /\ c[2] \in {"cancel", "place"} /\ c = <<c[1], c[2]>>
  BY ChildrenOfPlans
<1>f8. /\ commands' \in [Plans -> {"none", "pending", "processing", "unknown", "succeeded", "failed"}]
       /\ \A q \in Plans : commands'[q] = "none" <=> commands[q] = "none"
       /\ \A q \in Plans : commands'[q] \in Unsettled <=> commands[q] \in Unsettled
  BY <1>f3, <1>f7 DEF Inv, Types, Unsettled
<1>1. Types'
  BY <1>f1, <1>f4, <1>f5, <1>f8 DEF Inv, Types
<1>2. InOrder'
  BY <1>f1, <1>f8 DEF Inv, InOrder
<1>3. Unwritten'
  <2>1. \A q \in Plans, k \in {"cancel", "place"} : <<q, k>> \in Children
    BY DEF Children
  <2> QED BY <2>1, <1>f1, <1>f6 DEF Inv, Unwritten
<1>4. Working'
  <2>1. items'[c].status # "none"
    BY <1>f4
  <2> QED BY <2>1, <1>f5, <1>f6 DEF Inv, Working
<1>5. CancelsAreTrue'
  <2>1. \A q \in Plans : items'[<<q, "cancel">>].status = "succeeded" => items[<<q, "cancel">>].status = "succeeded"
    BY <1>f6, ChildrenOfPlans
  <2>2. \A v \in Workers, q \in Plans : (Holds(v, <<q, "cancel">>)' /\ worker'[v].pc = "answered") => Holds(v, <<q, "cancel">>) /\ worker'[v] = worker[v]
    BY <1>f5 DEF Holds
  <2> QED BY <2>1, <2>2, <1>f1 DEF Inv, CancelsAreTrue, Gone
<1>6. CancelledFirst'
  <2>1. \A q \in Plans : Ready(q) => Ready(q)'
    BY <1>f1, <1>f6, ChildrenOfPlans DEF Ready, Gone
  <2>2. \A v \in Workers, q \in Plans : Holds(v, <<q, "place">>)' => Holds(v, <<q, "place">>) \/ c = <<q, "place">>
    BY <1>f5 DEF Holds
  <2>3. \A q \in Plans : c = <<q, "place">> => Ready(q)
    <3> SUFFICES ASSUME NEW q \in Plans, c = <<q, "place">> PROVE Ready(q)
      OBVIOUS
    <3>1. Reaped[<<q, "cancel">>].status \in {"none", "succeeded"} /\ <<q, "cancel">> \in Children
      BY <1>f3, ChildrenOfPlans
    <3>2. items[<<q, "cancel">>].status \in {"none", "succeeded"}
      BY <3>1, <1>f2
    <3> QED BY <3>2 DEF Ready, Inv, CancelsAreTrue
  <2> QED BY <2>1, <2>2, <2>3, <1>f1 DEF Inv, CancelledFirst
<1>7. ForPlacements'
  BY <1>f1, <1>f6, ChildrenOfPlans DEF Inv, ForPlacements
<1>8. Leases'
  <2> SUFFICES ASSUME NEW q \in Plans, items'[<<q, "place">>].status # "none",
                      <<q, "place">> \notin overtaken'
               PROVE  Lease(q)'
    BY DEF Leases
  <2> DEFINE b == <<q, "place">>
  <2>1. b \in Children /\ items[b].status # "none" /\ b \notin overtaken
    BY ChildrenOfPlans, <1>f1, <1>f6
  <2>2. Lease(q)
    BY <2>1 DEF Inv, Leases
  <2>3. Reaped[b] = items[b]
    BY <2>1, <2>2, <1>f2 DEF Lease, InHand
  <2>5. CASE c = b
    <3>1. Unclaimed(q)
      BY <2>2, <2>3, <2>5, <1>f3 DEF Lease
    <3>2. \A v \in Workers : Holds(v, b)' => v = w
      BY <3>1, <1>f5 DEF Unclaimed, Holds
    <3>3. OneHand(q)'
      BY <3>2 DEF OneHand
    <3>4. InHand(q)'
      BY <3>1, <3>2, <2>5, <1>f1, <1>f4, <1>f5 DEF InHand, Unclaimed
    <3> QED BY <3>3, <3>4, <2>5, <1>f4 DEF Lease, Unsettled
  <2>6. CASE c # b
    <3>0. \A v \in Workers : Holds(v, b)' => Holds(v, b) /\ worker'[v] = worker[v]
      BY <2>6, <1>f5 DEF Holds
    <3>1. items'[b] = items[b]
      BY <2>1, <2>3, <2>6, <1>f4
    <3>2. OneHand(q)'
      BY <2>2, <3>0 DEF Lease, OneHand
    <3>3. items'[b].status = "pending" => Unclaimed(q)'
      BY <2>2, <3>0, <3>1, <1>f1 DEF Lease, Unclaimed
    <3>4. items'[b].status = "processing" => InHand(q)'
      BY <2>2, <3>0, <3>1, <1>f1 DEF Lease, InHand
    <3>5. items'[b].status \notin Unsettled => Done(q)'
      BY <2>2, <3>0, <3>1, <1>f1 DEF Lease, Done
    <3> QED BY <3>2, <3>3, <3>4, <3>5 DEF Lease
  <2> QED BY <2>5, <2>6
<1>9. Placed'
  <2>1. \A v \in Workers, q \in Plans : (Holds(v, <<q, "place">>)' /\ worker'[v].pc = "answered") => Holds(v, <<q, "place">>) /\ worker'[v] = worker[v]
    BY <1>f5 DEF Holds
  <2> QED BY <2>1, <1>f1 DEF Inv, Placed
<1>10. ParentAgrees'
  BY <1>f6, <1>f8 DEF Inv, ParentAgrees
<1> QED BY <1>1, <1>2, <1>3, <1>4, <1>5, <1>6, <1>7, <1>8, <1>9, <1>10 DEF Inv

LEMMA ReapKeeps ==
  ASSUME BoundsAreNumbers, Inv, NEW w \in Workers, Claim(w), Claimable(Reaped) = {} PROVE Inv'
<1>f1. /\ UNCHANGED <<slot, source, reservations, orders, overtaken, commands, worker>> /\ items' = Reaped
  BY DEF Claim
<1>f2. /\ Reaped \in [Children -> Item]
       /\ \A d \in Children : Reaped[d] = items[d] \/ (items[d].status = "processing" /\ ~items[d].leased /\ Reaped[d].status = "pending")
  BY ReapedChildren
<1>f3. \A d \in Children :
          /\ items[d].status \in Unsettled <=> items'[d].status \in Unsettled
          /\ items[d].status = "none" <=> items'[d].status = "none"
          /\ items'[d].status = "succeeded" => items[d].status = "succeeded"
  BY <1>f1, <1>f2 DEF Unsettled
<1>1. Types'
  BY <1>f1, <1>f2 DEF Inv, Types
<1>2. InOrder'
  BY <1>f1 DEF Inv, InOrder
<1>3. Unwritten'
  <2>1. \A q \in Plans, k \in {"cancel", "place"} : <<q, k>> \in Children
    BY DEF Children
  <2> QED BY <2>1, <1>f1, <1>f3 DEF Inv, Unwritten
<1>4. Working'
  BY <1>f1, <1>f3 DEF Inv, Working
<1>5. CancelsAreTrue'
  BY <1>f1, <1>f3, ChildrenOfPlans DEF Inv, CancelsAreTrue, Gone, Holds
<1>6. CancelledFirst'
  BY <1>f1, <1>f3, ChildrenOfPlans DEF Inv, CancelledFirst, Ready, Gone, Holds
<1>7. ForPlacements'
  BY <1>f1, <1>f3, ChildrenOfPlans DEF Inv, ForPlacements
<1>8. Leases'
  <2> SUFFICES ASSUME NEW q \in Plans, items'[<<q, "place">>].status # "none",
                      <<q, "place">> \notin overtaken'
               PROVE  Lease(q)'
    BY DEF Leases
  <2>1. <<q, "place">> \in Children /\ items[<<q, "place">>].status # "none" /\ <<q, "place">> \notin overtaken
    BY ChildrenOfPlans, <1>f1, <1>f3
  <2>2. Lease(q)
    BY <2>1 DEF Inv, Leases
  <2>3. items'[<<q, "place">>] = items[<<q, "place">>]
    BY <2>1, <2>2, <1>f1, <1>f2 DEF Lease, InHand
  <2> QED BY <2>2, <2>3, <1>f1 DEF Lease, OneHand, Unclaimed, InHand, Done, Holds
<1>9. Placed'
  BY <1>f1 DEF Inv, Placed, Holds
<1>10. ParentAgrees'
  BY <1>f1, <1>f3 DEF Inv, ParentAgrees
<1> QED BY <1>1, <1>2, <1>3, <1>4, <1>5, <1>6, <1>7, <1>8, <1>9, <1>10 DEF Inv


\* Plans are written in order: the newest is the slot's.
LEMMA LatestIsSlot ==
  ASSUME BoundsAreNumbers, Types, InOrder
  PROVE  Latest = slot.plan
<1>1. slot.plan \in 0..MaxPlans
  BY DEF Types
<1>2. {p \in Plans : commands[p] # "none"} = 1..slot.plan
  BY <1>1 DEF InOrder, Plans, BoundsAreNumbers
<1>3. Cardinality(1..slot.plan) = slot.plan
  BY <1>1, FS_Interval DEF BoundsAreNumbers
<1> QED BY <1>2, <1>3 DEF Latest

LEMMA PersistKeeps ==
  ASSUME BoundsAreNumbers, Inv, NEW shape \in Shapes, Persist(shape) PROVE Inv'
<1>f1. UNCHANGED <<orders, worker, overtaken>> /\ shape # {} /\ shape \subseteq {"cancel", "place"}
  BY DEF Persist, Shapes
<1>f2. Latest = slot.plan
  BY LatestIsSlot DEF Inv
<1>f3. slot \in [plan : 0..MaxPlans, owner : 0..MaxPlans, state : {"empty", "live", "unknown"}]
  BY DEF Inv, Types
<1>f4. PICK p \in Plans : p = slot.plan + 1
  BY <1>f2, <1>f3 DEF Persist, Plans, BoundsAreNumbers
<1>f5. /\ items' = [c \in Children |-> IF c[1] = p /\ c[2] \in shape THEN [NoItem EXCEPT !.status = "pending"] ELSE items[c]]
       /\ commands' = [commands EXCEPT ![p] = "pending"]
       /\ source' = [source EXCEPT ![p] = slot.owner]
       /\ reservations' = [reservations EXCEPT ![p] = IF "place" \in shape THEN "active" ELSE "none"]
       /\ slot' = [slot EXCEPT !.plan = p]
  BY <1>f2, <1>f4 DEF Persist
<1>f6. /\ slot' \in [plan : 0..MaxPlans, owner : 0..MaxPlans, state : {"empty", "live", "unknown"}]
       /\ slot'.plan = p /\ slot'.owner = slot.owner /\ slot'.state = slot.state
  <2>1. p \in 0..MaxPlans
    BY <1>f4 DEF Plans, BoundsAreNumbers
  <2> QED BY <2>1, <1>f3, <1>f5
<1>f7. /\ items' \in [Children -> Item]
       /\ \A k \in {"cancel", "place"} : items'[<<p, k>>].status = IF k \in shape THEN "pending" ELSE "none"
       /\ \A d \in Children : d[1] # p => items'[d] = items[d]
  <2>1. [NoItem EXCEPT !.status = "pending"] \in Item
    BY NoItemIsItem, ItemPending
  <2>2. [NoItem EXCEPT !.status = "pending"].status = "pending"
    BY NoItemIsItem, ItemPending
  <2>3. slot.plan \in Int /\ p > slot.plan
    BY <1>f3, <1>f4 DEF BoundsAreNumbers
  <2>4. \A k \in {"cancel", "place"} : items[<<p, k>>].status = "none"
    BY <2>3 DEF Inv, Unwritten
  <2>5. items \in [Children -> Item]
    BY DEF Inv, Types
  <2>6. \A k \in {"cancel", "place"} : <<p, k>> \in Children
    BY DEF Children
  <2> QED BY <2>1, <2>2, <2>4, <2>5, <2>6, <1>f5
<1>f8. /\ commands' \in [Plans -> {"none", "pending", "processing", "unknown", "succeeded", "failed"}]
       /\ commands'[p] = "pending" /\ \A q \in Plans \ {p} : commands'[q] = commands[q]
  BY <1>f5 DEF Inv, Types
<1>f9. /\ reservations' \in [Plans -> {"none", "active", "consumed", "released"}]
       /\ reservations'[p] = IF "place" \in shape THEN "active" ELSE "none"
       /\ \A q \in Plans \ {p} : reservations'[q] = reservations[q]
  BY <1>f5 DEF Inv, Types
<1>f10. /\ source' \in [Plans -> 0..MaxPlans]
        /\ source'[p] = slot.owner /\ \A q \in Plans \ {p} : source'[q] = source[q]
  BY <1>f3, <1>f5 DEF Inv, Types
<1>f11. /\ orders[p] = "none"
        /\ \A v \in Workers, k \in {"cancel", "place"} : ~Holds(v, <<p, k>>)
        /\ slot.plan \in Int /\ MaxPlans \in Int /\ p \in Int /\ slot.owner \in 0..MaxPlans
        /\ \A k \in {"cancel", "place"} : items[<<p, k>>].status = "none"
  <2>1. slot.plan \in Int /\ MaxPlans \in Int /\ p \in Int /\ p > slot.plan
    BY <1>f3, <1>f4 DEF BoundsAreNumbers
  <2>2. orders[p] = "none" /\ \A k \in {"cancel", "place"} : items[<<p, k>>].status = "none"
    BY <2>1 DEF Inv, Unwritten
  <2> QED BY <2>1, <2>2, <1>f3 DEF Inv, Working, Holds
<1>f12. \A q \in Plans, k \in {"cancel", "place"} : <<q, k>> \in Children /\ (q # p => items'[<<q, k>>] = items[<<q, k>>])
  <2>1. \A q \in Plans, k \in {"cancel", "place"} : <<q, k>> \in Children
    BY DEF Children
  <2>2. \A q \in Plans, k \in {"cancel", "place"} : <<q, k>>[1] = q
    OBVIOUS
  <2> QED BY <2>1, <2>2, <1>f7
<1>1. Types'
  BY <1>f1, <1>f6, <1>f7, <1>f8, <1>f9, <1>f10 DEF Inv, Types
<1>2. InOrder'
  <2>1. \A q \in Plans : q # p => (q <= slot.plan <=> q <= p)
    BY <1>f4, <1>f11 DEF Plans
  <2>2. \A q \in Plans : q # p => (commands'[q] # "none" <=> q <= p)
    BY <2>1, <1>f8 DEF Inv, InOrder
  <2>3. p <= p
    BY <1>f11
  <2> QED BY <2>2, <2>3, <1>f6, <1>f8 DEF InOrder
<1>3. Unwritten'
  <2>1. \A q \in Plans : q > p => q > slot.plan /\ q # p
    BY <1>f4, <1>f11 DEF Plans
  <2> QED BY <2>1, <1>f1, <1>f6, <1>f9, <1>f12 DEF Inv, Unwritten
<1>4. Working'
  <2>1. \A v \in Workers : worker[v].pc # "idle" => worker[v].child \in Children /\ worker[v].child[1] # p
    BY <1>f11, ChildrenOfPlans DEF Inv, Working, Holds
  <2> QED BY <2>1, <1>f1, <1>f7 DEF Inv, Working
<1>5. CancelsAreTrue'
  <2>1. \A q \in Plans : q # p => (Gone(q)' <=> Gone(q))
    BY <1>f1, <1>f10 DEF Gone
  <2>2. items'[<<p, "cancel">>].status # "succeeded"
    BY <1>f7
  <2>3. \A v \in Workers, q \in Plans : Holds(v, <<q, "cancel">>)' => Holds(v, <<q, "cancel">>) /\ q # p /\ worker'[v] = worker[v]
    BY <1>f1, <1>f11 DEF Holds
  <2> QED BY <2>1, <2>2, <2>3, <1>f12 DEF Inv, CancelsAreTrue
<1>6. CancelledFirst'
  <2>1. \A q \in Plans : q # p => (Ready(q)' <=> Ready(q))
    BY <1>f1, <1>f10, <1>f12 DEF Ready, Gone
  <2>3. \A v \in Workers, q \in Plans : Holds(v, <<q, "place">>)' => Holds(v, <<q, "place">>) /\ q # p
    BY <1>f1, <1>f11 DEF Holds
  <2> QED BY <2>1, <2>3, <1>f1, <1>f11 DEF Inv, CancelledFirst
<1>7. ForPlacements'
  <2>1. \A q \in Plans : q # p => items'[<<q, "place">>] = items[<<q, "place">>]
    BY <1>f12
  <2>2. reservations'[p] = "none" <=> items'[<<p, "place">>].status = "none"
    BY <1>f7, <1>f9
  <2> QED BY <2>1, <2>2, <1>f1, <1>f9, <1>f11 DEF Inv, ForPlacements
<1>8. Leases'
  <2> SUFFICES ASSUME NEW q \in Plans, items'[<<q, "place">>].status # "none",
                      <<q, "place">> \notin overtaken'
               PROVE  Lease(q)'
    BY DEF Leases
  <2>1. CASE q = p
    <3>1. "place" \in shape /\ items'[<<p, "place">>].status = "pending"
      BY <2>1, <1>f7
    <3>2. \A v \in Workers : ~Holds(v, <<p, "place">>)'
      BY <1>f1, <1>f11 DEF Holds
    <3> QED BY <2>1, <3>1, <3>2, <1>f1, <1>f9, <1>f11 DEF Lease, OneHand, Unclaimed, Unsettled
  <2>2. CASE q # p
    <3>1. items'[<<q, "place">>] = items[<<q, "place">>] /\ reservations'[q] = reservations[q]
      BY <2>2, <1>f9, <1>f12
    <3>2. Lease(q)
      BY <3>1, <1>f1 DEF Inv, Leases
    <3> QED BY <3>1, <3>2, <1>f1 DEF Lease, OneHand, Unclaimed, InHand, Done, Holds
  <2> QED BY <2>1, <2>2
<1>9. Placed'
  <2>1. slot'.owner <= slot'.plan
    BY <1>f4, <1>f6, <1>f11 DEF Inv, Placed
  <2> QED BY <2>1, <1>f1, <1>f6, <1>f10 DEF Inv, Placed, Holds
<1>10. ParentAgrees'
  <2> SUFFICES ASSUME NEW q \in Plans, commands'[q] # "none"
               PROVE  ((\E d \in Children : d[1] = q /\ items'[d].status \in Unsettled)
                        <=> commands'[q] \in Unsettled)
    BY DEF ParentAgrees
  <2>1. CASE q = p
    <3>1. PICK k \in {"cancel", "place"} : k \in shape
      BY <1>f1
    <3>2. <<p, k>> \in Children /\ <<p, k>>[1] = p /\ items'[<<p, k>>].status = "pending"
      BY <3>1, <1>f7, <1>f12
    <3> QED BY <2>1, <3>2, <1>f8 DEF Unsettled
  <2>2. CASE q # p
    <3>1. \A d \in Children : d[1] = q => items'[d] = items[d]
      BY <2>2, <1>f7
    <3> QED BY <2>2, <3>1, <1>f8 DEF Inv, ParentAgrees
  <2> QED BY <2>1, <2>2
<1> QED BY <1>1, <1>2, <1>3, <1>4, <1>5, <1>6, <1>7, <1>8, <1>9, <1>10 DEF Inv


LEMMA StartsWithInv == BoundsAreNumbers /\ PlansInit => Inv
<1> SUFFICES ASSUME BoundsAreNumbers, PlansInit PROVE Inv
  OBVIOUS
<1>0. 0 \in 0..MaxPlans
  BY DEF BoundsAreNumbers
<1>1. NoItem \in Item /\ NoItem.status = "none"
  BY NoItemIsItem
<1>2. Types
  <2>1. slot \in [plan : 0..MaxPlans, owner : 0..MaxPlans, state : {"empty", "live", "unknown"}]
    BY <1>0 DEF PlansInit
  <2>2. items \in [Children -> Item] /\ worker \in [Workers -> Work]
    BY <1>1, IdleWork DEF PlansInit
  <2> QED BY <2>1, <2>2, <1>0 DEF PlansInit, Types
<1>3. slot.plan = 0 /\ slot.owner = 0 /\ slot.state = "empty"
  BY DEF PlansInit
<1>4. \A c \in Children : items[c].status = "none"
  BY <1>1 DEF PlansInit
<1>5. \A w \in Workers, c \in Children : ~Holds(w, c)
  BY IdleWork DEF PlansInit, Holds
<1>6. \A w \in Workers : worker[w].pc = "idle"
  BY IdleWork DEF PlansInit
<1>7. InOrder
  BY <1>3 DEF PlansInit, InOrder, Plans, BoundsAreNumbers
<1>8. Unwritten
  BY <1>4, ChildrenOfPlans DEF PlansInit, Unwritten
<1>9. Working
  BY <1>6 DEF Working
<1>10. CancelsAreTrue
  BY <1>4, <1>5, ChildrenOfPlans DEF CancelsAreTrue
<1>11. CancelledFirst
  BY <1>5, ChildrenOfPlans DEF PlansInit, CancelledFirst
<1>12. ForPlacements
  BY <1>4, ChildrenOfPlans DEF PlansInit, ForPlacements
<1>13. Leases
  BY <1>4, ChildrenOfPlans DEF Leases
<1>14. Placed
  <2>1. slot.state # "live" /\ slot.owner = 0 /\ slot.owner <= slot.plan
    BY <1>3
  <2>2. \A p \in Plans : source[p] = 0
    BY DEF PlansInit
  <2> QED BY <2>1, <2>2, <1>5, ChildrenOfPlans DEF Placed
<1>15. ParentAgrees
  BY DEF PlansInit, ParentAgrees
<1> QED BY <1>2, <1>7, <1>8, <1>9, <1>10, <1>11, <1>12, <1>13, <1>14, <1>15 DEF Inv

LEMMA StepsKeepInv == BoundsAreNumbers /\ Inv /\ [PlansNext]_plansVars => Inv'
<1> SUFFICES ASSUME BoundsAreNumbers, Inv, [PlansNext]_plansVars PROVE Inv'
  OBVIOUS
<1>1. ASSUME NEW shape \in Shapes, Persist(shape) PROVE Inv'
  BY <1>1, PersistKeeps
<1>2. ASSUME NEW p \in Plans, VenueCloses(p) PROVE Inv'
  BY <1>2, VenueClosesKeeps
<1>3. ASSUME NEW c \in Children, LeaseRunsOut(c) PROVE Inv'
  BY <1>3, LeaseRunsOutKeeps
<1>4. ASSUME NEW w \in Workers, WorkerStep(w) PROVE Inv'
  <2>1. CASE Claim(w)
    BY <2>1, ClaimKeeps, ReapKeeps
  <2>2. CASE AskGuard(w)
    BY <2>2, AskGuardKeeps
  <2>3. CASE FinishWithoutSend(w)
    BY <2>3, FinishWithoutSendKeeps
  <2>4. CASE SendPlace(w)
    BY <2>4, SendPlaceKeeps
  <2>5. CASE SendCancel(w)
    BY <2>5, SendCancelKeeps
  <2>6. CASE Record(w)
    BY <2>6, RecordKeeps
  <2> QED BY <1>4, <2>1, <2>2, <2>3, <2>4, <2>5, <2>6 DEF WorkerStep
<1>5. ASSUME NEW w \in Workers, Abandon(w) PROVE Inv'
  BY <1>5, AbandonKeeps
<1>6. CASE UNCHANGED plansVars
  BY <1>6 DEF plansVars, Inv, Types, InOrder, Unwritten, Working, CancelsAreTrue, CancelledFirst, ForPlacements,
     Leases, Lease, OneHand, Unclaimed, InHand, Done, Placed, ParentAgrees, Ready, Gone, Holds
<1> QED BY <1>1, <1>2, <1>3, <1>4, <1>5, <1>6 DEF PlansNext

LEMMA InvGivesTheRest ==
  ASSUME BoundsAreNumbers, Inv
  PROVE  ReplacedIsGone /\ ReservationHeld /\ OwnerFollowsPlan
<1>1. ReplacedIsGone
  BY DEF Inv, CancelledFirst, Ready, Gone, ReplacedIsGone
<1>2. ReservationHeld
  <2> SUFFICES ASSUME NEW p \in Plans, orders[p] = "live", <<p, "place">> \notin overtaken
               PROVE  reservations[p] \in {"active", "consumed"}
    BY DEF ReservationHeld
  <2>1. items[<<p, "place">>].status # "none"
    BY DEF Inv, ForPlacements
  <2>2. Lease(p)
    BY <2>1 DEF Inv, Leases
  <2> QED BY <2>2 DEF Lease, Unclaimed, InHand, Done, Unsettled
<1>3. OwnerFollowsPlan
  BY DEF Inv, Placed, OwnerFollowsPlan
<1> QED BY <1>1, <1>2, <1>3

\* Whatever the workers do, and however late their answers: a replacement's
\* order stands only once the order it replaces is gone, an order at the venue
\* is reserved for while nobody lost its lease, the slot follows its newest
\* plan, and a plan's command is closed exactly when its children are.
THEOREM PlansAreSound ==
  BoundsAreNumbers /\ PlansSpec
    => [](ReplacedIsGone /\ ReservationHeld /\ OwnerFollowsPlan /\ ParentAgrees)
<1> SUFFICES ASSUME BoundsAreNumbers PROVE PlansSpec => [](ReplacedIsGone /\ ReservationHeld /\ OwnerFollowsPlan /\ ParentAgrees)
  OBVIOUS
<1>1. PlansInit => Inv
  BY StartsWithInv
<1>2. Inv /\ [PlansNext]_plansVars => Inv'
  BY StepsKeepInv
<1>3. Inv => ReplacedIsGone /\ ReservationHeld /\ OwnerFollowsPlan /\ ParentAgrees
  BY InvGivesTheRest DEF Inv
<1> QED BY <1>1, <1>2, <1>3, PTL DEF PlansSpec

(***************************************************************************)
(* ActionBudget: the ledger does not promise too much                      *)
(***************************************************************************)

BudgetNumbers == Cap \in Nat /\ Buffer \in Nat /\ CloseReserve \in Nat
BudgetSpec == BudgetInit /\ [][BudgetNext]_budgetVars

Waiting(j) == IF j = "none" THEN 0 ELSE 1
BudgetTypes ==
  /\ used \in Nat /\ resting \in Nat /\ mapped \in Nat /\ mapped <= resting /\ now \in Nat
  /\ possibleLive \in Nat /\ runway \in 1..4 /\ unseen \in Int
  /\ job \in Kinds \union {"none"} /\ asked \in Nat \union {-1}
AttemptsPast == IsFiniteSet(attempts) /\ \A a \in attempts : a.at \in Nat /\ a.at <= now
BeforeTheFirst == forced => remote.at = -1 /\ job = "none"
Covered(r) ==
  r.at # -1 =>
    /\ r.at \in Nat /\ r.at <= now /\ r.count \in Nat
    /\ used - unseen - Waiting(job) <= r.count + Cardinality(Shadow(r.at))
BudgetInv == BudgetTypes /\ AttemptsPast /\ BeforeTheFirst /\ Covered(remote)

LEMMA ShadowIsFinite ==
  ASSUME AttemptsPast, NEW t
  PROVE  IsFiniteSet(Shadow(t)) /\ Cardinality(Shadow(t)) \in Nat
  <1>1. Shadow(t) \subseteq attempts
    BY DEF Shadow
  <1> QED BY <1>1, FS_Subset, FS_CardinalityType DEF AttemptsPast

\* Before the first answer nothing is promised, and so nothing is sent.
LEMMA NothingPromised ==
  ASSUME BudgetNumbers, BudgetTypes, remote.at = -1, NEW k \in Kinds
  PROVE  ~Permitted(k)
  <1>1. Address = 0
    BY DEF Address
  <1>2. Placeable = 0
    <2>1. CancelReserve \in Nat
      BY DEF CancelReserve, BudgetTypes, BudgetNumbers
    <2> QED BY <1>1, <2>1 DEF Placeable, Larger, BudgetNumbers
  <1> QED BY <1>1, <1>2 DEF Permitted

LEMMA BudgetStarts == ASSUME BudgetNumbers, BudgetInit PROVE BudgetInv
  <1>1. IsFiniteSet(attempts) /\ \A a \in attempts : a.at \in Nat /\ a.at <= now
    BY FS_EmptySet DEF BudgetInit
  <1>2. BudgetTypes /\ remote.at = -1
    BY DEF BudgetInit, BudgetTypes, None, Kinds
  <1> QED BY <1>1, <1>2 DEF BudgetInit, BudgetInv, AttemptsPast, BeforeTheFirst, Covered

\* A step that leaves the debits and the ledger alone.
LEMMA LedgerKept ==
  ASSUME BudgetInv, BudgetTypes', Ticks, UNCHANGED <<ledger, attempts>>,
         forced => job' = "none",
         used' - unseen' - Waiting(job)' <= used - unseen - Waiting(job)
  PROVE  BudgetInv'
  <1>1. now' = now + 1 /\ now \in Nat
    BY DEF Ticks, BudgetInv, BudgetTypes
  <1>2. AttemptsPast'
    BY <1>1 DEF BudgetInv, AttemptsPast
  <1>3. Shadow(remote.at)' = Shadow(remote.at) /\ remote' = remote /\ forced' = forced
    BY DEF Shadow, ledger
  <1>4. Covered(remote)'
    <2> SUFFICES ASSUME remote.at # -1
                 PROVE  /\ remote.at \in Nat /\ remote.at <= now' /\ remote.count \in Nat
                        /\ used' - unseen' - Waiting(job)' <= remote.count + Cardinality(Shadow(remote.at))
      BY <1>3 DEF Covered
    <2>1. /\ remote.at \in Nat /\ remote.at <= now /\ remote.count \in Nat
          /\ used - unseen - Waiting(job) <= remote.count + Cardinality(Shadow(remote.at))
      BY DEF BudgetInv, Covered
    <2>2. Cardinality(Shadow(remote.at)) \in Nat
      BY ShadowIsFinite DEF BudgetInv
    <2>3. /\ used \in Int /\ unseen \in Int /\ Waiting(job) \in Int
          /\ used' \in Int /\ unseen' \in Int /\ Waiting(job)' \in Int
      BY DEF BudgetInv, BudgetTypes, Waiting
    <2> QED BY <1>1, <2>1, <2>2, <2>3
  <1>5. BeforeTheFirst'
    BY <1>3 DEF BudgetInv, BeforeTheFirst
  <1> QED BY <1>2, <1>4, <1>5 DEF BudgetInv

LEMMA SendKept ==
  ASSUME BudgetNumbers, BudgetInv, NEW k \in Kinds, Send(k) \/ Lost(k)
  PROVE  BudgetInv'
  <1>1. remote.at # -1 /\ ~forced
    BY NothingPromised DEF Send, Lost, BudgetInv, BeforeTheFirst
  <1>2. BudgetTypes'
    BY DEF Send, Lost, BudgetInv, BudgetTypes, Ticks, ledger, Kinds
  <1>3. used' - unseen' - Waiting(job)' <= used - unseen - Waiting(job)
    BY DEF Send, Lost, BudgetInv, BudgetTypes, Waiting, Kinds
  <1> QED BY <1>1, <1>2, <1>3, LedgerKept DEF Send, Lost

LEMMA DebitKept ==
  ASSUME BudgetNumbers, BudgetInv, Debit
  PROVE  BudgetInv'
  <1> DEFINE new == [number |-> Cardinality(attempts) + 1, kind |-> job, at |-> now + 1]
  <1>1. /\ attempts' = attempts \union {new} /\ new.at = now + 1 /\ now' = now + 1 /\ now \in Nat
        /\ job' = "none" /\ job # "none"
        /\ remote' = remote /\ forced' = forced /\ used' = used /\ unseen' = unseen
    BY DEF Debit, Ticks, ledger, BudgetInv, BudgetTypes
  <1>2. BudgetTypes'
    BY DEF Debit, BudgetInv, BudgetTypes, Ticks, ledger
  <1>3. AttemptsPast'
    BY <1>1, FS_AddElement DEF BudgetInv, AttemptsPast
  <1>4. Covered(remote)'
    <2> SUFFICES ASSUME remote.at # -1
                 PROVE  /\ remote.at \in Nat /\ remote.at <= now' /\ remote.count \in Nat
                        /\ used - unseen <= remote.count + Cardinality(Shadow(remote.at)')
      BY <1>1, <1>2 DEF Covered, Waiting, BudgetTypes
    <2>1. /\ remote.at \in Nat /\ remote.at <= now /\ remote.count \in Nat
          /\ used - unseen - 1 <= remote.count + Cardinality(Shadow(remote.at))
      BY <1>1 DEF BudgetInv, Covered, Waiting
    <2>2. Shadow(remote.at)' = Shadow(remote.at) \union {new}
      BY <1>1, <2>1 DEF Shadow
    <2>3. new \notin Shadow(remote.at)
      BY <1>1 DEF Shadow, BudgetInv, AttemptsPast
    <2>4. Cardinality(Shadow(remote.at)') = Cardinality(Shadow(remote.at)) + 1
      BY <2>2, <2>3, FS_AddElement, ShadowIsFinite DEF BudgetInv
    <2>5. Cardinality(Shadow(remote.at)) \in Nat
      BY ShadowIsFinite DEF BudgetInv
    <2> HIDE DEF new
    <2> QED BY <1>1, <2>1, <2>4, <2>5 DEF BudgetInv, BudgetTypes
  <1>5. BeforeTheFirst'
    BY <1>1 DEF BudgetInv, BeforeTheFirst
  <1> QED BY <1>2, <1>3, <1>4, <1>5 DEF BudgetInv

LEMMA ArriveKept ==
  ASSUME BudgetNumbers, BudgetInv, Arrive
  PROVE  BudgetInv'
  <1>1. /\ now' = now + 1 /\ now \in Nat /\ remote'.count = asked /\ remote'.at = now + 1 /\ asked \in Nat
        /\ forced' = FALSE /\ job' = job /\ used' = used /\ attempts' = attempts
        /\ unseen' = used - asked - Waiting(job) /\ used \in Nat /\ Waiting(job) \in Int
    BY DEF Arrive, Ticks, BudgetInv, BudgetTypes, Waiting
  <1>2. BudgetTypes'
    BY <1>1 DEF Arrive, BudgetInv, BudgetTypes
  <1>3. AttemptsPast'
    BY <1>1 DEF BudgetInv, AttemptsPast
  <1>4. Covered(remote)'
    <2>1. Cardinality(Shadow(remote.at)') \in Nat
      <3>1. Shadow(remote.at)' \subseteq attempts' /\ IsFiniteSet(attempts')
        BY <1>3 DEF AttemptsPast, Shadow
      <3> QED BY <3>1, FS_Subset, FS_CardinalityType
    <2>2. Waiting(job)' = Waiting(job)
      BY <1>1
    <2>3. used' - unseen' - Waiting(job)' <= remote'.count + Cardinality(Shadow(remote.at)')
      BY <1>1, <2>1, <2>2
    <2> QED BY <1>1, <2>3 DEF Covered
  <1>5. BeforeTheFirst'
    BY <1>1 DEF BeforeTheFirst
  <1> QED BY <1>2, <1>3, <1>4, <1>5 DEF BudgetInv

LEMMA BudgetKept ==
  ASSUME BudgetNumbers, BudgetInv, [BudgetNext]_budgetVars
  PROVE  BudgetInv'
  <1>1. CASE Cancel
    <2>1. BudgetTypes'
      BY <1>1 DEF Cancel, BudgetInv, BudgetTypes, Ticks, ledger
    <2>2. used' - unseen' - Waiting(job)' <= used - unseen - Waiting(job) /\ job' = job
      BY <1>1 DEF Cancel, BudgetInv, BudgetTypes, Waiting
    <2> QED BY <1>1, <2>1, <2>2, LedgerKept DEF Cancel, BudgetInv, BeforeTheFirst
  <1>2. CASE Ask \/ PollFails \/ Burns
    <2>1. BudgetTypes'
      BY <1>2 DEF Ask, PollFails, Burns, BudgetInv, BudgetTypes, Ticks, ledger
    <2>2. used' - unseen' - Waiting(job)' <= used - unseen - Waiting(job) /\ job' = job
      BY <1>2 DEF Ask, PollFails, Burns, BudgetInv, BudgetTypes, Waiting
    <2> QED BY <1>2, <2>1, <2>2, LedgerKept DEF Ask, PollFails, Burns, BudgetInv, BeforeTheFirst
  <1>3. CASE Restart
    <2>1. BudgetTypes' /\ remote'.at = -1 /\ job' = "none" /\ attempts' = {}
      BY <1>3 DEF Restart, BudgetInv, BudgetTypes, Ticks, None
    <2> QED BY <2>1, FS_EmptySet DEF BudgetInv, AttemptsPast, BeforeTheFirst, Covered
  <1>4. CASE UNCHANGED budgetVars
    BY <1>4 DEF budgetVars, ledger, BudgetInv, BudgetTypes, AttemptsPast, BeforeTheFirst, Covered, Shadow
  <1> QED BY <1>1, <1>2, <1>3, <1>4, SendKept, DebitKept, ArriveKept DEF BudgetNext

LEMMA ModeIsAMode == ASSUME BudgetNumbers, BudgetTypes PROVE Mode \in 1..5
  <1>1. PICK c \in 1..4 : c = CASE Placeable <= CancelOnlyAt -> 4
                        [] Placeable > CancelOnlyAt /\ Placeable <= CriticalAt -> 3
                        [] Placeable > CriticalAt /\ Placeable <= ConserveAt -> 2
                        [] OTHER -> 1
    OBVIOUS
  <1>2. Larger(runway, c) \in 1..5
    BY DEF Larger, BudgetTypes
  <1> QED BY <1>1, <1>2 DEF Mode

\* ActionBudgetController: whatever polls, debits, cancels and restarts
\* interleave, what the ledger says the address has left is no more than what
\* the venue would say, apart from the requests the ledger cannot know of and
\* the placement whose debit is not yet written; and before the first poll of
\* a process no placement is sent.
THEOREM BudgetIsNotOverstated == BudgetNumbers /\ BudgetSpec => []BudgetSound
  <1>1. ASSUME BudgetNumbers, BudgetInv
        PROVE  BudgetSound
    <2>1. Address <= Larger(Cap - used + unseen + Waiting(job), 0)
      <3>1. /\ used \in Int /\ unseen \in Int /\ Waiting(job) \in Int /\ Cap \in Int
        BY <1>1 DEF BudgetInv, BudgetTypes, Waiting, BudgetNumbers
      <3>2. CASE remote.at = -1
        BY <3>1, <3>2 DEF Address, Larger
      <3>3. CASE remote.at # -1
        <4>1. Cardinality(Shadow(remote.at)) \in Nat
          BY <1>1, ShadowIsFinite DEF BudgetInv
        <4>2. remote.count \in Nat /\ used - unseen - Waiting(job) <= remote.count + Cardinality(Shadow(remote.at))
          BY <1>1, <3>3 DEF BudgetInv, Covered
        <4> QED BY <3>1, <3>3, <4>1, <4>2 DEF Address, Larger
      <3> QED BY <3>2, <3>3
    <2>2. Mode \in 1..5
      BY <1>1, ModeIsAMode DEF BudgetInv
    <2> QED BY <1>1, <2>1, <2>2 DEF BudgetSound, BudgetInv, BudgetTypes, BeforeTheFirst, Waiting
  <1> SUFFICES ASSUME BudgetNumbers PROVE BudgetSpec => []BudgetSound
    OBVIOUS
  <1> QED BY <1>1, BudgetStarts, BudgetKept, PTL DEF BudgetSpec

(***************************************************************************)
(* EventDelivery: the relay, the broker and the stream                     *)
(***************************************************************************)

DeliverySpec == DeliveryInit /\ [][DeliveryNext]_deliveryVars

DeliveryBounds == MaxSeq \in Nat /\ BatchSize \in Nat

---------------------------------------------------------------------------
(* Ascending sequences                                                     *)

Ascending(q) == \A i, j \in 1..Len(q) : i < j => q[i] < q[j]

Under(S, x) == {y \in S : y < x}

LEMMA UnderCounts ==
  ASSUME NEW S, IsFiniteSet(S), S \subseteq Int
  PROVE  /\ \A x \in S : Cardinality(Under(S, x)) \in 0..(Cardinality(S) - 1)
         /\ \A x, y \in S : x < y => Cardinality(Under(S, x)) < Cardinality(Under(S, y))
<1>0. Cardinality(S) \in Nat
  BY FS_CardinalityType
<1>1. ASSUME NEW x \in S PROVE Cardinality(Under(S, x)) \in 0..(Cardinality(S) - 1)
  <2>0. Under(S, x) \subseteq S \ {x}
    BY DEF Under
  <2>1. IsFiniteSet(S \ {x}) /\ Cardinality(S \ {x}) = Cardinality(S) - 1
    BY FS_RemoveElement
  <2>2. IsFiniteSet(Under(S, x)) /\ Cardinality(Under(S, x)) <= Cardinality(S) - 1
    BY <2>0, <2>1, FS_Subset
  <2>3. Cardinality(Under(S, x)) \in Nat
    BY <2>2, FS_CardinalityType
  <2> QED BY <1>0, <2>2, <2>3
<1>2. ASSUME NEW x \in S, NEW y \in S, x < y
      PROVE  Cardinality(Under(S, x)) < Cardinality(Under(S, y))
  <2>0. x \in Int /\ y \in Int /\ \A z \in S : z \in Int
    OBVIOUS
  <2>1. x \in Under(S, y) /\ x \notin Under(S, x)
    BY <1>2, <2>0 DEF Under
  <2>5. \A z \in S : z < x => z < y
    BY <1>2, <2>0
  <2>6. Under(S, x) \subseteq Under(S, y)
    BY <2>5 DEF Under
  <2>2. Under(S, y) \subseteq S
    BY DEF Under
  <2>3. IsFiniteSet(Under(S, y))
    BY <2>2, FS_Subset
  <2>4. /\ Cardinality(Under(S, x)) <= Cardinality(Under(S, y))
        /\ Cardinality(Under(S, x)) # Cardinality(Under(S, y))
    BY <2>1, <2>6, <2>3, FS_Subset
  <2> QED BY <2>4, <1>0, <1>1
<1> QED BY <1>1, <1>2

\* The numbers below x count up with x, so sorting by them fills every place.
LEMMA SortedAscends ==
  ASSUME NEW S, IsFiniteSet(S), S \subseteq Int
  PROVE  Sorted(S) \in Seq(Int) /\ Ascending(Sorted(S)) /\ ToSet(Sorted(S)) = S
<1> DEFINE n == Cardinality(S)
           rank == [x \in S |-> Cardinality(Under(S, x)) + 1]
           q == Sorted(S)
<1>1. n \in Nat
  BY FS_CardinalityType
<1>2. /\ \A x \in S : Cardinality(Under(S, x)) \in 0..(n - 1)
      /\ \A x, y \in S : x < y => Cardinality(Under(S, x)) < Cardinality(Under(S, y))
  BY UnderCounts
<1>3. \A x, y \in S : Cardinality(Under(S, x)) = Cardinality(Under(S, y)) => x = y
  <2> TAKE x \in S, y \in S
  <2>1. x < y \/ y < x \/ x = y
    OBVIOUS
  <2>2. Cardinality(Under(S, x)) \in Int /\ Cardinality(Under(S, y)) \in Int
    BY <1>1, <1>2
  <2> QED BY <2>1, <2>2, <1>2
<1>4. rank \in Injection(S, 1..n)
  <2>1. rank \in [S -> 1..n]
    BY <1>1, <1>2
  <2>2. \A x, y \in S : rank[x] = rank[y] => x = y
    BY <1>1, <1>2, <1>3
  <2> QED BY <2>1, <2>2 DEF Injection, IsInjective
<1>5. rank \in Surjection(S, 1..n)
  <2>1. IsFiniteSet(1..n) /\ Cardinality(1..n) = n
    BY <1>1, FS_Interval
  <2> QED BY <1>4, <2>1, FS_Injection
<1>6. \A i \in 1..n : q[i] \in S /\ Cardinality(Under(S, q[i])) = i - 1
  <2> TAKE i \in 1..n
  <2>1. PICK x \in S : rank[x] = i
    BY <1>5 DEF Surjection
  <2>2. Cardinality(Under(S, x)) = i - 1
    BY <2>1, <1>1, <1>2
  <2>3. q[i] = CHOOSE z \in S : Cardinality(Under(S, z)) = i - 1
    BY DEF Sorted, Under
  <2> QED BY <2>2, <2>3
<1>7. q \in Seq(Int) /\ Len(q) = n /\ DOMAIN q = 1..n
  <2> DEFINE At(i) == CHOOSE x \in S : Cardinality({y \in S : y < x}) = i - 1
  <2>1. q = [i \in 1..n |-> At(i)]
    BY Zenon DEF Sorted
  <2> HIDE DEF At, q, n
  <2>2. DOMAIN q = 1..n
    BY <2>1, Zenon
  <2>3. \A i \in 1..n : q[i] = At(i)
    BY <2>1, Zenon
  <2>4. \A i \in 1..n : At(i) \in Int
    BY <1>6, <2>3
  <2>5. q \in [1..n -> Int]
    BY <2>1, <2>4, Zenon
  <2>6. q \in Seq(Int)
    BY <2>5, <1>1
  <2> QED BY <2>2, <2>6, <1>1, LenProperties
<1> HIDE DEF q, n
<1>8. Ascending(q)
  <2> SUFFICES ASSUME NEW i \in 1..n, NEW j \in 1..n, i < j PROVE q[i] < q[j]
    BY <1>7 DEF Ascending
  <2>0. /\ q[i] \in S /\ Cardinality(Under(S, q[i])) = i - 1
        /\ q[j] \in S /\ Cardinality(Under(S, q[j])) = j - 1
    BY <1>6
  <2>1. q[i] \in Int /\ q[j] \in Int
    BY <2>0
  <2>2. ~(q[j] < q[i])
    <3> SUFFICES ASSUME q[j] < q[i] PROVE FALSE
      OBVIOUS
    <3>1. Cardinality(Under(S, q[j])) < Cardinality(Under(S, q[i]))
      BY <1>2, <2>0
    <3>2. j - 1 < i - 1
      BY <2>0, <3>1
    <3> QED BY <3>2, <1>1
  <2>3. q[i] # q[j]
    BY <1>1, <2>0
  <2> QED BY <2>1, <2>2, <2>3
<1>9. S \subseteq ToSet(q)
  <2> SUFFICES ASSUME NEW x \in S PROVE \E i \in 1..n : q[i] = x
    BY <1>7 DEF ToSet
  <2> DEFINE i == Cardinality(Under(S, x)) + 1
  <2>1. i \in 1..n /\ Cardinality(Under(S, x)) = i - 1
    BY <1>1, <1>2
  <2>2. q[i] \in S /\ Cardinality(Under(S, q[i])) = i - 1
    BY <2>1, <1>6
  <2> QED BY <2>1, <2>2, <1>3
<1>10. ToSet(q) \subseteq S
  BY <1>6, <1>7 DEF ToSet
<1> QED BY <1>7, <1>8, <1>9, <1>10 DEF q

LEMMA AscendingParts ==
  ASSUME NEW q \in Seq(Int), Ascending(q), q # << >>
  PROVE  /\ Head(q) \in ToSet(q) /\ Tail(q) \in Seq(Int) /\ Ascending(Tail(q))
         /\ ToSet(Tail(q)) = ToSet(q) \ {Head(q)}
         /\ \A x \in ToSet(Tail(q)) : Head(q) < x
<1>1. Len(q) \in Nat \ {0} /\ DOMAIN q = 1..Len(q) /\ Head(q) = q[1]
  OBVIOUS
<1>2. /\ Tail(q) \in Seq(Int) /\ Len(Tail(q)) = Len(q) - 1 /\ DOMAIN Tail(q) = 1..(Len(q) - 1)
      /\ \A i \in 1..(Len(q) - 1) : Tail(q)[i] = q[i + 1]
  BY HeadTailProperties
<1>3. Ascending(Tail(q))
  BY <1>1, <1>2 DEF Ascending
<1>4. \A i \in 1..(Len(q) - 1) : q[1] < q[i + 1]
  BY <1>1 DEF Ascending
<1>5. ToSet(Tail(q)) \subseteq ToSet(q)
  BY <1>1, <1>2 DEF ToSet
<1>6. ASSUME NEW x \in ToSet(q), x # q[1] PROVE x \in ToSet(Tail(q))
  <2>1. PICK i \in 1..Len(q) : q[i] = x
    BY <1>1 DEF ToSet
  <2>2. i - 1 \in 1..(Len(q) - 1) /\ Tail(q)[i - 1] = x
    BY <2>1, <1>1, <1>2, <1>6
  <2> QED BY <2>2, <1>2 DEF ToSet
<1>7. \A x \in ToSet(Tail(q)) : q[1] < x
  BY <1>2, <1>4 DEF ToSet
<1>8. q[1] \in ToSet(q) /\ q[1] \in Int
  BY <1>1 DEF ToSet
<1> QED BY <1>1, <1>2, <1>3, <1>5, <1>6, <1>7, <1>8

LEMMA AscendingAppend ==
  ASSUME NEW q \in Seq(Int), Ascending(q), NEW x \in Int, \A y \in ToSet(q) : y < x
  PROVE  /\ Append(q, x) \in Seq(Int) /\ Ascending(Append(q, x))
         /\ ToSet(Append(q, x)) = ToSet(q) \union {x}
<1>1. /\ Append(q, x) \in Seq(Int) /\ Len(Append(q, x)) = Len(q) + 1 /\ Len(q) \in Nat
      /\ DOMAIN q = 1..Len(q) /\ DOMAIN Append(q, x) = 1..(Len(q) + 1)
      /\ \A i \in 1..Len(q) : Append(q, x)[i] = q[i]
      /\ Append(q, x)[Len(q) + 1] = x
  OBVIOUS
<1>2. \A i \in 1..Len(q) : q[i] < x
  BY <1>1 DEF ToSet
<1>3. Ascending(Append(q, x))
  BY <1>1, <1>2 DEF Ascending
<1>4. ToSet(Append(q, x)) = ToSet(q) \union {x}
  <2>1. ToSet(Append(q, x)) \subseteq ToSet(q) \union {x}
    BY <1>1 DEF ToSet
  <2>2. ToSet(q) \union {x} \subseteq ToSet(Append(q, x))
    BY <1>1 DEF ToSet
  <2> QED BY <2>1, <2>2
<1> QED BY <1>1, <1>3, <1>4

LEMMA AscendingPrefix ==
  ASSUME NEW q \in Seq(Int), Ascending(q), NEW k \in 0..Len(q)
  PROVE  LET p == SubSeq(q, 1, k) IN
         /\ p \in Seq(Int) /\ Ascending(p) /\ ToSet(p) \subseteq ToSet(q)
         /\ \A x \in ToSet(q) : x \in ToSet(p) \/ \A y \in ToSet(p) : y < x
<1> DEFINE p == SubSeq(q, 1, k)
<1>1. /\ p \in Seq(Int) /\ Len(p) = k /\ DOMAIN p = 1..k /\ DOMAIN q = 1..Len(q) /\ Len(q) \in Nat
      /\ \A i \in 1..k : p[i] = q[i]
  BY SubSeqProperties
<1> HIDE DEF p
<1>2. Ascending(p) /\ ToSet(p) \subseteq ToSet(q)
  BY <1>1 DEF Ascending, ToSet
<1>3. ASSUME NEW x \in ToSet(q), x \notin ToSet(p), NEW y \in ToSet(p) PROVE y < x
  <2>1. PICK i \in 1..Len(q) : q[i] = x
    BY <1>1 DEF ToSet
  <2>2. PICK j \in 1..k : q[j] = y
    BY <1>1 DEF ToSet
  <2>3. i \notin 1..k
    BY <2>1, <1>1, <1>3, Zenon DEF ToSet
  <2>4. i > k /\ j < i /\ j \in 1..Len(q)
    BY <2>3, <1>1
  <2> QED BY <2>1, <2>2, <2>4 DEF Ascending
<1> QED BY <1>1, <1>2, <1>3 DEF p

---------------------------------------------------------------------------
(* EventDelivery: no client is led past an event                           *)

\* What was committed, be it purged since.
Held == {s \in Seqs : row[s] \in {"committed", "purged"}}

\* A row that is numbered has no free number below it; what was purged has
\* nothing below it that may still be read.
TableInv ==
  /\ row \in [Seqs -> {"free", "open", "committed", "aborted", "purged"}]
  /\ \A s, t \in Seqs : t < s /\ row[s] # "free" => row[t] # "free"
  /\ \A s, t \in Seqs : t <= s /\ row[s] = "purged" => row[t] \in {"aborted", "purged"}
  /\ owed \subseteq Held /\ published \subseteq Held /\ claimed \subseteq Held

RelayInv ==
  /\ batch \in Seq(Int) /\ Ascending(batch) /\ ToSet(batch) \subseteq Held
  /\ seen \subseteq Held
  /\ marking \in BOOLEAN /\ (marking => batch # << >> /\ Head(batch) \in seen)

\* Nothing in the mailbox is above the broker's cursor.
ServerInv ==
  /\ sub \in [listed : BOOLEAN, cursor : Held \union {0, NoId}] /\ closed \in BOOLEAN
  /\ box \in Seq(Int) /\ Ascending(box) /\ ToSet(box) \subseteq Held
  /\ \A x \in ToSet(box) : x <= sub.cursor
  /\ stream \in [at : {"off", "replay", "read", "sending", "live"},
                 after : Held \union {0, NoId}, sent : Held \union {0},
                 upto : Held \union {0}, pending : Seq(Int)]
  /\ Ascending(stream.pending) /\ ToSet(stream.pending) \subseteq Held \union {Resync}
  /\ stream.at = "sending" => stream.pending # << >>

ClientInv ==
  /\ lastId \in Held \union {0, NoId} /\ resynced \in BOOLEAN
  /\ lastId = NoId => owed = {}
  /\ ~resynced => /\ lastId # 0
                  /\ stream.at \in {"replay", "read"} => stream.after = lastId

\* The relay still has s to publish, after everything in its hands below s.
Due(s) ==
  /\ row[s] = "committed" /\ s \notin seen /\ s \notin published /\ sub.cursor < s
  /\ \/ s \in ToSet(batch)
     \/ s \notin claimed /\ \A x \in ToSet(batch) : x < s

\* s comes through the mailbox before anything above it, or nothing does.
Arrives(s) ==
  /\ stream.sent < s
  /\ \/ s \in ToSet(box)
     \/ /\ \A x \in ToSet(box) : x < s
        /\ closed \/ ~sub.listed \/ Due(s)

\* Where a row that the client lacks is, stage by stage of its stream.
OnItsWay(s) ==
  /\ stream.at = "read" =>
       \/ row[s] = "committed" /\ s <= stream.upto
       \/ stream.upto < s /\ Arrives(s)
  /\ stream.at = "sending" =>
       \/ Head(stream.pending) = Resync \/ s \in ToSet(stream.pending)
       \/ (\A x \in ToSet(stream.pending) : x < s) /\ Arrives(s)
  /\ stream.at = "live" => Arrives(s)

LackingInv == ~resynced => \A s \in owed \ got : lastId < s /\ OnItsWay(s)

DeliveryInv == TableInv /\ RelayInv /\ ServerInv /\ ClientInv /\ LackingInv

LEMMA DeliveryStarts == DeliveryBounds /\ DeliveryInit => DeliveryInv
<1> SUFFICES ASSUME DeliveryBounds, DeliveryInit PROVE DeliveryInv
  OBVIOUS
<1>0. ToSet(<< >>) = {} /\ << >> \in Seq(Int) /\ Ascending(<< >>)
  BY DEF ToSet, Ascending
<1>1. TableInv
  BY DEF DeliveryInit, TableInv, Held, DeliveryBounds, Seqs
<1>2. RelayInv
  BY <1>0 DEF DeliveryInit, RelayInv, Held
<1>3. ServerInv
  BY <1>0 DEF DeliveryInit, ServerInv, Held, NoSub, Off, NoId
<1>4. ClientInv
  <2>1. lastId = NoId /\ owed = {} /\ resynced = FALSE /\ stream.at = "off"
    BY DEF DeliveryInit, Off
  <2>2. NoId # 0
    BY DEF NoId
  <2> QED BY <2>1, <2>2 DEF ClientInv
<1>5. LackingInv
  BY DEF DeliveryInit, LackingInv
<1> QED BY <1>1, <1>2, <1>3, <1>4, <1>5 DEF DeliveryInv

LEMMA InsertKeeps ==
  ASSUME DeliveryBounds, DeliveryInv, NEW s \in Seqs, Insert(s)
  PROVE  DeliveryInv'
<1>1. /\ row' = [row EXCEPT ![s] = "open"] /\ row[s] = "free"
      /\ \A t \in 1..(s - 1) : row[t] # "free"
      /\ UNCHANGED <<published, claimed, owed, relayVars, serverVars, clientVars>>
  BY DEF Insert
<1>2. TableInv
  BY DEF DeliveryInv
<1>3. \A t \in Seqs : row'[t] = IF t = s THEN "open" ELSE row[t]
  BY <1>1, <1>2 DEF TableInv
<1>4. Held' = Held
  BY <1>1, <1>3 DEF Held
<1>5. TableInv'
  <2>1. row' \in [Seqs -> {"free", "open", "committed", "aborted", "purged"}]
    BY <1>1, <1>2 DEF TableInv
  <2>2. \A p, t \in Seqs : t < p /\ row'[p] # "free" => row'[t] # "free"
    <3> SUFFICES ASSUME NEW p \in Seqs, NEW t \in Seqs, t < p, row'[p] # "free", t # s
                 PROVE  row'[t] # "free"
      BY <1>3
    <3>1. CASE p = s
      BY <3>1, <1>1, <1>3 DEF Seqs, DeliveryBounds
    <3>2. CASE p # s
      BY <3>2, <1>2, <1>3 DEF TableInv
    <3> QED BY <3>1, <3>2
  <2>3. \A p, t \in Seqs : t <= p /\ row'[p] = "purged" => row'[t] \in {"aborted", "purged"}
    <3> SUFFICES ASSUME NEW p \in Seqs, NEW t \in Seqs, t <= p, row'[p] = "purged"
                 PROVE  row'[t] \in {"aborted", "purged"}
      OBVIOUS
    <3>1. p # s /\ row[p] = "purged"
      BY <1>3
    <3>2. row[t] \in {"aborted", "purged"}
      BY <3>1, <1>2 DEF TableInv
    <3> QED BY <3>2, <1>1, <1>3
  <2> QED BY <2>1, <2>2, <2>3, <1>1, <1>2, <1>4 DEF TableInv
<1>6. RelayInv' /\ ServerInv' /\ ClientInv'
  BY <1>1, <1>4 DEF DeliveryInv, RelayInv, ServerInv, ClientInv, relayVars, serverVars, clientVars
<1>7. ASSUME NEW t \in Seqs, OnItsWay(t), row[t] \in {"committed", "purged"} PROVE OnItsWay(t)'
  BY <1>1, <1>3, <1>7 DEF OnItsWay, Arrives, Due, relayVars, serverVars
<1>8. LackingInv'
  BY <1>1, <1>7 DEF DeliveryInv, TableInv, Held, LackingInv, clientVars
<1> QED BY <1>5, <1>6, <1>8 DEF DeliveryInv

\* A row whose commit nothing overtook is above every number in use.
LEMMA CommittedIsNew ==
  ASSUME DeliveryBounds, DeliveryInv, NEW s \in Seqs, row[s] = "open",
         \A t \in Seqs : t > s => row[t] \notin {"committed", "purged"}
  PROVE  /\ \A x \in Held \union {0, NoId} : x < s
         /\ s \notin Held
<1>1. s \notin Held
  BY DEF Held
<1>2. \A x \in Held : x < s
  BY <1>1 DEF Held, Seqs, DeliveryBounds
<1> QED BY <1>1, <1>2 DEF Seqs, DeliveryBounds, NoId

LEMMA EndKeeps ==
  ASSUME DeliveryBounds, DeliveryInv, NEW s \in Seqs, NEW how \in {"committed", "aborted"},
         End(s, how)
  PROVE  DeliveryInv'
<1>1. /\ row' = [row EXCEPT ![s] = how] /\ row[s] = "open"
      /\ UNCHANGED <<published, claimed, relayVars, serverVars, clientVars>>
  BY DEF End
<1> DEFINE new == /\ how = "committed" /\ lastId # NoId
                  /\ \A t \in Seqs : t > s => row[t] \notin {"committed", "purged"}
<1>2. owed' = IF new THEN owed \union {s} ELSE owed
  BY DEF End
<1> HIDE DEF new
<1>3. TableInv
  BY DEF DeliveryInv
<1>4. \A t \in Seqs : row'[t] = IF t = s THEN how ELSE row[t]
  BY <1>1, <1>3 DEF TableInv
<1>5. /\ Held' = Held \union (IF how = "committed" THEN {s} ELSE {}) /\ Held \subseteq Held'
      /\ new => s \in Held'
  BY <1>1, <1>4 DEF Held, new
<1>6. TableInv'
  <2>1. row' \in [Seqs -> {"free", "open", "committed", "aborted", "purged"}]
    BY <1>1, <1>3 DEF TableInv
  <2>2. \A p, t \in Seqs : t < p /\ row'[p] # "free" => row'[t] # "free"
    BY <1>1, <1>3, <1>4 DEF TableInv
  <2>3. \A p, t \in Seqs : t <= p /\ row'[p] = "purged" => row'[t] \in {"aborted", "purged"}
    <3> SUFFICES ASSUME NEW p \in Seqs, NEW t \in Seqs, t <= p, row'[p] = "purged"
                 PROVE  row'[t] \in {"aborted", "purged"}
      OBVIOUS
    <3>1. p # s /\ row[p] = "purged"
      BY <1>4
    <3>2. row[t] \in {"aborted", "purged"}
      BY <3>1, <1>3 DEF TableInv
    <3> QED BY <3>2, <1>1, <1>4
  <2>4. owed' \subseteq Held'
    BY <1>2, <1>3, <1>5 DEF TableInv
  <2> QED BY <2>1, <2>2, <2>3, <2>4, <1>1, <1>3, <1>5 DEF TableInv
<1>7. RelayInv'
  BY <1>1, <1>5 DEF DeliveryInv, RelayInv, relayVars
<1>8. ServerInv'
  BY <1>1, <1>5 DEF DeliveryInv, ServerInv, serverVars
<1>9. ClientInv'
  <2>1. lastId = NoId => owed' = {}
    BY <1>2 DEF DeliveryInv, ClientInv, new
  <2> QED BY <2>1, <1>1, <1>5 DEF DeliveryInv, ClientInv, serverVars, clientVars
<1>10. ASSUME NEW t \in Seqs, OnItsWay(t), row[t] \in {"committed", "purged"} PROVE OnItsWay(t)'
  BY <1>1, <1>4, <1>10 DEF OnItsWay, Arrives, Due, relayVars, serverVars
<1>11. ASSUME new PROVE lastId < s /\ OnItsWay(s)'
  <2>1. (\A x \in Held \union {0, NoId} : x < s) /\ s \notin Held
    BY <1>1, <1>11, CommittedIsNew DEF new
  <2>2. row'[s] = "committed"
    BY <1>4, <1>11 DEF new
  <2>3. Due(s)'
    BY <2>1, <2>2, <1>1 DEF DeliveryInv, TableInv, RelayInv, ServerInv, Due, relayVars, serverVars
  <2>4. Arrives(s)'
    BY <2>1, <2>3, <1>1 DEF DeliveryInv, ServerInv, Arrives, serverVars
  <2>5. stream.upto < s
    BY <2>1 DEF DeliveryInv, ServerInv
  <2>6. \A x \in ToSet(stream.pending) : x < s
    BY <2>1 DEF DeliveryInv, ServerInv, Resync
  <2>7. lastId < s
    BY <2>1 DEF DeliveryInv, ClientInv
  <2> QED BY <2>4, <2>5, <2>6, <2>7, <1>1 DEF OnItsWay, serverVars
<1>12. LackingInv'
  BY <1>1, <1>2, <1>10, <1>11 DEF DeliveryInv, TableInv, Held, LackingInv, clientVars
<1> QED BY <1>6, <1>7, <1>8, <1>9, <1>12 DEF DeliveryInv

LEMMA PurgeKeeps ==
  ASSUME DeliveryBounds, DeliveryInv, NEW u \in Seqs, Purge(u)
  PROVE  DeliveryInv'
<1>1. /\ row' = [t \in Seqs |-> IF t <= u /\ row[t] = "committed" THEN "purged" ELSE row[t]]
      /\ u \in published /\ \A t \in 1..u : row[t] # "open"
      /\ \A t \in Committed : t <= u => t \in published
      /\ stream.at # "read"
      /\ UNCHANGED <<published, claimed, owed, relayVars, serverVars, clientVars>>
  BY DEF Purge
<1>2. TableInv
  BY DEF DeliveryInv
<1>3. \A t \in Seqs : row'[t] = IF t <= u /\ row[t] = "committed" THEN "purged" ELSE row[t]
  BY <1>1
<1>4. Held' = Held
  BY <1>3 DEF Held
<1>5. TableInv'
  <2>1. row' \in [Seqs -> {"free", "open", "committed", "aborted", "purged"}]
    BY <1>1, <1>2 DEF TableInv
  <2>2. \A p, t \in Seqs : t < p /\ row'[p] # "free" => row'[t] # "free"
    <3> SUFFICES ASSUME NEW p \in Seqs, NEW t \in Seqs, t < p, row'[p] # "free"
                 PROVE  row'[t] # "free"
      OBVIOUS
    <3>1. row[p] # "free"
      BY <1>3
    <3>2. row[t] # "free"
      BY <3>1, <1>2 DEF TableInv
    <3> QED BY <3>2, <1>3
  <2>3. \A p, t \in Seqs : t <= p /\ row'[p] = "purged" => row'[t] \in {"aborted", "purged"}
    <3> SUFFICES ASSUME NEW p \in Seqs, NEW t \in Seqs, t <= p, row'[p] = "purged"
                 PROVE  row'[t] \in {"aborted", "purged"}
      OBVIOUS
    <3>1. CASE row[p] = "purged"
      <4>1. row[t] \in {"aborted", "purged"}
        BY <3>1, <1>2 DEF TableInv
      <4> QED BY <4>1, <1>3
    <3>2. CASE row[p] # "purged"
      <4>1. p <= u /\ t <= u
        BY <3>2, <1>3 DEF Seqs, DeliveryBounds
      <4>2. row[u] # "free" /\ row[t] # "open"
        BY <4>1, <1>1, <1>2 DEF TableInv, Held, Seqs, DeliveryBounds
      <4>3. row[t] # "free"
        BY <4>1, <4>2, <1>2 DEF TableInv, Seqs, DeliveryBounds
      <4>4. row[t] \in {"committed", "aborted", "purged"}
        BY <4>2, <4>3, <1>2 DEF TableInv
      <4> QED BY <4>1, <4>4, <1>3
    <3> QED BY <3>1, <3>2
  <2> QED BY <2>1, <2>2, <2>3, <1>1, <1>2, <1>4 DEF TableInv
<1>6. RelayInv' /\ ServerInv' /\ ClientInv'
  BY <1>1, <1>4 DEF DeliveryInv, RelayInv, ServerInv, ClientInv, relayVars, serverVars, clientVars
<1>7. ASSUME NEW t \in Seqs, Due(t) PROVE Due(t)'
  <2>1. row'[t] = "committed"
    BY <1>1, <1>3, <1>7 DEF Due, Committed
  <2> QED BY <2>1, <1>1, <1>7 DEF Due, relayVars, serverVars
<1>8. ASSUME NEW t \in Seqs, OnItsWay(t) PROVE OnItsWay(t)'
  BY <1>1, <1>7, <1>8 DEF OnItsWay, Arrives, serverVars
<1>9. LackingInv'
  BY <1>1, <1>8 DEF DeliveryInv, TableInv, Held, LackingInv, clientVars
<1> QED BY <1>5, <1>6, <1>9 DEF DeliveryInv

LEMMA CommittedIsFinite ==
  ASSUME DeliveryBounds, NEW S \in SUBSET Seqs
  PROVE  IsFiniteSet(S) /\ S \subseteq Int
<1>1. IsFiniteSet(Seqs) /\ Seqs \subseteq Int
  BY FS_Interval DEF DeliveryBounds, Seqs
<1> QED BY <1>1, FS_Subset

LEMMA ClaimBatchKeeps ==
  ASSUME DeliveryBounds, DeliveryInv, ClaimBatch
  PROVE  DeliveryInv'
<1> DEFINE free == Committed \ (published \union claimed)
           k == IF Cardinality(free) < BatchSize THEN Cardinality(free) ELSE BatchSize
<1>1. /\ batch = << >> /\ batch' = SubSeq(Sorted(free), 1, k) /\ marking' = FALSE
      /\ claimed' = claimed \union ToSet(batch')
      /\ UNCHANGED <<row, published, owed, seen, serverVars, clientVars>>
  BY DEF ClaimBatch
<1>2. IsFiniteSet(free) /\ free \subseteq Int /\ free \subseteq Held
  BY CommittedIsFinite DEF Committed, Held
<1>3. Sorted(free) \in Seq(Int) /\ Ascending(Sorted(free)) /\ ToSet(Sorted(free)) = free
  BY <1>2, SortedAscends
<1>4. Len(Sorted(free)) = Cardinality(free) /\ Cardinality(free) \in Nat
  BY <1>2, <1>3, FS_CardinalityType DEF Sorted
<1>5. k \in 0..Len(Sorted(free))
  BY <1>4 DEF DeliveryBounds
<1> HIDE DEF k
<1>6. /\ batch' \in Seq(Int) /\ Ascending(batch') /\ ToSet(batch') \subseteq free
      /\ \A x \in free : x \in ToSet(batch') \/ \A y \in ToSet(batch') : y < x
  BY <1>1, <1>3, <1>5, AscendingPrefix
<1>7. Held' = Held
  BY <1>1 DEF Held
<1>8. TableInv' /\ RelayInv' /\ ServerInv' /\ ClientInv'
  <2>1. TableInv'
    BY <1>1, <1>2, <1>6, <1>7 DEF DeliveryInv, TableInv
  <2>2. RelayInv'
    BY <1>1, <1>2, <1>6, <1>7 DEF DeliveryInv, RelayInv, Ascending
  <2>3. ServerInv' /\ ClientInv'
    BY <1>1, <1>7 DEF DeliveryInv, ServerInv, ClientInv, serverVars, clientVars
  <2> QED BY <2>1, <2>2, <2>3
<1>9. ASSUME NEW t \in Seqs, Due(t) PROVE Due(t)'
  <2>1. ToSet(batch) = {}
    BY <1>1 DEF ToSet
  <2>2. t \in free
    BY <2>1, <1>9 DEF Due, Committed
  <2>3. t \in ToSet(batch') \/ (t \notin claimed' /\ \A x \in ToSet(batch') : x < t)
    BY <2>1, <2>2, <1>1, <1>6, <1>9 DEF Due
  <2> QED BY <2>3, <1>1, <1>9 DEF Due, serverVars
<1>10. ASSUME NEW t \in Seqs, OnItsWay(t) PROVE OnItsWay(t)'
  BY <1>1, <1>9, <1>10 DEF OnItsWay, Arrives, serverVars
<1>11. LackingInv'
  BY <1>1, <1>10 DEF DeliveryInv, TableInv, Held, LackingInv, clientVars
<1> QED BY <1>8, <1>11 DEF DeliveryInv

LEMMA LeaseKeeps ==
  ASSUME DeliveryBounds, DeliveryInv, NEW s \in Seqs, BatchLeaseRunsOut(s)
  PROVE  DeliveryInv'
<1>1. claimed' = claimed \ {s} /\ UNCHANGED <<row, published, owed, relayVars, serverVars, clientVars>>
  BY DEF BatchLeaseRunsOut
<1>2. Held' = Held
  BY <1>1 DEF Held
<1>3. TableInv' /\ RelayInv' /\ ServerInv' /\ ClientInv'
  BY <1>1, <1>2 DEF DeliveryInv, TableInv, RelayInv, ServerInv, ClientInv, relayVars, serverVars, clientVars
<1>4. ASSUME NEW t \in Seqs, OnItsWay(t) PROVE OnItsWay(t)'
  BY <1>1, <1>4 DEF OnItsWay, Arrives, Due, relayVars, serverVars
<1>5. LackingInv'
  BY <1>1, <1>4 DEF DeliveryInv, TableInv, Held, LackingInv, clientVars
<1> QED BY <1>3, <1>5 DEF DeliveryInv

LEMMA MarkKeeps ==
  ASSUME DeliveryBounds, DeliveryInv, NEW done \in BOOLEAN, MarkHead(done)
  PROVE  DeliveryInv'
<1> DEFINE h == Head(batch)
<1>1. /\ batch # << >> /\ marking /\ marking' = FALSE /\ batch' = Tail(batch)
      /\ published' = IF done THEN published \union {h} ELSE published
      /\ claimed' = IF done THEN claimed \ {h} ELSE claimed
      /\ UNCHANGED <<row, owed, seen, serverVars, clientVars>>
  BY DEF MarkHead
<1>2. Held' = Held
  BY <1>1 DEF Held
<1>3. /\ h \in ToSet(batch) /\ Tail(batch) \in Seq(Int) /\ Ascending(Tail(batch))
      /\ ToSet(batch') = ToSet(batch) \ {h} /\ h \in Held /\ h \in seen
  BY <1>1, AscendingParts DEF DeliveryInv, RelayInv
<1>4. TableInv'
  BY <1>1, <1>2, <1>3 DEF DeliveryInv, TableInv
<1>5. RelayInv'
  BY <1>1, <1>2, <1>3 DEF DeliveryInv, RelayInv, Ascending
<1>6. ServerInv' /\ ClientInv'
  BY <1>1, <1>2 DEF DeliveryInv, ServerInv, ClientInv, serverVars, clientVars
<1>7. ASSUME NEW t \in Seqs, Due(t) PROVE Due(t)'
  BY <1>1, <1>3, <1>7 DEF Due, serverVars
<1>8. ASSUME NEW t \in Seqs, OnItsWay(t) PROVE OnItsWay(t)'
  BY <1>1, <1>7, <1>8 DEF OnItsWay, Arrives, serverVars
<1>9. LackingInv'
  BY <1>1, <1>8 DEF DeliveryInv, TableInv, Held, LackingInv, clientVars
<1> QED BY <1>4, <1>5, <1>6, <1>9 DEF DeliveryInv

\* What the fan-out of the relay's head does to a row still to come: it is
\* that row, and is put into the mailbox; or it comes before.
LEMMA PublishKeeps ==
  ASSUME DeliveryBounds, DeliveryInv, PublishHead
  PROVE  DeliveryInv'
<1> DEFINE h == Head(batch)
           skip == ~sub.listed \/ h <= sub.cursor
           put == ~skip /\ ~Overflows /\ ~closed
<1>1. /\ batch # << >> /\ marking' = TRUE
      /\ IF h \in seen THEN UNCHANGED <<seen, sub, box, closed>>
         ELSE seen' = seen \union {h} /\ FanOut(h)
      /\ UNCHANGED <<tableVars, batch, stream, clientVars>>
  BY DEF PublishHead
<1>2. Held' = Held
  BY <1>1 DEF Held, tableVars
<1>3. /\ h \in ToSet(batch) /\ h \in Held /\ h \in Int
      /\ \A x \in ToSet(batch) : x = h \/ h < x
  BY <1>1, AscendingParts DEF DeliveryInv, RelayInv, Held, Seqs
<1>4. TableInv' /\ RelayInv' /\ ClientInv'
  BY <1>1, <1>2, <1>3 DEF DeliveryInv, TableInv, RelayInv, ClientInv, tableVars, clientVars
<1>5. CASE h \in seen
  <2>1. UNCHANGED <<seen, sub, box, closed>>
    BY <1>1, <1>5
  <2>2. ServerInv'
    BY <1>1, <1>2, <2>1 DEF DeliveryInv, ServerInv
  <2>3. ASSUME NEW t \in Seqs, OnItsWay(t) PROVE OnItsWay(t)'
    BY <1>1, <2>1, <2>3 DEF OnItsWay, Arrives, Due, tableVars
  <2>4. LackingInv'
    BY <1>1, <2>3 DEF DeliveryInv, TableInv, Held, LackingInv, tableVars, clientVars
  <2> QED BY <1>4, <2>2, <2>4 DEF DeliveryInv
<1>6. CASE h \notin seen
  <2>1. /\ seen' = seen \union {h}
        /\ box' = IF put THEN Append(box, h) ELSE box
        /\ closed' = (closed \/ (~skip /\ Overflows))
        /\ sub'.cursor = IF ~skip /\ ~Overflows THEN h ELSE sub.cursor
        /\ ~sub.listed => ~sub'.listed
        /\ sub' \in [listed : BOOLEAN, cursor : Held \union {0, NoId}]
    <3> DEFINE length == Len(box) + IF put THEN 1 ELSE 0
               stays == sub.listed /\ (length < QueueSize \/ length = 0)
               to == IF ~skip /\ ~Overflows THEN h ELSE sub.cursor
    <3>1. seen' = seen \union {h} /\ FanOut(h)
      BY <1>1, <1>6
    <3>2. /\ box' = IF put THEN Append(box, h) ELSE box
          /\ closed' = (closed \/ (~skip /\ Overflows))
          /\ sub' = [listed |-> stays, cursor |-> to]
      BY <3>1 DEF FanOut
    <3>3. stays \in BOOLEAN /\ (~sub.listed => ~stays)
      OBVIOUS
    <3>4. to \in Held \union {0, NoId}
      BY <1>3 DEF DeliveryInv, ServerInv
    <3> HIDE DEF stays, to
    <3>5. sub'.cursor = to /\ sub'.listed = stays /\ sub' \in [listed : BOOLEAN, cursor : Held \union {0, NoId}]
      BY <3>2, <3>3, <3>4
    <3> QED BY <3>1, <3>2, <3>3, <3>5 DEF to
  <2>2. /\ sub.cursor \in Int /\ \A x \in ToSet(box) : x \in Int /\ x <= sub.cursor
        /\ box \in Seq(Int) /\ Ascending(box) /\ ToSet(box) \subseteq Held
    BY DEF DeliveryInv, ServerInv, Held, Seqs, NoId
  <2>3. put => /\ box' \in Seq(Int) /\ Ascending(box') /\ ToSet(box') = ToSet(box) \union {h}
               /\ sub.cursor < h /\ sub'.cursor = h
    BY <2>1, <2>2, <1>3, AscendingAppend
  <2>4. ~put => box' = box
    BY <2>1
  <2>5. sub.cursor <= sub'.cursor
    BY <2>1, <2>2, <1>3
  <2>6. closed' \in BOOLEAN
    BY <2>1
  <2> HIDE DEF put
  <2>7. ServerInv'
    <3>1. \A x \in ToSet(box') : x <= sub'.cursor
      BY <2>1, <2>2, <2>3, <2>4, <2>5, <1>3
    <3>2. box' \in Seq(Int) /\ Ascending(box') /\ ToSet(box') \subseteq Held
      BY <2>2, <2>3, <2>4, <1>3
    <3> QED BY <3>1, <3>2, <2>1, <2>6, <1>1, <1>2 DEF DeliveryInv, ServerInv
  <2>8. ASSUME NEW t \in Seqs, t \in Held, Arrives(t) PROVE Arrives(t)'
    <3>0. stream.sent < t /\ stream' = stream
      BY <2>8, <1>1 DEF Arrives
    <3>1. CASE t \in ToSet(box)
      BY <3>0, <3>1, <2>3, <2>4 DEF Arrives
    <3>2. CASE t \notin ToSet(box) /\ (closed \/ ~sub.listed)
      <4>1. ~put /\ (closed' \/ ~sub'.listed)
        BY <3>2, <2>1 DEF put
      <4> QED BY <3>0, <3>2, <4>1, <2>4, <2>8 DEF Arrives
    <3>3. CASE t \notin ToSet(box) /\ ~closed /\ sub.listed /\ t = h
      <4>1. sub.cursor < t /\ ~skip
        BY <3>3, <2>8, <2>2, <1>3 DEF Arrives, Due
      <4>2. CASE Overflows
        <5>1. ~put /\ closed'
          BY <4>1, <4>2, <2>1 DEF put
        <5> QED BY <3>0, <3>3, <5>1, <2>4, <2>8 DEF Arrives
      <4>3. CASE ~Overflows
        <5>1. put
          BY <3>3, <4>1, <4>3 DEF put
        <5> QED BY <3>0, <3>3, <5>1, <2>3 DEF Arrives
      <4> QED BY <4>2, <4>3
    <3>4. CASE t \notin ToSet(box) /\ ~closed /\ sub.listed /\ t # h
      <4>1. Due(t) /\ \A x \in ToSet(box) : x < t
        BY <3>4, <2>8 DEF Arrives
      <4>2. h < t /\ t \in Int
        BY <3>4, <4>1, <1>3 DEF Due, Seqs
      <4>3. sub'.cursor < t
        BY <4>1, <4>2, <2>1 DEF Due
      <4>4. Due(t)'
        BY <3>4, <4>1, <4>3, <2>1, <1>1 DEF Due, tableVars
      <4>5. \A x \in ToSet(box') : x < t
        BY <4>1, <4>2, <2>3, <2>4
      <4> QED BY <3>0, <4>4, <4>5 DEF Arrives
    <3> QED BY <3>1, <3>2, <3>3, <3>4
  <2>9. ASSUME NEW t \in Seqs, t \in Held, OnItsWay(t) PROVE OnItsWay(t)'
    BY <1>1, <2>8, <2>9 DEF OnItsWay, tableVars
  <2>10. LackingInv'
    BY <1>1, <2>9 DEF DeliveryInv, TableInv, Held, LackingInv, tableVars, clientVars
  <2> QED BY <1>4, <2>7, <2>10 DEF DeliveryInv
<1> QED BY <1>5, <1>6

\* The connection's steps leave the table and the relay alone.
LEMMA StreamFrame ==
  ASSUME DeliveryInv, UNCHANGED <<tableVars, relayVars>>
  PROVE  Held' = Held /\ TableInv' /\ RelayInv'
<1>1. Held' = Held
  BY DEF Held, tableVars
<1> QED BY <1>1 DEF DeliveryInv, TableInv, RelayInv, tableVars, relayVars

LEMMA ConnectKeeps ==
  ASSUME DeliveryBounds, DeliveryInv, Connect
  PROVE  DeliveryInv'
<1>1. /\ stream' = [Off EXCEPT !.at = "replay", !.after = lastId]
      /\ sub' = [listed |-> TRUE, cursor |-> IF lastId = NoId THEN 0 ELSE lastId]
      /\ box' = << >> /\ closed' = FALSE
      /\ UNCHANGED <<tableVars, relayVars, clientVars>>
  BY DEF Connect
<1>2. Held' = Held /\ TableInv' /\ RelayInv'
  BY <1>1, StreamFrame
<1>3. stream' = [at |-> "replay", after |-> lastId, sent |-> 0, upto |-> 0, pending |-> << >>]
  BY <1>1 DEF Off
<1>4. ToSet(<< >>) = {} /\ << >> \in Seq(Int) /\ Ascending(<< >>)
  BY DEF ToSet, Ascending
<1>5. lastId \in Held \union {0, NoId}
  BY DEF DeliveryInv, ClientInv
<1>6. ServerInv'
  <2> DEFINE from == IF lastId = NoId THEN 0 ELSE lastId
  <2>1. from \in Held \union {0, NoId}
    BY <1>5
  <2>2. sub' = [listed |-> TRUE, cursor |-> from]
    BY <1>1
  <2> HIDE DEF from
  <2>3. sub' \in [listed : BOOLEAN, cursor : Held' \union {0, NoId}]
    BY <1>2, <2>1, <2>2
  <2>6. closed' \in BOOLEAN
    BY <1>1
  <2>4. /\ box' \in Seq(Int) /\ Ascending(box') /\ ToSet(box') \subseteq Held'
        /\ \A x \in ToSet(box') : x <= sub'.cursor
    BY <1>1, <1>4
  <2>5. /\ stream' \in [at : {"off", "replay", "read", "sending", "live"},
                        after : Held' \union {0, NoId}, sent : Held' \union {0},
                        upto : Held' \union {0}, pending : Seq(Int)]
        /\ Ascending(stream'.pending) /\ ToSet(stream'.pending) \subseteq Held' \union {Resync}
        /\ stream'.at # "sending"
    BY <1>2, <1>3, <1>4, <1>5
  <2> QED BY <2>3, <2>4, <2>5, <2>6 DEF ServerInv
<1>7. ClientInv'
  BY <1>1, <1>2, <1>3 DEF DeliveryInv, ClientInv, tableVars, clientVars
<1>8. LackingInv'
  BY <1>1, <1>3 DEF DeliveryInv, LackingInv, OnItsWay, tableVars, clientVars
<1> QED BY <1>2, <1>6, <1>7, <1>8 DEF DeliveryInv

LEMMA LargestIs ==
  ASSUME DeliveryBounds
  PROVE  /\ Largest(Committed) \in Committed \union {0}
         /\ \A s \in Committed : s <= Largest(Committed)
<1>1. CASE Committed = {}
  BY <1>1 DEF Largest
<1>2. CASE Committed # {}
  <2> DEFINE q == Sorted(Committed)
             n == Len(q)
  <2>1. q \in Seq(Int) /\ Ascending(q) /\ ToSet(q) = Committed
    BY SortedAscends, CommittedIsFinite DEF Committed
  <2> HIDE DEF q
  <2>2. n \in Nat /\ DOMAIN q = 1..n
    BY <2>1
  <2>3. n # 0
    BY <1>2, <2>1, <2>2 DEF ToSet
  <2>4. q[n] \in Committed /\ \A s \in Committed : s <= q[n]
    BY <2>1, <2>2, <2>3 DEF ToSet, Ascending
  <2> QED BY <1>2, <2>4 DEF Largest
<1> QED BY <1>1, <1>2

\* What the client lacks after its last id is either all readable, or the
\* oldest row of the table tells it that something is gone.
LEMMA BoundsKeeps ==
  ASSUME DeliveryBounds, DeliveryInv, Bounds
  PROVE  DeliveryInv'
<1> DEFINE earliest == IF Committed = {} THEN 0 ELSE CHOOSE s \in Committed : \A t \in Committed : s <= t
           latest == Largest(Committed)
           after == stream.after
           gap == after > latest \/ (after > 0 /\ Committed # {} /\ after < earliest - 1)
<1>1. /\ stream.at = "replay"
      /\ stream' = IF after = NoId THEN [stream EXCEPT !.at = "live"]
                   ELSE IF gap THEN [stream EXCEPT !.at = "sending", !.upto = latest, !.pending = <<Resync>>]
                   ELSE [stream EXCEPT !.at = "read", !.upto = latest]
      /\ UNCHANGED <<tableVars, relayVars, sub, box, closed, clientVars>>
  BY DEF Bounds
<1>2. Held' = Held /\ TableInv' /\ RelayInv'
  BY <1>1, StreamFrame
<1>3. latest \in Held \union {0} /\ \A s \in Committed : s <= latest
  BY LargestIs DEF Held, Committed
<1>4. /\ <<Resync>> \in Seq(Int) /\ Ascending(<<Resync>>) /\ ToSet(<<Resync>>) = {Resync}
      /\ <<Resync>> # << >> /\ Head(<<Resync>>) = Resync
  BY DEF Resync, Ascending, ToSet
<1>5. ASSUME ~gap, after # NoId, ~resynced, NEW t \in owed \ got
      PROVE  row[t] = "committed" /\ t <= latest
  <2>1. /\ after = lastId /\ lastId < t /\ t \in Held /\ after \in Held
    BY <1>1, <1>5 DEF DeliveryInv, ClientInv, LackingInv, TableInv
  <2>2. after \in Nat \ {0} /\ t \in Seqs /\ t \in Nat
    BY <2>1 DEF Held, Seqs, DeliveryBounds
  <2>3. latest \in Nat /\ after <= latest
    BY <1>3, <1>5, <2>2 DEF Held, Seqs, DeliveryBounds
  <2>4. latest \in Committed
    BY <2>2, <2>3, LargestIs
  <2>5. CASE row[t] = "purged"
    <3>1. \A s \in Committed : t < s
      BY <2>5, <2>2 DEF DeliveryInv, TableInv, Committed, Seqs, DeliveryBounds
    <3>2. Committed \in SUBSET Seqs /\ Committed # {}
      BY <2>4 DEF Committed
    <3>3. \E s \in Committed : \A x \in Committed : s <= x
      <4> DEFINE q == Sorted(Committed)
                 n == Len(q)
      <4>1. q \in Seq(Int) /\ Ascending(q) /\ ToSet(q) = Committed
        BY <3>2, SortedAscends, CommittedIsFinite
      <4> HIDE DEF q
      <4>2. n \in Nat /\ DOMAIN q = 1..n
        BY <4>1
      <4>3. n # 0
        BY <3>2, <4>1, <4>2 DEF ToSet
      <4>4. q[1] \in Committed /\ \A s \in Committed : q[1] <= s
        BY <4>1, <4>2, <4>3 DEF ToSet, Ascending
      <4> QED BY <4>4
    <3>4. earliest \in Committed
      BY <3>2, <3>3
    <3>5. t < earliest /\ earliest \in Nat
      BY <3>1, <3>4 DEF Committed, Seqs, DeliveryBounds
    <3>6. after < earliest - 1
      BY <3>5, <2>1, <2>2
    <3> QED BY <3>6, <3>2, <2>2, <1>5
  <2>6. CASE row[t] # "purged"
    BY <2>1, <2>6, <1>3 DEF Held, Committed
  <2> QED BY <2>5, <2>6
<1> HIDE DEF earliest, latest, gap
<1>6. ServerInv' /\ ClientInv'
  <2>1. /\ stream' \in [at : {"off", "replay", "read", "sending", "live"},
                        after : Held \union {0, NoId}, sent : Held \union {0},
                        upto : Held \union {0}, pending : Seq(Int)]
        /\ stream'.after = after /\ stream'.pending \in {stream.pending, <<Resync>>}
        /\ stream'.at = "sending" => stream'.pending = <<Resync>>
    BY <1>1, <1>3, <1>4 DEF DeliveryInv, ServerInv
  <2>2. ServerInv'
    BY <1>1, <1>2, <1>4, <2>1 DEF DeliveryInv, ServerInv
  <2>3. ClientInv'
    BY <1>1, <1>2, <2>1 DEF DeliveryInv, ClientInv, tableVars, clientVars
  <2> QED BY <2>2, <2>3
<1>7. LackingInv'
  <2> SUFFICES ASSUME ~resynced, NEW t \in owed \ got PROVE lastId < t /\ OnItsWay(t)'
    BY <1>1 DEF LackingInv, tableVars, clientVars
  <2>0. lastId < t
    BY DEF DeliveryInv, LackingInv
  <2>1. CASE after = NoId
    BY <2>1, <1>1 DEF DeliveryInv, ClientInv
  <2>2. CASE after # NoId /\ gap
    <3>1. stream'.at = "sending" /\ Head(stream'.pending) = Resync
      BY <2>2, <1>1, <1>4 DEF DeliveryInv, ServerInv
    <3> QED BY <2>0, <3>1 DEF OnItsWay
  <2>3. CASE after # NoId /\ ~gap
    <3>1. stream'.at = "read" /\ stream'.upto = latest
      BY <2>3, <1>1 DEF DeliveryInv, ServerInv
    <3>2. row'[t] = "committed" /\ t <= latest
      BY <2>3, <1>1, <1>5 DEF tableVars
    <3> QED BY <2>0, <3>1, <3>2 DEF OnItsWay
  <2> QED BY <2>1, <2>2, <2>3
<1> QED BY <1>2, <1>6, <1>7 DEF DeliveryInv

LEMMA ReadKeeps ==
  ASSUME DeliveryBounds, DeliveryInv, ReadRows
  PROVE  DeliveryInv'
<1> DEFINE rows == {s \in Committed : stream.after < s /\ s <= stream.upto}
           to == IF rows = {} THEN "live" ELSE "sending"
<1>1. /\ stream.at = "read"
      /\ stream' = [stream EXCEPT !.at = to, !.pending = Sorted(rows)]
      /\ UNCHANGED <<tableVars, relayVars, sub, box, closed, clientVars>>
  BY DEF ReadRows
<1>2. Held' = Held /\ TableInv' /\ RelayInv'
  BY <1>1, StreamFrame
<1>3. rows \in SUBSET Seqs /\ rows \subseteq Held
  BY DEF Committed, Held
<1>4. Sorted(rows) \in Seq(Int) /\ Ascending(Sorted(rows)) /\ ToSet(Sorted(rows)) = rows
  BY <1>3, SortedAscends, CommittedIsFinite
<1>5. rows # {} => Sorted(rows) # << >>
  BY <1>4 DEF ToSet
<1>6. ASSUME ~resynced, NEW t \in owed \ got
      PROVE  t \in rows \/ ((\A x \in rows : x < t) /\ Arrives(t))
  <2>1. stream.after < t /\ OnItsWay(t) /\ t \in Seqs
    BY <1>1, <1>6 DEF DeliveryInv, ClientInv, LackingInv, TableInv, Held
  <2>2. CASE row[t] = "committed" /\ t <= stream.upto
    BY <2>1, <2>2 DEF Committed
  <2>3. CASE stream.upto < t /\ Arrives(t)
    <3>1. stream.upto \in Int /\ t \in Int /\ \A x \in rows : x \in Int
      BY <1>3, <2>1 DEF DeliveryInv, ServerInv, Held, Seqs
    <3>2. \A x \in rows : x < t
      BY <2>3, <3>1
    <3> QED BY <2>3, <3>2
  <2> QED BY <2>1, <2>2, <2>3, <1>1 DEF OnItsWay
<1> HIDE DEF rows
<1>7. /\ stream' \in [at : {"off", "replay", "read", "sending", "live"},
                      after : Held \union {0, NoId}, sent : Held \union {0},
                      upto : Held \union {0}, pending : Seq(Int)]
      /\ stream'.at = to /\ stream'.pending = Sorted(rows) /\ stream'.sent = stream.sent
  BY <1>1, <1>4 DEF DeliveryInv, ServerInv
<1>8. ServerInv'
  BY <1>1, <1>2, <1>3, <1>4, <1>5, <1>7 DEF DeliveryInv, ServerInv
<1>9. ClientInv'
  BY <1>1, <1>2, <1>7 DEF DeliveryInv, ClientInv, tableVars, clientVars
<1>10. ASSUME NEW t \in Seqs, Arrives(t) PROVE Arrives(t)'
  BY <1>1, <1>7, <1>10 DEF Arrives, Due, tableVars, relayVars
<1>11. LackingInv'
  <2> SUFFICES ASSUME ~resynced, NEW t \in owed \ got PROVE lastId < t /\ OnItsWay(t)'
    BY <1>1 DEF LackingInv, tableVars, clientVars
  <2>1. lastId < t /\ t \in Seqs
    BY DEF DeliveryInv, LackingInv, TableInv, Held
  <2>2. CASE rows = {}
    BY <2>1, <2>2, <1>6, <1>7, <1>10 DEF OnItsWay
  <2>3. CASE rows # {}
    BY <2>1, <2>3, <1>4, <1>6, <1>7, <1>10 DEF OnItsWay
  <2> QED BY <2>2, <2>3
<1> QED BY <1>2, <1>8, <1>9, <1>11 DEF DeliveryInv

LEMMA QueryKeeps ==
  ASSUME DeliveryBounds, DeliveryInv, QueryFails
  PROVE  DeliveryInv'
<1>1. /\ stream.at = "read" /\ stream' = [stream EXCEPT !.at = "replay"]
      /\ UNCHANGED <<tableVars, relayVars, sub, box, closed, clientVars>>
  BY DEF QueryFails
<1>2. Held' = Held /\ TableInv' /\ RelayInv'
  BY <1>1, StreamFrame
<1>3. ServerInv'
  BY <1>1, <1>2 DEF DeliveryInv, ServerInv
<1>4. ClientInv'
  BY <1>1, <1>2 DEF DeliveryInv, ServerInv, ClientInv, tableVars, clientVars
<1>5. stream'.at = "replay"
  BY <1>1 DEF DeliveryInv, ServerInv
<1>6. LackingInv'
  BY <1>1, <1>5 DEF DeliveryInv, LackingInv, OnItsWay, tableVars, clientVars
<1> QED BY <1>2, <1>3, <1>4, <1>6 DEF DeliveryInv

LEMMA ReplayedKeeps ==
  ASSUME DeliveryBounds, DeliveryInv, SendReplayed
  PROVE  DeliveryInv'
<1> DEFINE h == Head(stream.pending)
           mark == IF h = Resync THEN stream.upto ELSE h
           rest == Tail(stream.pending)
           to == IF rest # << >> THEN "sending" ELSE IF mark = 0 THEN "replay" ELSE "live"
<1>1. /\ stream.at = "sending"
      /\ stream' = [stream EXCEPT !.pending = rest, !.sent = mark, !.at = to]
      /\ lastId' = mark
      /\ IF h = Resync THEN resynced' = TRUE /\ UNCHANGED got
         ELSE got' = got \union {h} /\ UNCHANGED resynced
      /\ UNCHANGED <<tableVars, relayVars, sub, box, closed>>
  BY DEF SendReplayed, Received
<1>2. Held' = Held /\ TableInv' /\ RelayInv'
  BY <1>1, StreamFrame
<1>3. /\ h \in ToSet(stream.pending) /\ rest \in Seq(Int) /\ Ascending(rest)
      /\ ToSet(rest) = ToSet(stream.pending) \ {h} /\ \A x \in ToSet(rest) : h < x
  BY <1>1, AscendingParts DEF DeliveryInv, ServerInv
<1>4. h \in Held \union {Resync} /\ mark \in Held \union {0}
  BY <1>3 DEF DeliveryInv, ServerInv
<1> HIDE DEF mark
<1>5. /\ stream' \in [at : {"off", "replay", "read", "sending", "live"},
                      after : Held \union {0, NoId}, sent : Held \union {0},
                      upto : Held \union {0}, pending : Seq(Int)]
      /\ stream'.at = to /\ stream'.pending = rest /\ stream'.sent = mark
  BY <1>1, <1>3, <1>4 DEF DeliveryInv, ServerInv
<1>6. ServerInv'
  BY <1>1, <1>2, <1>3, <1>5 DEF DeliveryInv, ServerInv
<1>7. \A x \in Held : x \in Nat \ {0}
  BY DEF Held, Seqs, DeliveryBounds
<1>8. CASE h = Resync
  <2>1. resynced' = TRUE
    BY <1>1, <1>8
  <2>2. lastId' \in (Held \union {0, NoId})' /\ lastId' # NoId
    BY <1>1, <1>2, <1>4, <1>7 DEF NoId
  <2> QED BY <1>2, <1>6, <2>1, <2>2 DEF DeliveryInv, ClientInv, LackingInv
<1>9. CASE h # Resync
  <2>1. mark = h /\ h \in Held /\ h \in Nat \ {0} /\ lastId' = h
    BY <1>1, <1>4, <1>7, <1>9 DEF mark
  <2>2. stream'.at \in {"sending", "live"} /\ (stream'.at = "sending" <=> rest # << >>)
    BY <1>5, <2>1
  <2>3. ClientInv'
    BY <1>1, <1>2, <1>9, <2>1, <2>2 DEF DeliveryInv, ClientInv, NoId, tableVars
  <2>4. ASSUME ~resynced, NEW t \in owed \ got, t # h PROVE h < t /\ OnItsWay(t)'
    <3>1. t \in ToSet(stream.pending) \/ ((\A x \in ToSet(stream.pending) : x < t) /\ Arrives(t))
      BY <1>1, <1>9, <2>4 DEF DeliveryInv, LackingInv, OnItsWay
    <3>2. CASE t \in ToSet(stream.pending)
      <4>1. t \in ToSet(rest) /\ h < t
        BY <3>2, <1>3, <2>4
      <4>2. rest # << >>
        BY <4>1 DEF ToSet
      <4> QED BY <4>1, <4>2, <1>5, <2>2 DEF OnItsWay
    <3>3. CASE (\A x \in ToSet(stream.pending) : x < t) /\ Arrives(t)
      <4>1. h < t /\ \A x \in ToSet(rest) : x < t
        BY <3>3, <1>3
      <4>2. Arrives(t)'
        BY <3>3, <4>1, <1>1, <1>5, <2>1 DEF Arrives, Due, tableVars, relayVars
      <4> QED BY <4>1, <4>2, <1>5, <2>2 DEF OnItsWay
    <3> QED BY <3>1, <3>2, <3>3
  <2>5. LackingInv'
    BY <1>1, <1>9, <2>1, <2>4 DEF LackingInv, tableVars
  <2> QED BY <1>2, <1>6, <2>3, <2>5 DEF DeliveryInv
<1> QED BY <1>8, <1>9

LEMMA LiveKeeps ==
  ASSUME DeliveryBounds, DeliveryInv, SendLive
  PROVE  DeliveryInv'
<1> DEFINE h == Head(box)
<1>1. /\ stream.at = "live" /\ box # << >> /\ box' = Tail(box)
      /\ stream' = [stream EXCEPT !.sent = h]
      /\ IF h <= stream.sent THEN UNCHANGED clientVars
         ELSE lastId' = h /\ got' = got \union {h} /\ UNCHANGED resynced
      /\ UNCHANGED <<tableVars, relayVars, sub, closed>>
  BY DEF SendLive, Received
<1>2. Held' = Held /\ TableInv' /\ RelayInv'
  BY <1>1, StreamFrame
<1>3. /\ h \in ToSet(box) /\ box' \in Seq(Int) /\ Ascending(box')
      /\ ToSet(box') = ToSet(box) \ {h} /\ \A x \in ToSet(box') : h < x
  BY <1>1, AscendingParts DEF DeliveryInv, ServerInv
<1>4. h \in Held /\ h \in Nat \ {0}
  BY <1>3 DEF DeliveryInv, ServerInv, Held, Seqs, DeliveryBounds
<1>5. /\ stream' \in [at : {"off", "replay", "read", "sending", "live"},
                      after : Held \union {0, NoId}, sent : Held \union {0},
                      upto : Held \union {0}, pending : Seq(Int)]
      /\ stream'.at = "live" /\ stream'.pending = stream.pending /\ stream'.sent = h
  BY <1>1, <1>4 DEF DeliveryInv, ServerInv
<1>6. ServerInv'
  BY <1>1, <1>2, <1>3, <1>5 DEF DeliveryInv, ServerInv
<1>7. ClientInv'
  BY <1>1, <1>2, <1>4, <1>5 DEF DeliveryInv, ClientInv, NoId, tableVars, clientVars
<1>8. ASSUME ~resynced, NEW t \in owed \ got, t \notin got' PROVE lastId' < t /\ OnItsWay(t)'
  <2>1. lastId < t /\ Arrives(t) /\ t \in Seqs
    BY <1>1, <1>8 DEF DeliveryInv, LackingInv, OnItsWay, TableInv, Held
  <2>2. t # h
    BY <1>1, <1>4, <1>8, <2>1 DEF Arrives, DeliveryInv, ServerInv, Held, Seqs
  <2>3. h < t
    BY <1>3, <2>1, <2>2 DEF Arrives
  <2>4. lastId' < t
    BY <1>1, <2>1, <2>3 DEF clientVars
  <2>5. Arrives(t)'
    BY <1>1, <1>3, <1>5, <2>1, <2>2, <2>3 DEF Arrives, Due, tableVars, relayVars
  <2> QED BY <2>4, <2>5, <1>5 DEF OnItsWay
<1>9. got \subseteq got' /\ resynced' = resynced
  BY <1>1 DEF clientVars
<1>10. LackingInv'
  BY <1>1, <1>8, <1>9 DEF LackingInv, tableVars
<1> QED BY <1>2, <1>6, <1>7, <1>10 DEF DeliveryInv

\* The connection ends, by itself, by a drop, or with the process.
LEMMA HangupKeeps ==
  ASSUME DeliveryBounds, DeliveryInv, StreamEnds \/ Drop \/ ServerRestarts
  PROVE  DeliveryInv'
<1>1. /\ Hangup /\ UNCHANGED <<tableVars, clientVars>>
      /\ \/ UNCHANGED relayVars
         \/ batch' = << >> /\ marking' = FALSE /\ seen' = {}
  BY DEF StreamEnds, Drop, ServerRestarts
<1>2. Held' = Held
  BY <1>1 DEF Held, tableVars
<1>3. ToSet(<< >>) = {} /\ << >> \in Seq(Int) /\ Ascending(<< >>)
  BY DEF ToSet, Ascending
<1>4. TableInv' /\ RelayInv'
  <2>1. TableInv'
    BY <1>1, <1>2 DEF DeliveryInv, TableInv, tableVars
  <2>2. CASE UNCHANGED relayVars
    BY <1>1, <2>2, StreamFrame
  <2>3. CASE batch' = << >> /\ marking' = FALSE /\ seen' = {}
    <3>1. ToSet(batch') = {} /\ batch' \in Seq(Int) /\ Ascending(batch')
      BY <1>3, <2>3
    <3>2. seen' \subseteq Held' /\ ToSet(batch') \subseteq Held'
      BY <2>3, <3>1
    <3>3. marking' \in BOOLEAN /\ (marking' => batch' # << >> /\ Head(batch') \in seen')
      BY <2>3
    <3> QED BY <2>1, <3>1, <3>2, <3>3 DEF RelayInv
  <2> QED BY <1>1, <2>1, <2>2, <2>3
<1>5. /\ stream' = [at |-> "off", after |-> NoId, sent |-> 0, upto |-> 0, pending |-> << >>]
      /\ sub' = [listed |-> FALSE, cursor |-> 0] /\ box' = << >> /\ closed' = FALSE
  BY <1>1 DEF Hangup, Off, NoSub
<1>6. ServerInv'
  BY <1>2, <1>3, <1>5 DEF ServerInv
<1>7. ClientInv'
  BY <1>1, <1>2, <1>5 DEF DeliveryInv, ClientInv, tableVars, clientVars
<1>8. LackingInv'
  BY <1>1, <1>5 DEF DeliveryInv, LackingInv, OnItsWay, tableVars, clientVars
<1> QED BY <1>4, <1>6, <1>7, <1>8 DEF DeliveryInv

LEMMA DeliveryKept ==
  ASSUME DeliveryBounds
  PROVE  DeliveryInv /\ [DeliveryNext]_deliveryVars => DeliveryInv'
<1> SUFFICES ASSUME DeliveryInv, [DeliveryNext]_deliveryVars PROVE DeliveryInv'
  OBVIOUS
<1>1. CASE StreamStep
  BY <1>1, ConnectKeeps, BoundsKeeps, ReadKeeps, ReplayedKeeps, LiveKeeps, HangupKeeps DEF StreamStep
<1>2. CASE RelayStep
  BY <1>2, ClaimBatchKeeps, PublishKeeps, MarkKeeps DEF RelayStep
<1>3. CASE QueryFails \/ Drop \/ ServerRestarts
  BY <1>3, QueryKeeps, HangupKeeps
<1>4. ASSUME NEW s \in Seqs,
             Insert(s) \/ End(s, "committed") \/ End(s, "aborted") \/ BatchLeaseRunsOut(s) \/ Purge(s)
      PROVE  DeliveryInv'
  BY <1>4, InsertKeeps, EndKeeps, LeaseKeeps, PurgeKeeps
<1>5. CASE UNCHANGED deliveryVars
  BY <1>5 DEF deliveryVars, tableVars, relayVars, serverVars, clientVars, DeliveryInv, TableInv,
       RelayInv, ServerInv, ClientInv, LackingInv, Held, OnItsWay, Arrives, Due
<1> QED BY <1>1, <1>2, <1>3, <1>4, <1>5 DEF DeliveryNext

\* The client never jumps over an event that was committed after its first one
\* and that nothing had overtaken then: it has it, or it was told to resync
\* (durable_replay, fan_out, the stream's last_sent), for any number of events,
\* batch and mailbox sizes, drops, restarts, purges and failures.
THEOREM NoEventIsJumped == DeliveryBounds /\ DeliverySpec => []NothingJumpedOver
<1>1. DeliveryBounds /\ DeliveryInv => NothingJumpedOver
  <2> SUFFICES ASSUME DeliveryBounds, DeliveryInv, NEW s \in owed, s <= lastId
               PROVE  s \in got \/ resynced
    BY DEF NothingJumpedOver
  <2>1. s \in Int /\ lastId \in Int
    BY DEF DeliveryInv, TableInv, ClientInv, Held, Seqs, NoId
  <2> QED BY <2>1 DEF DeliveryInv, LackingInv
<1> SUFFICES ASSUME DeliveryBounds PROVE DeliverySpec => []NothingJumpedOver
  OBVIOUS
<1> QED BY <1>1, DeliveryStarts, DeliveryKept, PTL DEF DeliverySpec

(***************************************************************************)
(* ClickHouseWriter: batches, filter and spool                             *)
(***************************************************************************)

WriterSpec == WriterInit /\ [][WriterNext]_writerVars

WriterBounds ==
  /\ IsFiniteSet(Rows) /\ MaxKeys \in Nat /\ SpoolCap \in Nat
  /\ \A r \in Rows : TableOf(r) \in Tables

LEMMA SetToSeqHolds ==
  ASSUME NEW S, IsFiniteSet(S)
  PROVE  SetToSeq(S) \in Seq(S) /\ ToSet(SetToSeq(S)) = S /\ Len(SetToSeq(S)) = Cardinality(S)
<1> DEFINE n == Cardinality(S)
           q == SetToSeq(S)
<1>1. n \in Nat /\ ExistsBijection(1..n, S)
  BY FS_CardinalityType
<1>2. \E f \in [1..n -> S] : IsInjective(f)
  BY <1>1 DEF ExistsBijection, Bijection, Injection
<1>3. q \in [1..n -> S] /\ IsInjective(q)
  BY <1>2 DEF SetToSeq
<1>4. q \in Injection(1..n, S)
  BY <1>3 DEF Injection
<1>5. IsFiniteSet(1..n) /\ Cardinality(1..n) = n
  BY <1>1, FS_Interval
<1>6. q \in Surjection(1..n, S)
  BY <1>4, <1>5, FS_Injection
<1> HIDE DEF q, n
<1>7. q \in Seq(S) /\ Len(q) = n /\ DOMAIN q = 1..n
  BY <1>1, <1>3
<1>8. ToSet(q) = S
  BY <1>3, <1>6, <1>7 DEF ToSet, Surjection
<1> QED BY <1>7, <1>8 DEF q, n

LEMMA ConcatHolds ==
  ASSUME NEW S, NEW a \in Seq(S), NEW b \in Seq(S)
  PROVE  a \o b \in Seq(S) /\ ToSet(a \o b) = ToSet(a) \union ToSet(b)
<1>1. /\ Len(a) \in Nat /\ Len(b) \in Nat /\ DOMAIN a = 1..Len(a) /\ DOMAIN b = 1..Len(b)
      /\ a \o b \in Seq(S) /\ Len(a \o b) = Len(a) + Len(b) /\ DOMAIN (a \o b) = 1..(Len(a) + Len(b))
      /\ \A i \in 1..(Len(a) + Len(b)) : (a \o b)[i] = IF i <= Len(a) THEN a[i] ELSE b[i - Len(a)]
  BY ConcatProperties
<1> DEFINE c == a \o b
<1> HIDE DEF c
<1>2. ToSet(c) \subseteq ToSet(a) \union ToSet(b)
  <2> SUFFICES ASSUME NEW i \in 1..(Len(a) + Len(b)) PROVE c[i] \in ToSet(a) \union ToSet(b)
    BY <1>1 DEF ToSet, c
  <2>1. CASE i <= Len(a)
    BY <1>1, <2>1 DEF ToSet, c
  <2>2. CASE i > Len(a)
    <3>1. i - Len(a) \in 1..Len(b) /\ c[i] = b[i - Len(a)]
      BY <1>1, <2>2 DEF c
    <3> QED BY <3>1, <1>1 DEF ToSet
  <2> QED BY <2>1, <2>2, <1>1
<1>3. ToSet(a) \subseteq ToSet(c)
  BY <1>1 DEF ToSet, c
<1>4. ToSet(b) \subseteq ToSet(c)
  <2> SUFFICES ASSUME NEW i \in 1..Len(b) PROVE b[i] \in ToSet(c)
    BY <1>1 DEF ToSet
  <2>1. i + Len(a) \in 1..(Len(a) + Len(b)) /\ c[i + Len(a)] = b[i]
    BY <1>1 DEF c
  <2> QED BY <2>1, <1>1 DEF ToSet, c
<1> QED BY <1>1, <1>2, <1>3, <1>4 DEF c

LEMMA SubSeqIs ==
  ASSUME NEW S, NEW a \in Seq(S), NEW m \in Nat \ {0}, NEW n \in Nat, n <= Len(a)
  PROVE  SubSeq(a, m, n) \in Seq(S)
<1>1. Len(a) \in Nat /\ \A i \in 1..Len(a) : a[i] \in S
  OBVIOUS
<1>2. \A i \in m..n : a[i] \in S
  BY <1>1
<1> QED BY <1>2, SubSeqProperties

LEMMA MarkedKeys ==
  ASSUME WriterBounds, NEW keys \in Seq(Rows), NEW new \in SUBSET Rows
  PROVE  Marked(keys, new) \in Seq(Rows)
<1> DEFINE more == new \ ToSet(keys)
           all == keys \o SetToSeq(more)
           m == IF Len(all) > MaxKeys THEN Len(all) - MaxKeys + 1 ELSE 1
<1>1. IsFiniteSet(more) /\ more \subseteq Rows
  BY FS_Subset DEF WriterBounds
<1>2. SetToSeq(more) \in Seq(Rows)
  BY <1>1, SetToSeqHolds, SeqMonotonic
<1>3. all \in Seq(Rows) /\ Len(all) \in Nat
  BY <1>2
<1> HIDE DEF all
<1>4. m \in Nat \ {0}
  BY <1>3 DEF WriterBounds
<1> HIDE DEF m
<1>5. SubSeq(all, m, Len(all)) \in Seq(Rows)
  BY <1>3, <1>4, SubSeqIs
<1> QED BY <1>5 DEF Marked, all, m, more

\* How the rows of a flush or a replay stand.
WriterWork ==
  /\ work \in [tables : SUBSET Tables, rows : SUBSET Rows, failed : SUBSET Rows,
               at : {"none", "insert", "end"}]
  /\ work.failed \subseteq work.rows
  /\ \A r \in work.failed : TableOf(r) \notin work.tables
  /\ \A r \in work.rows : TableOf(r) \in work.tables \/ r \in work.failed \/ stored[r] > 0
  /\ work.at = "none" => work.rows = {}
  /\ work.at = "end" => work.tables = {}

WriterTypes ==
  /\ up \in {"down", "replay", "run"} /\ torn \in BOOLEAN
  /\ mem \subseteq Rows /\ dedup \in Seq(Rows) /\ spool \in Seq(Rows)
  /\ stored \in [Rows -> Nat]
  /\ taken \subseteq Rows /\ lost \subseteq Rows /\ again \subseteq Rows

\* The buffer is empty while a batch is written, and the replay writes the spool.
Stages ==
  /\ work.at # "none" => mem = {}
  /\ up = "down" => mem = {} /\ work.at = "none" /\ dedup = << >>
  /\ up = "replay" => mem = {} /\ work.at # "none" /\ work.rows = ToSet(spool)

RowKept(r) == r \in mem \union work.rows \union ToSet(spool) \union lost \/ stored[r] > 0

\* A row that is stored, and for which nothing excuses a second time, is stored
\* once, known to the filter, and nowhere where it could be written from.
Once(r) == stored[r] > 0 /\ r \notin again =>
  /\ stored[r] = 1 /\ r \in ToSet(dedup) /\ r \notin mem /\ r \notin work.failed
  /\ up = "run" => r \notin ToSet(spool)
  /\ r \in work.rows => TableOf(r) \notin work.tables

\* What may still be written is known to the filter, and not written twice.
Known ==
  /\ mem \union work.rows \subseteq ToSet(dedup) \union again
  /\ up = "run" => /\ ToSet(spool) \subseteq ToSet(dedup) \union again
                   /\ (mem \union work.rows) \intersect ToSet(spool) \subseteq again

WriterInv ==
  /\ WriterTypes /\ WriterWork /\ Stages /\ Known
  /\ \A r \in taken : RowKept(r)
  /\ \A r \in Rows : Once(r)

LEMMA WriterStarts == WriterInit => WriterInv
<1> SUFFICES ASSUME WriterInit PROVE WriterInv
  OBVIOUS
<1>0. ToSet(<< >>) = {}
  BY DEF ToSet
<1>1. WriterTypes
  <2>1. /\ up = "down" /\ torn = FALSE /\ mem = {} /\ dedup = << >> /\ spool = << >>
        /\ taken = {} /\ lost = {} /\ again = {} /\ stored = [r \in Rows |-> 0]
    BY DEF WriterInit
  <2>2. << >> \in Seq(Rows) /\ [r \in Rows |-> 0] \in [Rows -> Nat] /\ FALSE \in BOOLEAN
    OBVIOUS
  <2> QED BY <2>1, <2>2 DEF WriterTypes
<1>2. WriterWork
  BY DEF WriterInit, WriterWork, NoWork
<1>3. Stages /\ Known
  BY <1>0 DEF WriterInit, Stages, Known, NoWork
<1>4. (\A r \in taken : RowKept(r)) /\ \A r \in Rows : Once(r)
  BY DEF WriterInit, RowKept, Once
<1> QED BY <1>1, <1>2, <1>3, <1>4 DEF WriterInv

LEMMA RunStartsKeeps == ASSUME WriterBounds, WriterInv, RunStarts PROVE WriterInv'
<1> USE DEF WriterInv, WriterTypes
<1> DEFINE lines == ToSet(spool)
<1>1. up = "down" /\ UNCHANGED <<mem, spool, torn, stored, taken, lost>>
  BY DEF RunStarts
<1>2. /\ mem = {} /\ work.at = "none" /\ work.rows = {} /\ work.failed = {} /\ ToSet(dedup) = {}
      /\ \A r \in Rows : stored[r] > 0 => r \in again
  BY <1>1 DEF Stages, WriterWork, Once, ToSet
<1>3. lines \in SUBSET Rows
  BY DEF ToSet
<1>4. CASE lines = {}
  <2>1. up' = "run" /\ UNCHANGED <<work, dedup, again>>
    BY <1>4 DEF RunStarts
  <2>2. WriterWork' /\ Stages'
    BY <1>1, <1>2, <2>1 DEF WriterWork, Stages
  <2>3. Known'
    BY <1>1, <1>2, <1>4, <2>1 DEF Known
  <2>4. \A r \in Rows : Once(r)'
    BY <1>1, <1>2, <2>1 DEF Once
  <2>5. \A r \in taken' : RowKept(r)'
    BY <1>1, <2>1 DEF RowKept
  <2>6. WriterTypes'
    BY <1>1, <2>1
  <2> QED BY <2>2, <2>3, <2>4, <2>5, <2>6
<1>5. CASE lines # {}
  <2>1. /\ up' = "replay"
        /\ work' = [tables |-> TablesOf(lines), rows |-> lines, failed |-> {}, at |-> "insert"]
        /\ dedup' = Marked(<< >>, lines) /\ again' = again \union (lines \ ToSet(dedup'))
    BY <1>5 DEF RunStarts
  <2>2. dedup' \in Seq(Rows)
    <3>1. << >> \in Seq(Rows)
      OBVIOUS
    <3> QED BY <3>1, <2>1, <1>3, MarkedKeys
  <2>3. WriterTypes'
    BY <1>1, <1>3, <2>1, <2>2
  <2>4. TablesOf(lines) \in SUBSET Tables /\ \A r \in lines : TableOf(r) \in TablesOf(lines)
    BY <1>3 DEF TablesOf, WriterBounds
  <2>5. WriterWork'
    BY <1>3, <2>1, <2>4 DEF WriterWork
  <2>6. Stages'
    BY <1>1, <1>2, <2>1 DEF Stages
  <2>7. Known'
    BY <1>1, <1>2, <2>1 DEF Known
  <2>8. \A r \in Rows : Once(r)'
    BY <1>1, <1>2, <2>1 DEF Once
  <2>9. \A r \in taken' : RowKept(r)'
    BY <1>1, <1>2, <2>1 DEF RowKept
  <2> QED BY <2>3, <2>5, <2>6, <2>7, <2>8, <2>9
<1> QED BY <1>4, <1>5

LEMMA ReceiveKeeps == ASSUME WriterBounds, WriterInv, NEW r \in Rows, Receive(r) PROVE WriterInv'
<1> USE DEF WriterInv, WriterTypes
<1>1. up = "run" /\ work = NoWork /\ UNCHANGED <<up, work, spool, torn, stored>>
  BY DEF Receive
<1>2. work.rows = {} /\ work.failed = {} /\ work.tables = {} /\ work.at = "none"
  BY <1>1 DEF NoWork
<1>3. CASE r \in ToSet(dedup)
  <2>1. UNCHANGED <<mem, dedup, taken, lost, again>>
    BY <1>3 DEF Receive
  <2> QED BY <1>1, <2>1 DEF WriterWork, Stages, Known, RowKept, Once
<1>4. CASE r \notin ToSet(dedup)
  <2>1. /\ mem' = mem \union {r} /\ taken' = taken \union {r} /\ lost' = lost \ {r}
        /\ dedup' = Marked(dedup, {r})
        /\ again' = again \union ((ToSet(dedup) \union {r}) \ ToSet(dedup'))
    BY <1>4 DEF Receive
  <2>2. dedup' \in Seq(Rows)
    BY <2>1, MarkedKeys
  <2>3. ToSet(dedup) \subseteq Rows
    BY DEF ToSet
  <2>4. WriterTypes'
    BY <1>1, <2>1, <2>2, <2>3
  <2>5. WriterWork' /\ Stages'
    BY <1>1, <1>2, <2>1 DEF WriterWork, Stages
  <2>6. ToSet(dedup) \union {r} \union again \subseteq ToSet(dedup') \union again'
    BY <2>1
  <2>7. Known'
    <3>1. mem' \union work'.rows \subseteq ToSet(dedup') \union again'
      BY <1>1, <1>2, <2>1, <2>6 DEF Known
    <3>2. ToSet(spool) \subseteq ToSet(dedup') \union again'
      BY <1>1, <2>6 DEF Known
    <3>3. r \in ToSet(spool) => r \in again'
      BY <1>1, <1>4, <2>1 DEF Known
    <3>4. (mem' \union work'.rows) \intersect ToSet(spool) \subseteq again'
      BY <1>1, <1>2, <2>1, <3>3 DEF Known
    <3> QED BY <3>1, <3>2, <3>4, <1>1 DEF Known
  <2>8. ASSUME NEW q \in Rows PROVE Once(q)'
    <3> SUFFICES ASSUME stored[q] > 0, q \notin again' PROVE Once(q)'
      BY <1>1 DEF Once
    <3>1. q \notin again /\ q \in ToSet(dedup) /\ q \in ToSet(dedup') /\ q # r
      BY <1>4, <2>1 DEF Once
    <3> QED BY <3>1, <1>1, <1>2, <2>1 DEF Once
  <2>9. \A q \in taken' : RowKept(q)'
    BY <1>1, <2>1 DEF RowKept
  <2> QED BY <2>4, <2>5, <2>7, <2>8, <2>9
<1> QED BY <1>3, <1>4

LEMMA FlushKeeps == ASSUME WriterBounds, WriterInv, Flush PROVE WriterInv'
<1> USE DEF WriterInv, WriterTypes
<1>1. /\ up = "run" /\ work = NoWork /\ mem' = {}
      /\ work' = [tables |-> TablesOf(mem), rows |-> mem, failed |-> {}, at |-> "insert"]
      /\ UNCHANGED <<up, dedup, spool, torn, stored, taken, lost, again>>
  BY DEF Flush
<1>2. work.rows = {} /\ work.failed = {} /\ work.tables = {}
  BY <1>1 DEF NoWork
<1>3. TablesOf(mem) \in SUBSET Tables /\ \A r \in mem : TableOf(r) \in TablesOf(mem)
  BY DEF TablesOf, WriterBounds
<1>4. WriterTypes' /\ WriterWork' /\ Stages'
  BY <1>1, <1>3 DEF WriterWork, Stages
<1>5. Known'
  BY <1>1, <1>2 DEF Known
<1>6. \A r \in Rows : Once(r)'
  BY <1>1, <1>2 DEF Once
<1>7. \A r \in taken' : RowKept(r)'
  BY <1>1, <1>2 DEF RowKept
<1> QED BY <1>4, <1>5, <1>6, <1>7

LEMMA InsertPendingKeeps ==
  ASSUME WriterBounds, WriterInv, NEW t \in Tables, NEW how \in {"ok", "failed", "landed"},
         InsertPending(t, how)
  PROVE  WriterInv'
<1> USE DEF WriterInv, WriterTypes
<1> DEFINE rows == Of(work.rows, t)
           failed == IF how = "ok" THEN work.failed ELSE work.failed \union rows
           to == IF work.tables = {t} THEN "end" ELSE work.at
<1>1. /\ work.at = "insert" /\ t \in work.tables
      /\ stored' = [r \in Rows |-> IF r \in rows /\ how # "failed" THEN stored[r] + 1 ELSE stored[r]]
      /\ again' = IF how = "landed" THEN again \union rows ELSE again
      /\ work' = [work EXCEPT !.tables = @ \ {t}, !.failed = failed, !.at = to]
      /\ UNCHANGED <<up, mem, dedup, spool, torn, taken, lost>>
  BY DEF InsertPending
<1>2. rows \subseteq work.rows /\ \A r \in work.rows : r \in rows <=> TableOf(r) = t
  BY DEF Of
<1>3. /\ work' \in [tables : SUBSET Tables, rows : SUBSET Rows, failed : SUBSET Rows,
                    at : {"none", "insert", "end"}]
      /\ work'.tables = work.tables \ {t} /\ work'.rows = work.rows
      /\ work'.failed = failed /\ work'.at = to /\ work'.at # "none"
      /\ work'.at = "end" => work'.tables = {}
  BY <1>1, <1>2 DEF WriterWork
<1> HIDE DEF rows
<1>4. stored' \in [Rows -> Nat] /\ \A r \in Rows : stored'[r] >= stored[r]
  BY <1>1
<1>5. WriterTypes'
  <2>1. again' \subseteq Rows
    BY <1>1, <1>2 DEF WriterWork
  <2> QED BY <2>1, <1>1, <1>4
<1>6. WriterWork'
  <2>1. failed \subseteq work.rows /\ \A r \in failed : TableOf(r) \notin work.tables \ {t}
    BY <1>1, <1>2 DEF WriterWork
  <2>2. ASSUME NEW r \in work.rows
        PROVE  TableOf(r) \in work.tables \ {t} \/ r \in failed \/ stored'[r] > 0
    <3>1. CASE r \in rows
      BY <3>1, <1>1, <1>2 DEF WriterWork
    <3>2. CASE r \notin rows
      BY <3>2, <1>2, <1>4 DEF WriterWork
    <3> QED BY <3>1, <3>2
  <2> QED BY <1>3, <2>1, <2>2 DEF WriterWork
<1>7. Stages'
  BY <1>1, <1>3 DEF Stages
<1>8. Known'
  BY <1>1, <1>3 DEF Known
<1>9. ASSUME NEW r \in Rows PROVE Once(r)'
  <2> SUFFICES ASSUME stored'[r] > 0, r \notin again' PROVE Once(r)'
    BY DEF Once
  <2>0. r \notin again /\ (r \in rows => how # "landed") /\ mem = {}
    BY <1>1 DEF Stages
  <2>1. CASE stored[r] > 0
    <3>1. /\ stored[r] = 1 /\ r \in ToSet(dedup) /\ r \notin work.failed
          /\ (up = "run" => r \notin ToSet(spool))
          /\ (r \in work.rows => TableOf(r) \notin work.tables)
      BY <2>0, <2>1 DEF Once
    <3>2. r \notin rows
      BY <3>1, <1>1, <1>2
    <3>3. stored'[r] = 1 /\ r \notin failed
      BY <3>1, <3>2, <1>1
    <3> QED BY <3>1, <3>3, <2>0, <1>1, <1>3 DEF Once
  <2>2. CASE ~(stored[r] > 0)
    <3>1. r \in rows /\ how = "ok" /\ stored'[r] = 1
      BY <2>0, <2>2, <1>1
    <3>2. r \in work.rows /\ TableOf(r) = t /\ r \notin failed
      BY <3>1, <1>1, <1>2 DEF WriterWork
    <3>3. r \in ToSet(dedup) /\ (up = "run" => r \notin ToSet(spool))
      BY <3>2, <2>0 DEF Known
    <3> QED BY <3>1, <3>2, <3>3, <2>0, <1>1, <1>3 DEF Once
  <2> QED BY <2>1, <2>2
<1>10. \A r \in taken' : RowKept(r)'
  <2> SUFFICES ASSUME NEW r \in taken PROVE RowKept(r)'
    BY <1>1
  <2>1. stored[r] > 0 => stored'[r] > 0
    BY <1>4
  <2>2. RowKept(r)
    OBVIOUS
  <2> QED BY <2>1, <2>2, <1>1, <1>3 DEF RowKept
<1> QED BY <1>5, <1>6, <1>7, <1>8, <1>9, <1>10

LEMMA SpoolKeeps == ASSUME WriterBounds, WriterInv, Spool PROVE WriterInv'
<1> USE DEF WriterInv, WriterTypes
<1> DEFINE new == SetToSeq(work.failed)
<1>1. /\ up = "run" /\ work.at = "end" /\ work' = NoWork
      /\ UNCHANGED <<up, mem, dedup, stored, taken, again>>
  BY DEF Spool
<1>2. mem = {} /\ work.failed \subseteq work.rows /\ work.failed \subseteq Rows
  BY <1>1 DEF Stages, WriterWork
<1>3. \A r \in work.rows : r \in work.failed \/ stored[r] > 0
  BY <1>1 DEF WriterWork
<1>4. IsFiniteSet(work.failed)
  BY <1>2, FS_Subset DEF WriterBounds
<1>5. new \in Seq(Rows) /\ ToSet(new) = work.failed
  BY <1>2, <1>4, SetToSeqHolds, SeqMonotonic
<1> HIDE DEF new
<1>6. /\ spool' \in Seq(Rows) /\ torn' \in BOOLEAN /\ lost' \in SUBSET Rows
      /\ ToSet(spool) \subseteq ToSet(spool') /\ lost \subseteq lost'
      /\ ToSet(spool') \subseteq ToSet(spool) \union work.failed
      /\ work.failed \subseteq ToSet(spool') \union lost'
  <2>1. CASE work.failed = {}
    BY <2>1 DEF Spool
  <2>2. CASE work.failed # {} /\ Len(spool) + Len(new) > SpoolCap
    BY <2>2, <1>2 DEF Spool, new
  <2>3. CASE work.failed # {} /\ ~(Len(spool) + Len(new) > SpoolCap) /\ torn
    <3>1. spool' = spool \o Tail(new) /\ lost' = lost \union {Head(new)} /\ torn' = FALSE
      BY <2>3 DEF Spool, new
    <3>2. new # << >>
      BY <2>3, <1>5 DEF ToSet
    <3>3. /\ Tail(new) \in Seq(Rows) /\ Head(new) \in ToSet(new)
          /\ ToSet(new) = ToSet(Tail(new)) \union {Head(new)}
      <4>1. /\ Len(new) \in Nat \ {0} /\ DOMAIN new = 1..Len(new) /\ Head(new) = new[1]
            /\ Tail(new) \in Seq(Rows) /\ DOMAIN Tail(new) = 1..(Len(new) - 1)
            /\ \A i \in 1..(Len(new) - 1) : Tail(new)[i] = new[i + 1]
        BY <1>5, <3>2, HeadTailProperties
      <4>2. ASSUME NEW i \in 1..Len(new) PROVE new[i] \in ToSet(Tail(new)) \union {Head(new)}
        <5>1. CASE i = 1
          BY <5>1, <4>1
        <5>2. CASE i # 1
          <6>1. i - 1 \in 1..(Len(new) - 1) /\ Tail(new)[i - 1] = new[i]
            BY <5>2, <4>1
          <6> QED BY <6>1, <4>1 DEF ToSet
        <5> QED BY <5>1, <5>2
      <4> DEFINE rest == Tail(new)
      <4> HIDE DEF rest
      <4>3. ASSUME NEW i \in 1..(Len(new) - 1) PROVE rest[i] \in ToSet(new)
        <5>1. i + 1 \in 1..Len(new) /\ rest[i] = new[i + 1]
          BY <4>1 DEF rest
        <5> QED BY <5>1, <4>1 DEF ToSet
      <4>4. ToSet(rest) \subseteq ToSet(new) /\ Head(new) \in ToSet(new)
        <5>1. DOMAIN rest = 1..(Len(new) - 1)
          BY <4>1 DEF rest
        <5>2. ToSet(rest) \subseteq ToSet(new)
          <6> SUFFICES ASSUME NEW x \in ToSet(rest) PROVE x \in ToSet(new)
            OBVIOUS
          <6>1. PICK i \in 1..(Len(new) - 1) : x = rest[i]
            BY <5>1 DEF ToSet
          <6> QED BY <6>1, <4>3
        <5>3. 1 \in DOMAIN new /\ Head(new) = new[1]
          BY <4>1
        <5>4. Head(new) \in ToSet(new)
          BY <5>3 DEF ToSet
        <5> QED BY <5>2, <5>4
      <4>5. ToSet(new) \subseteq ToSet(Tail(new)) \union {Head(new)}
        <5> SUFFICES ASSUME NEW x \in ToSet(new) PROVE x \in ToSet(Tail(new)) \union {Head(new)}
          OBVIOUS
        <5>1. PICK i \in 1..Len(new) : x = new[i]
          BY <4>1 DEF ToSet
        <5> QED BY <5>1, <4>2
      <4> QED BY <4>1, <4>4, <4>5 DEF rest
    <3>4. spool' \in Seq(Rows) /\ ToSet(spool') = ToSet(spool) \union ToSet(Tail(new))
      <4> DEFINE rest == Tail(new)
      <4>1. spool \in Seq(Rows) /\ rest \in Seq(Rows)
        BY <1>2, <3>3
      <4>2. spool' = spool \o rest
        BY <3>1
      <4> HIDE DEF rest
      <4>3. spool \o rest \in Seq(Rows) /\ ToSet(spool \o rest) = ToSet(spool) \union ToSet(rest)
        BY <4>1, ConcatHolds, SMT
      <4>4. spool' \in Seq(Rows) /\ ToSet(spool') = ToSet(spool) \union ToSet(rest)
        BY <4>2, <4>3, Zenon
      <4> QED BY <4>4 DEF rest
    <3> QED BY <3>1, <3>3, <3>4, <1>2, <1>5
  <2>4. CASE work.failed # {} /\ ~(Len(spool) + Len(new) > SpoolCap) /\ ~torn
    <3>1. spool' = spool \o new /\ lost' = lost /\ torn' = FALSE
      BY <2>4 DEF Spool, new
    <3>2. spool' \in Seq(Rows) /\ ToSet(spool') = ToSet(spool) \union ToSet(new)
      BY <3>1, <1>5, ConcatHolds
    <3> QED BY <3>1, <3>2, <1>5
  <2> QED BY <2>1, <2>2, <2>3, <2>4
<1>7. work'.rows = {} /\ work'.failed = {} /\ work'.tables = {} /\ work'.at = "none" /\ mem' = {}
  BY <1>1, <1>2 DEF NoWork
<1>8. WriterTypes' /\ Stages'
  BY <1>1, <1>2, <1>6, <1>7 DEF Stages
<1>9. WriterWork'
  BY <1>1, <1>7 DEF WriterWork, NoWork
<1>10. Known'
  <2>1. ToSet(spool') \subseteq ToSet(dedup) \union again
    BY <1>1, <1>2, <1>6 DEF Known
  <2> QED BY <2>1, <1>1, <1>7 DEF Known
<1>11. \A r \in Rows : Once(r)'
  BY <1>1, <1>6, <1>7 DEF Once
<1>12. \A r \in taken' : RowKept(r)'
  BY <1>1, <1>3, <1>6, <1>7, <1>2 DEF RowKept
<1> QED BY <1>8, <1>9, <1>10, <1>11, <1>12

LEMMA ReplayEndsKeeps == ASSUME WriterBounds, WriterInv, ReplayEnds PROVE WriterInv'
<1> USE DEF WriterInv, WriterTypes
<1>1. /\ up = "replay" /\ work.at = "end" /\ work' = NoWork /\ up' = "run"
      /\ UNCHANGED <<mem, dedup, stored, taken, lost>>
  BY DEF ReplayEnds
<1>2. /\ mem = {} /\ work.rows = ToSet(spool) /\ work.rows \subseteq Rows
      /\ \A r \in work.rows : r \in work.failed \/ stored[r] > 0
  BY <1>1 DEF Stages, WriterWork
<1>3. work'.rows = {} /\ work'.failed = {} /\ work'.tables = {} /\ work'.at = "none"
  BY <1>1 DEF NoWork
<1>4. /\ spool' \in Seq(Rows) /\ torn' \in BOOLEAN /\ again' \in SUBSET Rows /\ again \subseteq again'
      /\ ToSet(spool') \subseteq again'
      /\ \A r \in ToSet(spool) : r \in ToSet(spool') \/ stored[r] > 0
  <2>1. CASE work.failed = {}
    <3>1. spool' = << >> /\ torn' = FALSE /\ again' = again
      BY <2>1 DEF ReplayEnds
    <3>2. ToSet(<< >>) = {}
      BY DEF ToSet
    <3>3. \A r \in ToSet(spool) : stored[r] > 0
      BY <2>1, <1>2
    <3>4. << >> \in Seq(Rows)
      OBVIOUS
    <3>5. ToSet(spool') = {}
      BY <3>1, <3>2
    <3>6. spool' \in Seq(Rows) /\ torn' \in BOOLEAN
      BY <3>1, <3>4
    <3>7. again' \in SUBSET Rows /\ again \subseteq again' /\ ToSet(spool') \subseteq again'
      BY <3>1, <3>5
    <3> QED BY <3>3, <3>6, <3>7
  <2>2. CASE work.failed # {}
    <3>1. UNCHANGED <<spool, torn>> /\ again' = again \union work.rows
      BY <2>2 DEF ReplayEnds
    <3> QED BY <3>1, <1>2
  <2> QED BY <2>1, <2>2
<1>5. WriterTypes' /\ Stages'
  BY <1>1, <1>2, <1>3, <1>4 DEF Stages
<1>6. WriterWork'
  BY <1>1, <1>3 DEF WriterWork, NoWork
<1>7. Known'
  BY <1>1, <1>2, <1>3, <1>4 DEF Known
<1>8. \A r \in Rows : Once(r)'
  BY <1>1, <1>3, <1>4 DEF Once
<1>9. \A r \in taken' : RowKept(r)'
  BY <1>1, <1>2, <1>3, <1>4 DEF RowKept
<1> QED BY <1>5, <1>6, <1>7, <1>8, <1>9

LEMMA CrashKeeps ==
  ASSUME WriterBounds, WriterInv, NEW written \in Nat, NEW tear \in BOOLEAN, Crash(written, tear)
  PROVE  WriterInv'
<1> USE DEF WriterInv, WriterTypes
<1> DEFINE new == SetToSeq(work.failed)
           kept == IF up = "run" /\ work.at = "end" /\ Len(spool) + Len(new) <= SpoolCap /\ ~torn
                   THEN SubSeq(new, 1, written) ELSE << >>
           tail == IF tear THEN Front(kept) ELSE kept
<1>1. /\ up' = "down" /\ mem' = {} /\ dedup' = << >> /\ work' = NoWork
      /\ written <= Len(new) /\ (kept = << >> => written = 0 /\ ~tear)
      /\ spool' = spool \o tail /\ torn' = (torn \/ tear)
      /\ lost' = lost \union mem \union IF up = "run" THEN work.rows \ ToSet(spool') ELSE {}
      /\ again' = again \union {r \in Rows : stored[r] > 0}
      /\ UNCHANGED <<stored, taken>> /\ up # "down"
  BY DEF Crash
<1>2. work.failed \subseteq work.rows /\ work.rows \subseteq Rows
  BY DEF WriterWork
<1>3. IsFiniteSet(work.failed)
  BY <1>2, FS_Subset DEF WriterBounds
<1>4. new \in Seq(Rows)
  BY <1>2, <1>3, SetToSeqHolds, SeqMonotonic
<1> HIDE DEF new
<1>5. kept \in Seq(Rows)
  BY <1>1, <1>4, SubSeqIs
<1>6. kept # << >> \/ ~tear
  BY <1>1
<1> HIDE DEF kept
<1>7. tail \in Seq(Rows)
  <2>1. CASE ~tear
    BY <2>1, <1>5
  <2>2. CASE tear
    <3>1. Len(kept) \in Nat \ {0}
      BY <2>2, <1>5, <1>6
    <3>2. Len(kept) - 1 \in Nat /\ Len(kept) - 1 <= Len(kept)
      BY <3>1
    <3>3. SubSeq(kept, 1, Len(kept) - 1) \in Seq(Rows)
      BY <3>2, <1>5, SubSeqIs
    <3> QED BY <2>2, <3>3 DEF Front
  <2> QED BY <2>1, <2>2
<1> HIDE DEF tail
<1>8. spool' \in Seq(Rows) /\ ToSet(spool') = ToSet(spool) \union ToSet(tail)
  BY <1>1, <1>7, ConcatHolds
<1>9. work'.rows = {} /\ work'.failed = {} /\ work'.tables = {} /\ work'.at = "none"
  BY <1>1 DEF NoWork
<1>10. WriterTypes'
  BY <1>1, <1>2, <1>8
<1>11. WriterWork'
  BY <1>1, <1>9 DEF WriterWork, NoWork
<1>12. Stages' /\ Known'
  BY <1>1, <1>9 DEF Stages, Known
<1>13. \A r \in Rows : Once(r)'
  BY <1>1 DEF Once
<1>14. \A r \in taken' : RowKept(r)'
  <2> SUFFICES ASSUME NEW r \in taken, ~(stored[r] > 0) PROVE r \in ToSet(spool') \union lost'
    BY <1>1 DEF RowKept
  <2>1. r \in mem \union work.rows \union ToSet(spool) \union lost
    BY DEF RowKept
  <2>2. CASE r \in mem \union ToSet(spool) \union lost
    BY <2>2, <1>1, <1>8
  <2>3. CASE r \in work.rows
    BY <2>3, <1>1, <1>8 DEF Stages
  <2> QED BY <2>1, <2>2, <2>3
<1> QED BY <1>10, <1>11, <1>12, <1>13, <1>14

LEMMA WriterKept ==
  ASSUME WriterBounds
  PROVE  WriterInv /\ [WriterNext]_writerVars => WriterInv'
<1> SUFFICES ASSUME WriterInv, [WriterNext]_writerVars PROVE WriterInv'
  OBVIOUS
<1>1. CASE WriterStep
  BY <1>1, RunStartsKeeps, FlushKeeps, SpoolKeeps, ReplayEndsKeeps, InsertPendingKeeps DEF WriterStep
<1>2. ASSUME NEW r \in Rows, Receive(r) PROVE WriterInv'
  BY <1>2, ReceiveKeeps
<1>3. ASSUME NEW n \in 0..RowsPerBatch, NEW tear \in BOOLEAN, Crash(n, tear) PROVE WriterInv'
  BY <1>3, CrashKeeps
<1>4. CASE UNCHANGED writerVars
  BY <1>4 DEF writerVars, WriterInv, WriterTypes, WriterWork, Stages, Known, RowKept, Once
<1> QED BY <1>1, <1>2, <1>3, <1>4 DEF WriterNext

\* No accepted row of the archive disappears, and none is stored twice without
\* an insert of unknown outcome, a partly failed replay, a crash or its key's
\* eviction (flush, append_spool, replay_spool, DedupFilter), for any finite set
\* of rows, any tables, batch, filter and spool sizes and any faults.
THEOREM ArchiveKeepsRows == WriterBounds /\ WriterSpec => []ArchiveSound
<1>1. WriterInv => ArchiveSound
  BY DEF WriterInv, WriterTypes, RowKept, Once, ArchiveSound
<1> SUFFICES ASSUME WriterBounds PROVE WriterSpec => []ArchiveSound
  OBVIOUS
<1> QED BY <1>1, WriterStarts, WriterKept, PTL DEF WriterSpec

(***************************************************************************)
(* RequestGate: limiters, roles, closes                                    *)
(*                                                                         *)
(* The window of a client is where the counting is done, and requests      *)
(* reach it out of order and late.  What carries the proof is that every   *)
(* request let through lately can be given an entry of its own in that     *)
(* window (Matched): the window is never longer than the limit, so neither *)
(* is what was let through.                                                *)
(***************************************************************************)

GateSpec == GateInit /\ [][GateNext]_gateVars

\* The ranks are those of ApiRole: viewer, operator, admin.
GateBounds ==
  /\ Window \in Nat \ {0} /\ MaxDelay \in Nat /\ Start \in Int
  /\ RequestLimit \in Nat /\ MutationLimit \in Nat /\ FailureLimit \in Nat
  /\ \A p \in Tokens : p[2] \in 1..3

RequestFields == {"stage", "at", "client", "kind", "bearer", "keyed", "role"}
OrdersSent == [side : {-1, 1}, size : Nat, reduce : BOOLEAN, kind : {"submit", "close"}, role : 2..3]

\* Where a request is, and what it may carry there.
Served(q) ==
  \/ q = Free
  \/ /\ q.stage \in Limiters \union {"handler"} /\ DOMAIN q = RequestFields
     /\ q.client \in Clients /\ q.at \in Nat /\ q.at <= clock
     /\ q.stage \in Limiters => clock - q.at <= MaxDelay
     /\ q.role \in 0..3 /\ (q.role >= Operator => tokens # {})
  \/ /\ q.stage = "submit" /\ q.intent \in OrdersSent /\ tokens # {}
     /\ q.intent.kind = "close" => q.intent.reduce

GateTypes ==
  /\ clock \in Nat /\ tokens \subseteq Tokens /\ position \in Int /\ tracked \in Int
  /\ serving = [r \in Slots |-> serving[r]] /\ \A r \in Slots : Served(serving[r])
  /\ sent \in Seq(OrdersSent)
  /\ \A i \in 1..Len(sent) : tokens # {} /\ (sent[i].kind = "close" => sent[i].reduce)
  /\ traffic = {} => sent = << >> /\ \A r \in Slots : serving[r] = Free

Entry == [times : Seq(Nat), seen : Nat]
Keys == Limiters \X Clients
TimesOf(l, c) == IF c \in DOMAIN windows[l] THEN windows[l][c].times ELSE << >>
Recent(l, c) == {a \in admitted[<<l, c>>] : a[1] >= clock - Window + MaxDelay}

WindowTypes ==
  /\ windows = [l \in Limiters |-> windows[l]]
  /\ \A l \in Limiters : /\ DOMAIN windows[l] \subseteq Clients
                         /\ \A c \in DOMAIN windows[l] : windows[l][c] \in Entry
                         /\ \A c \in DOMAIN windows[l] : Len(windows[l][c].times) <= LimitOf[l]
  /\ admitted \in [Keys -> SUBSET (Nat \X Nat)]
  /\ \A k \in Keys : IsFiniteSet(admitted[k])

\* Tickets are told apart, and a client in the map was seen after all it passed.
Tickets == \A k \in Keys : \A a \in admitted[k] :
  /\ a[1] <= clock
  /\ a[1] = clock => a[2] < Cardinality(JustNow(admitted[k]))
  /\ k[2] \in DOMAIN windows[k[1]] => a[1] - MaxDelay <= windows[k[1]][k[2]].seen

\* Each request let through lately has an entry of its own in the window.
Entries(S, times) ==
  {f \in [S -> DOMAIN times] : /\ \A a, b \in S : f[a] = f[b] => a = b
                               /\ \A a \in S : times[f[a]] >= a[1] - MaxDelay}
Matched(l, c) == Entries(Recent(l, c), TimesOf(l, c)) # {}

LastIsClosing == last.close => Abs(last.to) <= Abs(last.from) /\ last.to * last.from >= 0

GateInv ==
  /\ GateTypes /\ WindowTypes /\ Tickets /\ LastIsClosing
  /\ \A l \in Limiters, c \in Clients : Matched(l, c)

LEMMA NothingMatches == ASSUME NEW q PROVE Entries({}, q) # {}
<1>1. [x \in {} |-> x] \in Entries({}, q)
  BY DEF Entries
<1> QED BY <1>1

LEMMA FewerMatch ==
  ASSUME NEW q, NEW T, NEW S \in SUBSET T, Entries(T, q) # {}
  PROVE  Entries(S, q) # {}
<1>1. PICK f \in Entries(T, q) : TRUE
  OBVIOUS
<1>2. [x \in S |-> f[x]] \in Entries(S, q)
  BY <1>1 DEF Entries
<1> QED BY <1>2

LEMMA CountsUpTo ==
  ASSUME NEW n \in Nat
  PROVE  IsFiniteSet(1..n) /\ Cardinality(1..n) = n
BY FS_Interval

LEMMA EntriesFit ==
  ASSUME NEW q \in Seq(Nat), NEW S, Entries(S, q) # {}
  PROVE  IsFiniteSet(S) /\ Cardinality(S) <= Len(q)
<1>1. PICK f \in Entries(S, q) : TRUE
  OBVIOUS
<1>2. DOMAIN q = 1..Len(q) /\ Len(q) \in Nat
  OBVIOUS
<1>3. f \in Injection(S, 1..Len(q))
  BY <1>1, <1>2 DEF Entries, Injection, IsInjective
<1>4. IsFiniteSet(1..Len(q)) /\ Cardinality(1..Len(q)) = Len(q)
  BY <1>2, CountsUpTo, Zenon
<1> QED BY <1>3, <1>4, FS_Injection

LEMMA LeastIs ==
  ASSUME NEW S, S \subseteq Int, IsFiniteSet(S), S # {}
  PROVE  \E m \in S : \A x \in S : m <= x
<1> DEFINE q == Sorted(S)
           n == Len(q)
<1>1. q \in Seq(Int) /\ Ascending(q) /\ ToSet(q) = S
  BY SortedAscends
<1> HIDE DEF q
<1>2. n \in Nat /\ DOMAIN q = 1..n
  BY <1>1
<1>3. n # 0
  BY <1>1, <1>2 DEF ToSet
<1>4. \A i \in 1..n : q[1] <= q[i]
  BY <1>1, <1>2, <1>3 DEF Ascending
<1>5. q[1] \in S /\ \A x \in S : \E i \in 1..n : x = q[i]
  BY <1>1, <1>2, <1>3 DEF ToSet
<1> QED BY <1>4, <1>5

\* What DropExpired leaves is the end of the window, and the rest had expired.
LEMMA DropKeeps ==
  ASSUME NEW q \in Seq(Nat), NEW cut \in Int
  PROVE  \E k \in 0..Len(q) :
           /\ DropExpired(q, cut) \in Seq(Nat) /\ Len(DropExpired(q, cut)) = Len(q) - k
           /\ \A i \in 1..(Len(q) - k) : DropExpired(q, cut)[i] = q[i + k]
           /\ \A j \in 1..k : q[j] < cut
<1> DEFINE counts == {i \in DOMAIN q : q[i] >= cut}
           Parted(k) ==
             /\ DropExpired(q, cut) \in Seq(Nat) /\ Len(DropExpired(q, cut)) = Len(q) - k
             /\ \A i \in 1..(Len(q) - k) : DropExpired(q, cut)[i] = q[i + k]
             /\ \A j \in 1..k : q[j] < cut
<1>1. DOMAIN q = 1..Len(q) /\ Len(q) \in Nat /\ \A i \in 1..Len(q) : q[i] \in Nat
  OBVIOUS
<1>2. CASE counts = {}
  <2>1. DropExpired(q, cut) = << >>
    BY <1>2 DEF DropExpired
  <2>2. \A j \in 1..Len(q) : q[j] < cut
    BY <1>1, <1>2
  <2>3. << >> \in Seq(Nat) /\ Len(<< >>) = 0
    OBVIOUS
  <2>4. Len(q) \in 0..Len(q) /\ 1..(Len(q) - Len(q)) = {} /\ Len(q) - Len(q) = 0
    BY <1>1
  <2>5. Parted(Len(q))
    BY <2>1, <2>2, <2>3, <2>4
  <2> QED BY <2>4, <2>5
<1>3. CASE counts # {}
  <2> DEFINE first == CHOOSE i \in counts : \A j \in counts : i <= j
  <2>1. counts \subseteq 1..Len(q) /\ \A i \in 1..Len(q) : i \notin counts => q[i] < cut
    BY <1>1
  <2>2. DropExpired(q, cut) = SubSeq(q, first, Len(q))
    BY <1>3 DEF DropExpired
  <2> HIDE DEF counts
  <2>3. IsFiniteSet(counts) /\ counts \subseteq Int
    <3>1. IsFiniteSet(1..Len(q))
      BY <1>1, FS_Interval
    <3>2. IsFiniteSet(counts)
      BY <2>1, <3>1, FS_Subset
    <3>3. counts \subseteq Int
      BY <1>1, <2>1
    <3> QED BY <3>2, <3>3
  <2>4. first \in counts /\ \A j \in counts : first <= j
    BY <1>3, <2>3, LeastIs
  <2> HIDE DEF first
  <2>5. first \in 1..Len(q) /\ \A j \in 1..(first - 1) : q[j] < cut
    <3>1. first \in 1..Len(q)
      BY <2>1, <2>4
    <3>2. \A j \in 1..(first - 1) : j \in 1..Len(q) /\ j \notin counts
      BY <1>1, <2>4, <3>1
    <3> QED BY <2>1, <3>1, <3>2
  <2>6. /\ SubSeq(q, first, Len(q)) \in Seq(Nat) /\ Len(SubSeq(q, first, Len(q))) = Len(q) - first + 1
        /\ \A i \in 1..(Len(q) - first + 1) : SubSeq(q, first, Len(q))[i] = q[first + i - 1]
    <3>1. /\ first \in Int /\ Len(q) \in Int /\ first <= Len(q)
          /\ \A i \in first..Len(q) : q[i] \in Nat
      BY <1>1, <2>5
    <3> QED BY <3>1, SubSeqProperties
  <2>7. first - 1 \in 0..Len(q) /\ Len(q) - (first - 1) = Len(q) - first + 1
    BY <1>1, <2>5
  <2>8. \A i \in 1..(Len(q) - (first - 1)) : SubSeq(q, first, Len(q))[i] = q[i + (first - 1)]
    <3> SUFFICES ASSUME NEW i \in 1..(Len(q) - (first - 1))
                 PROVE  SubSeq(q, first, Len(q))[i] = q[i + (first - 1)]
      OBVIOUS
    <3>1. i \in 1..(Len(q) - first + 1) /\ first + i - 1 = i + (first - 1)
      BY <1>1, <2>5
    <3> QED BY <2>6, <3>1
  <2>9. Parted(first - 1)
    BY <2>2, <2>5, <2>6, <2>7, <2>8
  <2> QED BY <2>7, <2>9
<1> QED BY <1>2, <1>3

\* An entry that counts survives the dropping.
LEMMA DropMatches ==
  ASSUME MaxDelay \in Nat, NEW q \in Seq(Nat), NEW cut \in Int, NEW S, S \subseteq Nat \X Nat,
         \A a \in S : a[1] - MaxDelay >= cut, Entries(S, q) # {}
  PROVE  Entries(S, DropExpired(q, cut)) # {}
<1> DEFINE d == DropExpired(q, cut)
<1>1. PICK k \in 0..Len(q) :
        /\ d \in Seq(Nat) /\ Len(d) = Len(q) - k
        /\ \A i \in 1..(Len(q) - k) : d[i] = q[i + k]
        /\ \A j \in 1..k : q[j] < cut
  BY DropKeeps
<1>2. PICK f \in Entries(S, q) : TRUE
  OBVIOUS
<1> HIDE DEF d
<1>3. DOMAIN q = 1..Len(q) /\ Len(q) \in Nat /\ DOMAIN d = 1..(Len(q) - k) /\ k \in Nat
  BY <1>1
<1>4. ASSUME NEW a \in S
      PROVE  f[a] \in 1..Len(q) /\ f[a] - k \in 1..(Len(q) - k) /\ d[f[a] - k] >= a[1] - MaxDelay
  <2>1. f[a] \in 1..Len(q) /\ q[f[a]] >= a[1] - MaxDelay /\ a[1] \in Nat /\ q[f[a]] \in Nat
    BY <1>2, <1>3 DEF Entries
  <2>2. q[f[a]] >= cut
    BY <2>1
  <2>3. ~(f[a] \in 1..k)
    BY <1>1, <2>1, <2>2
  <2>4. f[a] - k \in 1..(Len(q) - k) /\ (f[a] - k) + k = f[a]
    BY <1>3, <2>1, <2>3
  <2> QED BY <1>1, <2>1, <2>4
<1> DEFINE g == [a \in S |-> f[a] - k]
<1>5. g \in [S -> DOMAIN d] /\ \A a \in S : d[g[a]] >= a[1] - MaxDelay
  BY <1>3, <1>4
<1>6. \A a \in S : g[a] = f[a] - k /\ f[a] \in Int
  BY <1>4
<1> HIDE DEF g
<1>8. \A a, b \in S : g[a] = g[b] => a = b
  <2> SUFFICES ASSUME NEW a \in S, NEW b \in S, g[a] = g[b] PROVE a = b
    OBVIOUS
  <2>1. k \in Int /\ f[a] - k = f[b] - k /\ f[a] \in Int /\ f[b] \in Int
    BY <1>6
  <2>2. f[a] = f[b]
    BY <2>1
  <2> QED BY <1>2, <2>2 DEF Entries
<1>7. g \in Entries(S, d)
  BY <1>5, <1>8 DEF Entries
<1> QED BY <1>7 DEF d

LEMMA AppendMatches ==
  ASSUME MaxDelay \in Nat, NEW d \in Seq(Nat), NEW n \in Nat, NEW S, NEW x, x \notin S,
         n >= x[1] - MaxDelay, Entries(S, d) # {}
  PROVE  Entries(S \union {x}, Append(d, n)) # {}
<1>1. PICK f \in Entries(S, d) : TRUE
  OBVIOUS
<1>2. /\ Len(d) \in Nat /\ DOMAIN d = 1..Len(d) /\ DOMAIN Append(d, n) = 1..(Len(d) + 1)
      /\ Append(d, n)[Len(d) + 1] = n /\ \A i \in 1..Len(d) : Append(d, n)[i] = d[i]
  BY AppendProperties
<1> DEFINE g == [a \in S \union {x} |-> IF a = x THEN Len(d) + 1 ELSE f[a]]
<1>3. \A a \in S : f[a] \in 1..Len(d) /\ d[f[a]] >= a[1] - MaxDelay /\ g[a] = f[a]
  BY <1>1, <1>2 DEF Entries
<1>4. g[x] = Len(d) + 1
  OBVIOUS
<1>5. g \in [S \union {x} -> DOMAIN Append(d, n)]
  BY <1>2, <1>3, <1>4
<1>6. \A a \in S \union {x} : Append(d, n)[g[a]] >= a[1] - MaxDelay
  BY <1>2, <1>3, <1>4
<1>7. \A a, b \in S \union {x} : g[a] = g[b] => a = b
  <2>1. \A a, b \in S : f[a] = f[b] => a = b
    BY <1>1 DEF Entries
  <2>2. \A a \in S : g[a] # g[x]
    BY <1>2, <1>3, <1>4
  <2> QED BY <1>3, <2>1, <2>2
<1> HIDE DEF g
<1>8. g \in Entries(S \union {x}, Append(d, n))
  BY <1>5, <1>6, <1>7 DEF Entries
<1> QED BY <1>8

GateFrame == <<clock, windows, admitted>>

LEMMA WindowsFrame ==
  ASSUME WindowTypes, Tickets, \A l \in Limiters, c \in Clients : Matched(l, c), UNCHANGED GateFrame
  PROVE  WindowTypes' /\ Tickets' /\ \A l \in Limiters, c \in Clients : Matched(l, c)'
<1>1. WindowTypes'
  BY DEF WindowTypes, GateFrame
<1>2. Tickets'
  BY DEF Tickets, JustNow, GateFrame
<1>3. ASSUME NEW l \in Limiters, NEW c \in Clients PROVE Matched(l, c)'
  BY DEF Matched, Recent, TimesOf, GateFrame
<1> QED BY <1>1, <1>2, <1>3

LEMMA GateStarts == ASSUME GateBounds, GateInit PROVE GateInv
<1>1. GateTypes
  <2>1. sent \in Seq(OrdersSent) /\ Len(sent) = 0
    BY DEF GateInit
  <2> QED BY <2>1 DEF GateInit, GateBounds, GateTypes, Served
<1>2. \A l \in Limiters : windows[l] = << >> /\ DOMAIN windows[l] = {}
  BY DEF GateInit
<1>3. \A k \in Keys : admitted[k] = {}
  BY DEF GateInit, Keys
<1>4. WindowTypes
  <2>1. windows = [l \in Limiters |-> windows[l]] /\ admitted = [k \in Keys |-> {}]
    BY DEF GateInit, Keys
  <2>2. \A l \in Limiters : \A c \in DOMAIN windows[l] : windows[l][c] \in Entry
    BY <1>2
  <2>3. IsFiniteSet({})
    BY FS_EmptySet
  <2> QED BY <1>2, <1>3, <2>1, <2>2, <2>3 DEF WindowTypes
<1>5. Tickets
  BY <1>3 DEF Tickets
<1>6. ASSUME NEW l \in Limiters, NEW c \in Clients PROVE Matched(l, c)
  <2>1. Recent(l, c) = {} /\ TimesOf(l, c) = << >>
    BY <1>2, <1>3 DEF Recent, TimesOf, Keys
  <2> QED BY <2>1, NothingMatches DEF Matched
<1>7. LastIsClosing
  BY DEF GateInit, LastIsClosing
<1> QED BY <1>1, <1>4, <1>5, <1>6, <1>7 DEF GateInv

LEMMA SweptIs ==
  ASSUME NEW map, NEW readAt
  PROVE  /\ DOMAIN Swept(map, readAt) \subseteq DOMAIN map
         /\ \A d \in DOMAIN Swept(map, readAt) : Swept(map, readAt)[d] = map[d]
         /\ \A d \in DOMAIN map \ DOMAIN Swept(map, readAt) : ~(readAt - map[d].seen < 2 * Window)
BY DEF Swept

LEMMA AllowKnows ==
  ASSUME NEW map, NEW c, NEW limit, NEW readAt
  PROVE  DOMAIN Allow(map, c, limit, readAt).map = DOMAIN Swept(map, readAt) \union {c}
BY DEF Allow

\* What the window of a client holds once the sweep and the dropping are done.
Past(map, c, readAt) == IF c \in DOMAIN Swept(map, readAt) THEN Swept(map, readAt)[c].times ELSE << >>
Still(map, c, readAt) == DropExpired(Past(map, c, readAt), readAt - Window)

LEMMA AllowMakes ==
  ASSUME NEW map, NEW c, NEW limit, NEW readAt
  PROVE  /\ Allow(map, c, limit, readAt).pass <=> Len(Still(map, c, readAt)) < limit
         /\ Allow(map, c, limit, readAt).map[c] =
              [times |-> IF Len(Still(map, c, readAt)) < limit
                         THEN Append(Still(map, c, readAt), readAt) ELSE Still(map, c, readAt), seen |-> readAt]
         /\ \A d \in DOMAIN Swept(map, readAt) :
              d # c => Allow(map, c, limit, readAt).map[d] = Swept(map, readAt)[d]
<1> DEFINE kept == Swept(map, readAt)
           old == Still(map, c, readAt)
           pass == Len(old) < limit
           entry == [times |-> IF pass THEN Append(old, readAt) ELSE old, seen |-> readAt]
           after == [d \in DOMAIN kept \union {c} |-> IF d = c THEN entry ELSE kept[d]]
<1>1. Allow(map, c, limit, readAt) = [pass |-> pass, map |-> after]
  BY Zenon DEF Allow, Still, Past
<1>2. after[c] = entry /\ \A d \in DOMAIN kept : d # c => after[d] = kept[d]
  <2> HIDE DEF entry, kept
  <2> QED OBVIOUS
<1> HIDE DEF pass, after
<1>3. Allow(map, c, limit, readAt).pass = pass /\ Allow(map, c, limit, readAt).map = after
  BY <1>1
<1> QED BY <1>2, <1>3 DEF pass

LEMMA LockKeeps ==
  ASSUME GateBounds, GateInv, NEW r \in Slots, NEW l \in Limiters, Lock(r, l)
  PROVE  WindowTypes' /\ Tickets' /\ \A m \in Limiters, d \in Clients : Matched(m, d)'
<1> SUFFICES ASSUME NEW q, q = serving[r], NEW c, c = q.client, NEW readAt, readAt = q.at,
                      NEW k, k = <<l, c>>
             PROVE  WindowTypes' /\ Tickets' /\ \A m \in Limiters, d \in Clients : Matched(m, d)'
  OBVIOUS
<1> DEFINE w == windows[l]
           kept == Swept(w, readAt)
           base == Past(w, c, readAt)
           old == DropExpired(base, readAt - Window)
           pass == Verdict(r, l).pass
           x == Ticket(admitted[k])
<1>1. q.stage = l /\ l # "free" /\ l # "submit" /\ l # "handler"
  BY DEF Lock, Limiters
<1>2. /\ readAt \in Nat /\ readAt <= clock /\ clock - readAt <= MaxDelay /\ c \in Clients
      /\ clock \in Nat
  BY <1>1 DEF GateInv, GateTypes, Served, Free
<1>3. /\ \A d \in DOMAIN w : w[d] \in Entry
      /\ DOMAIN w \subseteq Clients /\ k \in Keys
      /\ windows = [m \in Limiters |-> windows[m]]
      /\ admitted \in [Keys -> SUBSET (Nat \X Nat)] /\ IsFiniteSet(admitted[k])
      /\ admitted[k] \subseteq Nat \X Nat
  BY <1>2 DEF GateInv, WindowTypes, Keys
<1>4. LimitOf[l] \in Nat /\ Window \in Nat \ {0} /\ MaxDelay \in Nat
  BY DEF GateBounds, LimitOf, Limiters
<1>5. /\ clock' = clock /\ windows' = [windows EXCEPT ![l] = Verdict(r, l).map]
      /\ admitted' = IF pass THEN [admitted EXCEPT ![k] = Lately(@) \union {x}] ELSE admitted
  BY Zenon DEF Lock
<1>6. Verdict(r, l) = Allow(w, c, LimitOf[l], readAt)
  BY DEF Verdict
<1>7. /\ base \in Seq(Nat) /\ (pass <=> Len(old) < LimitOf[l])
      /\ DOMAIN Verdict(r, l).map = DOMAIN kept \union {c}
      /\ Verdict(r, l).map[c] = [times |-> IF pass THEN Append(old, readAt) ELSE old, seen |-> readAt]
      /\ \A d \in DOMAIN kept : d # c => Verdict(r, l).map[d] = w[d]
  <2>1. DOMAIN kept \subseteq DOMAIN w /\ \A d \in DOMAIN kept : kept[d] = w[d]
    BY SweptIs
  <2>2. base \in Seq(Nat)
    <3>1. << >> \in Seq(Nat)
      OBVIOUS
    <3>2. ASSUME NEW d \in DOMAIN w PROVE w[d].times \in Seq(Nat)
      BY <1>3 DEF Entry
    <3> QED BY <2>1, <3>1, <3>2 DEF Past
  <2>3. DOMAIN Verdict(r, l).map = DOMAIN kept \union {c}
    BY <1>6, AllowKnows
  <2> DEFINE V == Verdict(r, l)
             limit == LimitOf[l]
  <2>4. V = Allow(w, c, limit, readAt) /\ kept = Swept(w, readAt) /\ old = Still(w, c, readAt)
    BY <1>6 DEF Still
  <2> HIDE DEF V, limit, w, kept, base, old
  <2>5. /\ (V.pass <=> Len(old) < limit)
        /\ V.map[c] = [times |-> IF Len(old) < limit THEN Append(old, readAt) ELSE old, seen |-> readAt]
        /\ \A d \in DOMAIN kept : d # c => V.map[d] = kept[d]
    BY <2>4, AllowMakes
  <2> QED BY <2>1, <2>2, <2>3, <2>5 DEF V, limit
<1> HIDE DEF base, old, pass, x
<1>8. /\ DOMAIN kept \subseteq DOMAIN w /\ \A d \in DOMAIN kept : kept[d] = w[d]
      /\ \A d \in DOMAIN w \ DOMAIN kept : ~(readAt - w[d].seen < 2 * Window)
  BY SweptIs
<1> DEFINE W2 == windows'[l]
<1>9. /\ windows' = [m \in Limiters |-> windows'[m]] /\ W2 = Verdict(r, l).map
      /\ \A m \in Limiters : m # l => windows'[m] = windows[m]
  BY <1>3, <1>5
<1> HIDE DEF W2, w, kept
<1>10. /\ DOMAIN W2 = DOMAIN kept \union {c}
       /\ W2[c].times = (IF pass THEN Append(old, readAt) ELSE old) /\ W2[c].seen = readAt
       /\ W2[c] = [times |-> IF pass THEN Append(old, readAt) ELSE old, seen |-> readAt]
       /\ \A d \in DOMAIN kept : d # c => W2[d] = w[d]
  <2>1. /\ DOMAIN W2 = DOMAIN kept \union {c}
        /\ W2[c] = [times |-> IF pass THEN Append(old, readAt) ELSE old, seen |-> readAt]
        /\ \A d \in DOMAIN kept : d # c => W2[d] = w[d]
    BY <1>7, <1>9
  <2>2. W2[c].times = (IF pass THEN Append(old, readAt) ELSE old) /\ W2[c].seen = readAt
    BY <2>1
  <2> QED BY <2>1, <2>2
<1>11. /\ admitted' \in [Keys -> SUBSET (Nat \X Nat)]
       /\ \A j \in Keys : j # k => admitted'[j] = admitted[j]
       /\ admitted'[k] = IF pass THEN Lately(admitted[k]) \union {x} ELSE admitted[k]
  <2>1. Cardinality(JustNow(admitted[k])) \in Nat
    BY <1>3, FS_Subset, FS_CardinalityType DEF JustNow
  <2>2. x \in Nat \X Nat
    BY <1>2, <2>1 DEF x, Ticket
  <2>3. Lately(admitted[k]) \subseteq Nat \X Nat
    BY <1>3 DEF Lately
  <2>4. CASE pass
    <3> DEFINE later == Lately(admitted[k]) \union {x}
               Some == SUBSET (Nat \X Nat)
    <3>1. later \in Some /\ admitted \in [Keys -> Some] /\ k \in Keys
      BY <1>3, <2>2, <2>3
    <3>2. admitted' = [admitted EXCEPT ![k] = later]
      BY <1>5, <2>4
    <3> HIDE DEF later, Some
    <3>3. /\ admitted' \in [Keys -> Some] /\ admitted'[k] = later
          /\ \A j \in Keys : j # k => admitted'[j] = admitted[j]
      BY <3>1, <3>2
    <3> QED BY <2>4, <3>3 DEF later, Some
  <2>5. CASE ~pass
    BY <1>3, <1>5, <2>5
  <2> QED BY <2>4, <2>5
\* What is swept let nothing through lately.
<1>12. ASSUME NEW d \in DOMAIN w \ DOMAIN kept PROVE Recent(l, d) = {}
  <2>1. d \in Clients /\ <<l, d>> \in Keys /\ d \in DOMAIN windows[l] /\ w[d].seen \in Nat
    BY <1>3 DEF Keys, w, Entry
  <2>2. ~(readAt - w[d].seen < 2 * Window) /\ w[d].seen = windows[l][d].seen
    BY <1>8 DEF w
  <2>3. ASSUME NEW a \in Recent(l, d) PROVE FALSE
    <3>1. a \in admitted[<<l, d>>] /\ a[1] >= clock - Window + MaxDelay /\ a[1] \in Nat
      BY <1>3, <2>1, <2>3 DEF Recent
    <3>2. a[1] - MaxDelay <= w[d].seen
      BY <2>1, <2>2, <3>1 DEF GateInv, Tickets
    <3> QED BY <1>2, <1>4, <2>1, <2>2, <3>1, <3>2
  <2> QED BY <2>3
<1>13. Recent(l, c) \subseteq Nat \X Nat /\ \A a \in Recent(l, c) : a[1] - MaxDelay >= readAt - Window
  <2>1. Recent(l, c) \subseteq Nat \X Nat
    <3>1. Recent(l, c) \subseteq admitted[k]
      BY DEF Recent
    <3> QED BY <1>3, <3>1
  <2>2. ASSUME NEW a \in Recent(l, c) PROVE a[1] - MaxDelay >= readAt - Window
    <3>1. a[1] >= clock - Window + MaxDelay /\ a[1] \in Nat
      BY <2>1 DEF Recent
    <3> QED BY <1>2, <1>4, <3>1
  <2> QED BY <2>1, <2>2
<1>14. Entries(Recent(l, c), base) # {}
  <2>1. CASE c \in DOMAIN kept
    <3>1. base = TimesOf(l, c)
      BY <1>8, <2>1 DEF base, Past, kept, TimesOf, w
    <3> QED BY <1>2, <3>1 DEF GateInv, Matched
  <2>2. CASE c \in DOMAIN w /\ c \notin DOMAIN kept
    BY <1>12, <2>2, NothingMatches
  <2>3. CASE c \notin DOMAIN w
    <3>1. base = << >> /\ TimesOf(l, c) = << >>
      BY <1>8, <2>3 DEF base, Past, kept, TimesOf, w
    <3> QED BY <1>2, <3>1 DEF GateInv, Matched
  <2> QED BY <2>1, <2>2, <2>3
<1>15. Entries(Recent(l, c), old) # {}
  <2>1. readAt - Window \in Int
    BY <1>2, <1>4
  <2> QED BY <1>4, <1>7, <1>13, <1>14, <2>1, DropMatches DEF old
<1>16. old \in Seq(Nat) /\ Len(old) <= Len(base) /\ Len(base) <= LimitOf[l]
  <2>1. old \in Seq(Nat) /\ Len(old) <= Len(base)
    <3>1. readAt - Window \in Int
      BY <1>2, <1>4
    <3>2. PICK n \in 0..Len(base) : old \in Seq(Nat) /\ Len(old) = Len(base) - n
      BY <1>7, <3>1, DropKeeps DEF old
    <3> QED BY <1>7, <3>2
  <2>2. Len(base) <= LimitOf[l]
    <3>1. CASE c \in DOMAIN kept
      BY <1>8, <3>1 DEF base, Past, kept, GateInv, WindowTypes, w
    <3>2. CASE c \notin DOMAIN kept
      BY <3>2, <1>4 DEF base, Past, kept
    <3> QED BY <3>1, <3>2
  <2> QED BY <2>1, <2>2
<1>17. x \notin admitted[k] /\ x = <<clock, Cardinality(JustNow(admitted[k]))>>
  <2>1. x = <<clock, Cardinality(JustNow(admitted[k]))>>
    BY DEF x, Ticket
  <2>2. Cardinality(JustNow(admitted[k])) \in Nat
    BY <1>3, FS_Subset, FS_CardinalityType DEF JustNow
  <2>3. ASSUME x \in admitted[k] PROVE FALSE
    <3>1. ASSUME NEW a \in admitted[k]
          PROVE  a[1] = clock => a[2] < Cardinality(JustNow(admitted[k]))
      <4>1. k \in Keys
        BY <1>3
      <4> QED BY <4>1 DEF GateInv, Tickets
    <3>2. x[1] = clock => x[2] < Cardinality(JustNow(admitted[k]))
      BY <2>3, <3>1
    <3> QED BY <2>1, <2>2, <3>2
  <2> QED BY <2>1, <2>3
<1>18. Matched(l, c)'
  <2>1. TimesOf(l, c)' = IF pass THEN Append(old, readAt) ELSE old
    BY <1>10 DEF TimesOf, W2
  <2>2. CASE ~pass
    <3>1. Recent(l, c)' = Recent(l, c)
      BY <1>5, <2>2 DEF Recent
    <3> QED BY <1>15, <2>1, <2>2, <3>1 DEF Matched
  <2>3. CASE pass
    <3>1. admitted'[<<l, c>>] = Lately(admitted[<<l, c>>]) \union {x}
      BY <1>11, <2>3 
    <3>2. Recent(l, c)' \subseteq Recent(l, c) \union {x}
      BY <1>5, <3>1 DEF Recent, Lately
    <3>3. x \notin Recent(l, c)
      BY <1>17 DEF Recent
    <3>4. x[1] = clock /\ readAt >= x[1] - MaxDelay
      BY <1>2, <1>4, <1>17
    <3>5. Entries(Recent(l, c) \union {x}, Append(old, readAt)) # {}
      BY <1>2, <1>4, <1>15, <1>16, <3>3, <3>4, AppendMatches
    <3>6. Entries(Recent(l, c)', Append(old, readAt)) # {}
      BY <3>2, <3>5, FewerMatch
    <3> QED BY <2>1, <2>3, <3>6 DEF Matched
  <2> QED BY <2>2, <2>3
<1>19. ASSUME NEW m \in Limiters, NEW d \in Clients PROVE Matched(m, d)'
  <2>1. CASE m = l /\ d = c
    BY <1>18, <2>1
  <2>2. CASE ~(m = l /\ d = c)
    <3>1. <<m, d>> # k /\ <<m, d>> \in Keys
      BY <2>2 DEF Keys
    <3>2. Recent(m, d)' = Recent(m, d)
      BY <1>5, <1>11, <3>1 DEF Recent
    <3>3. Entries(Recent(m, d), TimesOf(m, d)) # {}
      BY DEF GateInv, Matched
    <3>4. CASE TimesOf(m, d)' = TimesOf(m, d)
      BY <3>2, <3>3, <3>4 DEF Matched
    <3>5. CASE TimesOf(m, d)' # TimesOf(m, d)
      <4>1. m = l /\ d # c
        BY <1>9, <2>2, <3>5 DEF TimesOf
      <4>2. d \in DOMAIN w \ DOMAIN kept
        BY <1>8, <1>10, <3>5, <4>1 DEF TimesOf, W2, w
      <4> QED BY <1>12, <3>2, <4>1, <4>2, NothingMatches DEF Matched
    <3> QED BY <3>4, <3>5
  <2> QED BY <2>1, <2>2
<1>20. WindowTypes'
  <2>1. (IF pass THEN Append(old, readAt) ELSE old) \in Seq(Nat)
    BY <1>2, <1>16
  <2>2. W2[c] \in Entry /\ Len(W2[c].times) <= LimitOf[l]
    <3>1. W2[c] \in Entry
      BY <1>2, <1>10, <2>1 DEF Entry
    <3>2. CASE pass
      <4>1. Len(old) < LimitOf[l] /\ Len(old) \in Nat
        BY <1>7, <1>16, <3>2
      <4>2. Len(Append(old, readAt)) = Len(old) + 1
        BY <1>2, <1>16, AppendProperties
      <4> QED BY <1>4, <1>10, <3>1, <3>2, <4>1, <4>2
    <3>3. CASE ~pass
      BY <1>4, <1>7, <1>10, <1>16, <3>1, <3>3
    <3> QED BY <3>1, <3>2, <3>3
  <2>3. \A d \in DOMAIN kept : w[d] \in Entry /\ Len(w[d].times) <= LimitOf[l]
    BY <1>3, <1>8 DEF GateInv, WindowTypes, w
  <2>4. /\ DOMAIN W2 \subseteq Clients /\ \A d \in DOMAIN W2 : W2[d] \in Entry
        /\ \A d \in DOMAIN W2 : Len(W2[d].times) <= LimitOf[l]
    BY <1>2, <1>3, <1>8, <1>10, <2>2, <2>3
  <2>5. ASSUME NEW m \in Limiters
        PROVE  /\ DOMAIN windows'[m] \subseteq Clients /\ \A d \in DOMAIN windows'[m] : windows'[m][d] \in Entry
               /\ \A d \in DOMAIN windows'[m] : Len(windows'[m][d].times) <= LimitOf[m]
    <3>1. CASE m = l
      BY <2>4, <3>1 DEF W2
    <3>2. CASE m # l
      BY <1>9, <3>2 DEF GateInv, WindowTypes
    <3> QED BY <3>1, <3>2
  <2>6. ASSUME NEW j \in Keys PROVE IsFiniteSet(admitted'[j])
    <3>1. IsFiniteSet(admitted[j])
      BY DEF GateInv, WindowTypes
    <3>2. IsFiniteSet(Lately(admitted[k]) \union {x})
      <4>1. IsFiniteSet(Lately(admitted[k]))
        BY <1>3, FS_Subset DEF Lately
      <4> QED BY <4>1, FS_AddElement
    <3> QED BY <1>3, <1>11, <3>1, <3>2
  <2> QED BY <1>9, <1>11, <2>5, <2>6 DEF WindowTypes
<1>21. Tickets'
  <2> SUFFICES ASSUME NEW j \in Keys, NEW a \in admitted'[j]
               PROVE  /\ a[1] <= clock
                      /\ a[1] = clock => a[2] < Cardinality(JustNow(admitted[j])')
                      /\ j[2] \in DOMAIN windows'[j[1]] => a[1] - MaxDelay <= windows'[j[1]][j[2]].seen
    BY <1>5 DEF Tickets
  <2>1. ASSUME NEW b \in admitted[j]
        PROVE  /\ b[1] <= clock
               /\ b[1] = clock => b[2] < Cardinality(JustNow(admitted[j]))
               /\ j[2] \in DOMAIN windows[j[1]] => b[1] - MaxDelay <= windows[j[1]][j[2]].seen
    BY DEF GateInv, Tickets
  <2>2. CASE j # k
    <3>1. admitted'[j] = admitted[j] /\ j[1] \in Limiters /\ j[2] \in Clients /\ ~(j[1] = l /\ j[2] = c)
      BY <1>11, <2>2 DEF Keys
    <3>2. j[2] \in DOMAIN windows'[j[1]]
            => j[2] \in DOMAIN windows[j[1]] /\ windows'[j[1]][j[2]].seen = windows[j[1]][j[2]].seen
      <4>1. CASE j[1] # l
        BY <1>9, <3>1, <4>1
      <4>2. CASE j[1] = l
        BY <1>8, <1>10, <3>1, <4>2 DEF W2, w
      <4> QED BY <4>1, <4>2
    <3>3. JustNow(admitted[j])' = JustNow(admitted[j])
      BY <1>5, <3>1 DEF JustNow
    <3>4. a \in admitted[j]
      BY <3>1
    <3> QED BY <2>1, <3>2, <3>3, <3>4
  <2>3. CASE j = k
    <3>1. j[1] = l /\ j[2] = c /\ windows'[j[1]][j[2]].seen = readAt
      BY <1>10, <2>3 DEF W2
    <3>2. a[1] \in Nat /\ a[1] <= clock /\ a[2] \in Nat
      <4>1. a \in Nat \X Nat
        BY <1>11, <2>3
      <4>2. a \in admitted[k] \/ a = x
        BY <1>11, <2>3 DEF Lately
      <4>3. a[1] <= clock
        BY <1>2, <1>17, <2>1, <2>3, <4>2
      <4> QED BY <4>1, <4>3
    <3>3. a[1] - MaxDelay <= readAt
      BY <1>2, <1>4, <3>2
    <3>4. a[1] = clock => a[2] < Cardinality(JustNow(admitted[j])')
      <4>1. CASE ~pass
        <5>1. admitted'[j] = admitted[j] /\ a \in admitted[j]
          BY <1>11, <2>3, <4>1
        <5>2. JustNow(admitted[j])' = JustNow(admitted[j])
          BY <1>5, <5>1 DEF JustNow
        <5> QED BY <2>1, <5>1, <5>2
      <4>2. CASE pass
        <5> DEFINE B == JustNow(admitted[k])
        <5>1. admitted'[k] = Lately(admitted[k]) \union {x} /\ x[1] = clock /\ x[2] = Cardinality(B)
          BY <1>11, <1>17, <4>2
        <5>2. JustNow(admitted[k])' = B \union {x}
          BY <1>2, <1>4, <1>5, <5>1 DEF Lately, JustNow
        <5>3. IsFiniteSet(B) /\ x \notin B /\ Cardinality(B) \in Nat
          BY <1>3, <1>17, FS_Subset, FS_CardinalityType DEF JustNow
        <5>4. Cardinality(B \union {x}) = Cardinality(B) + 1
          BY <5>3, FS_AddElement
        <5>5. \A b \in B : b[2] < Cardinality(B)
          BY <2>1, <2>3 DEF JustNow
        <5>6. a[1] = clock => a \in B \/ a = x
          BY <1>11, <2>3, <5>1 DEF JustNow, Lately
        <5>7. a[1] = clock => a[2] < Cardinality(B) + 1
          BY <3>2, <5>1, <5>3, <5>5, <5>6
        <5> QED BY <2>3, <5>2, <5>4, <5>7
      <4> QED BY <4>1, <4>2
    <3> QED BY <3>1, <3>2, <3>3, <3>4
  <2> QED BY <2>2, <2>3
<1> QED BY <1>19, <1>20, <1>21

LEMMA SignsAgree ==
  ASSUME NEW x \in Int, NEW y \in Int, (x >= 0 /\ y >= 0) \/ (x <= 0 /\ y <= 0)
  PROVE  x * y >= 0
OBVIOUS

LEMMA AbsIs == ASSUME NEW x \in Int PROVE Abs(x) \in Nat /\ (Abs(x) = x \/ Abs(x) = -x)
BY DEF Abs

\* A reducing order moves the position towards flat and never past it.
LEMMA FillCloses ==
  ASSUME position \in Int, NEW o \in OrdersSent, NEW to, to = position + o.side * Filled(o)
  PROVE  to \in Int /\ (o.reduce => Abs(to) <= Abs(position) /\ to * position >= 0)
<1>1. o.side \in {-1, 1} /\ o.size \in Nat /\ o.reduce \in BOOLEAN
  BY DEF OrdersSent
<1>2. CASE ~o.reduce
  <2>1. Filled(o) = o.size
    BY <1>2 DEF Filled
  <2> QED BY <1>1, <1>2, <2>1
<1>3. CASE o.reduce
  <2>1. CASE position * o.side >= 0
    <3>1. Filled(o) = 0
      BY <1>3, <2>1 DEF Filled
    <3>2. to = position
      BY <1>1, <3>1
    <3> QED BY <3>2, SignsAgree, AbsIs
  <2>2. CASE ~(position * o.side >= 0)
    <3>1. Filled(o) = IF o.size < Abs(position) THEN o.size ELSE Abs(position)
      BY <1>3, <2>2 DEF Filled
    <3>2. CASE o.side = 1
      <4>1. position < 0 /\ Abs(position) = -position
        BY <2>2, <3>2 DEF Abs
      <4>2. to \in Int /\ position <= to /\ to <= 0
        BY <1>1, <3>1, <3>2, <4>1
      <4>3. Abs(to) <= Abs(position)
        BY <4>1, <4>2 DEF Abs
      <4>4. to * position >= 0
        BY <4>1, <4>2, SignsAgree
      <4> QED BY <4>2, <4>3, <4>4
    <3>3. CASE o.side = -1
      <4>1. position > 0 /\ Abs(position) = position
        BY <2>2, <3>3 DEF Abs
      <4>2. to \in Int /\ 0 <= to /\ to <= position
        BY <1>1, <3>1, <3>3, <4>1
      <4>3. Abs(to) <= Abs(position)
        BY <4>1, <4>2 DEF Abs
      <4>4. to * position >= 0
        BY <4>1, <4>2, SignsAgree
      <4> QED BY <4>2, <4>3, <4>4
    <3> QED BY <1>1, <3>2, <3>3
  <2> QED BY <2>1, <2>2
<1> QED BY <1>1, <1>2, <1>3

Lawful(q) == /\ q \in Seq(OrdersSent)
             /\ \A i \in 1..Len(q) : tokens # {} /\ (q[i].kind = "close" => q[i].reduce)

LEMMA RemoveKeeps ==
  ASSUME Lawful(sent), NEW i \in DOMAIN sent
  PROVE  Lawful(RemoveAt(sent, i))
<1> DEFINE n == Len(sent)
           left == RemoveAt(sent, i)
<1>1. n \in Nat /\ DOMAIN sent = 1..n /\ i \in 1..n
  BY DEF Lawful
<1>2. left = SubSeq(sent, 1, i - 1) \o SubSeq(sent, i + 1, n)
  BY DEF RemoveAt
<1> DEFINE a == SubSeq(sent, 1, i - 1)
           b == SubSeq(sent, i + 1, n)
<1>3. /\ a \in Seq(OrdersSent) /\ Len(a) = i - 1
      /\ \A j \in 1..(i - 1) : a[j] = sent[j]
  <2>1. \A j \in 1..(i - 1) : sent[j] \in OrdersSent
    BY <1>1 DEF Lawful
  <2>2. 1 \in Int /\ i - 1 \in Int
    BY <1>1
  <2>3. a \in Seq(OrdersSent) /\ Len(a) = (IF 1 <= i - 1 THEN (i - 1) - 1 + 1 ELSE 0)
        /\ \A j \in 1..((i - 1) - 1 + 1) : a[j] = sent[1 + j - 1]
    BY <2>1, <2>2, SubSeqProperties
  <2> HIDE DEF a
  <2> QED BY <1>1, <2>3
<1>4. /\ b \in Seq(OrdersSent) /\ Len(b) = n - i
      /\ \A j \in 1..(n - i) : b[j] = sent[i + j]
  <2>1. \A j \in (i + 1)..n : sent[j] \in OrdersSent
    BY <1>1 DEF Lawful
  <2>2. i + 1 \in Int /\ n \in Int
    BY <1>1
  <2>3. b \in Seq(OrdersSent) /\ Len(b) = (IF i + 1 <= n THEN n - (i + 1) + 1 ELSE 0)
        /\ \A j \in 1..(n - (i + 1) + 1) : b[j] = sent[(i + 1) + j - 1]
    BY <2>1, <2>2, SubSeqProperties
  <2> HIDE DEF b, n
  <2>4. n - (i + 1) + 1 = n - i /\ (i + 1 <= n <=> i < n) /\ (i < n \/ n - i = 0)
    BY <1>1
  <2>5. Len(b) = n - i
    BY <2>3, <2>4, <1>1
  <2>6. ASSUME NEW j \in 1..(n - i) PROVE b[j] = sent[i + j]
    <3>1. (i + 1) + j - 1 = i + j
      BY <1>1
    <3> QED BY <2>3, <2>4, <3>1
  <2> QED BY <2>3, <2>5, <2>6
<1>9. left = a \o b
  BY <1>2
<1> HIDE DEF a, b, left, n
<1>5. left \in Seq(OrdersSent) /\ Len(left) = n - 1
  <2>2. Len(a) + Len(b) = n - 1
    BY <1>1, <1>3, <1>4
  <2> QED BY <1>3, <1>4, <1>9, <2>2, ConcatProperties
<1>6. ASSUME NEW j \in 1..(n - 1) PROVE \E k \in 1..n : left[j] = sent[k]
  <2>2. left[j] = IF j <= i - 1 THEN a[j] ELSE b[j - (i - 1)]
    BY <1>1, <1>3, <1>4, <1>9
  <2>3. CASE j <= i - 1
    BY <1>1, <1>3, <2>2, <2>3
  <2>4. CASE ~(j <= i - 1)
    <3>1. j - (i - 1) \in 1..(n - i) /\ i + (j - (i - 1)) = j + 1 /\ j + 1 \in 1..n
      BY <1>1, <2>4
    <3> QED BY <1>4, <2>2, <2>4, <3>1
  <2> QED BY <2>3, <2>4
<1>7. ASSUME NEW j \in 1..Len(left)
      PROVE  tokens # {} /\ (left[j].kind = "close" => left[j].reduce)
  <2>1. j \in 1..(n - 1)
    BY <1>5
  <2>2. n = Len(sent)
    BY DEF n
  <2> QED BY <1>6, <2>1, <2>2 DEF Lawful
<1>8. Lawful(left)
  BY <1>5, <1>7 DEF Lawful
<1> QED BY <1>8 DEF left

\* What a step of one request leaves of the types.
Beside == <<clock, tokens, traffic, position, tracked>>

LEMMA SlotChanges ==
  ASSUME GateTypes, NEW r \in Slots, NEW q, Served(q), serving' = [serving EXCEPT ![r] = q],
         traffic # {}, UNCHANGED Beside, Lawful(sent')
  PROVE  GateTypes'
<1>1. \A k \in Slots : Served(serving'[k])
  BY DEF GateTypes
<1>2. serving' = [k \in Slots |-> serving'[k]]
  BY DEF GateTypes
<1>3. \A k \in Slots : Served(serving[k])'
  BY <1>1 DEF Served, Beside
<1>4. tokens' = tokens /\ traffic' = traffic /\ clock' = clock /\ position' = position /\ tracked' = tracked
  BY DEF Beside
<1> QED BY <1>2, <1>3, <1>4 DEF GateTypes, Lawful

LEMMA FreeIsServed == Served(Free)
BY DEF Served

LEMMA InService ==
  ASSUME GateTypes, NEW r \in Slots, serving[r] # Free
  PROVE  Served(serving[r]) /\ traffic # {}
BY DEF GateTypes

LEMMA SentIsLawful == ASSUME GateTypes PROVE Lawful(sent)
BY DEF GateTypes, Lawful

LEMMA RolesAreRanks ==
  ASSUME GateBounds, GateTypes, NEW b
  PROVE  Authenticate(b) \in 0..3 /\ (Authenticate(b) >= Operator => tokens # {})
<1>1. CASE tokens = {}
  BY <1>1 DEF Authenticate, Viewer, Operator
<1>2. CASE tokens # {} /\ RolesOf(b) = {}
  BY <1>2 DEF Authenticate
<1>3. CASE tokens # {} /\ RolesOf(b) # {}
  <2>1. RolesOf(b) \subseteq 1..3
    BY DEF RolesOf, GateBounds, GateTypes
  <2>2. \E n \in RolesOf(b) : \A m \in RolesOf(b) : m <= n
    BY <1>3, <2>1
  <2>3. Authenticate(b) \in RolesOf(b)
    BY <1>3, <2>2 DEF Authenticate
  <2> QED BY <1>3, <2>1, <2>3
<1> QED BY <1>1, <1>2, <1>3

LEMMA RequestGoesOn ==
  ASSUME GateBounds, GateTypes, NEW r \in Slots, serving[r].stage \in Limiters,
         NEW st \in Limiters \union {"handler"}, NEW ro \in 0..3, ro >= Operator => tokens # {},
         NEW q, q = [serving[r] EXCEPT !.stage = st, !.at = clock, !.role = ro]
  PROVE  Served(q)
<1>1. DOMAIN serving[r] = RequestFields /\ serving[r].client \in Clients
  BY DEF GateTypes, Served, Free, Limiters
<1>2. /\ DOMAIN q = RequestFields /\ q.client = serving[r].client
      /\ q.stage = st /\ q.at = clock /\ q.role = ro
  BY <1>1 DEF RequestFields
<1>3. clock \in Nat /\ MaxDelay \in Nat
  BY DEF GateTypes, GateBounds
<1> QED BY <1>1, <1>2, <1>3 DEF Served

\* Answered, or gone on: where a limiter may send the request it held.
LEMMA LimiterSends ==
  ASSUME GateBounds, GateInv, NEW r \in Slots, NEW l \in Limiters, Lock(r, l),
         \/ Answer(r)
         \/ \E st \in Limiters \union {"handler"}, ro \in 0..3 :
              (ro >= Operator => tokens # {}) /\ Goes(r, st, ro)
  PROVE  GateInv'
<1>1. serving[r].stage \in Limiters /\ serving[r] # Free /\ GateTypes
  BY DEF Lock, Limiters, Free, GateInv
<1>2. UNCHANGED <<Beside, sent, last>>
  BY Zenon DEF Lock, Beside, engine
<1>3. traffic # {} /\ Lawful(sent)
  BY <1>1, InService, SentIsLawful
<1>4. Lawful(sent')
  BY <1>2, <1>3
<1>5. GateTypes'
  <2>1. CASE Answer(r)
    BY <1>1, <1>2, <1>3, <1>4, <2>1, FreeIsServed, SlotChanges DEF Answer
  <2>2. ASSUME NEW st \in Limiters \union {"handler"}, NEW ro \in 0..3,
               ro >= Operator => tokens # {}, Goes(r, st, ro)
        PROVE  GateTypes'
    <3> DEFINE q == [serving[r] EXCEPT !.stage = st, !.at = clock, !.role = ro]
    <3>1. Served(q)
      BY <1>1, <2>2, RequestGoesOn
    <3>2. serving' = [serving EXCEPT ![r] = q]
      BY <2>2, Zenon DEF Goes
    <3> HIDE DEF q
    <3> QED BY <1>1, <1>2, <1>3, <1>4, <3>1, <3>2, SlotChanges
  <2> QED BY <2>1, <2>2
<1>6. LastIsClosing'
  BY <1>2 DEF GateInv, LastIsClosing
<1> QED BY <1>5, <1>6, LockKeeps DEF GateInv

LEMMA RequestLimitedKeeps ==
  ASSUME GateBounds, GateInv, NEW r \in Slots, RequestLimited(r) PROVE GateInv'
<1> DEFINE role == Authenticate(serving[r].bearer)
<1>1. role \in 0..3 /\ (role >= Operator => tokens # {})
  BY RolesAreRanks DEF GateInv
<1> HIDE DEF role
<1>2. Lock(r, "request") /\ "request" \in Limiters
  BY DEF RequestLimited, Limiters
<1>3. Answer(r) \/ Goes(r, "failure", 0) \/ Goes(r, "mutation", role)
  BY DEF RequestLimited, role
<1>4. "failure" \in Limiters /\ "mutation" \in Limiters /\ 0 \in 0..3 /\ ~(0 >= Operator)
  BY DEF Limiters, Operator
<1> QED BY <1>1, <1>2, <1>3, <1>4, LimiterSends

LEMMA AuthFailedKeeps == ASSUME GateBounds, GateInv, NEW r \in Slots, AuthFailed(r) PROVE GateInv'
<1>1. Lock(r, "failure") /\ Answer(r) /\ "failure" \in Limiters
  BY DEF AuthFailed, Limiters
<1> QED BY <1>1, LimiterSends

LEMMA MutationLimitedKeeps ==
  ASSUME GateBounds, GateInv, NEW r \in Slots, MutationLimited(r) PROVE GateInv'
<1>1. Lock(r, "mutation") /\ "mutation" \in Limiters /\ serving[r].stage = "mutation"
  BY Zenon DEF MutationLimited, Lock, Limiters
<1>2. serving[r].role \in 0..3 /\ (serving[r].role >= Operator => tokens # {})
  BY <1>1 DEF GateInv, GateTypes, Served, Free
<1>3. Answer(r) \/ Goes(r, "handler", serving[r].role)
  BY DEF MutationLimited
<1> QED BY <1>1, <1>2, <1>3, LimiterSends

\* A handler's step touches neither the windows nor the last execution.
LEMMA HandlerKeeps ==
  ASSUME GateInv, NEW r \in Slots, NEW q, Served(q), serving[r] # Free,
         serving' = [serving EXCEPT ![r] = q],
         UNCHANGED <<clock, tokens, traffic, limiter, position, tracked, last>>, Lawful(sent')
  PROVE  GateInv'
<1>1. traffic # {} /\ GateTypes
  BY InService DEF GateInv
<1>2. UNCHANGED Beside
  BY DEF Beside
<1>3. GateTypes'
  BY <1>1, <1>2, SlotChanges
<1>4. LastIsClosing'
  BY DEF GateInv, LastIsClosing
<1>5. UNCHANGED GateFrame
  BY DEF limiter, GateFrame
<1> QED BY <1>3, <1>4, <1>5, WindowsFrame DEF GateInv

LEMMA RefusedKeeps == ASSUME GateInv, NEW r \in Slots, Refused(r) PROVE GateInv'
<1>1. serving[r] # Free /\ serving' = [serving EXCEPT ![r] = Free]
  BY DEF Refused, Answer, Free
<1>2. UNCHANGED <<clock, tokens, traffic, limiter, position, tracked, last, sent>>
  BY DEF Refused, engine
<1>3. Lawful(sent')
  BY <1>2, SentIsLawful DEF GateInv
<1> QED BY <1>1, <1>2, <1>3, FreeIsServed, HandlerKeeps

LEMMA IntentIsLawful ==
  ASSUME GateTypes, NEW r \in Slots, serving[r].stage = "handler", serving[r].role >= Operator,
         serving[r].kind \in {"close", "submit"},
         NEW intent \in (IF serving[r].kind = "close" THEN {CloseIntent(r)}
                         ELSE {SubmitIntent(r, s) : s \in {-1, 1}}),
         NEW q, q = [stage |-> "submit", intent |-> intent]
  PROVE  Served(q)
<1>1. serving[r].role \in 0..3 /\ tokens # {}
  BY DEF GateTypes, Served, Free, Operator
<1>2. serving[r].role \in 2..3
  BY <1>1 DEF Operator
<1>3. Abs(tracked) \in Nat
  BY AbsIs DEF GateTypes
<1>4. intent \in OrdersSent /\ (intent.kind = "close" => intent.reduce)
  <2>1. CASE serving[r].kind = "close"
    <3> DEFINE side == IF tracked > 0 THEN -1 ELSE 1
    <3>1. intent = [side |-> side, size |-> Abs(tracked), reduce |-> TRUE,
                    kind |-> serving[r].kind, role |-> serving[r].role]
      BY <2>1, Zenon DEF CloseIntent, Order
    <3>2. side \in {-1, 1}
      OBVIOUS
    <3> HIDE DEF side
    <3> QED BY <1>2, <1>3, <2>1, <3>1, <3>2 DEF OrdersSent
  <2>2. CASE serving[r].kind # "close"
    <3>1. PICK s \in {-1, 1} : intent = SubmitIntent(r, s)
      BY <2>2
    <3>2. intent = [side |-> s, size |-> 1, reduce |-> FALSE,
                    kind |-> serving[r].kind, role |-> serving[r].role]
      BY <3>1, Zenon DEF SubmitIntent, Order
    <3> QED BY <1>2, <2>2, <3>2 DEF OrdersSent
  <2> QED BY <2>1, <2>2
<1>5. q.stage = "submit" /\ q.intent = intent
  OBVIOUS
<1> QED BY <1>1, <1>4, <1>5 DEF Served

LEMMA BuildIntentKeeps ==
  ASSUME GateInv, NEW r \in Slots, BuildIntent(r), serving[r].stage = "handler",
         serving[r].role >= Operator, serving[r].kind \in {"close", "submit"}
  PROVE  GateInv'
<1>1. PICK intent \in (IF serving[r].kind = "close" THEN {CloseIntent(r)}
                       ELSE {SubmitIntent(r, s) : s \in {-1, 1}}) :
        serving' = [serving EXCEPT ![r] = [stage |-> "submit", intent |-> intent]]
  BY DEF BuildIntent
<1> DEFINE q == [stage |-> "submit", intent |-> intent]
<1>2. Served(q)
  BY <1>1, IntentIsLawful DEF GateInv
<1>3. serving' = [serving EXCEPT ![r] = q]
  BY <1>1
<1> HIDE DEF q
<1>4. UNCHANGED <<clock, tokens, traffic, limiter, position, tracked, last, sent>>
  BY DEF BuildIntent, engine
<1>5. Lawful(sent') /\ serving[r] # Free
  BY <1>4, SentIsLawful DEF GateInv, Free
<1> QED BY <1>2, <1>3, <1>4, <1>5, HandlerKeeps

LEMMA ClosePositionKeeps == ASSUME GateInv, NEW r \in Slots, ClosePosition(r) PROVE GateInv'
BY BuildIntentKeeps DEF ClosePosition, Authorized

LEMMA SubmitOrderKeeps == ASSUME GateInv, NEW r \in Slots, SubmitOrder(r) PROVE GateInv'
BY BuildIntentKeeps DEF SubmitOrder, Authorized

LEMMA EngineAnswersKeeps == ASSUME GateInv, NEW r \in Slots, EngineAnswers(r) PROVE GateInv'
<1>1. serving[r].stage = "submit" /\ serving[r] # Free /\ serving' = [serving EXCEPT ![r] = Free]
  BY DEF EngineAnswers, Answer, Free
<1>2. UNCHANGED <<clock, tokens, traffic, limiter, position, tracked, last>>
  BY DEF EngineAnswers
<1> DEFINE intent == serving[r].intent
<1>3. intent \in OrdersSent /\ tokens # {} /\ (intent.kind = "close" => intent.reduce)
  BY <1>1 DEF GateInv, GateTypes, Served, Free, Limiters
<1>4. Lawful(sent)
  BY SentIsLawful DEF GateInv
<1>5. Lawful(Append(sent, intent))
  <2> HIDE DEF intent
  <2>1. /\ Append(sent, intent) \in Seq(OrdersSent) /\ Len(Append(sent, intent)) = Len(sent) + 1
        /\ Len(sent) \in Nat
        /\ \A i \in 1..Len(sent) : Append(sent, intent)[i] = sent[i]
        /\ Append(sent, intent)[Len(sent) + 1] = intent
    BY <1>3, <1>4, AppendProperties DEF Lawful
  <2>2. ASSUME NEW i \in 1..Len(Append(sent, intent))
        PROVE  tokens # {} /\ (Append(sent, intent)[i].kind = "close" => Append(sent, intent)[i].reduce)
    <3>1. i \in 1..Len(sent) \/ i = Len(sent) + 1
      BY <2>1
    <3>2. CASE i \in 1..Len(sent)
      BY <1>4, <2>1, <3>2 DEF Lawful
    <3>3. CASE i = Len(sent) + 1
      BY <1>3, <2>1, <3>3
    <3> QED BY <3>1, <3>2, <3>3
  <2> QED BY <2>1, <2>2 DEF Lawful
<1>6. sent' = Append(sent, intent) \/ sent' = sent
  BY DEF EngineAnswers
<1>7. Lawful(sent')
  BY <1>4, <1>5, <1>6
<1> QED BY <1>1, <1>2, <1>7, FreeIsServed, HandlerKeeps

LEMMA CancelOrderKeeps == ASSUME GateInv, NEW r \in Slots, CancelOrder(r) PROVE GateInv'
<1>1. serving[r] # Free /\ serving' = [serving EXCEPT ![r] = Free]
  BY DEF CancelOrder, Authorized, Answer, Free
<1>2. UNCHANGED <<clock, tokens, traffic, limiter, position, tracked, last>>
  BY DEF CancelOrder
<1>3. Lawful(sent)
  BY SentIsLawful DEF GateInv
<1>4. sent' = sent \/ \E i \in DOMAIN sent : sent' = RemoveAt(sent, i)
  BY DEF CancelOrder
<1>5. Lawful(sent')
  BY <1>3, <1>4, RemoveKeeps
<1> QED BY <1>1, <1>2, <1>5, FreeIsServed, HandlerKeeps

LEMMA ArrivesKeeps ==
  ASSUME GateBounds, GateInv, NEW r \in Slots, NEW c \in Clients, NEW k, NEW b, NEW keyed,
         traffic # {}, RequestArrives(r, c, k, b, keyed)
  PROVE  GateInv'
<1> DEFINE q == [stage |-> "request", at |-> clock, client |-> c,
                 kind |-> k, bearer |-> b, keyed |-> keyed, role |-> 0]
<1>1. Served(q)
  <2>1. clock \in Nat /\ MaxDelay \in Nat /\ clock - clock = 0
    BY DEF GateInv, GateTypes, GateBounds
  <2>2. /\ DOMAIN q = RequestFields /\ q.stage = "request" /\ q.at = clock
        /\ q.client = c /\ q.role = 0
    BY DEF RequestFields
  <2> HIDE DEF q
  <2> QED BY <2>1, <2>2 DEF Served, Limiters, Operator
<1>2. serving' = [serving EXCEPT ![r] = q]
  BY DEF RequestArrives
<1> HIDE DEF q
<1>3. UNCHANGED <<Beside, sent, last, GateFrame>>
  BY DEF RequestArrives, Beside, GateFrame, limiter, engine
<1>4. GateTypes'
  <2>1. Lawful(sent')
    BY <1>3, SentIsLawful DEF GateInv
  <2> QED BY <1>1, <1>2, <1>3, <2>1, SlotChanges DEF GateInv
<1>5. LastIsClosing'
  BY <1>3 DEF GateInv, LastIsClosing
<1> QED BY <1>3, <1>4, <1>5, WindowsFrame DEF GateInv

LEMMA ConfigureKeeps == ASSUME GateBounds, GateInv, Configure PROVE GateInv'
<1>1. /\ traffic = {} /\ tokens' \in {{}, Tokens}
      /\ UNCHANGED <<clock, serving, sent, position, tracked, last, windows, admitted>>
  BY DEF Configure, limiter, engine
<1>2. sent = << >> /\ \A r \in Slots : serving[r] = Free
  BY <1>1 DEF GateInv, GateTypes
<1>3. \A r \in Slots : Served(serving[r])'
  BY <1>1, <1>2 DEF Served
<1>4. sent' = << >> /\ Len(<< >>) = 0 /\ << >> \in Seq(OrdersSent)
  BY <1>1, <1>2
<1>5. GateTypes'
  BY <1>1, <1>2, <1>3, <1>4 DEF GateInv, GateTypes
<1>6. LastIsClosing'
  BY <1>1 DEF GateInv, LastIsClosing
<1>7. UNCHANGED GateFrame
  BY <1>1 DEF GateFrame
<1> QED BY <1>5, <1>6, <1>7, WindowsFrame DEF GateInv

LEMMA PollKeeps == ASSUME GateInv, Poll PROVE GateInv'
<1>1. /\ tracked' = position
      /\ UNCHANGED <<clock, tokens, traffic, serving, sent, position, last, windows, admitted>>
  BY DEF Poll, limiter
<1>2. \A r \in Slots : Served(serving[r])'
  BY <1>1 DEF GateInv, GateTypes, Served
<1>3. GateTypes'
  BY <1>1, <1>2 DEF GateInv, GateTypes
<1>4. LastIsClosing'
  BY <1>1 DEF GateInv, LastIsClosing
<1>5. UNCHANGED GateFrame
  BY <1>1 DEF GateFrame
<1> QED BY <1>3, <1>4, <1>5, WindowsFrame DEF GateInv

LEMMA ExecuteKeeps == ASSUME GateInv, NEW i \in DOMAIN sent, Execute(i) PROVE GateInv'
<1> DEFINE o == sent[i]
           to == position + o.side * Filled(o)
<1>1. /\ sent' = RemoveAt(sent, i) /\ position' = to
      /\ last' = [close |-> o.kind = "close", from |-> position, to |-> to]
      /\ UNCHANGED <<clock, tokens, traffic, serving, tracked, windows, admitted>>
  BY DEF Execute, limiter
<1>2. Lawful(sent)
  BY SentIsLawful DEF GateInv
<1>3. o \in OrdersSent /\ (o.kind = "close" => o.reduce) /\ sent # << >>
  BY <1>2 DEF Lawful
<1>4. position \in Int
  BY DEF GateInv, GateTypes
<1> HIDE DEF o
<1>5. to \in Int /\ (o.reduce => Abs(to) <= Abs(position) /\ to * position >= 0)
  BY <1>3, <1>4, FillCloses
<1> HIDE DEF to
<1>6. Lawful(sent')
  <2>1. Lawful(RemoveAt(sent, i))
    BY <1>2, RemoveKeeps
  <2> QED BY <1>1, <2>1
<1>7. \A r \in Slots : Served(serving[r])'
  BY <1>1 DEF GateInv, GateTypes, Served
<1>8. GateTypes'
  <2>1. traffic # {}
    BY <1>3 DEF GateInv, GateTypes
  <2> QED BY <1>1, <1>5, <1>6, <1>7, <2>1 DEF GateInv, GateTypes, Lawful
<1>9. LastIsClosing'
  <2>1. last'.close => Abs(to) <= Abs(position) /\ to * position >= 0
    BY <1>1, <1>3, <1>5
  <2>2. last'.from = position /\ last'.to = to
    BY <1>1
  <2> QED BY <2>1, <2>2 DEF LastIsClosing
<1>10. UNCHANGED GateFrame
  BY <1>1 DEF GateFrame
<1> QED BY <1>8, <1>9, <1>10, WindowsFrame DEF GateInv

LEMMA TickKeeps == ASSUME GateBounds, GateInv, Tick PROVE GateInv'
<1>1. /\ clock' = clock + 1 /\ clock \in Nat
      /\ UNCHANGED <<tokens, traffic, windows, admitted, serving, sent, position, tracked, last>>
      /\ \A r \in Slots : serving[r].stage \in Limiters => clock - serving[r].at < MaxDelay
  BY DEF Tick, limiter, engine, GateInv, GateTypes
<1>2. ASSUME NEW r \in Slots PROVE Served(serving[r])'
  <2> DEFINE q == serving[r]
  <2>1. Served(q) /\ q' = q /\ tokens' = tokens /\ (q.stage \in Limiters => clock - q.at < MaxDelay)
    BY <1>1 DEF GateInv, GateTypes
  <2> HIDE DEF q
  <2>2. MaxDelay \in Nat
    BY DEF GateBounds
  <2>3. ASSUME q.at \in Nat, q.at <= clock
        PROVE  /\ q.at <= clock'
               /\ clock - q.at < MaxDelay => clock' - q.at <= MaxDelay
    BY <1>1, <2>2, <2>3
  <2>4. Served(q)'
    BY <2>1, <2>3 DEF Served
  <2> QED BY <2>4 DEF q
<1>3. GateTypes'
  BY <1>1, <1>2 DEF GateInv, GateTypes
<1>4. WindowTypes'
  BY <1>1 DEF GateInv, WindowTypes
<1>5. Tickets'
  <2> SUFFICES ASSUME NEW k \in Keys, NEW a \in admitted[k]
               PROVE  /\ a[1] <= clock + 1
                      /\ a[1] = clock + 1 => a[2] < Cardinality(JustNow(admitted[k])')
                      /\ k[2] \in DOMAIN windows[k[1]] => a[1] - MaxDelay <= windows[k[1]][k[2]].seen
    BY <1>1 DEF Tickets
  <2>1. a[1] <= clock /\ (k[2] \in DOMAIN windows[k[1]] => a[1] - MaxDelay <= windows[k[1]][k[2]].seen)
    BY DEF GateInv, Tickets
  <2>2. a[1] \in Nat
    BY DEF GateInv, WindowTypes
  <2> QED BY <1>1, <2>1, <2>2
<1>6. ASSUME NEW l \in Limiters, NEW c \in Clients PROVE Matched(l, c)'
  <2>1. <<l, c>> \in Keys
    BY DEF Keys
  <2>2. admitted[<<l, c>>] \subseteq Nat \X Nat
    BY <2>1 DEF GateInv, WindowTypes
  <2>3. Recent(l, c)' \subseteq Recent(l, c)
    <3>1. Window \in Nat /\ MaxDelay \in Nat
      BY DEF GateBounds
    <3>2. ASSUME NEW a \in Recent(l, c)' PROVE a \in Recent(l, c)
      <4>1. a \in admitted[<<l, c>>] /\ a[1] >= (clock + 1) - Window + MaxDelay /\ a[1] \in Nat
        BY <1>1, <2>2 DEF Recent
      <4> QED BY <1>1, <3>1, <4>1 DEF Recent
    <3> QED BY <3>2
  <2>4. TimesOf(l, c)' = TimesOf(l, c)
    BY <1>1 DEF TimesOf
  <2>5. Entries(Recent(l, c), TimesOf(l, c)) # {}
    BY DEF GateInv, Matched
  <2>6. Entries(Recent(l, c)', TimesOf(l, c)) # {}
    BY <2>3, <2>5, FewerMatch
  <2> QED BY <2>4, <2>6 DEF Matched
<1>7. LastIsClosing'
  BY <1>1 DEF GateInv, LastIsClosing
<1> QED BY <1>3, <1>4, <1>5, <1>6, <1>7 DEF GateInv

LEMMA GateStutters == ASSUME GateInv, UNCHANGED gateVars PROVE GateInv'
<1>1. UNCHANGED <<clock, tokens, traffic, windows, admitted, serving, sent, position, tracked, last>>
  BY DEF gateVars
<1>2. \A r \in Slots : Served(serving[r])'
  BY <1>1 DEF GateInv, GateTypes, Served
<1>3. GateTypes'
  BY <1>1, <1>2 DEF GateInv, GateTypes
<1>4. LastIsClosing'
  BY <1>1 DEF GateInv, LastIsClosing
<1>5. UNCHANGED GateFrame
  BY <1>1 DEF GateFrame
<1> QED BY <1>3, <1>4, <1>5, WindowsFrame DEF GateInv

LEMMA GateSteps == ASSUME GateBounds, GateInv, [GateNext]_gateVars PROVE GateInv'
<1>1. CASE Configure
  BY <1>1, ConfigureKeeps
<1>2. ASSUME NEW r \in Slots, NEW t \in traffic, NEW c \in Clients,
             NEW k \in t.kinds, NEW b \in t.bearers, NEW keyed \in t.keyed,
             RequestArrives(r, c, k, b, keyed)
      PROVE  GateInv'
  BY <1>2, ArrivesKeeps
<1>3. ASSUME NEW r \in Slots,
             \/ RequestLimited(r) \/ AuthFailed(r) \/ MutationLimited(r) \/ Refused(r)
             \/ ClosePosition(r) \/ SubmitOrder(r) \/ EngineAnswers(r) \/ CancelOrder(r)
      PROVE  GateInv'
  BY <1>3, RequestLimitedKeeps, AuthFailedKeeps, MutationLimitedKeeps, RefusedKeeps,
     ClosePositionKeeps, SubmitOrderKeeps, EngineAnswersKeeps, CancelOrderKeeps
<1>4. CASE \E i \in DOMAIN sent : Execute(i)
  BY <1>4, ExecuteKeeps
<1>5. CASE Poll
  BY <1>5, PollKeeps
<1>6. CASE Tick
  BY <1>6, TickKeeps
<1>7. CASE UNCHANGED gateVars
  BY <1>7, GateStutters
<1> QED BY <1>1, <1>2, <1>3, <1>4, <1>5, <1>6, <1>7 DEF GateNext

LEMMA GateIsGated == ASSUME GateBounds, GateInv PROVE RequestsGated
<1>1. WithinLimits
  <2> SUFFICES ASSUME NEW l \in Limiters, NEW c \in Clients
               PROVE  Cardinality(Recent(l, c)) <= LimitOf[l]
    BY DEF WithinLimits, Recent
  <2>1. TimesOf(l, c) \in Seq(Nat) /\ Len(TimesOf(l, c)) <= LimitOf[l]
    <3>1. LimitOf[l] \in Nat /\ << >> \in Seq(Nat) /\ Len(<< >>) = 0
      BY DEF GateBounds, LimitOf, Limiters
    <3>2. CASE c \in DOMAIN windows[l]
      BY <3>2 DEF GateInv, WindowTypes, TimesOf, Entry
    <3>3. CASE c \notin DOMAIN windows[l]
      BY <3>1, <3>3 DEF TimesOf
    <3> QED BY <3>2, <3>3
  <2>2. Entries(Recent(l, c), TimesOf(l, c)) # {}
    BY DEF GateInv, Matched
  <2>3. IsFiniteSet(Recent(l, c)) /\ Cardinality(Recent(l, c)) <= Len(TimesOf(l, c))
    BY <2>1, <2>2, EntriesFit
  <2>4. Cardinality(Recent(l, c)) \in Nat /\ LimitOf[l] \in Nat
    BY <2>3, FS_CardinalityType DEF GateBounds, LimitOf, Limiters
  <2> QED BY <2>1, <2>3, <2>4
<1>2. OnlyOperators
  <2>1. Lawful(sent)
    BY SentIsLawful DEF GateInv
  <2>2. \A i \in DOMAIN sent : sent[i] \in OrdersSent /\ tokens # {}
    BY <2>1 DEF Lawful
  <2> QED BY <2>2 DEF OnlyOperators, OrdersSent, Operator
<1>3. ClosesOnlyClose
  BY DEF GateInv, LastIsClosing, ClosesOnlyClose
<1> QED BY <1>1, <1>2, <1>3 DEF RequestsGated

\* However late requests reach a limiter and whatever it sweeps, no client gets
\* more than the limit through in a window; and what reaches the engine was sent
\* by an operator, a close never carrying the position past flat.
THEOREM RequestsAreGated == GateBounds /\ GateSpec => []RequestsGated
<1> SUFFICES ASSUME GateBounds PROVE GateSpec => []RequestsGated
  OBVIOUS
<1> QED BY GateStarts, GateSteps, GateIsGated, PTL DEF GateSpec

=============================================================================
