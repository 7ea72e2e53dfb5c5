--------------------------- MODULE Quoting_proofs ---------------------------
(***************************************************************************)
(* Quotes: what a halt of the market maker leaves, what a plan of the      *)
(* coordinator may touch, the band and the passivity of the policy's prices, *)
(* the order within a batch, and the reference the prices are checked by.  *)
(***************************************************************************)
EXTENDS MarketMaker, QuoteCoordinator, QuotePolicy, Batch,
        ExternalReference, FiniteSetTheorems, SequenceTheorems, TLAPS

(***************************************************************************)
(* MarketMaker: what a halt leaves                                         *)
(***************************************************************************)

CountsAreNumbers == MaxOrders \in Nat

OrderSides == {"none", "bid", "ask"}
OrderRecords == [side : OrderSides, st : {"none", "live", "unknown", "gone"}]
Operations == [act : {"cancel", "place"}, order : 0..MaxOrders, side : OrderSides]
Points == {"idle", "begin", "view", "decide", "submit", "cancel", "cancelling"}
TaskRecords ==
  [pc : Points, view : SUBSET Ids, shadow : BOOLEAN, healthy : BOOLEAN,
   known : BOOLEAN, todo : Seq(Operations), then : {"cycle", "end"}, ok : BOOLEAN]

Types ==
  /\ orders \in [Ids -> OrderRecords] /\ account \in BOOLEAN
  /\ task \in [Tasks -> TaskRecords]

\* The lock is held by the one task that carries out a plan or its cancels.
Holding(r) == r.pc \in {"submit", "cancelling"}
Lock ==
  /\ revision \in {"free"} \cup Tasks
  /\ \A t \in Tasks : Holding(task[t]) <=> revision = t

\* From the lock of a halting call's cancels on, no plan is carried out; what
\* rests is named by the cancels still to come, or was not confirmed.
Named(s) == {s[k].order : k \in DOMAIN s}
Emptied(c) ==
  /\ c.pc = "cancelling" => Open \subseteq doubted \cup Named(c.todo)
  /\ c.ok /\ c.pc # "cancelling" => Open \subseteq doubted
Waiting(c) == c.pc = "cancel" /\ c.then = "cycle"
Halted ==
  mode \in Halting =>
    \/ Waiting(task["control"])
    \/ Emptied(task["control"]) /\ \A t \in Tasks : task[t].pc # "submit"

MInv == Types /\ Lock /\ Halted

-----------------------------------------------------------------------------
(* Records *)

LEMMA PcField ==
  ASSUME NEW r \in TaskRecords, NEW x \in Points
  PROVE  /\ [r EXCEPT !.pc = x] \in TaskRecords
         /\ [r EXCEPT !.pc = x].pc = x /\ [r EXCEPT !.pc = x].ok = r.ok
         /\ [r EXCEPT !.pc = x].then = r.then /\ [r EXCEPT !.pc = x].todo = r.todo
BY DEF TaskRecords

LEMMA ViewField ==
  ASSUME NEW r \in TaskRecords, NEW x \in SUBSET Ids
  PROVE  /\ [r EXCEPT !.view = x] \in TaskRecords
         /\ [r EXCEPT !.view = x].pc = r.pc /\ [r EXCEPT !.view = x].ok = r.ok
         /\ [r EXCEPT !.view = x].then = r.then /\ [r EXCEPT !.view = x].todo = r.todo
BY DEF TaskRecords

LEMMA ShadowField ==
  ASSUME NEW r \in TaskRecords, NEW x \in BOOLEAN
  PROVE  /\ [r EXCEPT !.shadow = x] \in TaskRecords
         /\ [r EXCEPT !.shadow = x].pc = r.pc /\ [r EXCEPT !.shadow = x].ok = r.ok
         /\ [r EXCEPT !.shadow = x].then = r.then /\ [r EXCEPT !.shadow = x].todo = r.todo
BY DEF TaskRecords

LEMMA HealthyField ==
  ASSUME NEW r \in TaskRecords, NEW x \in BOOLEAN
  PROVE  /\ [r EXCEPT !.healthy = x] \in TaskRecords
         /\ [r EXCEPT !.healthy = x].pc = r.pc /\ [r EXCEPT !.healthy = x].ok = r.ok
         /\ [r EXCEPT !.healthy = x].then = r.then /\ [r EXCEPT !.healthy = x].todo = r.todo
BY DEF TaskRecords

LEMMA KnownField ==
  ASSUME NEW r \in TaskRecords, NEW x \in BOOLEAN
  PROVE  /\ [r EXCEPT !.known = x] \in TaskRecords
         /\ [r EXCEPT !.known = x].pc = r.pc /\ [r EXCEPT !.known = x].ok = r.ok
         /\ [r EXCEPT !.known = x].then = r.then /\ [r EXCEPT !.known = x].todo = r.todo
BY DEF TaskRecords

LEMMA TodoField ==
  ASSUME NEW r \in TaskRecords, NEW x \in Seq(Operations)
  PROVE  /\ [r EXCEPT !.todo = x] \in TaskRecords
         /\ [r EXCEPT !.todo = x].pc = r.pc /\ [r EXCEPT !.todo = x].ok = r.ok
         /\ [r EXCEPT !.todo = x].then = r.then /\ [r EXCEPT !.todo = x].todo = x
BY DEF TaskRecords

LEMMA ThenField ==
  ASSUME NEW r \in TaskRecords, NEW x \in {"cycle", "end"}
  PROVE  /\ [r EXCEPT !.then = x] \in TaskRecords
         /\ [r EXCEPT !.then = x].pc = r.pc /\ [r EXCEPT !.then = x].ok = r.ok
         /\ [r EXCEPT !.then = x].then = x /\ [r EXCEPT !.then = x].todo = r.todo
BY DEF TaskRecords

LEMMA OkField ==
  ASSUME NEW r \in TaskRecords, NEW x \in BOOLEAN
  PROVE  /\ [r EXCEPT !.ok = x] \in TaskRecords
         /\ [r EXCEPT !.ok = x].pc = r.pc /\ [r EXCEPT !.ok = x].ok = x
         /\ [r EXCEPT !.ok = x].then = r.then /\ [r EXCEPT !.ok = x].todo = r.todo
BY DEF TaskRecords

LEMMA RestingFields ==
  Resting \in TaskRecords /\ Resting.pc = "idle" /\ Resting.ok = TRUE
<1>1. <<>> \in Seq(Operations)
  OBVIOUS
<1> QED
  BY <1>1 DEF Resting, TaskRecords, Points

LEMMA RestFields ==
  ASSUME Types, NEW t \in Tasks
  PROVE  Rest(t) \in TaskRecords /\ Rest(t).pc = "idle" /\ Rest(t).ok = task[t].ok
<1>1. task[t].ok \in BOOLEAN
  BY DEF Types, TaskRecords
<1> QED
  BY <1>1, RestingFields, OkField DEF Rest

\* A cycle's plan is a sequence of cancels and placements.
LEMMA DiffsAreOperations ==
  ASSUME Types, CountsAreNumbers, NEW t \in Tasks, NEW s \in QuoteSides, NEW quote \in BOOLEAN
  PROVE  Diffs(t, s, quote) \subseteq Seq(Operations)
<1> DEFINE own == On(s, task[t].view)
           o == CHOOSE i \in own : TRUE
<1>1. own \subseteq Ids
  BY DEF On, Types, TaskRecords
<1>2. <<>> \in Seq(Operations)
  OBVIOUS
<1>3. Places(s) \in Seq(Operations)
  <2>1. PICK p : p = [act |-> "place", order |-> 0, side |-> s]
    OBVIOUS
  <2>2. p \in Operations
    BY <2>1 DEF Operations, QuoteSides, OrderSides, CountsAreNumbers
  <2> QED
    BY <2>1, <2>2 DEF Places
<1>4. ASSUME own # {} PROVE Cancels(o) \in Seq(Operations) /\ Cancels(o) \o Places(s) \in Seq(Operations)
  <2>1. o \in Ids
    BY <1>1, <1>4
  <2>2. PICK i \in Ids : i = o
    BY <2>1
  <2>3. CancelOf(i) \in Operations
    BY DEF CancelOf, Operations, OrderSides, Ids, CountsAreNumbers
  <2>4. Cancels(o) \in Seq(Operations)
    BY <2>2, <2>3 DEF Cancels
  <2> QED
    BY <1>3, <2>4, ConcatProperties
<1>5. CASE task[t].shadow
  BY <1>2, <1>3, <1>5 DEF Diffs
<1>6. CASE ~task[t].shadow /\ own = {}
  BY <1>2, <1>3, <1>6 DEF Diffs
<1>7. CASE ~task[t].shadow /\ own # {}
  BY <1>2, <1>4, <1>7 DEF Diffs
<1> QED
  BY <1>5, <1>6, <1>7

\* Whatever the order of the engine's map, the cancels name every open order.
LEMMA CancelsNameOpen ==
  ASSUME CountsAreNumbers, NEW todo \in SetToSeqs({CancelOf(i) : i \in Open})
  PROVE  todo \in Seq(Operations) /\ Open \subseteq Named(todo)
<1> DEFINE C == {CancelOf(i) : i \in Open}
           n == Cardinality(C)
<1>1. IsFiniteSet(Open) /\ Open \subseteq Ids
  <2>1. IsFiniteSet(Ids)
    BY FS_Interval DEF Ids, CountsAreNumbers
  <2>2. Open \in SUBSET Ids
    BY DEF Open
  <2> QED
    BY <2>1, <2>2, FS_Subset
<1>2. IsFiniteSet(C)
  <2> DEFINE f == [i \in Open |-> CancelOf(i)]
  <2>1. f \in Surjection(Open, C)
    BY DEF Surjection
  <2> HIDE DEF f, C
  <2> QED
    BY <1>1, <2>1, FS_Surjection
<1>3. n \in Nat
  BY <1>2, FS_CardinalityType
<1>4. todo \in Injection(1..n, C)
  BY DEF SetToSeqs, Injection, IsInjective
<1>5. IsFiniteSet(1..n) /\ Cardinality(1..n) = n
  BY <1>3, FS_Interval
<1>6. todo \in Surjection(1..n, C)
  <2> HIDE DEF C
  <2> QED
    BY <1>2, <1>4, <1>5, FS_Injection
<1>7. todo \in [1..n -> C] /\ \A c \in C : \E k \in 1..n : todo[k] = c
  BY <1>6 DEF Surjection
<1>8. C \subseteq Operations
  BY <1>1 DEF CancelOf, Operations, OrderSides, Ids, CountsAreNumbers
<1>9. todo \in Seq(Operations)
  <2> HIDE DEF C, n
  <2> QED
    BY <1>3, <1>7, <1>8, SeqDef
<1>10. ASSUME NEW i \in Open PROVE i \in Named(todo)
  <2>1. PICK k \in 1..n : todo[k] = CancelOf(i)
    BY <1>7
  <2>2. k \in DOMAIN todo /\ todo[k].order = i
    BY <1>7, <2>1 DEF CancelOf
  <2> QED
    BY <2>2 DEF Named
<1> QED
  BY <1>9, <1>10

-----------------------------------------------------------------------------
(* What a task's step keeps *)

\* The lock, as a task takes it, keeps it or gives it back.
LEMMA LockKept ==
  ASSUME Types, Lock, NEW t \in Tasks, NEW r \in TaskRecords, task' = [task EXCEPT ![t] = r],
         \/ (Holding(r) <=> Holding(task[t])) /\ revision' = revision
         \/ revision = "free" /\ revision' = t /\ Holding(r)
         \/ Holding(task[t]) /\ ~Holding(r) /\ revision' = "free"
  PROVE  Lock'
<1>1. task'[t] = r /\ \A u \in Tasks : u # t => task'[u] = task[u]
  BY DEF Types
<1>2. "free" \notin Tasks
  BY DEF Tasks
<1>3. revision' \in {"free"} \cup Tasks
  BY DEF Lock
<1>4. ASSUME NEW u \in Tasks PROVE Holding(task'[u]) <=> revision' = u
  BY <1>1, <1>2 DEF Lock
<1> QED
  BY <1>3, <1>4 DEF Lock, Holding

LEMMA TypesKept ==
  ASSUME Types, NEW t \in Tasks, NEW r \in TaskRecords, task' = [task EXCEPT ![t] = r],
         orders' \in [Ids -> OrderRecords], account' \in BOOLEAN
  PROVE  Types' /\ task'[t] = r /\ \A u \in Tasks : u # t => task'[u] = task[u]
BY DEF Types

\* A step outside the lock, or the end of a plan: the orders only become fewer.
LEMMA QuietStep ==
  ASSUME MInv, NEW t \in Tasks, NEW r \in TaskRecords, task' = [task EXCEPT ![t] = r],
         orders' \in [Ids -> OrderRecords], account' \in BOOLEAN, mode' = mode,
         Open' \subseteq Open, doubted \subseteq doubted',
         ~Holding(r), r.ok = task[t].ok, task[t].pc # "cancelling",
         revision' = IF task[t].pc = "submit" THEN "free" ELSE revision,
         t = "control" => ~Waiting(task[t])
  PROVE  MInv'
<1>1. Types' /\ task'[t] = r /\ \A u \in Tasks : u # t => task'[u] = task[u]
  BY TypesKept DEF MInv
<1>2. Lock'
  BY LockKept DEF MInv, Holding
<1>3. Halted'
  <2> SUFFICES ASSUME mode \in Halting
               PROVE  \/ Waiting(task'["control"])
                      \/ Emptied(task["control"])' /\ \A u \in Tasks : task'[u].pc # "submit"
    BY DEF Halted, Waiting
  <2>1. r.pc # "submit" /\ r.pc # "cancelling"
    BY DEF Holding
  <2>2. CASE Waiting(task["control"])
    BY <1>1, <2>2 DEF Tasks
  <2>3. CASE Emptied(task["control"]) /\ \A u \in Tasks : task[u].pc # "submit"
    <3>1. \A u \in Tasks : task'[u].pc # "submit"
      BY <1>1, <2>1, <2>3
    <3>2. "control" \in Tasks
      BY DEF Tasks
    <3>3. CASE t = "control"
      BY <1>1, <2>1, <2>3, <3>1, <3>3 DEF Emptied
    <3>4. CASE t # "control"
      <4>1. task'["control"] = task["control"]
        BY <1>1, <3>2, <3>4
      <4> QED
        BY <2>3, <3>1, <4>1 DEF Emptied
    <3> QED
      BY <3>3, <3>4
  <2> QED
    BY <2>2, <2>3 DEF MInv, Halted
<1> QED
  BY <1>1, <1>2, <1>3 DEF MInv

\* A plan goes on: there is none once a halting call holds the lock.
LEMMA PlanStep ==
  ASSUME MInv, NEW t \in Tasks, NEW r \in TaskRecords, task' = [task EXCEPT ![t] = r],
         orders' \in [Ids -> OrderRecords], account' \in BOOLEAN, mode' = mode,
         r.pc = "submit", task[t].pc = "submit", revision' = revision
  PROVE  MInv'
<1>1. Types' /\ task'[t] = r /\ \A u \in Tasks : u # t => task'[u] = task[u]
  BY TypesKept DEF MInv
<1>2. Lock'
  BY LockKept DEF MInv, Holding
<1>3. Halted'
  <2> SUFFICES ASSUME mode \in Halting PROVE Waiting(task'["control"])
    BY DEF Halted, Waiting
  <2>1. Waiting(task["control"])
    BY DEF MInv, Halted
  <2>2. t # "control"
    BY <2>1 DEF Waiting
  <2> QED
    BY <1>1, <2>1, <2>2 DEF Tasks
<1> QED
  BY <1>1, <1>2, <1>3 DEF MInv

-----------------------------------------------------------------------------
(* The cycle *)

\* Where a cycle's first reads take its task.
LEMMA BeginLeaves ==
  ASSUME Types, NEW t \in Tasks, Begin(t)
  PROVE  \E r \in TaskRecords :
           /\ task' = [task EXCEPT ![t] = r] /\ r.ok = task[t].ok
           /\ r.pc \in {"idle", "cancel", "view"}
<1>1. PICK healthy \in BOOLEAN : healthy = (market = "fresh" /\ account)
  OBVIOUS
<1>2. PICK a : a = [task[t] EXCEPT !.healthy = healthy]
  OBVIOUS
<1>3. task[t] \in TaskRecords
  BY DEF Types
<1>4. a \in TaskRecords /\ a.ok = task[t].ok
  BY <1>2, <1>3, HealthyField
<1>5. PICK b : b = [a EXCEPT !.then = "end"]
  OBVIOUS
<1>6. b \in TaskRecords /\ b.ok = task[t].ok
  BY <1>4, <1>5, ThenField
<1>7. PICK c : c = [b EXCEPT !.pc = "cancel"]
  OBVIOUS
<1>8. c \in TaskRecords /\ c.ok = task[t].ok /\ c.pc = "cancel"
  BY <1>6, <1>7, PcField DEF Points
<1>9. PICK v : v = [b EXCEPT !.pc = "view"]
  OBVIOUS
<1>10. v \in TaskRecords /\ v.ok = task[t].ok /\ v.pc = "view"
  BY <1>6, <1>9, PcField DEF Points
<1>11. b = [task[t] EXCEPT !.healthy = market = "fresh" /\ account, !.then = "end"]
  BY <1>1, <1>2, <1>5
<1>12. task' = [task EXCEPT ![t] = Rest(t)] \/ task' = [task EXCEPT ![t] = c] \/ task' = [task EXCEPT ![t] = v]
  BY <1>7, <1>9, <1>11 DEF Begin, Set
<1> QED
  BY <1>8, <1>10, <1>12, RestFields

LEMMA BeginKeeps ==
  ASSUME MInv, NEW t \in Tasks, Begin(t), task[t].pc \in {"idle", "begin"},
         UNCHANGED <<World, orders, doubted, revision>>
  PROVE  MInv'
<1>1. PICK r \in TaskRecords : /\ task' = [task EXCEPT ![t] = r] /\ r.ok = task[t].ok
                               /\ r.pc \in {"idle", "cancel", "view"}
  BY BeginLeaves DEF MInv
<1>2. /\ orders' \in [Ids -> OrderRecords] /\ account' \in BOOLEAN /\ mode' = mode
      /\ Open' = Open /\ doubted' = doubted /\ revision' = revision
  BY DEF MInv, Types, World, Open
<1> QED
  BY <1>1, <1>2, QuietStep DEF Holding, Waiting

LEMMA ViewKeeps ==
  ASSUME MInv, NEW t \in Tasks, View(t)
  PROVE  MInv'
<1>1. task[t] \in TaskRecords /\ account \in BOOLEAN /\ Open \subseteq Ids
  BY DEF MInv, Types, Open
<1>2. PICK a : a = [task[t] EXCEPT !.pc = "decide"]
  OBVIOUS
<1>3. a \in TaskRecords /\ a.pc = "decide" /\ a.ok = task[t].ok
  BY <1>1, <1>2, PcField DEF Points
<1>4. \E r \in TaskRecords : /\ task' = [task EXCEPT ![t] = r] /\ r.ok = task[t].ok
                             /\ r.pc \in {"idle", "decide"}
  <2>1. CASE mode = "shadow"
    <3>1. PICK b : b = [a EXCEPT !.shadow = TRUE]
      OBVIOUS
    <3>2. b \in TaskRecords /\ b.pc = "decide" /\ b.ok = task[t].ok
      BY <1>3, <3>1, ShadowField
    <3>3. PICK d : d = [b EXCEPT !.known = account]
      OBVIOUS
    <3>4. d \in TaskRecords /\ d.pc = "decide" /\ d.ok = task[t].ok
      BY <1>1, <3>2, <3>3, KnownField
    <3>5. task' = [task EXCEPT ![t] = d]
      BY <1>2, <2>1, <3>1, <3>3 DEF View, Set
    <3> QED
      BY <3>4, <3>5
  <2>2. CASE mode # "shadow" /\ Doubled
    BY <2>2, RestFields DEF View, Set, MInv
  <2>3. CASE mode # "shadow" /\ ~Doubled
    <3>1. PICK b : b = [a EXCEPT !.shadow = FALSE]
      OBVIOUS
    <3>2. b \in TaskRecords /\ b.pc = "decide" /\ b.ok = task[t].ok
      BY <1>3, <3>1, ShadowField
    <3>3. PICK d : d = [b EXCEPT !.known = account]
      OBVIOUS
    <3>4. d \in TaskRecords /\ d.pc = "decide" /\ d.ok = task[t].ok
      BY <1>1, <3>2, <3>3, KnownField
    <3>5. PICK e : e = [d EXCEPT !.view = Open]
      OBVIOUS
    <3>6. e \in TaskRecords /\ e.pc = "decide" /\ e.ok = task[t].ok
      BY <1>1, <3>4, <3>5, ViewField
    <3>7. task' = [task EXCEPT ![t] = e]
      BY <1>2, <2>3, <3>1, <3>3, <3>5 DEF View, Set
    <3> QED
      BY <3>6, <3>7
  <2> QED
    BY <2>1, <2>2, <2>3
<1>5. /\ orders' \in [Ids -> OrderRecords] /\ account' \in BOOLEAN /\ mode' = mode
      /\ Open' = Open /\ doubted' = doubted /\ revision' = revision /\ task[t].pc = "view"
  BY DEF MInv, Types, View, World, Open
<1> QED
  BY <1>4, <1>5, QuietStep DEF Holding, Waiting

LEMMA DecideKeeps ==
  ASSUME CountsAreNumbers, MInv, NEW t \in Tasks, Decide(t)
  PROVE  MInv'
<1>1. /\ orders' \in [Ids -> OrderRecords] /\ account' \in BOOLEAN /\ mode' = mode
      /\ Open' = Open /\ doubted' = doubted /\ task[t].pc = "decide" /\ revision = "free"
  BY DEF MInv, Types, Decide, World, Open
<1>2. CASE task' = [task EXCEPT ![t] = Rest(t)] /\ revision' = revision
  BY <1>1, <1>2, RestFields, QuietStep DEF MInv, Holding, Waiting
<1>3. CASE /\ mode = "running"
           /\ \E qb \in BOOLEAN, qa \in BOOLEAN :
                \E bid \in Diffs(t, "bid", qb), ask \in Diffs(t, "ask", qa) :
                  /\ task' = [task EXCEPT ![t] = [Rest(t) EXCEPT !.pc = "submit", !.todo = bid \o ask]]
                  /\ revision' = t
  <2>1. PICK qb \in BOOLEAN, qa \in BOOLEAN :
          \E bid \in Diffs(t, "bid", qb), ask \in Diffs(t, "ask", qa) :
            /\ task' = [task EXCEPT ![t] = [Rest(t) EXCEPT !.pc = "submit", !.todo = bid \o ask]]
            /\ revision' = t
    BY <1>3
  <2>2. PICK bid \in Diffs(t, "bid", qb), ask \in Diffs(t, "ask", qa) :
          /\ task' = [task EXCEPT ![t] = [Rest(t) EXCEPT !.pc = "submit", !.todo = bid \o ask]]
          /\ revision' = t
    BY <2>1
  <2>3. bid \in Seq(Operations) /\ ask \in Seq(Operations)
    BY DiffsAreOperations DEF MInv, QuoteSides
  <2>4. PICK plan \in Seq(Operations) : plan = bid \o ask
    BY <2>3, ConcatProperties
  <2>5. PICK a : a = [Rest(t) EXCEPT !.pc = "submit"]
    OBVIOUS
  <2>6. a \in TaskRecords /\ a.pc = "submit"
    BY <2>5, RestFields, PcField DEF Points, MInv
  <2>7. PICK b : b = [a EXCEPT !.todo = plan]
    OBVIOUS
  <2>8. b \in TaskRecords /\ b.pc = "submit"
    BY <2>6, <2>7, TodoField
  <2>9. task' = [task EXCEPT ![t] = b]
    BY <2>2, <2>4, <2>5, <2>7
  <2>10. Types'
    BY <1>1, <2>8, <2>9, TypesKept DEF MInv
  <2>11. Lock'
    BY <1>1, <2>2, <2>8, <2>9, LockKept DEF MInv, Holding
  <2>12. Halted'
    BY <1>1, <1>3 DEF Halted, Halting
  <2> QED
    BY <2>10, <2>11, <2>12 DEF MInv
<1> QED
  BY <1>2, <1>3 DEF Decide, Mode, Set

-----------------------------------------------------------------------------
(* Plans and cancels *)

LEMMA ConfirmedLeaves ==
  ASSUME Types, NEW o, Confirmed(o)
  PROVE  /\ orders' \in [Ids -> OrderRecords] /\ Open' \subseteq Open \ {o} /\ doubted' = doubted
<1>1. PICK x : x = IF orders[o].st = "none" THEN orders[o] ELSE [orders[o] EXCEPT !.st = "gone"]
  OBVIOUS
<1>2. orders' = [orders EXCEPT ![o] = x] /\ doubted' = doubted
  BY <1>1 DEF Confirmed
<1>3. CASE o \in Ids
  <2>1. x \in OrderRecords /\ x.st \notin {"live", "unknown"}
    BY <1>1, <1>3 DEF Types, OrderRecords
  <2>2. orders' \in [Ids -> OrderRecords] /\ orders'[o] = x /\ \A i \in Ids : i # o => orders'[i] = orders[i]
    BY <1>2, <1>3, <2>1 DEF Types
  <2> QED
    BY <1>2, <2>1, <2>2 DEF Open
<1>4. CASE o \notin Ids
  <2>1. orders' = orders
    BY <1>2, <1>4 DEF Types
  <2> QED
    BY <1>2, <1>4, <2>1 DEF Types, Open
<1> QED
  BY <1>3, <1>4

LEMMA AdvanceLeaves ==
  ASSUME Types, NEW t \in Tasks, task[t].todo # <<>>, Advance(t)
  PROVE  /\ revision' = revision
         /\ \E r \in TaskRecords :
              /\ task' = [task EXCEPT ![t] = r] /\ r.pc = task[t].pc /\ r.ok = task[t].ok
              /\ r.then = task[t].then /\ r.todo = Tail(task[t].todo)
<1>1. task[t] \in TaskRecords /\ task[t].todo \in Seq(Operations)
  BY DEF Types, TaskRecords
<1>2. PICK s \in Seq(Operations) : s = Tail(task[t].todo)
  BY <1>1, HeadTailProperties
<1>3. PICK r : r = [task[t] EXCEPT !.todo = s]
  OBVIOUS
<1>4. r \in TaskRecords /\ r.pc = task[t].pc /\ r.ok = task[t].ok /\ r.then = task[t].then /\ r.todo = s
  BY <1>1, <1>3, TodoField
<1> QED
  BY <1>2, <1>3, <1>4 DEF Advance, Set

\* The step that ends a plan.
LEMMA DoneKeeps ==
  ASSUME MInv, NEW t \in Tasks, task[t].pc = "submit", Done(t),
         orders' \in [Ids -> OrderRecords], account' \in BOOLEAN, mode' = mode,
         Open' \subseteq Open, doubted \subseteq doubted'
  PROVE  MInv'
<1>1. task' = [task EXCEPT ![t] = Rest(t)] /\ revision' = "free"
  BY DEF Done, Set
<1> QED
  BY <1>1, RestFields, QuietStep DEF MInv, Holding, Waiting

LEMMA PlanGoesOn ==
  ASSUME MInv, NEW t \in Tasks, task[t].pc = "submit", task[t].todo # <<>>, Advance(t),
         orders' \in [Ids -> OrderRecords], account' \in BOOLEAN, mode' = mode
  PROVE  MInv'
<1>1. revision' = revision
  BY AdvanceLeaves DEF MInv
<1>2. PICK r \in TaskRecords : task' = [task EXCEPT ![t] = r] /\ r.pc = task[t].pc
  BY AdvanceLeaves DEF MInv
<1> QED
  BY <1>1, <1>2, PlanStep

LEMMA SubmitKeeps ==
  ASSUME MInv, NEW t \in Tasks, Submit(t)
  PROVE  MInv'
<1>1. account' \in BOOLEAN /\ mode' = mode /\ task[t].pc = "submit" /\ orders \in [Ids -> OrderRecords]
  BY DEF MInv, Types, Submit, World
<1>2. CASE task[t].todo = <<>>
  BY <1>1, <1>2, DoneKeeps DEF Submit, Open
<1>3. CASE task[t].todo # <<>>
  <2> DEFINE op == Head(task[t].todo)
  <2>1. CASE CancelOp(t, op.order)
    <3>1. CASE Confirmed(op.order) /\ Advance(t)
      BY <1>1, <1>3, <3>1, ConfirmedLeaves, PlanGoesOn DEF MInv
    <3>2. CASE /\ Unconfirmed(op.order) /\ orders[op.order].st = "live"
               /\ \E st \in {"live", "unknown"} : orders' = [orders EXCEPT ![op.order].st = st]
               /\ Advance(t) \/ Done(t)
      <4>1. PICK o : o = op.order
        OBVIOUS
      <4>2. PICK st \in {"live", "unknown"} : orders' = [orders EXCEPT ![o].st = st]
        BY <3>2, <4>1
      <4>3. doubted \subseteq doubted' /\ orders[o].st = "live"
        BY <3>2, <4>1 DEF Unconfirmed
      <4>4. orders' \in [Ids -> OrderRecords] /\ Open' \subseteq Open
        <5>1. PICK x : x = [orders[o] EXCEPT !.st = st]
          OBVIOUS
        <5>2. orders' = [orders EXCEPT ![o] = x]
          BY <4>2, <5>1
        <5>3. CASE o \in Ids
          <6>1. x \in OrderRecords
            BY <1>1, <5>1, <5>3 DEF OrderRecords
          <6>2. orders' \in [Ids -> OrderRecords] /\ \A i \in Ids : i # o => orders'[i] = orders[i]
            BY <1>1, <5>2, <6>1
          <6> QED
            BY <4>3, <6>2 DEF Open
        <5>4. CASE o \notin Ids
          BY <1>1, <5>2, <5>4 DEF Open
        <5> QED
          BY <5>3, <5>4
      <4>5. CASE Advance(t)
        BY <1>1, <1>3, <4>4, <4>5, PlanGoesOn
      <4>6. CASE Done(t)
        BY <1>1, <4>3, <4>4, <4>6, DoneKeeps
      <4> QED
        BY <3>2, <4>5, <4>6
    <3> QED
      BY <2>1, <3>1, <3>2 DEF CancelOp
  <2>2. CASE PlaceOp(t, op.side) /\ op.side \in OrderSides /\ UNCHANGED doubted
    <3>1. CASE /\ \E i \in Ids : orders' = [orders EXCEPT ![i] = [side |-> op.side, st |-> "live"]]
               /\ Advance(t)
      <4>1. PICK x : x = [side |-> op.side, st |-> "live"]
        OBVIOUS
      <4>2. x \in OrderRecords
        BY <2>2, <4>1 DEF OrderRecords
      <4>3. orders' \in [Ids -> OrderRecords]
        BY <1>1, <3>1, <4>1, <4>2
      <4> QED
        BY <1>1, <1>3, <3>1, <4>3, PlanGoesOn
    <3>2. CASE Done(t) /\ UNCHANGED orders
      BY <1>1, <2>2, <3>2, DoneKeeps DEF Open
    <3> QED
      BY <2>2, <3>1, <3>2 DEF PlaceOp
  <2>3. op \in Operations
    <3>1. task[t].todo \in Seq(Operations)
      BY DEF MInv, Types, TaskRecords
    <3> QED
      BY <1>3, <3>1, HeadTailProperties
  <2>4. op.side \in OrderSides
    BY <2>3 DEF Operations
  <2> QED
    BY <1>3, <2>1, <2>2, <2>4 DEF Submit
<1> QED
  BY <1>2, <1>3

LEMMA CancelStartKeeps ==
  ASSUME CountsAreNumbers, MInv, NEW t \in Tasks, CancelStart(t)
  PROVE  MInv'
<1>1. PICK todo \in SetToSeqs({CancelOf(i) : i \in Open}) :
        task' = [task EXCEPT ![t] = [task[t] EXCEPT !.pc = "cancelling", !.todo = todo]]
  BY DEF CancelStart, Set
<1>2. todo \in Seq(Operations) /\ Open \subseteq Named(todo)
  BY CancelsNameOpen
<1>3. /\ orders' \in [Ids -> OrderRecords] /\ account' \in BOOLEAN /\ mode' = mode
      /\ Open' = Open /\ doubted' = doubted /\ task[t].pc = "cancel" /\ revision = "free" /\ revision' = t
  BY DEF MInv, Types, CancelStart, World, Open
<1>4. PICK a : a = [task[t] EXCEPT !.pc = "cancelling"]
  OBVIOUS
<1>5. a \in TaskRecords /\ a.pc = "cancelling" /\ a.ok = task[t].ok
  BY <1>4, PcField DEF MInv, Types, Points
<1>6. PICK r : r = [a EXCEPT !.todo = todo]
  OBVIOUS
<1>7. r \in TaskRecords /\ r.pc = "cancelling" /\ r.todo = todo
  BY <1>2, <1>5, <1>6, TodoField
<1>8. task' = [task EXCEPT ![t] = r]
  BY <1>1, <1>4, <1>6
<1>9. Types' /\ task'[t] = r /\ \A u \in Tasks : u # t => task'[u] = task[u]
  BY <1>3, <1>7, <1>8, TypesKept DEF MInv
<1>10. Lock'
  BY <1>3, <1>7, <1>8, LockKept DEF MInv, Holding
<1>11. \A u \in Tasks : task'[u].pc # "submit"
  BY <1>3, <1>7, <1>9 DEF MInv, Lock, Holding, Tasks
<1>12. Halted'
  <2> SUFFICES ASSUME mode \in Halting
               PROVE  \/ Waiting(task'["control"])
                      \/ Emptied(task["control"])' /\ \A u \in Tasks : task'[u].pc # "submit"
    BY <1>3 DEF Halted, Waiting
  <2>1. CASE t = "control"
    <3>1. Emptied(task["control"])'
      BY <1>2, <1>3, <1>7, <1>9, <2>1 DEF Emptied, Named
    <3> QED
      BY <1>11, <3>1
  <2>2. CASE t # "control"
    <3>1. task'["control"] = task["control"]
      BY <1>9, <2>2 DEF Tasks
    <3> QED
      BY <1>3, <1>11, <3>1 DEF MInv, Halted, Emptied, Waiting
  <2> QED
    BY <2>1, <2>2
<1> QED
  BY <1>9, <1>10, <1>12 DEF MInv

\* What a task's end of its cancels leaves.
LEMMA CancelledKeeps ==
  ASSUME MInv, NEW t \in Tasks, task[t].pc = "cancelling", NEW ok \in BOOLEAN, Cancelled(t, ok),
         orders' \in [Ids -> OrderRecords], account' \in BOOLEAN, mode' = mode,
         Open' \subseteq Open, doubted \subseteq doubted', ok => task[t].todo = <<>>
  PROVE  MInv'
<1>1. PICK a : a = [Resting EXCEPT !.ok = ok]
  OBVIOUS
<1>2. a \in TaskRecords /\ a.ok = ok
  BY <1>1, RestingFields, OkField
<1>3. PICK pc \in {"begin", "idle"} : pc = IF task[t].then = "cycle" THEN "begin" ELSE "idle"
  OBVIOUS
<1>4. PICK r : r = [a EXCEPT !.pc = pc]
  OBVIOUS
<1>5. r \in TaskRecords /\ r.ok = ok /\ r.pc = pc
  <2>1. pc \in Points
    BY <1>3 DEF Points
  <2> QED
    BY <1>2, <1>4, <2>1, PcField
<1>6. task' = [task EXCEPT ![t] = r] /\ revision' = "free"
  BY <1>1, <1>3, <1>4 DEF Cancelled, Set
<1>7. Types' /\ task'[t] = r /\ \A u \in Tasks : u # t => task'[u] = task[u]
  BY <1>5, <1>6, TypesKept DEF MInv
<1>8. Lock'
  BY <1>3, <1>5, <1>6, LockKept DEF MInv, Holding
<1>9. Halted'
  <2> SUFFICES ASSUME mode \in Halting
               PROVE  \/ Waiting(task'["control"])
                      \/ Emptied(task["control"])' /\ \A u \in Tasks : task'[u].pc # "submit"
    BY DEF Halted, Waiting
  <2>1. \A u \in Tasks : task[u].pc # "submit"
    BY DEF MInv, Lock, Holding, Tasks
  <2>2. \A u \in Tasks : task'[u].pc # "submit"
    BY <1>3, <1>5, <1>7, <2>1
  <2>3. CASE t = "control"
    <3>1. Emptied(task["control"])
      BY <2>3 DEF MInv, Halted, Waiting
    <3>2. ok => Open' \subseteq doubted'
      BY <2>3, <3>1 DEF Emptied, Named
    <3> QED
      BY <1>3, <1>5, <1>7, <2>2, <2>3, <3>2 DEF Emptied
  <2>4. CASE t # "control"
    <3>1. task'["control"] = task["control"]
      BY <1>7, <2>4 DEF Tasks
    <3> QED
      BY <2>2, <3>1 DEF MInv, Halted, Emptied, Waiting
  <2> QED
    BY <2>3, <2>4
<1> QED
  BY <1>7, <1>8, <1>9 DEF MInv

\* One cancel is over, answered either way.
LEMMA CancelsGoOn ==
  ASSUME MInv, NEW t \in Tasks, task[t].pc = "cancelling", task[t].todo # <<>>, Advance(t),
         orders' \in [Ids -> OrderRecords], account' \in BOOLEAN, mode' = mode,
         doubted \subseteq doubted', Open' \subseteq Open,
         Head(task[t].todo).order \in Open' => Head(task[t].todo).order \in doubted'
  PROVE  MInv'
<1>1. revision' = revision
  BY AdvanceLeaves DEF MInv
<1>2. PICK r \in TaskRecords : /\ task' = [task EXCEPT ![t] = r] /\ r.pc = task[t].pc
                               /\ r.ok = task[t].ok /\ r.todo = Tail(task[t].todo)
  BY AdvanceLeaves DEF MInv
<1>3. Types' /\ task'[t] = r /\ \A u \in Tasks : u # t => task'[u] = task[u]
  BY <1>2, TypesKept DEF MInv
<1>4. Lock'
  BY <1>1, <1>2, LockKept DEF MInv, Holding
<1>5. Named(task[t].todo) \subseteq {Head(task[t].todo).order} \cup Named(r.todo)
  <2> DEFINE s == task[t].todo
  <2>1. s \in Seq(Operations) /\ s # <<>>
    BY DEF MInv, Types, TaskRecords
  <2>2. /\ Len(Tail(s)) = Len(s) - 1 /\ \A k \in 1..Len(Tail(s)) : Tail(s)[k] = s[k + 1]
        /\ Head(s) = s[1] /\ Tail(s) \in Seq(Operations)
    BY <2>1, HeadTailProperties
  <2>3. ASSUME NEW k \in DOMAIN s PROVE s[k] = Head(s) \/ \E j \in DOMAIN Tail(s) : Tail(s)[j] = s[k]
    <3>1. k \in 1..Len(s) /\ DOMAIN Tail(s) = 1..Len(Tail(s)) /\ Len(s) \in Nat
      BY <2>1, <2>2
    <3>2. CASE k = 1
      BY <2>2, <3>2
    <3>3. CASE k # 1
      <4>1. k - 1 \in 1..Len(Tail(s)) /\ (k - 1) + 1 = k
        BY <2>2, <3>1, <3>3
      <4> QED
        BY <2>2, <3>1, <4>1
    <3> QED
      BY <3>2, <3>3
  <2> QED
    BY <1>2, <2>3 DEF Named
<1>6. Halted'
  <2> SUFFICES ASSUME mode \in Halting
               PROVE  \/ Waiting(task'["control"])
                      \/ Emptied(task["control"])' /\ \A u \in Tasks : task'[u].pc # "submit"
    BY DEF Halted, Waiting
  <2>1. \A u \in Tasks : task[u].pc # "submit"
    BY DEF MInv, Lock, Holding, Tasks
  <2>2. \A u \in Tasks : task'[u].pc # "submit"
    BY <1>2, <1>3, <2>1
  <2>3. CASE t = "control"
    <3>1. Open \subseteq doubted \cup Named(task[t].todo)
      BY <2>3 DEF MInv, Halted, Waiting, Emptied
    <3>2. Open' \subseteq doubted' \cup Named(r.todo)
      BY <1>5, <3>1
    <3>3. Emptied(task["control"])'
      <4>1. task'["control"] = r /\ r.pc = "cancelling"
        BY <1>2, <1>3, <2>3
      <4> QED
        BY <3>2, <4>1 DEF Emptied, Named
    <3> QED
      BY <2>2, <3>3
  <2>4. CASE t # "control"
    <3>1. task'["control"] = task["control"]
      BY <1>3, <2>4 DEF Tasks
    <3> QED
      BY <2>2, <3>1 DEF MInv, Halted, Emptied, Waiting
  <2> QED
    BY <2>3, <2>4
<1> QED
  BY <1>3, <1>4, <1>6 DEF MInv

LEMMA CancellingKeeps ==
  ASSUME MInv, NEW t \in Tasks, Cancelling(t)
  PROVE  MInv'
<1>1. account' \in BOOLEAN /\ mode' = mode /\ task[t].pc = "cancelling" /\ orders \in [Ids -> OrderRecords]
  BY DEF MInv, Types, Cancelling, World
<1>2. CASE task[t].todo = <<>>
  <2>1. Cancelled(t, TRUE) /\ orders' = orders /\ doubted' = doubted
    BY <1>2 DEF Cancelling
  <2>2. Open' = Open
    BY <2>1 DEF Open
  <2> QED
    BY <1>1, <1>2, <2>1, <2>2, CancelledKeeps
<1>3. CASE task[t].todo # <<>>
  <2> DEFINE o == Head(task[t].todo).order
  <2>1. CASE Confirmed(o) /\ Advance(t)
    <3>1. orders' \in [Ids -> OrderRecords] /\ Open' \subseteq Open \ {o} /\ doubted' = doubted
      BY <2>1, ConfirmedLeaves DEF MInv
    <3> QED
      BY <1>1, <1>3, <2>1, <3>1, CancelsGoOn
  <2>2. CASE Unconfirmed(o) /\ UNCHANGED orders /\ Advance(t)
    <3>1. orders' = orders /\ Open' = Open /\ doubted' = doubted \cup {o}
      BY <2>2 DEF Unconfirmed, Open
    <3> QED
      BY <1>1, <1>3, <2>2, <3>1, CancelsGoOn
  <2>3. CASE Unconfirmed(o) /\ UNCHANGED orders /\ Cancelled(t, FALSE)
    <3>1. orders' = orders /\ Open' = Open /\ doubted' = doubted \cup {o}
      BY <2>3 DEF Unconfirmed, Open
    <3> QED
      BY <1>1, <2>3, <3>1, CancelledKeeps
  <2> QED
    BY <1>3, <2>1, <2>2, <2>3 DEF Cancelling
<1> QED
  BY <1>2, <1>3

-----------------------------------------------------------------------------
(* The handle's calls *)

\* A call finds its task idle: it holds no lock.
LEMMA ApplyConfigKeeps ==
  ASSUME MInv, ApplyConfig
  PROVE  MInv'
<1>1. "control" \in Tasks /\ task["control"].pc = "idle"
  BY DEF Tasks, ApplyConfig, Call
<1>2. PICK a : a = [Resting EXCEPT !.pc = "begin"]
  OBVIOUS
<1>3. a \in TaskRecords /\ a.pc = "begin"
  BY <1>2, RestingFields, PcField DEF Points
<1>4. PICK r : r = [a EXCEPT !.ok = task["control"].ok]
  OBVIOUS
<1>5. task["control"].ok \in BOOLEAN
  BY <1>1 DEF MInv, Types, TaskRecords
<1>6. r \in TaskRecords /\ r.pc = "begin" /\ r.ok = task["control"].ok
  BY <1>3, <1>4, <1>5, OkField
<1>7. task' = [task EXCEPT !["control"] = r]
  BY <1>2, <1>4 DEF ApplyConfig, Set
<1>8. /\ orders' \in [Ids -> OrderRecords] /\ account' \in BOOLEAN /\ mode' = mode
      /\ Open' = Open /\ doubted' = doubted /\ revision' = revision
  BY DEF MInv, Types, ApplyConfig, Open
<1> QED
  BY <1>1, <1>6, <1>7, <1>8, QuietStep DEF Holding, Waiting

\* A halting call waits for the lock of its cancels; any other leaves the
\* halt.
LEMMA SetModeKeeps ==
  ASSUME MInv, NEW m \in Modes, SetMode(m)
  PROVE  MInv'
<1>1. "control" \in Tasks /\ task["control"].pc = "idle"
  BY DEF Tasks, SetMode, Call
<1>2. PICK a : a = [Resting EXCEPT !.pc = "cancel"]
  OBVIOUS
<1>3. a \in TaskRecords /\ a.pc = "cancel"
  BY <1>2, RestingFields, PcField DEF Points
<1>4. PICK b : b = [a EXCEPT !.then = "cycle"]
  OBVIOUS
<1>5. b \in TaskRecords /\ b.pc = "cancel" /\ b.then = "cycle"
  BY <1>3, <1>4, ThenField
<1>6. PICK c : c = [Resting EXCEPT !.pc = "begin"]
  OBVIOUS
<1>7. c \in TaskRecords /\ c.pc = "begin"
  BY <1>6, RestingFields, PcField DEF Points
<1>8. PICK r : r = Entering(m)
  OBVIOUS
<1>9. r \in {a, b, c} /\ (m \in Halting => r = b)
  BY <1>2, <1>4, <1>6, <1>8 DEF Entering
<1>10. r \in TaskRecords /\ ~Holding(r) /\ (m \in Halting => Waiting(r))
  BY <1>3, <1>5, <1>7, <1>9 DEF Holding, Waiting
<1>11. task' = [task EXCEPT !["control"] = r] /\ mode' = m /\ revision' = revision
  BY <1>8 DEF SetMode, Set
<1>12. orders' \in [Ids -> OrderRecords] /\ account' \in BOOLEAN
  BY DEF MInv, Types, SetMode
<1>13. Types' /\ task'["control"] = r
  BY <1>1, <1>10, <1>11, <1>12, TypesKept DEF MInv
<1>14. Lock'
  BY <1>1, <1>10, <1>11, LockKept DEF MInv, Holding
<1>15. Halted'
  BY <1>10, <1>11, <1>13 DEF Halted, Waiting
<1> QED
  BY <1>13, <1>14, <1>15 DEF MInv

\* Nothing else adds an order, or touches a task, the lock or the mode.
LEMMA OutsideKeeps ==
  ASSUME MInv, orders' \in [Ids -> OrderRecords], account' \in BOOLEAN, Open' \subseteq Open,
         UNCHANGED <<mode, doubted, revision, task>>
  PROVE  MInv'
<1>1. Types'
  BY DEF MInv, Types
<1>2. Lock'
  BY DEF MInv, Lock, Holding
<1>3. Emptied(task["control"]) => Emptied(task["control"])'
  BY DEF Emptied, Named
<1>4. Halted'
  BY <1>3 DEF MInv, Halted, Waiting
<1> QED
  BY <1>1, <1>2, <1>4 DEF MInv

LEMMA VenueFillsKeeps ==
  ASSUME MInv, NEW i \in Ids, VenueFills(i)
  PROVE  MInv'
<1>1. PICK x : x = [orders[i] EXCEPT !.st = "gone"]
  OBVIOUS
<1>2. x \in OrderRecords /\ x.st = "gone"
  BY <1>1 DEF MInv, Types, OrderRecords
<1>3. orders' = [orders EXCEPT ![i] = x]
  BY <1>1 DEF VenueFills
<1>4. /\ orders' \in [Ids -> OrderRecords] /\ orders'[i] = x
      /\ \A j \in Ids : j # i => orders'[j] = orders[j]
  BY <1>2, <1>3 DEF MInv, Types
<1>5. Open' \subseteq Open
  BY <1>2, <1>4 DEF Open
<1>6. account' \in BOOLEAN /\ UNCHANGED <<mode, doubted, revision, task>>
  BY DEF VenueFills, World, MInv, Types
<1> QED
  BY <1>4, <1>5, <1>6, OutsideKeeps

-----------------------------------------------------------------------------
(* The theorem *)

LEMMA InitMInv ==
  ASSUME CountsAreNumbers, MakerInit
  PROVE  MInv
<1>1. NoOrder \in OrderRecords
  BY DEF NoOrder, OrderRecords, OrderSides
<1>2. \A t \in Tasks : task[t] = Resting
  BY DEF MakerInit
<1>3. Types
  BY <1>1, RestingFields DEF MakerInit, Types
<1>4. Lock
  BY <1>2, RestingFields DEF MakerInit, Lock, Holding, Tasks
<1>5. mode \notin Halting
  BY DEF MakerInit, Halting
<1> QED
  BY <1>3, <1>4, <1>5 DEF MInv, Halted

LEMMA NextMInv ==
  ASSUME CountsAreNumbers, MInv, [MakerNext]_makerVars
  PROVE  MInv'
<1>1. ASSUME NEW t \in Tasks, TaskStep(t) PROVE MInv'
  <2>1. CASE View(t)
    BY <2>1, ViewKeeps
  <2>2. CASE Decide(t)
    BY <2>2, DecideKeeps
  <2>3. CASE Submit(t)
    BY <2>3, SubmitKeeps
  <2>4. CASE CancelStart(t)
    BY <2>4, CancelStartKeeps
  <2>5. CASE Cancelling(t)
    BY <2>5, CancellingKeeps
  <2>6. CASE t = "loop" /\ LoopEvent
    BY <2>6, BeginKeeps DEF LoopEvent
  <2>7. CASE t = "control" /\ ControlCycle
    BY <2>7, BeginKeeps DEF ControlCycle
  <2> QED
    BY <1>1, <2>1, <2>2, <2>3, <2>4, <2>5, <2>6, <2>7 DEF TaskStep
<1>2. CASE ApplyConfig
  BY <1>2, ApplyConfigKeeps
<1>3. CASE \E m \in Modes : SetMode(m)
  BY <1>3, SetModeKeeps
<1>4. CASE \E i \in Ids : VenueFills(i)
  BY <1>4, VenueFillsKeeps
<1>5. CASE UNCHANGED <<mode, orders, doubted, revision, task>> /\ account' \in {account, ~account}
  BY <1>5, OutsideKeeps DEF MInv, Types, Open
<1> QED
  BY <1>1, <1>2, <1>3, <1>4, <1>5
  DEF MakerNext, Start, Stop, MarketMoves, AccountMoves, Call, Shift, budgets, World, makerVars

\* Once a halting call has come back without error nothing of the maker rests
\* but what was not confirmed, whatever cycle was under way.
THEOREM HaltClears ==
  ASSUME CountsAreNumbers
  PROVE  MakerSpec => []HaltLeavesNothing
<1>1. MakerInit => MInv
  BY InitMInv
<1>2. MInv /\ [MakerNext]_makerVars => MInv'
  BY NextMInv
<1>3. MInv => HaltLeavesNothing
  BY DEF MInv, Halted, Emptied, Waiting, HaltLeavesNothing
<1> QED
  BY <1>1, <1>2, <1>3, PTL DEF MakerSpec

(***************************************************************************)
(* QuoteCoordinator: what a plan may touch                                 *)
(***************************************************************************)

CoordinatorSpec == CoordinatorInit /\ [][CoordinatorNext]_coordinatorVars

SizesAreNumbers ==
  /\ FullSize \in Nat /\ FillSize \in Nat /\ Validity \in Int /\ MinLifetime \in Int
  /\ \A s \in Sides : Prices[s] \subseteq Int

Owner == [price : Int, remaining : Nat, since : Int,
          status : {"none", "live", "unknown", "inflight"}, plan : Nat]
Slot == [revision : Nat, plan : Nat, owner : Owner, last : Int]
Desire == [decision : {"quote", "keep", "no_quote"}, price : Int, size : Nat, edge : Int]
Candidate == [revision : Nat, bid : Desire, ask : Desire, slotRevision : Nat, until : Int]

\* The candidate that reaches the coordinator is whole, and no slot owes less
\* than nothing.
CoordinatorTypes ==
  /\ tick \in Int /\ made \in Nat
  /\ slots \in [Sides -> Slot]
  /\ candidate = NoCandidate \/ candidate \in Candidate

LEMMA DesiresAreDesires ==
  ASSUME SizesAreNumbers, NEW s \in Sides
  PROVE  Desires(s) \subseteq Desire
<1>1. NoQuote \in Desire
  BY DEF NoQuote, Desire
<1>2. KeepQuote \in Desire
  BY DEF KeepQuote, NoQuote, Desire
<1>3. [decision : {"quote"}, price : Prices[s], size : {FullSize}, edge : {1, 5}] \subseteq Desire
  BY DEF Desire, SizesAreNumbers
<1> QED BY <1>1, <1>2, <1>3 DEF Desires

LEMMA NoOwnerIsOwner == NoOwner \in Owner
BY DEF NoOwner, Owner

Shrunk(o) == [o EXCEPT !.remaining = @ - FillSize]
Bumped(v) == [v EXCEPT !.revision = v.revision + 1]
Owned(v, o) == [v EXCEPT !.owner = o]

LEMMA OwnerShrinks ==
  ASSUME NEW o \in Owner, FillSize \in Nat, o.remaining > FillSize
  PROVE  Shrunk(o) \in Owner
BY DEF Owner, Shrunk

LEMMA OwnerStatus ==
  ASSUME NEW o \in Owner, NEW st \in {"live", "unknown", "inflight"}
  PROVE  [o EXCEPT !.status = st] \in Owner
BY DEF Owner

LEMMA OwnerOrphaned ==
  ASSUME NEW o \in Owner
  PROVE  [o EXCEPT !.plan = 0] \in Owner
BY DEF Owner

LEMMA SlotOwned ==
  ASSUME NEW v \in Slot, NEW o \in Owner
  PROVE  Owned(v, o) \in Slot
BY DEF Slot, Owned

LEMMA SlotBumped ==
  ASSUME NEW v \in Slot
  PROVE  Bumped(v) \in Slot /\ Bumped(v).owner = v.owner
<1>1. v.revision + 1 \in Nat
  BY DEF Slot
<1> QED BY <1>1 DEF Slot, Bumped

\* What is left of an order bounds its replacement.
LEMMA ClampedSize ==
  ASSUME NEW n \in Nat, NEW o \in Owner
  PROVE  Clamped(n, o) \in Nat /\ 5 * Clamped(n, o) <= 6 * o.remaining
<1>1. o.remaining \in Nat
  BY DEF Owner
<1>2. (o.remaining * 6) \div 5 \in Nat /\ 5 * ((o.remaining * 6) \div 5) <= 6 * o.remaining
  <2>1. PICK r \in Nat : r = o.remaining BY <1>1
  <2>2. (r * 6) \div 5 \in Nat /\ 5 * ((r * 6) \div 5) <= 6 * r
    OBVIOUS
  <2> QED BY <2>1, <2>2
<1> QED BY <1>1, <1>2 DEF Clamped, Smaller

LEMMA CoordinatorStarts == SizesAreNumbers /\ CoordinatorInit => CoordinatorTypes
<1>1. [revision |-> 0, plan |-> 0, owner |-> NoOwner, last |-> -9] \in Slot
  BY NoOwnerIsOwner DEF Slot
<1> QED BY <1>1 DEF CoordinatorInit, CoordinatorTypes

LEMMA CoordinatorKept == SizesAreNumbers /\ CoordinatorTypes /\ [CoordinatorNext]_coordinatorVars => CoordinatorTypes'
<1> SUFFICES ASSUME SizesAreNumbers, CoordinatorTypes, [CoordinatorNext]_coordinatorVars PROVE CoordinatorTypes'
  OBVIOUS
<1>1. ASSUME NEW bid \in Desires("bid"), NEW ask \in Desires("ask"), Propose(bid, ask) PROVE CoordinatorTypes'
  <2>1. bid \in Desire /\ ask \in Desire
    BY DesiresAreDesires DEF Sides
  <2>2. slots["bid"].revision \in Nat /\ slots["ask"].revision \in Nat
    BY DEF CoordinatorTypes, Slot, Sides
  <2>3. Larger(slots["bid"].revision, slots["ask"].revision) \in Nat /\ made + 1 \in Nat /\ tick + Validity \in Int
    BY <2>2 DEF Larger, CoordinatorTypes, SizesAreNumbers
  <2>4. candidate' \in Candidate
    BY <1>1, <2>1, <2>3 DEF Propose, Candidate
  <2> QED BY <1>1, <2>3, <2>4 DEF Propose, CoordinatorTypes
<1>2. CASE Coordinate
  <2> DEFINE c == Uncrossed(candidate)
  <2>1. candidate \in Candidate
    BY <1>2 DEF Coordinate, CoordinatorTypes
  <2>2. c.bid \in Desire /\ c.ask \in Desire /\ c.revision \in Nat
    BY <2>1 DEF Uncrossed, Candidate, NoQuote, Desire
  <2>3. \A s \in Sides : c[s] \in Desire
    BY <2>2 DEF Sides
  <2> HIDE DEF c
  <2>4. ASSUME NEW s \in Sides, NEW act
        PROVE  Applied(c[s], slots[s], act, c.revision) \in Slot
    <3>1. slots[s] \in Slot /\ slots[s].revision + 1 \in Nat /\ slots[s].owner \in Owner
      BY DEF CoordinatorTypes, Slot
    <3>2. ReplaceSize(c[s], slots[s]) \in Nat /\ c[s].size \in Nat /\ c[s].price \in Int
      BY <2>3, <3>1, ClampedSize DEF ReplaceSize, Desire
    <3>3. NewOwner(c[s], slots[s], act, c.revision) \in Owner
      BY <2>2, <3>2 DEF NewOwner, Owner, CoordinatorTypes
    <3> QED BY <2>2, <3>1, <3>3, NoOwnerIsOwner DEF Applied, Slot, CoordinatorTypes
  <2>5. slots' \in [Sides -> Slot]
    BY <1>2, <2>4 DEF Coordinate, CoordinatorTypes, c
  <2> QED BY <1>2, <2>5 DEF Coordinate, CoordinatorTypes
<1>3. ASSUME NEW s \in Sides, Fill(s) PROVE CoordinatorTypes'
  <2>1. slots[s] \in Slot /\ slots[s].owner \in Owner /\ slots[s].owner.remaining \in Nat
    BY DEF CoordinatorTypes, Slot, Owner
  <2>2. slots' = [slots EXCEPT ![s] = Owned(Bumped(slots[s]), IF slots[s].owner.remaining <= FillSize
                                                        THEN NoOwner ELSE Shrunk(slots[s].owner))]
    BY <1>3 DEF Fill, Owned, Bumped, Shrunk
  <2>3. PICK o \in Owner : o = IF slots[s].owner.remaining <= FillSize
                               THEN NoOwner ELSE Shrunk(slots[s].owner)
    <3>1. CASE slots[s].owner.remaining <= FillSize
      BY <3>1, NoOwnerIsOwner
    <3>2. CASE ~(slots[s].owner.remaining <= FillSize)
      BY <2>1, <3>2, OwnerShrinks DEF SizesAreNumbers
    <3> QED BY <3>1, <3>2
  <2>4. slots' = [slots EXCEPT ![s] = Owned(Bumped(slots[s]), o)]
    BY <2>2, <2>3
  <2> QED BY <1>3, <2>1, <2>4, SlotBumped, SlotOwned DEF Fill, CoordinatorTypes
<1>4. ASSUME NEW s \in Sides, NEW st \in {"live", "unknown", "inflight", "orphaned"}, Authoritative(s, st)
      PROVE  CoordinatorTypes'
  <2>1. slots[s] \in Slot /\ slots[s].owner \in Owner
    BY DEF CoordinatorTypes, Slot
  <2>2. PICK o \in Owner : o = IF st = "orphaned" THEN [slots[s].owner EXCEPT !.plan = 0]
                               ELSE [slots[s].owner EXCEPT !.status = st]
    BY <2>1, OwnerOrphaned, OwnerStatus
  <2>3. slots' = [slots EXCEPT ![s] = Owned(slots[s], o)]
    BY <1>4, <2>2 DEF Authoritative, Owned
  <2> QED BY <1>4, <2>1, <2>3, SlotOwned DEF Authoritative, CoordinatorTypes
<1>5. CASE Pass
  BY <1>5 DEF Pass, CoordinatorTypes
<1>6. CASE UNCHANGED coordinatorVars
  BY <1>6 DEF coordinatorVars, CoordinatorTypes
<1> QED BY <1>1, <1>2, <1>3, <1>4, <1>5, <1>6 DEF CoordinatorNext

LEMMA PlansAreSafe == SizesAreNumbers /\ CoordinatorTypes => PlanIsSafe
<1> SUFFICES ASSUME CoordinatorTypes, candidate # NoCandidate, NEW s \in Sides
             PROVE  LET v == slots[s]
                        offered(t) == candidate[t].decision = "quote"
                        crossed == /\ offered("bid") /\ offered("ask")
                                   /\ candidate.bid.price >= candidate.ask.price
                        withdrawn == candidate[s].decision = "no_quote" \/ crossed
                        stale == tick >= candidate.until \/ candidate.slotRevision
                                   < Larger(slots["bid"].revision, slots["ask"].revision)
                    IN /\ Blocked(v) => Act(s) = "blocked_unknown"
                       /\ withdrawn /\ Live(v) /\ ~Blocked(v) => Act(s) = "cancel" \/ (~stale /\ Inflight(v))
                       /\ stale \/ crossed => Act(s) \notin {"place", "cancel_then_place"}
  BY DEF PlanIsSafe
<1> DEFINE c == Uncrossed(candidate)
           v == slots[s]
           crossed == /\ candidate["bid"].decision = "quote" /\ candidate["ask"].decision = "quote"
                      /\ candidate.bid.price >= candidate.ask.price
           stale == tick >= candidate.until \/ candidate.slotRevision
                      < Larger(slots["bid"].revision, slots["ask"].revision)
<1>1. candidate \in Candidate
  BY DEF CoordinatorTypes
<1>2. /\ c.until = candidate.until /\ c.slotRevision = candidate.slotRevision
      /\ c[s].decision = IF crossed THEN "no_quote" ELSE candidate[s].decision
  BY <1>1 DEF Uncrossed, Candidate, NoQuote, Sides
<1>3. stale => Fenced(c)
  <2>1. Larger(slots["bid"].revision, slots["ask"].revision) \in Nat /\ candidate.slotRevision \in Nat
    BY <1>1 DEF CoordinatorTypes, Slot, Sides, Larger, Candidate
  <2> QED BY <1>2, <2>1 DEF Fenced
<1>4. Act(s) = IF Fenced(c) THEN FencedDiff(c[s], v) ELSE Diff(c[s], v)
  BY DEF Act
<1> HIDE DEF c, v, crossed, stale
<1>5. Blocked(v) => Act(s) = "blocked_unknown"
  BY <1>4 DEF FencedDiff, Diff
<1>6. (c[s].decision = "no_quote" /\ Live(v) /\ ~Blocked(v)) => Act(s) = "cancel" \/ (~stale /\ Inflight(v))
  BY <1>3, <1>4 DEF FencedDiff, Diff
<1>7. Fenced(c) => Act(s) \notin {"place", "cancel_then_place"}
  BY <1>4 DEF FencedDiff
<1>8. c[s].decision = "no_quote" => Act(s) \notin {"place", "cancel_then_place"}
  BY <1>4 DEF FencedDiff, Diff
<1> QED BY <1>2, <1>3, <1>5, <1>6, <1>7, <1>8 DEF v, crossed, stale

LEMMA NothingSnapsBack == SizesAreNumbers /\ CoordinatorTypes => NoSnapBack
<1> SUFFICES ASSUME SizesAreNumbers, CoordinatorTypes, candidate # NoCandidate, NEW s \in Sides, Act(s) = "cancel_then_place"
             PROVE  /\ 5 * NewOwner(candidate[s], slots[s], Act(s), 0).remaining <= 6 * slots[s].owner.remaining
                    /\ tick >= slots[s].owner.since + MinLifetime
  BY DEF NoSnapBack
<1> DEFINE c == Uncrossed(candidate)
<1>1. candidate \in Candidate /\ candidate[s] \in Desire /\ slots[s] \in Slot /\ slots[s].owner \in Owner
  BY DEF CoordinatorTypes, Candidate, Sides, Slot
<1>2. Worth(c[s], slots[s])
  BY DEF Act, FencedDiff, Diff
<1>3. NewOwner(candidate[s], slots[s], Act(s), 0).remaining = Clamped(candidate[s].size, slots[s].owner)
  BY DEF NewOwner, ReplaceSize
<1>4. candidate[s].size \in Nat
  BY <1>1 DEF Desire
<1>5. slots[s].owner.since \in Int /\ tick \in Int /\ MinLifetime \in Int
  BY <1>1 DEF CoordinatorTypes, Owner, SizesAreNumbers
<1>6. tick - slots[s].owner.since >= MinLifetime
  BY <1>2 DEF Worth
<1> QED BY <1>1, <1>3, <1>4, <1>5, <1>6, ClampedSize

\* Whatever the sizes, lifetimes and cooldowns: a withdrawn quote is cancelled
\* even behind a fence, an owner in doubt is never touched, a stale or crossed
\* candidate places nothing, and no replacement grows back over a fill.
THEOREM CoordinatorIsSafe == SizesAreNumbers /\ CoordinatorSpec => [](PlanIsSafe /\ NoSnapBack)
<1> SUFFICES ASSUME SizesAreNumbers PROVE CoordinatorSpec => [](PlanIsSafe /\ NoSnapBack)
  OBVIOUS
<1> QED BY CoordinatorStarts, CoordinatorKept, PlansAreSafe, NothingSnapsBack, PTL DEF CoordinatorSpec

(***************************************************************************)
(* QuotePolicy: the band, and prices that stay passive                     *)
(***************************************************************************)

PolicySpec == PolicyInit /\ [][PolicyNext]_policyVars

\* A quote is at most twice the hard band: at the band the side that unwinds
\* quotes its full size.  The settings' ceilings stand in that order.
PolicyBounds ==
  /\ Limits \subseteq [soft : Int, hard : Int, emergency : Int, size : Int]
  /\ \A c \in Limits : ValidLimits(c) => c.size <= 2 * c.hard
  /\ Depth \in Nat

\* What validate() leaves to whoever configures: the half spread is positive,
\* and neither the fair-value shift nor the skew takes the price to zero.
PriceBounds ==
  /\ Fair \in Int /\ Tick \in Nat \ {0} /\ MaxFairShift \in Nat
  /\ Fair > MaxFairShift * Tick
  /\ Shifts \subseteq Int /\ Spreads \subseteq Int
  /\ MinHalfSpread \in Nat \ {0}
  /\ SkewBps \in Int /\ MaxSkewBps \in 0..9999

PolicyTypes ==
  /\ limits = NoLimits \/ (limits \in Limits /\ ValidLimits(limits))
  /\ position \in Int
  /\ resting \in [BothSides -> Nat]

PolicyInv == PolicyTypes /\ BandHolds /\ (limits = NoLimits => position = 0 /\ resting[Buy] = 0 /\ resting[Sell] = 0)

-----------------------------------------------------------------------------
LEMMA HalvesAndWholes ==
  ASSUME NEW n \in Int
  PROVE  n \div 2 \in Int /\ 2 * (n \div 2) <= n /\ (n >= 0 => n \div 2 >= 0)
OBVIOUS

\* The size of a quote fits what the band leaves on its side.
LEMMA WantedFits ==
  ASSUME PolicyBounds, PolicyTypes, BandHolds, limits # NoLimits,
         NEW s \in BothSides, NEW budget, NEW edge \in BOOLEAN
  PROVE  /\ Wanted(s, budget, edge) \in Nat
         /\ s = Buy => position + Wanted(s, budget, edge) <= limits.hard
         /\ s = Sell => position - Wanted(s, budget, edge) >= -limits.hard
<1>1. PICK c \in Limits : c = limits /\ ValidLimits(c)
  BY DEF PolicyTypes
<1>2. /\ c.soft \in Int /\ c.hard \in Int /\ c.emergency \in Int /\ c.size \in Int
      /\ 0 < c.soft /\ c.soft < c.hard /\ 0 < c.size /\ c.size <= 2 * c.hard
  BY <1>1 DEF PolicyBounds, ValidLimits
<1>3. /\ position \in Int /\ resting[Buy] \in Nat /\ resting[Sell] \in Nat
      /\ position <= c.hard /\ position >= -c.hard
  BY <1>1, <1>2 DEF PolicyTypes, BandHolds, BothSides, Buy, Sell
<1>4. Abs(position) \in Int /\ Abs(position) >= position /\ Abs(position) >= -position /\ (Abs(position) = position \/ Abs(position) = -position)
  BY <1>3 DEF Abs
<1>5. SizeOf(s) \in Int /\ (SizeOf(s) >= 1 => SizeOf(s) \in Nat)
  BY <1>1, <1>2, <1>4, HalvesAndWholes DEF SizeOf, Headroom, Least, PolicyBounds
<1>6. CASE Wanted(s, budget, edge) = 0
  BY <1>1, <1>2, <1>3, <1>6
<1>7. CASE Wanted(s, budget, edge) # 0
  <2>1. Wanted(s, budget, edge) = SizeOf(s) /\ SideAllowed(s, budget) /\ SizeOf(s) >= 1
    BY <1>7 DEF Wanted
  <2>2. CASE AtHard
    <3>1. Reduces(s)
      BY <2>1, <2>2 DEF SideAllowed
    <3>2. SizeOf(s) <= c.size
      BY <1>1, <1>2, <2>2, <3>1 DEF SizeOf, Least, PolicyBounds
    <3>3. Abs(position) >= c.hard
      BY <1>1, <2>2 DEF AtHard
    <3>4. CASE s = Buy
      BY <3>1, <3>2, <3>3, <3>4, <1>1, <1>2, <1>3, <1>4, <1>5, <2>1 DEF Reduces, Buy, Sell
    <3>5. CASE s = Sell
      BY <3>1, <3>2, <3>3, <3>5, <1>1, <1>2, <1>3, <1>4, <1>5, <2>1 DEF Reduces, Buy, Sell
    <3> QED BY <3>4, <3>5 DEF BothSides
  <2>3. CASE ~AtHard
    <3>1. Headroom = (c.hard - Abs(position)) \div 2 /\ SizeOf(s) = Least(Least(c.size, Headroom), Depth)
      BY <1>1, <2>3 DEF Headroom, SizeOf
    <3>2. Headroom \in Int /\ 2 * Headroom <= c.hard - Abs(position)
      BY <3>1, <1>2, <1>4, HalvesAndWholes
    <3>3. SizeOf(s) <= Headroom
      BY <3>1, <3>2, <1>2 DEF Least, PolicyBounds
    <3> QED BY <3>2, <3>3, <1>1, <1>2, <1>3, <1>4, <1>5, <2>1 DEF BothSides
  <2> QED BY <2>2, <2>3
<1> QED BY <1>6, <1>7

LEMMA PolicyStarts == PolicyBounds /\ PolicyInit => PolicyInv
BY DEF PolicyInit, PolicyInv, PolicyTypes, BandHolds, BothSides, Buy, Sell

LEMMA PolicyKept == PolicyBounds /\ PolicyInv /\ [PolicyNext]_policyVars => PolicyInv'
<1> SUFFICES ASSUME PolicyBounds, PolicyInv, [PolicyNext]_policyVars PROVE PolicyInv'
  OBVIOUS
<1>0. Buy \in BothSides /\ Sell \in BothSides /\ Buy # Sell
  BY DEF BothSides, Buy, Sell
<1>1. ASSUME NEW c \in Limits, Configure(c) PROVE PolicyInv'
  <2>1. /\ position' = 0 /\ resting'[Buy] = 0 /\ resting'[Sell] = 0 /\ PolicyTypes'
        /\ limits' = NoLimits \/ (limits' = c /\ ValidLimits(c))
    BY <1>1 DEF Configure, PolicyInv, PolicyTypes
  <2>2. c.hard \in Int /\ (ValidLimits(c) => c.hard > 0)
    BY DEF PolicyBounds, ValidLimits
  <2>3. BandHolds'
    BY <2>1, <2>2 DEF BandHolds
  <2> QED BY <2>1, <2>3 DEF PolicyInv
<1>2. ASSUME NEW shift \in Shifts, NEW spread \in Spreads, NEW half, NEW budget,
             NEW edges \in [BothSides -> BOOLEAN], Requote(shift, spread, half, budget, edges)
      PROVE  PolicyInv'
  <2>1. limits # NoLimits /\ UNCHANGED <<limits, position>>
    BY <1>2 DEF Requote
  <2>2. PICK kept \in SUBSET BothSides :
          resting' = [s \in BothSides |->
            IF Wanted(s, budget, edges[s]) > 0 /\ s \in kept /\ resting[s] > 0
            THEN resting[s] ELSE Wanted(s, budget, edges[s])]
    BY <1>2 DEF Requote
  <2>3. \A s \in BothSides : /\ Wanted(s, budget, edges[s]) \in Nat
                             /\ s = Buy => position + Wanted(s, budget, edges[s]) <= limits.hard
                             /\ s = Sell => position - Wanted(s, budget, edges[s]) >= -limits.hard
    BY <2>1, WantedFits DEF PolicyInv
  <2>4. resting' \in [BothSides -> Nat]
    BY <2>2, <2>3 DEF PolicyInv, PolicyTypes
  <2>5. /\ resting'[Buy] \in {resting[Buy], Wanted(Buy, budget, edges[Buy])}
        /\ resting'[Sell] \in {resting[Sell], Wanted(Sell, budget, edges[Sell])}
    BY <1>0, <2>2
  <2>6. BandHolds'
    BY <1>0, <2>1, <2>3, <2>5 DEF PolicyInv, BandHolds
  <2> QED BY <2>1, <2>4, <2>6 DEF PolicyInv, PolicyTypes
<1>3. ASSUME NEW s \in BothSides, Filled(s) PROVE PolicyInv'
  <2>1. /\ UNCHANGED limits /\ resting[s] > 0 /\ resting[s] \in Nat /\ position \in Int
        /\ resting' = [resting EXCEPT ![s] = resting[s] - 1]
        /\ position' = IF s = Buy THEN position + 1 ELSE position - 1
    BY <1>3 DEF Filled, PolicyInv, PolicyTypes
  <2>2. resting' \in [BothSides -> Nat] /\ position' \in Int
    BY <2>1 DEF PolicyInv, PolicyTypes
  <2>3. limits # NoLimits
    BY <2>1, <1>0 DEF PolicyInv, BothSides
  <2>4. limits.hard \in Int /\ resting[Buy] \in Nat /\ resting[Sell] \in Nat
    BY <1>0, <2>3 DEF PolicyInv, PolicyTypes, PolicyBounds
  <2>5. /\ position + resting[Buy] <= limits.hard
        /\ position - resting[Sell] >= -limits.hard
    BY <2>3 DEF PolicyInv, BandHolds
  <2>6. CASE s = Buy
    <3>1. resting'[Buy] = resting[Buy] - 1 /\ resting'[Sell] = resting[Sell] /\ position' = position + 1
      BY <1>0, <2>1, <2>6 DEF PolicyInv, PolicyTypes
    <3>2. BandHolds'
      BY <2>1, <2>4, <2>5, <3>1 DEF BandHolds
    <3> QED BY <2>1, <2>2, <2>3, <3>2 DEF PolicyInv, PolicyTypes
  <2>7. CASE s = Sell
    <3>1. resting'[Sell] = resting[Sell] - 1 /\ resting'[Buy] = resting[Buy] /\ position' = position - 1
      BY <1>0, <2>1, <2>7 DEF PolicyInv, PolicyTypes
    <3>2. BandHolds'
      BY <2>1, <2>4, <2>5, <3>1 DEF BandHolds
    <3> QED BY <2>1, <2>2, <2>3, <3>2 DEF PolicyInv, PolicyTypes
  <2> QED BY <2>6, <2>7 DEF BothSides
<1>4. CASE UNCHANGED policyVars
  BY <1>4 DEF policyVars, PolicyInv, PolicyTypes, BandHolds
<1> QED BY <1>1, <1>2, <1>3, <1>4 DEF PolicyNext

\* A configured hard band is never left: whatever rests and fills, in whatever
\* order between requotes, as long as a quote is no larger than twice the band.
THEOREM InventoryStaysInBand == PolicyBounds /\ PolicySpec => []BandHolds
<1> SUFFICES ASSUME PolicyBounds PROVE PolicySpec => []BandHolds
  OBVIOUS
<1>1. PolicyInv => BandHolds
  BY DEF PolicyInv
<1> QED BY <1>1, PolicyStarts, PolicyKept, PTL DEF PolicySpec

-----------------------------------------------------------------------------
LEMMA ClampBounds ==
  ASSUME NEW n \in Int, NEW cap \in Nat
  PROVE  Clamp(n, cap) \in Int /\ Clamp(n, cap) <= cap /\ Clamp(n, cap) >= -cap
BY DEF Clamp

LEMMA FairIsPositive ==
  ASSUME PriceBounds, NEW shift \in Int
  PROVE  FairPrice(shift) \in Nat \ {0}
<1>1. PICK m \in Nat : m = MaxFairShift * Tick
  BY DEF PriceBounds
<1>2. Clamp(shift, m) \in Int /\ Clamp(shift, m) >= -m
  BY ClampBounds
<1> QED BY <1>1, <1>2 DEF FairPrice, PriceBounds

LEMMA ReservationIsPositive ==
  ASSUME PriceBounds, PolicyBounds, PolicyTypes, limits # NoLimits, NEW fair \in Nat \ {0}
  PROVE  Reservation(fair) \in Nat \ {0}
<1> DEFINE z == Clamp((position * 100) \div limits.soft, 200)
           k == Clamp((SkewBps * z) \div 100, MaxSkewBps)
<1>1. limits.soft \in Int /\ 0 < limits.soft /\ position \in Int
  BY DEF PolicyTypes, ValidLimits, PolicyBounds
<1>2. (position * 100) \div limits.soft \in Int
  BY <1>1
<1>3. z \in Int
  BY <1>2, ClampBounds
<1> HIDE DEF z
<1>4. (SkewBps * z) \div 100 \in Int
  <2>1. SkewBps * z \in Int
    BY <1>3 DEF PriceBounds
  <2> QED BY <2>1
<1>5. k \in Int /\ k <= 9999
  <2>1. MaxSkewBps \in Nat /\ MaxSkewBps <= 9999
    BY DEF PriceBounds
  <2>2. k \in Int /\ k <= MaxSkewBps
    BY <1>4, <2>1, ClampBounds
  <2> HIDE DEF k
  <2> QED BY <2>1, <2>2
<1>6. Reservation(fair) = fair - (fair * k) \div 10000
  BY DEF Reservation, z
<1> HIDE DEF k
<1>7. fair * k <= fair * 9999
  BY <1>5
<1>8. fair * k \in Int
  BY <1>5
<1>9. PICK p \in Int : p = fair * k
  BY <1>8
<1>10. (p \div 10000) \in Int /\ p \div 10000 < fair
  BY <1>7, <1>9
<1> QED BY <1>6, <1>9, <1>10

LEMMA Roundings ==
  ASSUME NEW n \in Int, NEW step \in Nat \ {0}
  PROVE  /\ FloorTo(n, step) \in Int /\ FloorTo(n, step) <= n
         /\ CeilTo(n, step) \in Int /\ CeilTo(n, step) >= n
<1>1. ASSUME NEW m \in Int PROVE FloorTo(m, step) \in Int /\ FloorTo(m, step) <= m
  <2>1. (m \div step) \in Int /\ m = step * (m \div step) + (m % step) /\ m % step >= 0
    OBVIOUS
  <2>2. (m \div step) * step \in Int /\ (m \div step) * step = step * (m \div step) /\ m % step \in Int
    BY <2>1
  <2> QED BY <2>1, <2>2 DEF FloorTo
<1>2. -n \in Int
  OBVIOUS
<1>3. FloorTo(-n, step) \in Int /\ FloorTo(-n, step) <= -n
  BY <1>1, <1>2
<1> QED BY <1>1, <1>3 DEF CeilTo

\* A bid lies under the reservation price and the best ask, an ask over it and
\* the best bid.
LEMMA QuotesStandApart ==
  ASSUME PriceBounds, PolicyBounds, PolicyTypes, limits # NoLimits,
         NEW fair \in Nat \ {0}, NEW spread \in Int, NEW best \in Int
  PROVE  /\ Bid(fair, spread, best) \in Int /\ Bid(fair, spread, best) < Reservation(fair)
         /\ Bid(fair, spread, best) < best
         /\ Ask(fair, spread, best) \in Int /\ Ask(fair, spread, best) > Reservation(fair)
         /\ Ask(fair, spread, best) > best
<1>1. PICK r \in Nat \ {0} : r = Reservation(fair)
  BY ReservationIsPositive
<1>2. PICK h \in Nat \ {0} : h = HalfSpread(spread)
  BY DEF HalfSpread, Most, PriceBounds
<1>3. PICK p \in Nat \ {0} : p = r * h
  OBVIOUS
<1>4. r * (10000 - h) = 10000 * r - p /\ (-r) * (10000 + h) = -(10000 * r) - p
  BY <1>3
<1>5. (10000 * r - p) \div 10000 \in Int /\ (10000 * r - p) \div 10000 < r
  OBVIOUS
<1>6. (-(10000 * r) - p) \div 10000 \in Int /\ (-(10000 * r) - p) \div 10000 < -r
  OBVIOUS
<1>7. PICK b \in Int : b = (r * (10000 - h)) \div 10000 /\ b < r
  BY <1>4, <1>5
<1>8. PICK a \in Int : a = -(((-r) * (10000 + h)) \div 10000) /\ a > r
  BY <1>4, <1>6
<1>9. Tick \in Nat \ {0}
  BY DEF PriceBounds
<1>10. Bid(fair, spread, best) = Least(FloorTo(b, Tick), best - Tick)
  BY <1>1, <1>2, <1>7 DEF Bid
<1>11. Ask(fair, spread, best) = Most(CeilTo(a, Tick), best + Tick)
  BY <1>1, <1>2, <1>8 DEF Ask
<1>12. FloorTo(b, Tick) \in Int /\ FloorTo(b, Tick) <= b /\ CeilTo(a, Tick) \in Int /\ CeilTo(a, Tick) >= a
  BY <1>9, Roundings
<1> QED BY <1>1, <1>7, <1>8, <1>9, <1>10, <1>11, <1>12 DEF Least, Most

\* However far a model shifts the price and inventory skews it: the two quotes
\* stay apart, and neither crosses the book it was made from.
THEOREM QuotesArePassive == PriceBounds /\ PolicyBounds /\ PolicySpec => []PassiveQuotes
<1> SUFFICES ASSUME PriceBounds, PolicyBounds PROVE PolicySpec => []PassiveQuotes
  OBVIOUS
<1>1. PolicyInit => PassiveQuotes
  BY DEF PolicyInit, PassiveQuotes
<1>2. PolicyInv /\ PassiveQuotes /\ [PolicyNext]_policyVars => PassiveQuotes'
  <2> SUFFICES ASSUME PolicyInv, PassiveQuotes, [PolicyNext]_policyVars PROVE PassiveQuotes'
    OBVIOUS
  <2>1. ASSUME NEW shift \in Shifts, NEW spread \in Spreads, NEW half \in {Tick, 2 * Tick}, NEW budget,
               NEW edges, Requote(shift, spread, half, budget, edges)
        PROVE  PassiveQuotes'
    <3> DEFINE fair == FairPrice(shift)
               bid == Bid(fair, spread, Fair + half)
               ask == Ask(fair, spread, Fair - half)
    <3>1. limits # NoLimits /\ quoted' = [bestBid |-> Fair - half, bestAsk |-> Fair + half, bid |-> bid, ask |-> ask]
      BY <2>1 DEF Requote
    <3>2. fair \in Nat \ {0} /\ spread \in Int /\ Fair + half \in Int /\ Fair - half \in Int
      BY FairIsPositive DEF PriceBounds
    <3> HIDE DEF fair
    <3>3. /\ bid \in Int /\ bid < Reservation(fair) /\ bid < Fair + half
          /\ ask \in Int /\ ask > Reservation(fair) /\ ask > Fair - half
      BY <3>1, <3>2, QuotesStandApart DEF PolicyInv
    <3>4. Reservation(fair) \in Nat
      BY <3>1, <3>2, ReservationIsPositive DEF PolicyInv
    <3> HIDE DEF bid, ask
    <3> QED BY <3>1, <3>3, <3>4 DEF PassiveQuotes
  <2>2. ASSUME NEW c \in Limits, Configure(c) PROVE PassiveQuotes'
    BY <2>2 DEF Configure, PassiveQuotes
  <2>3. ASSUME NEW s \in BothSides, Filled(s) PROVE PassiveQuotes'
    BY <2>3 DEF Filled, PassiveQuotes
  <2>4. CASE UNCHANGED policyVars
    BY <2>4 DEF policyVars, PassiveQuotes
  <2> QED BY <2>1, <2>2, <2>3, <2>4 DEF PolicyNext
<1> QED BY <1>1, <1>2, PolicyStarts, PolicyKept, PTL DEF PolicySpec

(***************************************************************************)
(* Batch: order and outcome                                                *)
(***************************************************************************)

BatchSpec == BatchInit /\ [][BatchNext]_batchVars

ChildOutcomes == Resolved \cup {"pending", "dispatching", "unknown"}
Child == [outcome : ChildOutcomes, after : Int]

\* The three tables have one row per child, and a child depends on a child.
BatchTypes ==
  /\ children \in [DOMAIN children -> Child]
  /\ attempts \in [DOMAIN children -> SUBSET AttemptIds]
  /\ closed \in [DOMAIN children -> Resolved \cup {"open"}]
  /\ \A i \in DOMAIN children : children[i].after # 0 => children[i].after \in DOMAIN children

\* What was sent had its dependency succeed first, what is being sent was
\* attempted, and a child once settled stays as it settled.
BatchInv ==
  /\ BatchTypes
  /\ \A i \in DOMAIN children : (attempts[i] # {} /\ children[i].after # 0) =>
       closed[children[i].after] = "succeeded"
  /\ \A i \in DOMAIN children : children[i].outcome = "dispatching" => attempts[i] # {}
  /\ \A i \in DOMAIN children : closed[i] # "open" <=> children[i].outcome \in Resolved
  /\ \A i \in DOMAIN children : closed[i] # "open" => children[i].outcome = closed[i]

LEMMA BatchStarts == BatchInit => BatchInv
<1> SUFFICES ASSUME BatchInit PROVE BatchInv OBVIOUS
<1>1. DOMAIN children = {} /\ children = <<>> /\ attempts = <<>> /\ closed = <<>>
  BY DEF BatchInit
<1>2. children \in [{} -> Child] /\ attempts \in [{} -> SUBSET AttemptIds] /\ closed \in [{} -> Resolved \cup {"open"}]
  BY <1>1
<1> QED BY <1>1, <1>2 DEF BatchInv, BatchTypes

LEMMA BatchKept == BatchInv /\ [BatchNext]_batchVars => BatchInv'
<1> SUFFICES ASSUME BatchInv, [BatchNext]_batchVars PROVE BatchInv' OBVIOUS
<1>1. ASSUME NEW n \in 1..MaxChildren, NEW deps \in [1..n -> 0..n], \A i \in 1..n : deps[i] < i, NewCommand(n, deps)
      PROVE  BatchInv'
  <2>1. DOMAIN children' = 1..n /\ \A i \in 1..n : children'[i] = [outcome |-> "pending", after |-> deps[i]]
    BY <1>1 DEF NewCommand
  <2>2. \A i \in 1..n : [outcome |-> "pending", after |-> deps[i]] \in Child
    BY <1>1 DEF Child, ChildOutcomes
  <2>3. children' \in [1..n -> Child]
    BY <1>1, <2>2 DEF NewCommand
  <2>4. attempts' \in [1..n -> SUBSET AttemptIds] /\ closed' \in [1..n -> Resolved \cup {"open"}]
    BY <1>1 DEF NewCommand
  <2>5. \A i \in 1..n : children'[i].after # 0 => children'[i].after \in 1..n
    BY <1>1, <2>1
  <2>6. BatchTypes'
    BY <2>1, <2>3, <2>4, <2>5 DEF BatchTypes
  <2>7. \A i \in 1..n : attempts'[i] = {} /\ closed'[i] = "open" /\ children'[i].outcome = "pending"
    BY <1>1, <2>1 DEF NewCommand
  <2> QED BY <2>1, <2>6, <2>7 DEF BatchInv, Resolved
<1>2. ASSUME NEW i \in DOMAIN children, NEW a \in AttemptIds, RecordAttempt(i, a) PROVE BatchInv'
  <2>1. DOMAIN children' = DOMAIN children /\ UNCHANGED closed
    BY <1>2 DEF RecordAttempt
  <2>2. PICK c \in Child : c = children[i] /\ c.outcome \notin Resolved
    BY <1>2 DEF RecordAttempt, Resend, BatchInv, BatchTypes
  <2>3. [c EXCEPT !.outcome = "dispatching"] \in Child /\ [c EXCEPT !.outcome = "dispatching"].outcome = "dispatching"
        /\ [c EXCEPT !.outcome = "dispatching"].after = c.after
    BY DEF Child, ChildOutcomes
  <2>4. children' = [children EXCEPT ![i] = [c EXCEPT !.outcome = "dispatching"]]
    BY <1>2, <2>2 DEF RecordAttempt
  <2>5. /\ children' \in [DOMAIN children -> Child]
        /\ children'[i].outcome = "dispatching" /\ \A j \in DOMAIN children : children'[j].after = children[j].after
        /\ \A j \in DOMAIN children : j # i => children'[j] = children[j]
    BY <2>2, <2>3, <2>4 DEF BatchInv, BatchTypes
  <2>6. /\ attempts' \in [DOMAIN children -> SUBSET AttemptIds] /\ attempts'[i] # {}
        /\ \A j \in DOMAIN children : j # i => attempts'[j] = attempts[j]
    BY <1>2 DEF RecordAttempt, BatchInv, BatchTypes
  <2>7. BatchTypes'
    BY <2>1, <2>5, <2>6 DEF BatchInv, BatchTypes
  <2>8. closed[i] = "open" /\ "dispatching" \notin Resolved
    BY <2>2 DEF BatchInv, Resolved
  <2>9. children[i].after # 0 => closed[children[i].after] = "succeeded"
    <3> SUFFICES ASSUME children[i].after # 0 PROVE closed[children[i].after] = "succeeded" OBVIOUS
    <3>1. CASE i \in Dispatchable
      <4>1. children[children[i].after].outcome = "succeeded" /\ children[i].after \in DOMAIN children
        BY <3>1 DEF Dispatchable, BatchInv, BatchTypes
      <4> QED BY <4>1 DEF BatchInv, Resolved
    <3>2. CASE children[i].outcome # "pending"
      <4>1. children[i].outcome = "dispatching"
        BY <1>2, <2>2, <3>2 DEF RecordAttempt, Resend, Child, ChildOutcomes
      <4> QED BY <4>1 DEF BatchInv
    <3> QED BY <1>2, <3>1, <3>2 DEF RecordAttempt
  <2> QED BY <2>1, <2>5, <2>6, <2>7, <2>8, <2>9 DEF BatchInv
<1>3. ASSUME NEW i \in DOMAIN children, NEW o \in Resolved \cup {"unknown"}, Resolve(i, o) PROVE BatchInv'
  <2>1. DOMAIN children' = DOMAIN children /\ UNCHANGED attempts /\ children[i].outcome \notin Resolved
    BY <1>3 DEF Resolve
  <2>2. PICK c \in Child : c = children[i]
    BY DEF BatchInv, BatchTypes
  <2>3. [c EXCEPT !.outcome = o] \in Child /\ [c EXCEPT !.outcome = o].outcome = o /\ [c EXCEPT !.outcome = o].after = c.after
    BY DEF Child, ChildOutcomes
  <2>4. children' = [children EXCEPT ![i] = [c EXCEPT !.outcome = o]]
    BY <1>3, <2>2 DEF Resolve
  <2>5. /\ children' \in [DOMAIN children -> Child]
        /\ children'[i].outcome = o /\ \A j \in DOMAIN children : children'[j].after = children[j].after
        /\ \A j \in DOMAIN children : j # i => children'[j] = children[j]
    BY <2>2, <2>3, <2>4 DEF BatchInv, BatchTypes
  <2>6. /\ closed' \in [DOMAIN children -> Resolved \cup {"open"}]
        /\ closed'[i] = IF o \in Resolved THEN o ELSE "open"
        /\ \A j \in DOMAIN children : j # i => closed'[j] = closed[j]
    BY <1>3 DEF Resolve, BatchInv, BatchTypes
  <2>7. BatchTypes'
    BY <2>1, <2>5, <2>6 DEF BatchInv, BatchTypes
  <2>8. closed[i] = "open" /\ "open" \notin Resolved /\ "unknown" \notin Resolved
    BY <2>1 DEF BatchInv, Resolved
  <2>9. \A j \in DOMAIN children : (attempts[j] # {} /\ children'[j].after # 0) => closed'[children'[j].after] = "succeeded"
    <3> SUFFICES ASSUME NEW j \in DOMAIN children, attempts[j] # {}, children'[j].after # 0
                 PROVE  closed'[children'[j].after] = "succeeded"
      OBVIOUS
    <3>1. children'[j].after = children[j].after /\ children[j].after \in DOMAIN children
      BY <2>5 DEF BatchInv, BatchTypes
    <3>2. closed[children[j].after] = "succeeded"
      BY <3>1 DEF BatchInv
    <3> QED BY <3>1, <3>2, <2>6, <2>8
  <2>10. \A j \in DOMAIN children : children'[j].outcome = "dispatching" => attempts[j] # {}
    BY <2>5 DEF BatchInv, Resolved
  <2>11. \A j \in DOMAIN children : /\ closed'[j] # "open" <=> children'[j].outcome \in Resolved
                                    /\ closed'[j] # "open" => children'[j].outcome = closed'[j]
    BY <2>5, <2>6, <2>8 DEF BatchInv
  <2> QED BY <2>1, <2>7, <2>9, <2>10, <2>11 DEF BatchInv
<1>4. CASE UNCHANGED batchVars
  BY <1>4 DEF batchVars, BatchInv, BatchTypes
<1> QED BY <1>1, <1>2, <1>3, <1>4 DEF BatchNext

LEMMA BatchInvIsSound == BatchInv => BatchSound
<1> SUFFICES ASSUME BatchInv PROVE BatchSound OBVIOUS
<1> DEFINE os == {children[i].outcome : i \in DOMAIN children}
<1>1. Outcome \in {"succeeded", "partial", "completed"} => os \subseteq Resolved
  BY DEF Outcome
<1>2. os \subseteq Resolved => Dispatchable = {}
  BY DEF Dispatchable, Resolved
<1>3. Outcome = "unknown" => "unknown" \in os
  BY DEF Outcome
<1>4. "unknown" \in os => \E i \in DOMAIN children : closed[i] = "open"
  BY DEF BatchInv, Resolved
<1> QED BY <1>1, <1>2, <1>3, <1>4 DEF BatchInv, BatchSound

\* However attempts and answers fall, and whatever depends on what: nothing is
\* sent ahead of what it waits for, a settled child keeps its outcome, and the
\* outcome of the whole hides neither a child left to send nor one in doubt.
THEOREM BatchesAreSound == BatchSpec => []BatchSound
BY BatchStarts, BatchKept, BatchInvIsSound, PTL DEF BatchSpec

(***************************************************************************)
(* ExternalReference: the newest quote of a market                         *)
(***************************************************************************)

ReferenceSpec == ReferenceInit /\ [][ReferenceNext]_referenceVars

QuotesAreBounded == MaxTime \in Nat /\ MaxQuotes \in Nat

Quote == [gen : Nat, seq : Nat, shape : {"none", "good", "crossed", "far"}, at : 0..MaxTime]
Sent == [market : Markets, gen : Nat, seq : Nat, shape : {"good", "crossed", "far"}]

Newest(m) == \A p \in arrived[m] :
  \/ p[1] < quotes[m].gen
  \/ p[1] = quotes[m].gen /\ p[2] <= quotes[m].seq

ReferenceInv ==
  /\ time \in 0..MaxTime /\ sent \in 0..MaxQuotes /\ basisAt \in -1..MaxTime
  /\ line \in [gen : Nat, seq : Nat]
  /\ quotes \in [Markets -> Quote] /\ inFlight \subseteq Sent
  /\ arrived \in [Markets -> SUBSET (Nat \X Nat)]
  /\ \A m \in Markets : Newest(m)

LEMMA ReferenceStarts == QuotesAreBounded /\ ReferenceInit => ReferenceInv
BY DEF ReferenceInit, ReferenceInv, QuotesAreBounded, Quote, None, Newest

LEMMA ReferenceKept == QuotesAreBounded /\ ReferenceInv /\ [ReferenceNext]_referenceVars => ReferenceInv'
<1> SUFFICES ASSUME QuotesAreBounded, ReferenceInv, [ReferenceNext]_referenceVars PROVE ReferenceInv'
  OBVIOUS
<1> USE DEF QuotesAreBounded
<1>1. CASE TimePasses
  BY <1>1 DEF TimePasses, ReferenceInv, Newest
<1>2. CASE VenueQuote
  <2>1. PICK m \in Markets, shape \in {"good", "crossed", "far"}, fresh \in BOOLEAN :
          /\ line' = IF fresh THEN [gen |-> line.gen + 1, seq |-> 1] ELSE [line EXCEPT !.seq = @ + 1]
          /\ inFlight' = inFlight \cup {[market |-> m, gen |-> line'.gen, seq |-> line'.seq, shape |-> shape]}
    BY <1>2 DEF VenueQuote
  <2>2. line' \in [gen : Nat, seq : Nat]
    BY <2>1 DEF ReferenceInv
  <2>3. inFlight' \subseteq Sent
    BY <2>1, <2>2 DEF ReferenceInv, Sent
  <2> QED BY <1>2, <2>2, <2>3 DEF VenueQuote, ReferenceInv, Newest
<1>3. CASE Calibrate
  BY <1>3 DEF Calibrate, ReferenceInv, Newest
<1>4. ASSUME NEW q \in inFlight, UpdateQuote(q) PROVE ReferenceInv'
  <2> DEFINE new == [gen |-> q.gen, seq |-> q.seq, shape |-> q.shape, at |-> time]
  <2>1. q \in Sent /\ q.market \in Markets /\ q.gen \in Nat /\ q.seq \in Nat
    BY <1>4 DEF ReferenceInv, Sent
  <2>2. new \in Quote /\ new.gen = q.gen /\ new.seq = q.seq
    BY <2>1 DEF Sent, Quote, ReferenceInv
  <2>3. quotes' = IF Regresses(q, quotes[q.market]) THEN quotes ELSE [quotes EXCEPT ![q.market] = new]
    BY <1>4 DEF UpdateQuote
  <2>4. arrived' = [arrived EXCEPT ![q.market] = @ \cup {<<q.gen, q.seq>>}]
    BY <1>4 DEF UpdateQuote
  <2> HIDE DEF new
  <2>5. quotes' \in [Markets -> Quote]
    BY <2>1, <2>2, <2>3 DEF ReferenceInv
  <2>6. arrived' \in [Markets -> SUBSET (Nat \X Nat)]
    BY <2>1, <2>4 DEF ReferenceInv
  <2>7. ASSUME NEW m \in Markets PROVE Newest(m)'
    <3>1. CASE m # q.market
      BY <2>1, <2>3, <2>4, <3>1 DEF ReferenceInv, Newest
    <3>2. CASE m = q.market
      <4>1. arrived'[m] = arrived[m] \cup {<<q.gen, q.seq>>}
        BY <2>1, <2>4, <3>2 DEF ReferenceInv
      <4>2. \A p \in arrived[m] : p[1] \in Nat /\ p[2] \in Nat
        BY DEF ReferenceInv
      <4>3. quotes[m].gen \in Nat /\ quotes[m].seq \in Nat
        BY DEF ReferenceInv, Quote
      <4>4. <<q.gen, q.seq>>[1] = q.gen /\ <<q.gen, q.seq>>[2] = q.seq
        OBVIOUS
      <4>5. CASE Regresses(q, quotes[m])
        BY <2>1, <2>3, <3>2, <4>1, <4>3, <4>4, <4>5 DEF ReferenceInv, Newest, Regresses
      <4>6. CASE ~Regresses(q, quotes[m])
        <5>1. quotes'[m] = new
          BY <2>1, <2>3, <3>2, <4>6 DEF ReferenceInv
        <5> QED BY <2>1, <2>2, <4>1, <4>2, <4>3, <4>4, <4>6, <5>1 DEF ReferenceInv, Newest, Regresses
      <4> QED BY <4>5, <4>6
    <3> QED BY <3>1, <3>2
  <2> QED BY <1>4, <2>5, <2>6, <2>7 DEF UpdateQuote, ReferenceInv
<1>5. CASE UNCHANGED referenceVars
  BY <1>5 DEF referenceVars, ReferenceInv, Newest
<1> QED BY <1>1, <1>2, <1>3, <1>4, <1>5 DEF ReferenceNext

\* A market shows the newest quote that arrived, over reconnects and quotes
\* that overtake each other, and a reference that weighs is of sound quality
\* (external_reference.rs: update_quote, evaluate), for every bound.
THEOREM ReferenceIsTheNewest ==
  QuotesAreBounded /\ ReferenceSpec => [](ReferenceTypeOK /\ ReferenceIsNewest)
<1>1. ReferenceInv => ReferenceTypeOK
  BY DEF ReferenceInv, ReferenceTypeOK, Quote
<1>2. ReferenceInv => ReferenceIsNewest
  <2> SUFFICES ASSUME ReferenceInv PROVE ReferenceIsNewest
    OBVIOUS
  <2>1. ASSUME Weighs PROVE /\ Quality # "stale" /\ \A m \in Books : quotes[m].shape # "crossed"
                            /\ basisAt # -1 => time - basisAt <= BasisMaxAge
    BY <2>1 DEF Weighs, Anomaly, Books, BasisFresh
  <2> QED BY <2>1 DEF ReferenceInv, ReferenceIsNewest, Newest, FeatureWeighs
<1> SUFFICES ASSUME QuotesAreBounded PROVE ReferenceSpec => [](ReferenceTypeOK /\ ReferenceIsNewest)
  OBVIOUS
<1> QED BY <1>1, <1>2, ReferenceStarts, ReferenceKept, PTL DEF ReferenceSpec

=============================================================================
