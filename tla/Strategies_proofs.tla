------------------------- MODULE Strategies_proofs --------------------------
(***************************************************************************)
(* The strategies and their records: the trend follower's one entry and    *)
(* its stop, the funding arbitrage that drives what its row says, and the  *)
(* versions of a configuration, each of one meaning.                       *)
(***************************************************************************)
EXTENDS TrendFollow, FundingArb, ConfigVersions, SequenceTheorems, TLAPS

(***************************************************************************)
(* TrendFollow: one entry, with its stop                                   *)
(***************************************************************************)

CountsAreNumbers == MaxOrders \in Nat

Sides == {1, -1}
Units == {-1, 0, 1}
Memories ==
  [on : BOOLEAN, status : {"running", "paused"}, pos : Int, stop : Units,
   working : 0..MaxOrders, closing : BOOLEAN, pending : Units, above : Units]
OrderRecords == [side : Units, close : BOOLEAN, state : {"none", "live", "filled", "cancelled"}]

\* An order that was placed has a side; an order that is not placed is NoOrder.
BookSane(b) ==
  /\ b \in [Ids -> OrderRecords]
  /\ \A i \in Ids : IF b[i].state = "none" THEN b[i] = NoOrder ELSE b[i].side \in Sides
Types ==
  /\ market \in Int /\ view \in Int
  /\ BookSane(book)
  /\ news \in Seq([id : Ids, filled : BOOLEAN])
  /\ mem \in Memories
  /\ loose \in BOOLEAN

\* Events are about orders that have ended.
Ended == {"filled", "cancelled"}
NewsOver == \A k \in DOMAIN news : book[news[k].id].state \in Ended

\* What the strategy's memory m knows of the book b while it lost sight of no
\* entry: only its working order may be live, and if that is an entry, the
\* venue and the tracker hold nothing or that entry.
OnlyWorking(b, m) == \A i \in Ids : b[i].state = "live" => i = m.working
Entry(b, m) == m.working # 0 /\ ~b[m.working].close
Around(b, m) ==
  LET s == b[m.working].side IN
  /\ m.stop \in {0, -s} /\ m.pos \in {0, s}
  /\ market \in {0, s} /\ view \in {0, s}
  /\ b[m.working].state \in {"live", "filled"}
  /\ b[m.working].state = "live" => market = 0 /\ view = 0
Between(m) == market \in {0, view} /\ (view # 0 => m.stop \in {0, -view})
Known(b, m) ==
  /\ view \in Units /\ market \in Units
  /\ m.pos \in Units /\ (m.pos # 0 => m.stop = -m.pos)
  /\ m.working # 0 => b[m.working].state # "none"
  /\ IF Entry(b, m) THEN Around(b, m) ELSE Between(m)
Sighted(b, m) == OnlyWorking(b, m) /\ Known(b, m)

IInv == Types /\ NewsOver /\ (loose \/ Sighted(book, mem))

-----------------------------------------------------------------------------
(* Memories, field by field *)

LEMMA Numbers ==
  ASSUME CountsAreNumbers
  PROVE  /\ 0 \in 0..MaxOrders /\ \A i \in Ids : i \in 0..MaxOrders /\ i # 0
         /\ \A i \in 0..MaxOrders : i # 0 => i \in Ids
BY DEF CountsAreNumbers, Ids

LEMMA Signs ==
  /\ 0 \in Units /\ \A u \in Units : -u \in Units /\ (u # 0 => u \in Sides)
  /\ \A s \in Sides : s \in Units /\ s # 0 /\ -s \in Sides /\ s \in Int
  /\ \A n \in Int : Sign(n) \in Units /\ (n # 0 => -Sign(n) \in Sides)
  /\ \A u \in Units : Sign(u) = u
<1>1. 0 \in Units /\ \A u \in Units : -u \in Units /\ (u # 0 => u \in Sides)
  <2>1. ASSUME NEW u \in Int, u \in Units PROVE -u \in Units
    BY <2>1 DEF Units
  <2>2. \A u \in Units : u \in Int /\ (u # 0 => u \in Sides)
    BY DEF Units, Sides
  <2> QED
    BY <2>1, <2>2 DEF Units
<1>2. \A s \in Sides : s \in Units /\ s # 0 /\ -s \in Sides /\ s \in Int
  BY DEF Units, Sides
<1>3. \A n \in Int : Sign(n) \in Units /\ (n # 0 => -Sign(n) \in Sides)
  <2> SUFFICES ASSUME NEW n \in Int PROVE Sign(n) \in Units /\ (n # 0 => -Sign(n) \in Sides)
    OBVIOUS
  <2>1. CASE n > 0
    BY <2>1 DEF Units, Sides, Sign
  <2>2. CASE n < 0
    <3>1. PICK v \in Int : v = Sign(n) /\ v + 1 = 0
      BY <2>2 DEF Sign
    <3>2. -v = 1 /\ v = -1
      BY <3>1
    <3> QED
      BY <3>1, <3>2 DEF Units, Sides
  <2>3. CASE n = 0
    BY <2>3 DEF Units, Sides, Sign
  <2> QED
    BY <2>1, <2>2, <2>3
<1>4. \A u \in Units : Sign(u) = u
  BY DEF Units, Sign
<1> QED
  BY <1>1, <1>2, <1>3, <1>4

LEMMA MemoryFields ==
  ASSUME NEW m \in Memories
  PROVE  /\ \A x \in BOOLEAN : LET n == [m EXCEPT !.on = x] IN
              /\ n \in Memories /\ n.pos = m.pos /\ n.stop = m.stop /\ n.working = m.working
         /\ \A x \in Int : LET n == [m EXCEPT !.pos = x] IN
              /\ n \in Memories /\ n.pos = x /\ n.stop = m.stop /\ n.working = m.working
         /\ \A x \in Units : LET n == [m EXCEPT !.stop = x] IN
              /\ n \in Memories /\ n.pos = m.pos /\ n.stop = x /\ n.working = m.working
         /\ \A x \in 0..MaxOrders : LET n == [m EXCEPT !.working = x] IN
              /\ n \in Memories /\ n.pos = m.pos /\ n.stop = m.stop /\ n.working = x
         /\ \A x \in BOOLEAN : LET n == [m EXCEPT !.closing = x] IN
              /\ n \in Memories /\ n.pos = m.pos /\ n.stop = m.stop /\ n.working = m.working
         /\ \A x \in Units : LET n == [m EXCEPT !.pending = x] IN
              /\ n \in Memories /\ n.pos = m.pos /\ n.stop = m.stop /\ n.working = m.working
         /\ \A x \in Units : LET n == [m EXCEPT !.above = x] IN
              /\ n \in Memories /\ n.pos = m.pos /\ n.stop = m.stop /\ n.working = m.working
         /\ \A x \in {"running", "paused"} : LET n == [m EXCEPT !.status = x] IN
              /\ n \in Memories /\ n.pos = m.pos /\ n.stop = m.stop /\ n.working = m.working
BY DEF Memories

LEMMA SyncedFields ==
  ASSUME NEW m \in Memories, view \in Int
  PROVE  /\ Synced(m) \in Memories /\ Synced(m).pos = view /\ Synced(m).working = m.working
         /\ Synced(m).stop = IF view = 0 THEN 0 ELSE IF m.stop = 0 THEN -Sign(view) ELSE m.stop
<1>1. PICK st \in Units : st = IF view = 0 THEN 0 ELSE IF m.stop = 0 THEN -Sign(view) ELSE m.stop
  <2>1. m.stop \in Units
    BY DEF Memories
  <2> QED
    BY <2>1, Signs
<1>2. PICK n : n = [m EXCEPT !.pos = view]
  OBVIOUS
<1>3. n \in Memories /\ n.pos = view /\ n.stop = m.stop /\ n.working = m.working
  BY <1>2, MemoryFields
<1>4. PICK q : q = [n EXCEPT !.stop = st]
  OBVIOUS
<1>5. q \in Memories /\ q.pos = view /\ q.stop = st /\ q.working = m.working
  BY <1>3, <1>4, MemoryFields
<1>6. Synced(m) = q
  BY <1>1, <1>2, <1>4 DEF Synced
<1> QED
  BY <1>1, <1>5, <1>6

\* Looking at the tracker loses no sight, and the stop is then on its side.
LEMMA SyncedSighted ==
  ASSUME NEW m \in Memories, NEW b, BookSane(b), Sighted(b, m), view \in Int
  PROVE  Sighted(b, Synced(m))
<1>1. PICK q : q = Synced(m)
  OBVIOUS
<1>2. /\ q.pos = view /\ q.working = m.working
      /\ q.stop = IF view = 0 THEN 0 ELSE IF m.stop = 0 THEN -Sign(view) ELSE m.stop
  BY <1>1, SyncedFields
<1>3. OnlyWorking(b, q) /\ (Entry(b, q) <=> Entry(b, m))
  BY <1>2 DEF Sighted, OnlyWorking, Entry
<1>4. view \in Units /\ market \in Units /\ (q.working # 0 => b[q.working].state # "none")
  BY <1>2 DEF Sighted, Known
<1>5. CASE Entry(b, m)
  <2>1. PICK s : s = b[m.working].side
    OBVIOUS
  <2>2. m.working \in Ids /\ s \in Sides
    BY <1>4, <1>5, <2>1, <1>2 DEF Entry, BookSane, Memories, Ids
  <2>3. /\ m.stop \in {0, -s} /\ market \in {0, s} /\ view \in {0, s}
        /\ b[m.working].state \in {"live", "filled"}
        /\ b[m.working].state = "live" => market = 0 /\ view = 0
    BY <1>5, <2>1 DEF Sighted, Known, Around
  <2>4. q.stop \in {0, -s} /\ (q.pos # 0 => q.stop = -q.pos)
    BY <1>2, <2>2, <2>3 DEF Sign, Sides
  <2> QED
    BY <1>1, <1>2, <1>3, <1>4, <1>5, <2>1, <2>3, <2>4 DEF Sighted, Known, Around
<1>6. CASE ~Entry(b, m)
  <2>1. market \in {0, view} /\ (view # 0 => m.stop \in {0, -view})
    BY <1>6 DEF Sighted, Known, Between
  <2>2. (view # 0 => q.stop \in {0, -view}) /\ (q.pos # 0 => q.stop = -q.pos)
    BY <1>2, <1>4, <2>1 DEF Sign, Units
  <2> QED
    BY <1>1, <1>2, <1>3, <1>4, <1>6, <2>1, <2>2 DEF Sighted, Known, Between
<1> QED
  BY <1>5, <1>6

-----------------------------------------------------------------------------
(* Orders *)

\* A new order takes a free number and disturbs no other.
LEMMA PlacedOrder ==
  ASSUME CanOrder, NEW b, BookSane(b), NEW side \in Sides, NEW close \in BOOLEAN
  PROVE  /\ FreeId \in Ids /\ FreeId # 0 /\ book[FreeId] = NoOrder
         /\ BookSane(Placed(b, side, close))
         /\ Placed(b, side, close)[FreeId] = [side |-> side, close |-> close, state |-> "live"]
         /\ \A i \in Ids : i # FreeId => Placed(b, side, close)[i] = b[i]
<1>1. FreeId \in Ids /\ book[FreeId] = NoOrder
  BY DEF CanOrder, FreeId
<1>2. FreeId # 0
  BY <1>1 DEF Ids
<1>3. PICK o : o = [side |-> side, close |-> close, state |-> "live"]
  OBVIOUS
<1>4. o \in OrderRecords /\ o.state # "none" /\ o.side \in Sides
  BY <1>3 DEF OrderRecords, Sides, Units
<1>5. PICK id \in Ids : id = FreeId
  BY <1>1
<1>6. Placed(b, side, close) = [b EXCEPT ![id] = o]
  BY <1>3, <1>5 DEF Placed
<1>7. /\ [b EXCEPT ![id] = o] \in [Ids -> OrderRecords]
      /\ [b EXCEPT ![id] = o][id] = o
      /\ \A i \in Ids : i # id => [b EXCEPT ![id] = o][i] = b[i]
  BY <1>4 DEF BookSane
<1>8. BookSane([b EXCEPT ![id] = o])
  BY <1>4, <1>7 DEF BookSane
<1> QED
  BY <1>1, <1>2, <1>3, <1>5, <1>6, <1>7, <1>8

\* Events of ended orders stay about ended orders.
Later(b) == \A i \in Ids : book[i].state \in Ended => b[i].state \in Ended

\* What the strategy's own steps leave.
KeptSight ==
  /\ BookSane(book') /\ Later(book') /\ mem' \in Memories /\ loose' \in BOOLEAN
  /\ loose' \/ Sighted(book', mem')

-----------------------------------------------------------------------------
(* Opening and closing *)

LEMMA OpensKeeps ==
  ASSUME CountsAreNumbers, Types, NEW m \in Memories, m.pos = 0, view = 0, loose \/ Sighted(book, m),
         NEW side \in Sides, Opens(m, side)
  PROVE  KeptSight
<1>1. CASE Blocked(m)
  BY <1>1 DEF Opens, Types, KeptSight, Later
<1>2. CASE ~Blocked(m)
  <2>1. m.working = 0 /\ CanOrder /\ loose' = loose
    BY <1>2 DEF Opens, Blocked
  <2>2. -side \in Units /\ side # 0
    BY DEF Sides, Units
  <2>3. PICK n : n = [m EXCEPT !.stop = -side]
    OBVIOUS
  <2>4. n \in Memories /\ n.pos = 0 /\ n.working = 0
    BY <2>1, <2>2, <2>3, MemoryFields
  <2>5. loose \/ ( /\ market = 0 /\ \A i \in Ids : book[i].state # "live")
    <3> SUFFICES ASSUME Sighted(book, m) PROVE market = 0 /\ \A i \in Ids : book[i].state # "live"
      OBVIOUS
    <3>1. \A i \in Ids : i # 0
      BY DEF Ids
    <3> QED
      BY <2>1, <3>1 DEF Sighted, OnlyWorking, Known, Entry, Between
  <2>6. CASE book' = Placed(book, side, FALSE) /\ mem' = Synced([m EXCEPT !.stop = -side, !.working = FreeId, !.closing = FALSE])
    <3>1. /\ FreeId \in Ids /\ FreeId # 0 /\ book[FreeId] = NoOrder /\ BookSane(book')
          /\ book'[FreeId] = [side |-> side, close |-> FALSE, state |-> "live"]
          /\ \A i \in Ids : i # FreeId => book'[i] = book[i]
      BY <2>1, <2>6, PlacedOrder DEF Types
    <3>2. PICK p : p = [n EXCEPT !.working = FreeId]
      OBVIOUS
    <3>3. p \in Memories /\ p.working = FreeId
      BY <2>4, <3>1, <3>2, MemoryFields, Numbers
    <3>4. PICK q : q = [p EXCEPT !.closing = FALSE]
      OBVIOUS
    <3>5. q \in Memories /\ q.working = FreeId
      BY <3>3, <3>4, MemoryFields
    <3>6. mem' = Synced(q)
      BY <2>3, <2>6, <3>2, <3>4
    <3>7. mem' \in Memories /\ mem'.pos = 0 /\ mem'.stop = 0 /\ mem'.working = FreeId
      BY <3>5, <3>6, SyncedFields
    <3>8. Later(book')
      BY <3>1 DEF Later, NoOrder, Ended
    <3>9. ASSUME ~loose PROVE Sighted(book', mem')
      <4>1. OnlyWorking(book', mem')
        BY <2>5, <3>1, <3>7, <3>9 DEF OnlyWorking
      <4>2. Entry(book', mem')
        BY <3>1, <3>7 DEF Entry
      <4>3. book'[mem'.working].side = side /\ book'[mem'.working].state = "live"
        BY <3>1, <3>7
      <4> QED
        BY <2>5, <3>7, <3>9, <4>1, <4>2, <4>3 DEF Sighted, Known, Around, Units
    <3> QED
      BY <2>1, <3>1, <3>7, <3>8, <3>9 DEF KeptSight, Types
  <2>7. CASE book' = book /\ \E on \in BOOLEAN : mem' = [m EXCEPT !.stop = -side, !.on = on]
    <3>1. PICK on \in BOOLEAN : mem' = [m EXCEPT !.stop = -side, !.on = on]
      BY <2>7
    <3>2. mem' = [n EXCEPT !.on = on]
      BY <2>3, <3>1
    <3>3. mem' \in Memories /\ mem'.pos = 0 /\ mem'.working = 0
      BY <2>4, <3>2, MemoryFields
    <3>4. ASSUME ~loose PROVE Sighted(book', mem')
      BY <2>5, <2>7, <3>3, <3>4 DEF Sighted, OnlyWorking, Known, Entry, Between, Units
    <3> QED
      BY <2>1, <2>7, <3>3, <3>4 DEF KeptSight, Types, Later
  <2> QED
    BY <1>2, <2>6, <2>7 DEF Opens
<1> QED
  BY <1>1, <1>2

\* What is left once the working order is cancelled, or forgotten.
LEMMA ClosesKeeps ==
  ASSUME CountsAreNumbers, Types, NEW m \in Memories, m.pos # 0, m.pos = view, loose \/ Sighted(book, m),
         NEW pending \in Units, Closes(m, pending)
  PROVE  KeptSight
<1>0. PICK cancelled \in BOOLEAN : \E rest, n :
        /\ rest = IF cancelled /\ m.working # 0 /\ book[m.working].state = "live"
                  THEN [book EXCEPT ![m.working].state = "cancelled"] ELSE book
        /\ n = [m EXCEPT !.working = 0, !.closing = FALSE, !.pending = pending]
        /\ CanOrder
        /\ loose' = (loose \/ (m.working # 0 /\ ~cancelled /\ book[m.working].state = "live"))
        /\ \/ /\ book' = Placed(rest, -Sign(m.pos), TRUE)
              /\ mem' = Synced([n EXCEPT !.working = FreeId, !.closing = TRUE])
           \/ /\ book' = rest
              /\ \E on \in {m.on, FALSE} : mem' = [Synced(n) EXCEPT !.on = on]
  BY DEF Closes
<1>1. PICK rest, n :
        /\ rest = IF cancelled /\ m.working # 0 /\ book[m.working].state = "live"
                  THEN [book EXCEPT ![m.working].state = "cancelled"] ELSE book
        /\ n = [m EXCEPT !.working = 0, !.closing = FALSE, !.pending = pending]
        /\ CanOrder
        /\ loose' = (loose \/ (m.working # 0 /\ ~cancelled /\ book[m.working].state = "live"))
        /\ \/ /\ book' = Placed(rest, -Sign(m.pos), TRUE)
              /\ mem' = Synced([n EXCEPT !.working = FreeId, !.closing = TRUE])
           \/ /\ book' = rest
              /\ \E on \in {m.on, FALSE} : mem' = [Synced(n) EXCEPT !.on = on]
  BY <1>0
<1>2. n \in Memories /\ n.pos = m.pos /\ n.stop = m.stop /\ n.working = 0
  <2>1. PICK a : a = [m EXCEPT !.working = 0]
    OBVIOUS
  <2>2. a \in Memories /\ a.pos = m.pos /\ a.stop = m.stop /\ a.working = 0
    BY <2>1, MemoryFields, Numbers
  <2>3. PICK c : c = [a EXCEPT !.closing = FALSE]
    OBVIOUS
  <2>4. c \in Memories /\ c.pos = m.pos /\ c.stop = m.stop /\ c.working = 0
    BY <2>2, <2>3, MemoryFields
  <2>5. n = [c EXCEPT !.pending = pending]
    BY <1>1, <2>1, <2>3
  <2> QED
    BY <2>4, <2>5, MemoryFields
<1>3. BookSane(rest) /\ Later(rest)
  <2>1. CASE rest = book
    BY <2>1 DEF Types, Later
  <2>2. CASE rest = [book EXCEPT ![m.working].state = "cancelled"] /\ m.working # 0 /\ book[m.working].state = "live"
    <3>1. PICK w \in Ids : w = m.working
      BY <2>2 DEF Memories, Ids
    <3>2. PICK o : o = [book[w] EXCEPT !.state = "cancelled"]
      OBVIOUS
    <3>3. o \in OrderRecords /\ o.state = "cancelled" /\ o.side = book[w].side
      BY <3>2 DEF Types, BookSane, OrderRecords
    <3>4. rest = [book EXCEPT ![w] = o]
      BY <2>2, <3>1, <3>2
    <3>5. rest \in [Ids -> OrderRecords] /\ rest[w] = o /\ \A i \in Ids : i # w => rest[i] = book[i]
      BY <3>3, <3>4 DEF Types, BookSane
    <3>6. book[w].side \in Sides
      BY <2>2, <3>1 DEF Types, BookSane
    <3>7. BookSane(rest)
      BY <3>3, <3>5, <3>6 DEF Types, BookSane
    <3> QED
      BY <3>3, <3>5, <3>7 DEF Later, Ended
  <2> QED
    BY <1>1, <2>1, <2>2
<1>4. \A i \in Ids : book[i] = NoOrder => rest[i] = NoOrder
  <2> SUFFICES ASSUME NEW i \in Ids, book[i] = NoOrder, m.working # 0, book[m.working].state = "live",
                      rest = [book EXCEPT ![m.working].state = "cancelled"]
               PROVE  rest[i] = NoOrder
    BY <1>1
  <2>1. i # m.working
    BY DEF NoOrder
  <2> QED
    BY <2>1 DEF Types, BookSane
<1>5. ASSUME ~loose'
      PROVE  /\ \A i \in Ids : rest[i].state # "live"
             /\ market \in {0, view} /\ m.stop = -view /\ market \in Units /\ view \in Units
  <2>1. ~loose /\ Sighted(book, m) /\ (m.working # 0 /\ book[m.working].state = "live" => cancelled)
    BY <1>1, <1>5 DEF Types
  <2>2. \A i \in Ids : rest[i].state # "live"
    BY <1>1, <2>1 DEF Sighted, OnlyWorking, Types, BookSane, OrderRecords, Ids
  <2>3. market \in {0, view} /\ m.stop = -view
    BY <2>1 DEF Sighted, Known, Around, Between
  <2> QED
    BY <2>1, <2>2, <2>3 DEF Sighted, Known
<1>6. CASE /\ book' = Placed(rest, -Sign(m.pos), TRUE)
           /\ mem' = Synced([n EXCEPT !.working = FreeId, !.closing = TRUE])
  <2>1. -Sign(m.pos) \in Sides
    BY Signs DEF Memories
  <2>2. /\ FreeId \in Ids /\ FreeId # 0 /\ book[FreeId] = NoOrder /\ BookSane(book')
        /\ book'[FreeId] = [side |-> -Sign(m.pos), close |-> TRUE, state |-> "live"]
        /\ \A i \in Ids : i # FreeId => book'[i] = rest[i]
    <3>1. CanOrder /\ BookSane(rest) /\ TRUE \in BOOLEAN
      BY <1>1, <1>3
    <3> QED
      BY <3>1, <1>6, <2>1, PlacedOrder
  <2>3. PICK p : p = [n EXCEPT !.working = FreeId]
    OBVIOUS
  <2>4. p \in Memories /\ p.working = FreeId /\ p.pos = m.pos /\ p.stop = m.stop
    <3>1. FreeId \in 0..MaxOrders
      BY <2>2, Numbers
    <3> QED
      BY <3>1, <1>2, <2>3, MemoryFields
  <2>5. PICK q : q = [p EXCEPT !.closing = TRUE]
    OBVIOUS
  <2>6. q \in Memories /\ q.working = FreeId /\ q.pos = m.pos /\ q.stop = m.stop
    BY <2>4, <2>5, MemoryFields
  <2>7. mem' = Synced(q)
    BY <1>6, <2>3, <2>5
  <2>8. mem' \in Memories
    BY <2>6, <2>7, SyncedFields DEF Types
  <2>9. Later(book')
    BY <1>3, <2>2 DEF Later, NoOrder, Ended
  <2>10. ASSUME ~loose' PROVE Sighted(book', q)
    <3>1. OnlyWorking(book', q) /\ ~Entry(book', q) /\ book'[q.working].state # "none"
      BY <1>5, <2>2, <2>6, <2>10 DEF OnlyWorking, Entry
    <3> QED
      BY <1>5, <2>6, <2>10, <3>1 DEF Sighted, Known, Between, Units
  <2> QED
    BY <1>1, <2>2, <2>6, <2>7, <2>8, <2>9, <2>10, SyncedSighted DEF KeptSight, Types
<1>7. CASE book' = rest /\ \E on \in {m.on, FALSE} : mem' = [Synced(n) EXCEPT !.on = on]
  <2>1. PICK on \in {m.on, FALSE} : mem' = [Synced(n) EXCEPT !.on = on]
    BY <1>7
  <2>2. on \in BOOLEAN
    BY <2>1 DEF Memories
  <2>3. PICK q : q = Synced(n)
    OBVIOUS
  <2>4. q \in Memories
    BY <1>2, <2>3, SyncedFields DEF Types
  <2>5. mem' \in Memories /\ mem'.pos = q.pos /\ mem'.stop = q.stop /\ mem'.working = q.working
    <3>1. mem' = [q EXCEPT !.on = on]
      BY <2>1, <2>3
    <3> QED
      BY <3>1, <2>2, <2>4, MemoryFields
  <2>6. ASSUME ~loose' PROVE Sighted(rest, n)
    <3>1. OnlyWorking(rest, n) /\ ~Entry(rest, n)
      BY <1>2, <1>5, <2>6 DEF OnlyWorking, Entry
    <3> QED
      BY <1>2, <1>5, <2>6, <3>1 DEF Sighted, Known, Between
  <2>7. ASSUME ~loose' PROVE Sighted(book', mem')
    <3>1. Sighted(rest, q)
      BY <1>2, <1>3, <2>3, <2>6, <2>7, SyncedSighted DEF Types
    <3> QED
      BY <1>7, <2>5, <3>1 DEF Sighted, OnlyWorking, Known, Entry, Around, Between
  <2> QED
    BY <1>1, <1>3, <1>7, <2>5, <2>7 DEF KeptSight, Types
<1> QED
  BY <1>1, <1>6, <1>7

-----------------------------------------------------------------------------
(* The strategy's steps *)

\* The news are as they were, or fewer.
LEMMA NewsStillOver ==
  ASSUME Types, NewsOver, Later(book'), BookSane(book'),
         news' = news \/ (news # <<>> /\ news' = Tail(news)) \/ news' = <<>>
  PROVE  NewsOver' /\ news' \in Seq([id : Ids, filled : BOOLEAN])
<1> DEFINE EventRec == [id : Ids, filled : BOOLEAN]
<1>1. /\ news \in Seq(EventRec) /\ DOMAIN news = 1..Len(news)
      /\ \A k \in DOMAIN news : news[k] \in EventRec /\ news[k].id \in Ids
  <2>1. news \in Seq(EventRec) /\ DOMAIN news = 1..Len(news)
    BY DEF Types
  <2>2. \A k \in DOMAIN news : news[k] \in EventRec
    BY <2>1, ElementOfSeq
  <2> QED
    BY <2>1, <2>2
<1>2. CASE news' = news
  BY <1>1, <1>2 DEF NewsOver, Later
<1>3. CASE news # <<>> /\ news' = Tail(news)
  <2>1. /\ news' \in Seq(EventRec) /\ Len(news') = Len(news) - 1
        /\ \A k \in 1..Len(news') : news'[k] = news[k + 1]
    BY <1>1, <1>3, HeadTailProperties
  <2>2. \A k \in DOMAIN news' : k + 1 \in DOMAIN news /\ news'[k] = news[k + 1]
    BY <1>1, <2>1
  <2> QED
    BY <1>1, <2>1, <2>2 DEF NewsOver, Later
<1>4. CASE news' = <<>>
  BY <1>4 DEF NewsOver
<1> QED
  BY <1>2, <1>3, <1>4

\* A strategy's step that keeps its sight keeps the invariant.
LEMMA StepKeeps ==
  ASSUME IInv, KeptSight, UNCHANGED <<market, view>>,
         news' = news \/ (news # <<>> /\ news' = Tail(news)) \/ news' = <<>>
  PROVE  IInv'
<1>1. NewsOver' /\ news' \in Seq([id : Ids, filled : BOOLEAN])
  BY NewsStillOver DEF IInv, KeptSight
<1>2. Types'
  BY <1>1 DEF IInv, KeptSight, Types
<1>3. ASSUME Sighted(book', mem') PROVE Sighted(book, mem)'
  BY <1>3 DEF Sighted, OnlyWorking, Known, Entry, Around, Between
<1> QED
  BY <1>1, <1>2, <1>3 DEF IInv, KeptSight

\* Only the working order, the stop and the position count for what is known.
LEMMA SameSight ==
  ASSUME NEW b, NEW m, NEW n, Sighted(b, m), n.pos = m.pos, n.stop = m.stop, n.working = m.working
  PROVE  Sighted(b, n)
BY DEF Sighted, OnlyWorking, Known, Entry, Around, Between

LEMMA SignalsKeep ==
  ASSUME CountsAreNumbers, Types, NEW m \in Memories, m.pos = view, loose \/ Sighted(book, m),
         NEW up \in Sides, NEW confirmed \in BOOLEAN, Signals(m, up, confirmed)
  PROVE  KeptSight
<1>1. PICK n : n = [m EXCEPT !.above = up]
  OBVIOUS
<1>2. up \in Units /\ 0 \in Units /\ m.pending \in Units
  BY Signs DEF Memories
<1>3. n \in Memories /\ n.pos = m.pos /\ n.stop = m.stop /\ n.working = m.working
  BY <1>1, <1>2, MemoryFields
<1>4. loose \/ Sighted(book, n)
  BY <1>3, SameSight
<1>5. CASE m.pos = 0 /\ m.pending # 0
  <2>1. PICK p : p = [n EXCEPT !.pending = 0]
    OBVIOUS
  <2>2. p \in Memories /\ p.pos = n.pos /\ p.stop = n.stop /\ p.working = n.working
    BY <1>2, <1>3, <2>1, MemoryFields
  <2>3. loose \/ Sighted(book, p)
    BY <1>4, <2>2, SameSight
  <2>4. Opens(p, m.pending)
    BY <1>1, <1>5, <2>1 DEF Signals
  <2>5. m.pending \in Sides
    BY <1>2, <1>5, Signs
  <2> QED
    BY <1>3, <1>5, <2>2, <2>3, <2>4, <2>5, OpensKeeps
<1>6. CASE mem' = n /\ UNCHANGED <<book, loose>>
  BY <1>3, <1>4, <1>6 DEF KeptSight, Types, Later
<1>7. CASE m.pos = 0 /\ Opens(n, up)
  BY <1>3, <1>4, <1>7, OpensKeeps
<1>8. CASE m.pos # 0 /\ Closes(n, up)
  BY <1>2, <1>3, <1>4, <1>8, ClosesKeeps
<1> QED
  BY <1>1, <1>5, <1>6, <1>7, <1>8 DEF Signals

\* A candle: the stop-loss, the pending reversal, the crossing.
LEMMA CandleKeeps ==
  ASSUME CountsAreNumbers, IInv, Candle
  PROVE  IInv'
<1>1. PICK m : m = Synced(mem)
  OBVIOUS
<1>2. PICK up \in {1, -1}, confirmed \in BOOLEAN, through \in BOOLEAN, warm \in BOOLEAN :
        IF through /\ m.pos # 0 /\ m.stop # 0
        THEN Closes(m, m.pending)
        ELSE IF ~warm \/ m.status = "paused" THEN mem' = m /\ UNCHANGED <<book, loose>>
        ELSE Signals(m, up, confirmed)
  BY <1>1 DEF Candle
<1>3. m \in Memories /\ m.pos = view /\ m.working = mem.working
  BY <1>1, SyncedFields DEF IInv, Types
<1>4. loose \/ Sighted(book, m)
  BY <1>1, SyncedSighted DEF IInv, Types
<1>5. CASE m.pos # 0 /\ Closes(m, m.pending)
  <2>1. m.pending \in Units
    BY <1>3 DEF Memories
  <2>2. KeptSight
    BY <1>3, <1>4, <1>5, <2>1, ClosesKeeps DEF IInv
  <2> QED
    BY <2>2, StepKeeps DEF Candle
<1>6. CASE mem' = m /\ UNCHANGED <<book, loose>>
  <2>1. KeptSight
    BY <1>3, <1>4, <1>6 DEF KeptSight, Later, IInv, Types
  <2> QED
    BY <2>1, StepKeeps DEF Candle
<1>7. CASE Signals(m, up, confirmed)
  <2>1. up \in Sides
    BY DEF Sides
  <2>2. KeptSight
    BY <1>3, <1>4, <1>7, <2>1, SignalsKeep DEF IInv
  <2> QED
    BY <2>2, StepKeeps DEF Candle
<1> QED
  BY <1>2, <1>5, <1>6, <1>7

\* on_stop closes what the strategy holds, unless an order works.
LEMMA StopRunnerKeeps ==
  ASSUME CountsAreNumbers, IInv, StopRunner
  PROVE  IInv'
<1>1. PICK q : q = [mem EXCEPT !.on = FALSE]
  OBVIOUS
<1>2. q \in Memories /\ q.pos = mem.pos /\ q.stop = mem.stop /\ q.working = mem.working
  BY <1>1, MemoryFields DEF IInv, Types
<1>3. loose \/ Sighted(book, q)
  BY <1>2, SameSight DEF IInv
<1>4. PICK m : m = Synced(q)
  OBVIOUS
<1>5. m \in Memories /\ m.pos = view
  BY <1>2, <1>4, SyncedFields DEF IInv, Types
<1>6. loose \/ Sighted(book, m)
  BY <1>2, <1>3, <1>4, SyncedSighted DEF IInv, Types
<1>7. IF m.pos # 0 /\ m.working = 0 THEN Closes(m, m.pending)
      ELSE mem' = m /\ UNCHANGED <<book, loose>>
  BY <1>1, <1>4 DEF StopRunner
<1>8. KeptSight
  <2>1. CASE m.pos # 0 /\ Closes(m, m.pending)
    <3>1. m.pending \in Units
      BY <1>5 DEF Memories
    <3> QED
      BY <1>5, <1>6, <2>1, <3>1, ClosesKeeps DEF IInv
  <2>2. CASE mem' = m /\ UNCHANGED <<book, loose>>
    BY <1>5, <1>6, <2>2 DEF KeptSight, Later, IInv, Types
  <2> QED
    BY <1>7, <2>1, <2>2
<1> QED
  BY <1>8, StepKeeps DEF StopRunner

\* An order's end: the working order no longer works, and if the tracker has
\* seen what it filled, what is held is what the tracker shows.
LEMMA OrderEventKeeps ==
  ASSUME CountsAreNumbers, IInv, OrderEvent
  PROVE  IInv'
<1> DEFINE e == Head(news)
<1>1. e \in [id : Ids, filled : BOOLEAN] /\ e.id \in Ids /\ book[e.id].state \in Ended
  <2>1. news \in Seq([id : Ids, filled : BOOLEAN]) /\ news # <<>>
    BY DEF IInv, Types, OrderEvent
  <2>2. 1 \in 1..Len(news) /\ 1 \in DOMAIN news /\ e = news[1]
    BY <2>1
  <2>3. e \in [id : Ids, filled : BOOLEAN]
    <3>1. news[1] \in [id : Ids, filled : BOOLEAN]
      BY <2>1, <2>2, ElementOfSeq
    <3> QED
      BY <2>2, <3>1
  <2> QED
    BY <2>2, <2>3 DEF IInv, NewsOver
<1>2. CASE e.id # mem.working
  <2>1. mem' = mem /\ book' = book /\ loose' = loose
    BY <1>2 DEF OrderEvent, IInv, Types
  <2>2. KeptSight
    BY <2>1 DEF KeptSight, Later, IInv, Types
  <2> QED
    BY <2>2, StepKeeps DEF OrderEvent
<1>3. CASE e.id = mem.working
  <2>1. PICK pending \in Units :
          mem' = [Synced(mem) EXCEPT !.working = 0, !.closing = FALSE, !.pending = pending]
    <3>1. mem.pending \in Units /\ 0 \in Units
      BY Signs DEF IInv, Types, Memories
    <3> QED
      BY <1>3, <3>1 DEF OrderEvent
  <2>2. loose' = (loose \/ view # market) /\ book' = book
    BY <1>3 DEF OrderEvent
  <2>3. PICK m : m = Synced(mem)
    OBVIOUS
  <2>4. m \in Memories /\ m.pos = view /\ m.working = mem.working
    BY <2>3, SyncedFields DEF IInv, Types
  <2>5. PICK a : a = [m EXCEPT !.working = 0]
    OBVIOUS
  <2>6. a \in Memories /\ a.pos = m.pos /\ a.stop = m.stop /\ a.working = 0
    BY <2>4, <2>5, MemoryFields, Numbers
  <2>7. PICK c : c = [a EXCEPT !.closing = FALSE]
    OBVIOUS
  <2>8. c \in Memories /\ c.pos = m.pos /\ c.stop = m.stop /\ c.working = 0
    BY <2>6, <2>7, MemoryFields
  <2>9. mem' = [c EXCEPT !.pending = pending]
    BY <2>1, <2>3, <2>5, <2>7
  <2>10. mem' \in Memories /\ mem'.pos = m.pos /\ mem'.stop = m.stop /\ mem'.working = 0
    BY <2>8, <2>9, MemoryFields
  <2>11. ASSUME ~loose' PROVE Sighted(book', mem')
    <3>1. Sighted(book, m) /\ view = market
      BY <2>2, <2>3, <2>11, SyncedSighted DEF IInv, Types
    <3>2. OnlyWorking(book', mem')
      BY <1>1, <1>3, <2>2, <2>4, <3>1 DEF Sighted, OnlyWorking, Ended
    <3>3. /\ view \in Units /\ market \in Units
          /\ m.pos \in Units /\ (m.pos # 0 => m.stop = -m.pos)
      BY <3>1 DEF Sighted, Known
    <3>4. Between(mem')
      BY <2>4, <2>10, <3>1, <3>3 DEF Between
    <3> QED
      BY <2>10, <3>2, <3>3, <3>4 DEF Sighted, Known, Entry
  <2>12. KeptSight
    BY <2>2, <2>10, <2>11 DEF KeptSight, Later, IInv, Types
  <2> QED
    BY <2>12, StepKeeps DEF OrderEvent
<1> QED
  BY <1>2, <1>3

LEMMA SetModeKeeps ==
  ASSUME IInv, SetMode
  PROVE  IInv'
<1>1. PICK st \in {"running", "paused"} : mem' = [mem EXCEPT !.status = st]
  BY DEF SetMode
<1>2. mem' \in Memories /\ mem'.pos = mem.pos /\ mem'.stop = mem.stop /\ mem'.working = mem.working
  BY <1>1, MemoryFields DEF IInv, Types
<1>3. loose \/ Sighted(book, mem')
  BY <1>2, SameSight DEF IInv
<1>4. KeptSight
  BY <1>2, <1>3 DEF KeptSight, Later, IInv, Types, SetMode
<1> QED
  BY <1>4, StepKeeps DEF SetMode

\* A new runner: it finds the live order in the engine's map, or the process
\* died and what it forgot is counted as lost.
LEMMA RebuiltKeeps ==
  ASSUME CountsAreNumbers, IInv, Rebuilt
  PROVE  IInv'
<1>1. Fresh \in Memories /\ Fresh.working = 0 /\ Fresh.pos = 0 /\ Fresh.stop = 0
  BY Numbers, Signs DEF Fresh, Memories
<1>2. PICK process \in BOOLEAN :
        /\ mem' = Reopened(process)
        /\ loose' = (loose \/ view # market \/ (process /\ \E i \in Ids : book[i].state = "live"))
  BY DEF Rebuilt
<1>3. book' = book
  BY DEF Rebuilt
<1>4. CASE process \/ \A i \in Ids : book[i].state # "live"
  <2>1. mem' = Synced(Fresh)
    BY <1>2, <1>4 DEF Reopened
  <2>2. mem' \in Memories
    BY <1>1, <2>1, SyncedFields DEF IInv, Types
  <2>3. ASSUME ~loose' PROVE Sighted(book, mem')
    <3>1. ~loose /\ view = market /\ \A i \in Ids : book[i].state # "live"
      BY <1>2, <1>4, <2>3 DEF IInv, Types
    <3>2. view \in Units
      BY <3>1 DEF IInv, Sighted, Known
    <3>3. Sighted(book, Fresh)
      BY <1>1, <3>1, <3>2, Signs DEF Sighted, OnlyWorking, Known, Entry, Between
    <3> QED
      BY <1>1, <2>1, <3>3, SyncedSighted DEF IInv, Types
  <2>4. KeptSight
    BY <1>2, <1>3, <2>2, <2>3 DEF KeptSight, Later, IInv, Types
  <2> QED
    BY <2>4, StepKeeps DEF Rebuilt
<1>5. CASE ~process /\ \E i \in Ids : book[i].state = "live"
  <2>1. Kept \in Ids /\ book[Kept].state = "live"
    BY <1>5 DEF Kept
  <2>2. PICK k \in Ids : k = Kept
    BY <2>1
  <2>3. book[k].close \in BOOLEAN /\ k \in 0..MaxOrders /\ k # 0
    BY <2>2, Numbers DEF IInv, Types, BookSane, OrderRecords
  <2>4. PICK a : a = [Fresh EXCEPT !.working = k]
    OBVIOUS
  <2>5. a \in Memories /\ a.pos = 0 /\ a.stop = 0 /\ a.working = k
    BY <1>1, <2>3, <2>4, MemoryFields
  <2>6. PICK m : m = [a EXCEPT !.closing = book[k].close]
    OBVIOUS
  <2>7. m \in Memories /\ m.pos = 0 /\ m.stop = 0 /\ m.working = k
    BY <2>3, <2>5, <2>6, MemoryFields
  <2>8. mem' = Synced(m)
    BY <1>2, <1>5, <2>2, <2>4, <2>6 DEF Reopened
  <2>9. mem' \in Memories
    BY <2>7, <2>8, SyncedFields DEF IInv, Types
  <2>10. ASSUME ~loose' PROVE Sighted(book, mem')
    <3>1. Sighted(book, mem) /\ view = market
      BY <1>2, <2>10 DEF IInv, Types
    <3>2. k = mem.working
      BY <2>1, <2>2, <3>1 DEF Sighted, OnlyWorking
    <3>3. OnlyWorking(book, m) /\ (Entry(book, m) <=> Entry(book, mem))
      BY <2>7, <3>1, <3>2 DEF Sighted, OnlyWorking, Entry
    <3>4. view \in Units /\ market \in Units /\ book[k].state # "none"
      BY <2>1, <2>2, <3>1 DEF Sighted, Known
    <3>5. m.pos \in Units /\ (m.pos # 0 => m.stop = -m.pos) /\ (m.working # 0 => book[m.working].state # "none")
      BY <2>7, <3>4, Signs
    <3>6. ASSUME Entry(book, m) PROVE Around(book, m)
      BY <2>1, <2>2, <2>7, <3>1, <3>2, <3>3, <3>6 DEF Sighted, Known, Around
    <3>7. ASSUME ~Entry(book, m) PROVE Between(m)
      BY <2>7, <3>1 DEF Between
    <3>8. Sighted(book, m)
      BY <3>3, <3>4, <3>5, <3>6, <3>7 DEF Sighted, Known
    <3> QED
      BY <2>7, <2>8, <3>8, SyncedSighted DEF IInv, Types
  <2>11. KeptSight
    BY <1>2, <1>3, <2>9, <2>10 DEF KeptSight, Later, IInv, Types
  <2> QED
    BY <2>11, StepKeeps DEF Rebuilt
<1> QED
  BY <1>4, <1>5

-----------------------------------------------------------------------------
(* The venue and the tracker *)

LEMMA ObserveKeeps ==
  ASSUME IInv, Observe
  PROVE  IInv'
<1>1. view' = market /\ market' = market /\ book' = book /\ mem' = mem /\ loose' = loose /\ news' = news
  BY DEF Observe
<1>2. Types' /\ NewsOver'
  BY <1>1 DEF IInv, Types, NewsOver
<1>3. ASSUME Sighted(book, mem) PROVE Sighted(book, mem)'
  <2>1. OnlyWorking(book, mem)' /\ (Entry(book, mem)' <=> Entry(book, mem))
    BY <1>1, <1>3 DEF Sighted, OnlyWorking, Entry
  <2>2. Around(book, mem) => Around(book, mem)'
    BY <1>1 DEF Around
  <2>3. Between(mem) => Between(mem)'
    BY <1>1 DEF Between
  <2> QED
    BY <1>1, <1>3, <2>1, <2>2, <2>3 DEF Sighted, Known
<1> QED
  BY <1>1, <1>2, <1>3 DEF IInv

\* A fill: an entry's, the working one, takes the venue from nothing to one
\* entry; a close only takes it back to nothing.
LEMMA FillsKeeps ==
  ASSUME IInv, NEW i \in Ids, Fills(i)
  PROVE  IInv'
<1>1. PICK o : o = book[i]
  OBVIOUS
<1>2. PICK filled : filled = (~o.close \/ market * o.side < 0)
  OBVIOUS
<1>3. /\ o.state = "live" /\ market' = (IF filled THEN market + o.side ELSE market)
      /\ book' = [book EXCEPT ![i].state = IF filled THEN "filled" ELSE "cancelled"]
      /\ news' = Append(news, [id |-> i, filled |-> filled])
      /\ view' = view /\ mem' = mem /\ loose' = loose
  BY <1>1, <1>2 DEF Fills
<1>4. o \in OrderRecords /\ o.side \in Sides /\ filled \in BOOLEAN
  BY <1>1, <1>2, <1>3 DEF IInv, Types, BookSane
<1>5. PICK st \in Ended : st = IF filled THEN "filled" ELSE "cancelled"
  BY DEF Ended
<1>6. PICK p : p = [o EXCEPT !.state = st]
  OBVIOUS
<1>7. p \in OrderRecords /\ p.state = st /\ p.side = o.side /\ p.close = o.close
  BY <1>4, <1>5, <1>6 DEF OrderRecords, Ended
<1>8. book' = [book EXCEPT ![i] = p]
  BY <1>1, <1>3, <1>5, <1>6
<1>9. book' \in [Ids -> OrderRecords] /\ book'[i] = p /\ \A j \in Ids : j # i => book'[j] = book[j]
  BY <1>7, <1>8 DEF IInv, Types, BookSane
<1>10. BookSane(book')
  BY <1>4, <1>5, <1>7, <1>9 DEF IInv, Types, BookSane, Ended
<1>11. Later(book')
  BY <1>5, <1>7, <1>9 DEF Later
<1>12. market' \in Int
  <2>1. market \in Int /\ o.side \in Int
    BY <1>4, Signs DEF IInv, Types
  <2>2. market + o.side \in Int
    BY <2>1
  <2> QED
    BY <1>3, <2>1, <2>2
<1>13. NewsOver' /\ news' \in Seq([id : Ids, filled : BOOLEAN])
  <2> DEFINE EventRec == [id : Ids, filled : BOOLEAN]
  <2>1. PICK e : e = [id |-> i, filled |-> filled]
    OBVIOUS
  <2>2. e \in EventRec /\ e.id = i
    BY <1>4, <2>1
  <2>3. news \in Seq(EventRec) /\ news' = Append(news, e)
    BY <1>3, <2>1 DEF IInv, Types
  <2>4. /\ news' \in Seq(EventRec) /\ Len(news') = Len(news) + 1
        /\ \A k \in 1..Len(news) : news'[k] = news[k]
        /\ news'[Len(news) + 1] = e
    BY <2>2, <2>3, AppendProperties
  <2>5. \A k \in DOMAIN news' : (k \in DOMAIN news /\ news'[k] = news[k]) \/ news'[k] = e
    BY <2>3, <2>4
  <2>6. \A k \in DOMAIN news : news[k].id \in Ids /\ book'[news[k].id].state \in Ended
    <3>1. ASSUME NEW k \in 1..Len(news) PROVE news[k] \in EventRec
      BY <2>3, ElementOfSeq
    <3>2. DOMAIN news = 1..Len(news)
      BY <2>3
    <3> QED
      BY <1>11, <3>1, <3>2 DEF IInv, NewsOver, Later
  <2>7. book'[e.id].state \in Ended
    BY <1>5, <1>7, <1>9, <2>2
  <2> QED
    BY <2>4, <2>5, <2>6, <2>7 DEF NewsOver
<1>14. Types'
  BY <1>3, <1>10, <1>12, <1>13 DEF IInv, Types
<1>15. ASSUME Sighted(book, mem) PROVE Sighted(book, mem)'
  <2>1. i = mem.working /\ i # 0
    BY <1>1, <1>3, <1>15, Numbers DEF Sighted, OnlyWorking, Ids
  <2>2. OnlyWorking(book', mem')
    BY <1>3, <1>5, <1>7, <1>9, <1>15, <2>1 DEF Sighted, OnlyWorking, Ended
  <2>3. /\ view \in Units /\ market \in Units
        /\ mem.pos \in Units /\ (mem.pos # 0 => mem.stop = -mem.pos)
    BY <1>15 DEF Sighted, Known
  <2>4. book'[mem'.working].state = st /\ st # "none"
    BY <1>3, <1>5, <1>7, <1>9, <2>1 DEF Ended
  <2>5. CASE ~o.close
    <3>1. Around(book, mem)
      BY <1>1, <1>15, <2>1, <2>5 DEF Sighted, Known, Entry
    <3>2. /\ mem.stop \in {0, -o.side} /\ mem.pos \in {0, o.side}
          /\ market = 0 /\ view = 0
      BY <1>1, <1>3, <2>1, <3>1 DEF Around
    <3>3. filled /\ market' = o.side
      <4>1. 0 + o.side = o.side
        BY <1>4, Signs
      <4> QED
        BY <1>2, <1>3, <2>5, <3>2, <4>1
    <3>4. Entry(book', mem') /\ book'[mem'.working].side = o.side /\ st = "filled"
      BY <1>3, <1>5, <1>7, <1>9, <2>1, <2>5, <3>3 DEF Entry
    <3>5. Around(book, mem)'
      BY <1>3, <2>4, <3>2, <3>3, <3>4 DEF Around
    <3>6. market' \in Units
      BY <1>4, <3>3, Signs
    <3> QED
      BY <1>3, <2>2, <2>3, <2>4, <3>4, <3>5, <3>6 DEF Sighted, Known, OnlyWorking, Entry
  <2>6. CASE o.close
    <3>1. Between(mem)
      BY <1>1, <1>15, <2>1, <2>6 DEF Sighted, Known, Entry
    <3>2. filled => market' = 0
      <4> SUFFICES ASSUME filled PROVE market + o.side = 0
        BY <1>3
      <4>1. market * o.side < 0
        BY <1>2, <2>6
      <4>2. market \in {-1, 0, 1} /\ o.side \in {1, -1}
        BY <1>4, <2>3 DEF Units, Sides
      <4> QED
        BY <4>1, <4>2
    <3>3. Between(mem)' /\ market' \in Units
      BY <1>3, <2>3, <3>1, <3>2, Signs DEF Between
    <3>4. ~Entry(book', mem')
      BY <1>3, <1>7, <1>9, <2>1, <2>6 DEF Entry
    <3> QED
      BY <1>3, <2>2, <2>3, <2>4, <3>3, <3>4 DEF Sighted, Known, OnlyWorking, Entry
  <2> QED
    BY <2>5, <2>6
<1> QED
  BY <1>3, <1>13, <1>14, <1>15 DEF IInv

-----------------------------------------------------------------------------
(* The theorem *)

LEMMA InitInv ==
  ASSUME CountsAreNumbers, TrendInit
  PROVE  IInv
<1>1. Fresh \in Memories /\ Fresh.working = 0 /\ Fresh.pos = 0 /\ Fresh.stop = 0
  BY Numbers, Signs DEF Fresh, Memories
<1>2. NoOrder \in OrderRecords /\ NoOrder.state = "none"
  BY DEF NoOrder, OrderRecords, Units
<1>3. BookSane(book) /\ \A i \in Ids : book[i].state = "none"
  BY <1>2 DEF TrendInit, BookSane
<1>4. Types /\ NewsOver
  <2>1. market = 0 /\ view = 0 /\ news = <<>> /\ mem = Fresh /\ loose = FALSE
    BY DEF TrendInit
  <2>2. news \in Seq([id : Ids, filled : BOOLEAN]) /\ DOMAIN news = {}
    BY <2>1
  <2> QED
    BY <1>1, <1>3, <2>1, <2>2 DEF Types, NewsOver, Memories
<1>5. Sighted(book, mem)
  BY <1>1, <1>3, Signs DEF TrendInit, Sighted, OnlyWorking, Known, Entry, Between
<1> QED
  BY <1>4, <1>5 DEF IInv

LEMMA Inductive ==
  ASSUME CountsAreNumbers, IInv, [TrendNext]_trendVars
  PROVE  IInv'
<1>1. CASE Candle
  BY <1>1, CandleKeeps
<1>2. CASE OrderEvent
  BY <1>2, OrderEventKeeps
<1>3. CASE StopRunner
  BY <1>3, StopRunnerKeeps
<1>4. CASE SetMode
  BY <1>4, SetModeKeeps
<1>5. CASE Observe
  BY <1>5, ObserveKeeps
<1>6. CASE Rebuilt
  BY <1>6, RebuiltKeeps
<1>7. CASE \E i \in Ids : Fills(i)
  BY <1>7, FillsKeeps
<1>8. CASE UNCHANGED trendVars
  BY <1>8 DEF trendVars, IInv, Types, NewsOver, Sighted, OnlyWorking, Known, Entry, Around, Between
<1> QED
  BY <1>1, <1>2, <1>3, <1>4, <1>5, <1>6, <1>7, <1>8 DEF TrendNext

LEMMA InvImplies ==
  ASSUME IInv
  PROVE  OneEntryStopped
<1> SUFFICES ASSUME Sighted(book, mem) PROVE market \in -1..1 /\ (mem.pos # 0 => mem.stop = -Sign(mem.pos))
  BY DEF IInv, OneEntryStopped
<1>1. market \in Units /\ mem.pos \in Units /\ (mem.pos # 0 => mem.stop = -mem.pos)
  BY DEF Sighted, Known
<1>2. Sign(mem.pos) = mem.pos
  BY <1>1, Signs
<1> QED
  BY <1>1, <1>2 DEF Units

\* While no entry lives or has filled unknown to it, the strategy holds at most
\* one entry, and what it holds has its stop on the right side, whatever the
\* interleaving of candles, fills, order events, stops and restarts.
THEOREM OneEntryIsStopped ==
  ASSUME CountsAreNumbers
  PROVE  TrendSpec => []OneEntryStopped
<1>1. TrendInit => IInv
  BY InitInv
<1>2. IInv /\ [TrendNext]_trendVars => IInv'
  BY Inductive
<1>3. IInv => OneEntryStopped
  BY InvImplies
<1> QED
  BY <1>1, <1>2, <1>3, PTL DEF TrendSpec

(***************************************************************************)
(* FundingArb: the runtime and its row                                     *)
(***************************************************************************)

ArbSpec == ArbInit /\ [][ArbNext]_arbVars

TaskOK ==
  /\ DOMAIN task = {"at", "leg", "size", "tries", "back", "fail"}
  /\ task.back # "create" /\ task.fail # "create"
RowOK == DOMAIN row = {"state", "number", "base"} /\ row.state # "none" /\ faults \in Nat
Bound == task.at \notin {"idle", "create"} => bound # "none"
Creating == task.at = "create" => bound = "none"
Agrees == bound # "none" /\ ~stale => bound = row.state
Drives == life # "off" /\ Active => bound # "none" \/ (faults > 0 /\ row.state = "entering_spot")
ArbInv == TaskOK /\ RowOK /\ Bound /\ Creating /\ Agrees /\ Drives

\* Where a step of the runtime leaves its task, and the strategy its life.
Proceeds == /\ TaskOK' /\ task'.at # "create"
            /\ life' # "off" => life # "off"
RowStep ==
  \/ UNCHANGED <<row, bound, stale, faults>>
  \/ \E s : s # "none" /\ (Written(s) \/ NotWritten(s))
  \/ /\ row' = [row EXCEPT !.state = "closed"] /\ bound' = "none" /\ UNCHANGED <<stale, faults>>
     /\ task'.at = "idle"

LEMMA AtIsATask ==
  ASSUME NEW l
  PROVE  /\ DOMAIN At(l) = {"at", "leg", "size", "tries", "back", "fail"}
         /\ At(l).at = l /\ At(l).back = "idle" /\ At(l).fail = "idle"
  BY DEF At
LEMMA LabelProceeds ==
  ASSUME TaskOK, NEW l, l # "create", Label(l)
  PROVE  Proceeds
  BY DEF TaskOK, Label, GoTo, driver, Proceeds
LEMMA EndsProceeds ==
  ASSUME NEW ok, Ends(ok)
  PROVE  Proceeds /\ task'.at = "idle"
  <1>1. task' = At("idle")
    BY DEF Ends, Idle
  <1> QED BY <1>1, AtIsATask DEF Ends, Proceeds, TaskOK
LEMMA FailsProceeds ==
  ASSUME TaskOK, Fails
  PROVE  Proceeds
  <1>1. CASE task.at = "fault_open"
    <2>1. PICK a : a = At("compensate")
      OBVIOUS
    <2>2. task' = [a EXCEPT !.back = "fault"] /\ life' = life
      BY <1>1, <2>1 DEF Fails, GoTo, driver
    <2> QED BY <2>1, <2>2, AtIsATask DEF Proceeds, TaskOK
  <1>2. CASE task.at # "fault_open" /\ task.fail = "idle"
    BY <1>2, EndsProceeds DEF Fails
  <1>3. CASE task.at # "fault_open" /\ task.fail # "idle"
    <2>1. task' = [task EXCEPT !.at = task.fail, !.back = "fault", !.fail = "idle"] /\ life' = life
      BY <1>3 DEF Fails, GoTo, driver
    <2>2. /\ DOMAIN task' = DOMAIN task /\ task'.at = task.fail /\ task'.back = "fault"
          /\ task'.fail = "idle"
      BY <2>1 DEF TaskOK
    <2> QED BY <2>1, <2>2 DEF Proceeds, TaskOK
  <1> QED BY <1>1, <1>2, <1>3
LEMMA UnknownProceeds ==
  ASSUME EntryUnknown
  PROVE  Proceeds
  <1>1. PICK a : a = At("compensate")
    OBVIOUS
  <1>2. task' = [a EXCEPT !.back = "fault_open"] /\ life' = life
    BY <1>1 DEF EntryUnknown, GoTo, driver
  <1> QED BY <1>1, <1>2, AtIsATask DEF Proceeds, TaskOK

\* Writing the row, or failing to.
LEMMA WrittenAgrees ==
  ASSUME ArbInv, NEW s, s # "none", Written(s)
  PROVE  RowOK' /\ Agrees' /\ bound' # "none"
  BY DEF ArbInv, RowOK, Written, Agrees
LEMMA NotWrittenAgrees ==
  ASSUME ArbInv, NEW s, s # "none", NotWritten(s)
  PROVE  RowOK' /\ Agrees' /\ bound' = bound
  BY DEF ArbInv, RowOK, NotWritten, Agrees

\* A step of the runtime at work on its cycle.
LEMMA RuntimeKeeps ==
  ASSUME ArbInv, task.at \notin {"idle", "create"}, Proceeds, RowStep
  PROVE  ArbInv'
  <1>1. bound # "none"
    BY DEF ArbInv, Bound
  <1>2. TaskOK' /\ Creating'
    BY DEF Proceeds, Creating
  <1>3. CASE UNCHANGED <<row, bound, stale, faults>>
    BY <1>1, <1>2, <1>3 DEF ArbInv, RowOK, Bound, Agrees, Drives
  <1>4. CASE \E s : s # "none" /\ (Written(s) \/ NotWritten(s))
    <2>1. RowOK' /\ Agrees' /\ bound' # "none"
      BY <1>1, <1>4, WrittenAgrees, NotWrittenAgrees
    <2> QED BY <1>2, <2>1 DEF ArbInv, Bound, Drives
  <1>5. CASE /\ row' = [row EXCEPT !.state = "closed"] /\ bound' = "none" /\ UNCHANGED <<stale, faults>>
             /\ task'.at = "idle"
    <2>1. RowOK' /\ row'.state = "closed"
      BY <1>5 DEF ArbInv, RowOK
    <2> QED BY <1>2, <1>5, <2>1 DEF ArbInv, Bound, Agrees, Drives, Active
  <1> QED BY <1>3, <1>4, <1>5 DEF RowStep

LEMMA MovesKeeps ==
  ASSUME ArbInv, NEW s, s # "none", NEW l, l # "create", Moves(s, l)
  PROVE  Proceeds /\ RowStep
  <1>1. Proceeds
    BY LabelProceeds, FailsProceeds DEF Moves, ArbInv
  <1> QED BY <1>1 DEF Moves, RowStep
LEMMA RetiresKeeps ==
  ASSUME ArbInv, Retires
  PROVE  Proceeds /\ RowStep
  <1>1. CASE NotWritten("closed") /\ Fails
    BY <1>1, FailsProceeds DEF ArbInv, RowStep
  <1>2. CASE /\ ~stale /\ row' = [row EXCEPT !.state = "closed"]
             /\ bound' = "none" /\ UNCHANGED <<stale, faults>> /\ Ends(TRUE)
    BY <1>2, EndsProceeds DEF RowStep
  <1> QED BY <1>1, <1>2 DEF Retires
LEMMA FaultsKeeps ==
  ASSUME ArbInv, Faults
  PROVE  Proceeds /\ RowStep
  <1>1. CASE UNCHANGED <<row, bound, stale, faults>> /\ Ends(TRUE)
    BY <1>1, EndsProceeds DEF RowStep
  <1>2. CASE Written("faulted") /\ Ends(TRUE)
    BY <1>2, EndsProceeds DEF RowStep
  <1>3. CASE NotWritten("faulted") /\ Fails
    BY <1>3, FailsProceeds DEF ArbInv, RowStep
  <1> QED BY <1>1, <1>2, <1>3 DEF Faults
LEMMA OpenKeeps ==
  ASSUME ArbInv, \/ Written("open") /\ Ends(TRUE)
                 \/ NotWritten("open") /\ Fails
  PROVE  Proceeds /\ RowStep
  <1>1. Proceeds
    BY EndsProceeds, FailsProceeds DEF ArbInv
  <1> QED BY <1>1 DEF RowStep
LEMMA LabelKeeps ==
  ASSUME ArbInv, NEW l, l # "create", Label(l), UNCHANGED <<outside, row, bound, stale, known, faults>>
  PROVE  Proceeds /\ RowStep
  BY LabelProceeds DEF ArbInv, RowStep
\* A reduction is entered with somewhere to go back to.
LEMMA ReducesKeeps ==
  ASSUME ArbInv, NEW b, b # "create", NEW f, f # "create", Reduces(b, f),
         UNCHANGED <<row, bound, stale, faults>>
  PROVE  Proceeds /\ RowStep
  <1>1. PICK a : a = At("reduce")
    OBVIOUS
  <1>2. PICK r : r = [a EXCEPT !.back = b, !.fail = f]
    OBVIOUS
  <1>3. /\ DOMAIN r = {"at", "leg", "size", "tries", "back", "fail"}
        /\ r.at = "reduce" /\ r.back = b /\ r.fail = f
    BY <1>1, <1>2, AtIsATask
  <1>4. /\ \/ task' = [r EXCEPT !.size = SpotExcess]
           \/ task' = [r EXCEPT !.leg = "perp", !.size = PerpExcess]
           \/ task' = [r EXCEPT !.at = b]
        /\ life' = life
    BY <1>1, <1>2 DEF Reduces, GoTo, driver
  <1>5. CASE task' = [r EXCEPT !.size = SpotExcess]
    BY <1>3, <1>4, <1>5 DEF Proceeds, TaskOK, RowStep
  <1>6. CASE task' = [r EXCEPT !.leg = "perp", !.size = PerpExcess]
    <2>1. DOMAIN task' = DOMAIN r /\ task'.at = "reduce" /\ task'.back = b /\ task'.fail = f
      BY <1>3, <1>6
    <2> QED BY <1>3, <1>4, <2>1 DEF Proceeds, TaskOK, RowStep
  <1>7. CASE task' = [r EXCEPT !.at = b]
    <2>1. DOMAIN task' = DOMAIN r /\ task'.at = b /\ task'.back = b /\ task'.fail = f
      BY <1>3, <1>7
    <2> QED BY <1>3, <1>4, <2>1 DEF Proceeds, TaskOK, RowStep
  <1> QED BY <1>4, <1>5, <1>6, <1>7
\* So is the sale of what an exit or a compensation has left.
LEMMA SellsKeeps ==
  ASSUME ArbInv, NEW t, DOMAIN t = {"at", "leg", "size", "tries", "back", "fail"}, t.at = "reduce",
         t.back # "create", t.fail # "create", GoTo(t), UNCHANGED <<row, bound, stale, faults>>
  PROVE  Proceeds /\ RowStep
  BY DEF Proceeds, TaskOK, RowStep, GoTo, driver

----------------------------------------------------------------------------
\* Each step of the runtime.
LEMMA BuySpotKeeps == ASSUME ArbInv, BuySpot PROVE Proceeds /\ RowStep
  <1>1. UNCHANGED <<row, bound, stale, faults>>
    BY DEF BuySpot
  <1>2. CASE EntryUnknown
    BY <1>1, <1>2, UnknownProceeds DEF RowStep
  <1>3. CASE Fails
    BY <1>1, <1>3, FailsProceeds DEF ArbInv, RowStep
  <1>4. CASE \E n : GoTo([task EXCEPT !.size = n,
                 !.at = IF n = 0 THEN "retire" ELSE IF PerpFloor(n) = 0 THEN "comp" ELSE "sell"])
    <2>1. PICK n : GoTo([task EXCEPT !.size = n,
                 !.at = IF n = 0 THEN "retire" ELSE IF PerpFloor(n) = 0 THEN "comp" ELSE "sell"])
      BY <1>4
    <2>2. PICK l : l # "create" /\ l = IF n = 0 THEN "retire" ELSE IF PerpFloor(n) = 0 THEN "comp" ELSE "sell"
      OBVIOUS
    <2>3. task' = [task EXCEPT !.size = n, !.at = l] /\ life' = life
      BY <2>1, <2>2 DEF GoTo, driver
    <2>4. DOMAIN task' = DOMAIN task /\ task'.at = l /\ task'.back = task.back /\ task'.fail = task.fail
      BY <2>3 DEF ArbInv, TaskOK
    <2> QED BY <1>1, <2>2, <2>3, <2>4 DEF ArbInv, TaskOK, Proceeds, RowStep
  <1> QED BY <1>2, <1>3, <1>4 DEF BuySpot
LEMMA SellPerpKeeps == ASSUME ArbInv, SellPerp PROVE Proceeds /\ RowStep
  <1>1. RowStep
    BY DEF SellPerp, RowStep
  <1>2. Fails \/ EntryUnknown \/ Label("align")
    BY DEF SellPerp
  <1> QED BY <1>1, <1>2, FailsProceeds, UnknownProceeds, LabelProceeds DEF ArbInv
LEMMA ReduceKeeps == ASSUME ArbInv, Reduce PROVE Proceeds /\ RowStep
  <1>1. bound # "none" /\ task.back # "create"
    BY DEF Reduce, ArbInv, Bound, TaskOK
  <1>2. CASE task.size = 0 \/ task.tries = MaxTries
    <2>1. Label(task.back) /\ UNCHANGED <<row, bound, stale, faults>>
      BY <1>2 DEF Reduce
    <2> QED BY <1>1, <2>1, LabelProceeds DEF ArbInv, RowStep
  <1>3. CASE ~(task.size = 0 \/ task.tries = MaxTries)
    <2>1. RowStep
      BY <1>1, <1>3 DEF Reduce, RowStep
    <2>2. Fails \/ Label("unknown") \/ \E m : GoTo([task EXCEPT !.size = m, !.tries = @ + 1])
      BY <1>3 DEF Reduce
    <2>3. ASSUME NEW m, GoTo([task EXCEPT !.size = m, !.tries = @ + 1])
          PROVE  Proceeds
      <3>1. PICK k : k = task.tries + 1
        OBVIOUS
      <3>2. task' = [task EXCEPT !.size = m, !.tries = k] /\ life' = life
        BY <2>3, <3>1 DEF GoTo, driver
      <3>3. DOMAIN task' = DOMAIN task /\ task'.at = task.at /\ task'.back = task.back /\ task'.fail = task.fail
        BY <3>2 DEF ArbInv, TaskOK
      <3> QED BY <3>2, <3>3 DEF ArbInv, TaskOK, Proceeds, Reduce
    <2> QED BY <2>1, <2>2, <2>3, FailsProceeds, LabelProceeds DEF ArbInv
  <1> QED BY <1>2, <1>3
LEMMA CompSellKeeps == ASSUME ArbInv, CompSell PROVE Proceeds /\ RowStep
  <1>1. CASE Label("fault") /\ UNCHANGED <<outside, row, bound, stale, known, faults>>
    BY <1>1, LabelKeeps
  <1>2. CASE Retires
    BY <1>2, RetiresKeeps
  <1>3. CASE /\ GoTo([At("reduce") EXCEPT !.size = Spot, !.back = "comp_end", !.fail = task.fail])
             /\ UNCHANGED <<outside, row, bound, stale, known, faults>>
    <2>n. PICK n : n = Spot
      OBVIOUS
    <2>f. PICK f : f = task.fail
      OBVIOUS
    <2>a. PICK a : a = At("reduce")
      OBVIOUS
    <2>r. PICK r : r = [a EXCEPT !.size = n]
      OBVIOUS
    <2>1. PICK t : t = [r EXCEPT !.back = "comp_end", !.fail = f]
      OBVIOUS
    <2>3. DOMAIN r = {"at", "leg", "size", "tries", "back", "fail"} /\ r.at = "reduce" /\ r.fail = "idle"
      BY <2>a, <2>r, AtIsATask
    <2>2. /\ DOMAIN t = {"at", "leg", "size", "tries", "back", "fail"} /\ t.at = "reduce"
          /\ t.back = "comp_end" /\ t.fail = f
      BY <2>1, <2>3
    <2> QED BY <1>3, <2>n, <2>f, <2>a, <2>r, <2>1, <2>2, SellsKeeps DEF ArbInv, TaskOK
  <1> QED BY <1>1, <1>2, <1>3 DEF CompSell
LEMMA ExitPerpKeeps == ASSUME ArbInv, ExitPerp PROVE Proceeds /\ RowStep
  <1>n. PICK n : n = Perp
    OBVIOUS
  <1>a. PICK a : a = At("reduce")
    OBVIOUS
  <1>r. PICK r : r = [a EXCEPT !.leg = "perp", !.size = n]
    OBVIOUS
  <1>1. PICK t : t = [r EXCEPT !.back = "exit_mid"]
    OBVIOUS
  <1>3. DOMAIN r = {"at", "leg", "size", "tries", "back", "fail"} /\ r.at = "reduce" /\ r.fail = "idle"
    BY <1>a, <1>r, AtIsATask
  <1>2. /\ DOMAIN t = {"at", "leg", "size", "tries", "back", "fail"} /\ t.at = "reduce"
        /\ t.back = "exit_mid" /\ t.fail = "idle"
    BY <1>1, <1>3
  <1> QED BY <1>n, <1>a, <1>r, <1>1, <1>2, SellsKeeps DEF ExitPerp
LEMMA ExitSpotKeeps == ASSUME ArbInv, ExitSpot PROVE Proceeds /\ RowStep
  <1>n. PICK n : n = Spot
    OBVIOUS
  <1>a. PICK a : a = At("reduce")
    OBVIOUS
  <1>r. PICK r : r = [a EXCEPT !.size = n]
    OBVIOUS
  <1>1. PICK t : t = [r EXCEPT !.back = "exit_end"]
    OBVIOUS
  <1>3. DOMAIN r = {"at", "leg", "size", "tries", "back", "fail"} /\ r.at = "reduce" /\ r.fail = "idle"
    BY <1>a, <1>r, AtIsATask
  <1>2. /\ DOMAIN t = {"at", "leg", "size", "tries", "back", "fail"} /\ t.at = "reduce"
        /\ t.back = "exit_end" /\ t.fail = "idle"
    BY <1>1, <1>3
  <1> QED BY <1>n, <1>a, <1>r, <1>1, <1>2, SellsKeeps DEF ExitSpot

\* The steps made of one of the moves above.
LEMMA EntryKeeps ==
  ASSUME ArbInv, Leverage \/ Retire \/ FaultIt \/ ReduceUnknown \/ Compensate
  PROVE  Proceeds /\ RowStep
  <1>1. CASE Leverage
    BY <1>1, LabelProceeds, FailsProceeds DEF Leverage, ArbInv, RowStep
  <1>2. CASE Retire \/ FaultIt
    BY <1>2, RetiresKeeps, FaultsKeeps DEF Retire, FaultIt
  <1>3. CASE ReduceUnknown
    BY <1>3, MovesKeeps DEF ReduceUnknown, ArbInv, TaskOK
  <1>4. CASE Compensate
    BY <1>4, ReducesKeeps DEF Compensate, ArbInv, TaskOK
  <1> QED BY <1>1, <1>2, <1>3, <1>4
LEMMA AlignKeeps ==
  ASSUME ArbInv, Align \/ AlignReduce \/ Opened \/ Comp \/ CompEnd
  PROVE  Proceeds /\ RowStep
  <1>1. CASE Align \/ Comp
    BY <1>1, MovesKeeps DEF Align, Comp
  <1>2. CASE AlignReduce
    BY <1>2, ReducesKeeps, LabelKeeps DEF AlignReduce
  <1>3. CASE Opened
    BY <1>3, LabelKeeps, RetiresKeeps, OpenKeeps DEF Opened
  <1>4. CASE CompEnd
    BY <1>4, LabelKeeps, RetiresKeeps DEF CompEnd
  <1> QED BY <1>1, <1>2, <1>3, <1>4
LEMMA ExitKeeps ==
  ASSUME ArbInv, Close \/ ExitMid \/ ExitEnd \/ Rebalance \/ RebalanceReduce \/ Rebalanced \/ Recover
  PROVE  Proceeds /\ RowStep
  <1>1. CASE Close \/ ExitMid
    BY <1>1, LabelKeeps, MovesKeeps DEF Close, ExitMid
  <1>2. CASE ExitEnd
    BY <1>2, LabelKeeps, RetiresKeeps DEF ExitEnd
  <1>3. CASE Rebalance
    BY <1>3, EndsProceeds, MovesKeeps DEF Rebalance, RowStep
  <1>4. CASE RebalanceReduce
    BY <1>4, ReducesKeeps DEF RebalanceReduce
  <1>5. CASE Rebalanced
    BY <1>5, LabelKeeps, OpenKeeps DEF Rebalanced
  <1>6. CASE Recover
    <2>1. CASE Written("closed") /\ Ends(TRUE)
      BY <2>1, EndsProceeds DEF RowStep
    <2>2. CASE NotWritten("closed") /\ Fails
      BY <2>2, FailsProceeds DEF ArbInv, RowStep
    <2>3. CASE Label("close") \/ Label("comp") \/ Label("fault")
      <3>1. UNCHANGED <<outside, row, bound, stale, known, faults>> \/ RowStep
        BY <1>6 DEF Recover, RowStep
      <3> QED BY <2>3, <3>1, LabelProceeds DEF ArbInv, RowStep
    <2> QED BY <1>6, <2>1, <2>2, <2>3 DEF Recover
  <1> QED BY <1>1, <1>2, <1>3, <1>4, <1>5, <1>6

LEMMA CycleStepKeeps == ASSUME ArbInv, CycleStep, ~Create PROVE ArbInv'
  <1>1. Proceeds /\ RowStep
    BY EntryKeeps, AlignKeeps, ExitKeeps, BuySpotKeeps, SellPerpKeeps, ReduceKeeps, CompSellKeeps,
       ExitPerpKeeps, ExitSpotKeeps DEF CycleStep
  <1>2. task.at \notin {"idle", "create"}
    BY DEF CycleStep, Leverage, BuySpot, SellPerp, Retire, FaultIt, Reduce, ReduceUnknown, Compensate,
           Align, AlignReduce, Opened, Comp, CompSell, CompEnd, Close, ExitPerp, ExitMid, ExitSpot,
           ExitEnd, Rebalance, RebalanceReduce, Rebalanced, Recover
  <1> QED BY <1>1, <1>2, RuntimeKeeps
LEMMA CreateKeeps == ASSUME ArbInv, Create PROVE ArbInv'
  <1>1. PICK new : new = [state |-> "entering_spot", number |-> row.number + 1, base |-> tracked.spot]
    OBVIOUS
  <1>2. new.state = "entering_spot" /\ DOMAIN new = {"state", "number", "base"}
    BY <1>1
  <1>3. task.at = "create" /\ bound = "none" /\ stale' = stale
    BY DEF Create, ArbInv, Creating
  <1>4. CASE /\ row' = new /\ bound' = "entering_spot" /\ UNCHANGED faults
             /\ GoTo([At("leverage") EXCEPT !.fail = "compensate"])
    <2>1. PICK a : a = At("leverage")
      OBVIOUS
    <2>2. task' = [a EXCEPT !.fail = "compensate"] /\ life' = life
      BY <1>4, <2>1 DEF GoTo, driver
    <2>3. TaskOK' /\ task'.at = "leverage"
      BY <2>1, <2>2, AtIsATask DEF TaskOK
    <2> QED BY <1>2, <1>4, <2>3 DEF ArbInv, RowOK, Bound, Creating, Agrees, Drives
  <1>5. CASE Ends(TRUE) /\ UNCHANGED <<row, bound, known, faults>>
    <2>1. Proceeds /\ task'.at = "idle"
      BY <1>5, EndsProceeds
    <2> QED BY <1>3, <1>5, <2>1 DEF ArbInv, RowOK, Bound, Creating, Agrees, Drives, Proceeds, Active
  <1>6. CASE faults' = faults + 1 /\ Ends(TRUE) /\ row' \in {row, new} /\ UNCHANGED <<bound, known>>
    <2>1. Proceeds /\ task'.at = "idle"
      BY <1>6, EndsProceeds
    <2>2. RowOK' /\ faults' > 0
      BY <1>2, <1>6 DEF ArbInv, RowOK
    <2>3. Drives'
      <3>1. CASE row' = new
        BY <1>2, <2>2, <3>1 DEF Drives
      <3>2. CASE row' = row
        BY <1>3, <1>6, <2>1, <2>2, <3>2 DEF ArbInv, Drives, Proceeds, Active
      <3> QED BY <1>6, <3>1, <3>2
    <2> QED BY <1>3, <1>6, <2>1, <2>2, <2>3 DEF ArbInv, Bound, Creating, Agrees, Proceeds
  <1> QED BY <1>1, <1>4, <1>5, <1>6 DEF Create

----------------------------------------------------------------------------
\* The driver, and the world outside.
LEMMA TickKeeps == ASSUME ArbInv, Tick PROVE ArbInv'
  <1>1. task.at = "idle" /\ UNCHANGED <<row, bound, stale, faults>>
    BY AtIsATask DEF Tick, Idle
  <1>2. CASE bound = "none" /\ Label("create")
    <2>1. TaskOK' /\ task'.at = "create" /\ life' = life
      BY <1>2 DEF ArbInv, TaskOK, Label, GoTo, driver
    <2> QED BY <1>1, <1>2, <2>1 DEF ArbInv, RowOK, Bound, Creating, Agrees, Drives, Active
  <1>3. CASE bound # "none" /\ \E l \in {"close", "rebalance"} : Label(l)
    <2>1. Proceeds /\ life' = life
      BY <1>3, LabelProceeds DEF ArbInv, Label, GoTo, driver
    <2> QED BY <1>1, <1>3, <2>1 DEF ArbInv, RowOK, Bound, Creating, Agrees, Drives, Active, Proceeds
  <1>4. CASE bound # "none" /\ GoTo([At("compensate") EXCEPT !.back = "fault"])
    <2>1. PICK a : a = At("compensate")
      OBVIOUS
    <2>2. task' = [a EXCEPT !.back = "fault"] /\ life' = life
      BY <1>4, <2>1 DEF GoTo, driver
    <2>3. TaskOK' /\ task'.at = "compensate"
      BY <2>1, <2>2, AtIsATask DEF TaskOK
    <2> QED BY <1>1, <1>4, <2>2, <2>3 DEF ArbInv, RowOK, Bound, Creating, Agrees, Drives, Active
  <1>5. bound \in Entering \union {"open", "rebalancing"} \union Exiting => bound # "none"
    BY DEF Entering, Exiting
  <1> QED BY <1>2, <1>3, <1>4, <1>5 DEF Tick
LEMMA StartKeeps == ASSUME ArbInv, Start PROVE ArbInv'
  <1>1. task.at = "idle" /\ UNCHANGED <<row, faults>> /\ stale' = FALSE
    BY AtIsATask DEF Start, Idle
  <1>2. bound' = IF Active THEN row.state ELSE "none"
    BY DEF Start
  <1>3. TaskOK' /\ task'.at \in {"idle", "recover"} /\ (task'.at = "recover" => Active /\ row.state \in Entering)
    <2>1. CASE Active /\ row.state \in Entering
      <3>1. task' = At("recover")
        BY <2>1 DEF Start
      <3> QED BY <2>1, <3>1, AtIsATask DEF TaskOK
    <2>2. CASE ~(Active /\ row.state \in Entering)
      <3>1. task' = task
        BY <2>2 DEF Start
      <3> QED BY <1>1, <3>1 DEF ArbInv, TaskOK
    <2> QED BY <2>1, <2>2
  <1>4. CASE Active
    BY <1>1, <1>2, <1>3, <1>4 DEF ArbInv, RowOK, Bound, Creating, Agrees, Drives, Active
  <1>5. CASE ~Active
    BY <1>1, <1>2, <1>3, <1>5 DEF ArbInv, RowOK, Bound, Creating, Agrees, Drives, Active
  <1> QED BY <1>4, <1>5
LEMMA WorldKeeps == ASSUME ArbInv, World PROVE ArbInv'
  <1>1. CASE Stop \/ Crash
    <2>1. task' = Idle
      BY <1>1 DEF Stop, Crash
    <2>2. TaskOK' /\ task'.at = "idle"
      BY <2>1, AtIsATask DEF ArbInv, TaskOK, Idle
    <2>3. life' = "off" /\ bound' = "none" /\ row' = row /\ faults' = faults + 1
      BY <1>1 DEF Stop, Crash
    <2> QED BY <2>2, <2>3 DEF ArbInv, RowOK, Bound, Creating, Agrees, Drives
  <1>2. CASE Pause \/ Poll \/ Event \/ Late
    BY <1>2 DEF Pause, Poll, Event, Late, driver, ArbInv, TaskOK, RowOK, Bound, Creating, Agrees, Drives, Active
  <1>3. CASE Kill
    <2>1. faults' = faults + 1 /\ UNCHANGED <<row, bound, stale, task, life>>
      BY <1>3 DEF Kill, driver
    <2> QED BY <2>1 DEF ArbInv, TaskOK, RowOK, Bound, Creating, Agrees, Drives, Active
  <1> QED BY <1>1, <1>2, <1>3 DEF World

LEMMA ArbStarts == ASSUME ArbInit PROVE ArbInv
  <1>1. TaskOK /\ task.at = "idle"
    BY AtIsATask DEF ArbInit, Idle, TaskOK
  <1>2. RowOK /\ row.state = "closed"
    BY DEF ArbInit, NoRow, RowOK
  <1> QED BY <1>1, <1>2 DEF ArbInit, ArbInv, Bound, Creating, Agrees, Drives, Active
LEMMA ArbKept == ASSUME ArbInv, [ArbNext]_arbVars PROVE ArbInv'
  <1>1. CASE UNCHANGED arbVars
    BY <1>1 DEF arbVars, ArbInv, TaskOK, RowOK, Bound, Creating, Agrees, Drives, Active
  <1>2. CASE CycleStep
    BY <1>2, CycleStepKeeps, CreateKeeps
  <1> QED BY <1>1, <1>2, TickKeeps, StartKeeps, WorldKeeps DEF ArbNext

\* FundingArbRuntimeHandle: for every size, bound and order of the faults, the
\* state the runtime holds of its cycle is the durable row's unless an answer
\* to a commit was lost, and a running strategy drives the row that is active.
THEOREM TheRowIsDriven == ArbSpec => []Driven
  <1>1. ArbInv => Driven
    <2>1. ArbInv => (life = "on" /\ Active => bound # "none" \/ (faults > 0 /\ row.state = "entering_spot"))
      BY DEF ArbInv, Drives
    <2> QED BY <2>1 DEF ArbInv, Agrees, Driven
  <1> QED BY <1>1, ArbStarts, ArbKept, PTL DEF ArbSpec

(***************************************************************************)
(* ConfigVersions: one version, one meaning                                *)
(***************************************************************************)

ConfigSpec == ConfigInit /\ [][ConfigNext]_configVars

Fields == {"fast", "slow", "pct"}
Value == [n : Int, form : {"number", "text", "padded"}]

\* What clients write has a number in each field, in one form or another.
DraftsAreConfigs == Drafts \subseteq [Fields -> Value] /\ MaxPeriod \in Int

\* A normalised configuration: nothing of the form it was given in is left.
Meaning == {v \in [Fields -> Value] :
  /\ v["fast"].form = "number" /\ v["slow"].form = "number" /\ v["pct"].form = "text"
  /\ 0 < v["fast"].n /\ v["fast"].n < v["slow"].n /\ v["slow"].n <= 10 * MaxPeriod
  /\ v["fast"].n % 10 = 0 /\ v["slow"].n % 10 = 0}

StoredRow == [hash : Meaning, columns : [Fields -> Int]]

ConfigInv ==
  /\ stored \in Seq(StoredRow)
  /\ \A v \in 1..Len(stored) : stored[v].columns = WriteTyped(stored[v].hash)
  /\ \A v, w \in 1..Len(stored) : stored[v].hash = stored[w].hash => v = w

LEMMA NormalisedMeans ==
  ASSUME DraftsAreConfigs, NEW raw \in [Fields -> Value], Accepts(raw)
  PROVE  Normal(raw) \in Meaning
<1>1. \A f \in Fields : Merged(raw, f) \in Value
  BY DEF Merged, Value, Fields, Defaults
<1>2. /\ Merged(raw, "fast").n % 10 = 0 /\ Merged(raw, "slow").n % 10 = 0
      /\ 10 <= Merged(raw, "fast").n /\ Merged(raw, "fast").n < Merged(raw, "slow").n
      /\ Merged(raw, "slow").n <= 10 * MaxPeriod
  BY DEF Accepts, InPeriod, IsInteger
<1>3. Normal(raw) \in [Fields -> Value]
  BY <1>1 DEF Normal, Value, Fields
<1>4. /\ Normal(raw)["fast"] = [n |-> Merged(raw, "fast").n, form |-> "number"]
      /\ Normal(raw)["slow"] = [n |-> Merged(raw, "slow").n, form |-> "number"]
      /\ Normal(raw)["pct"] = [n |-> Merged(raw, "pct").n, form |-> "text"]
  BY DEF Normal
<1>5. Merged(raw, "fast").n \in Int /\ Merged(raw, "slow").n \in Int
  BY <1>1 DEF Value, Fields
<1> QED
  BY <1>2, <1>3, <1>4, <1>5 DEF Meaning, DraftsAreConfigs

\* Every field of a meaning is stored as it is.
LEMMA TypedKeepsMeaning ==
  ASSUME NEW m \in Meaning
  PROVE  /\ WriteTyped(m) \in [Fields -> Int]
         /\ \A f \in Fields : WriteTyped(m)[f] = m[f].n
<1>1. DOMAIN m = Fields /\ \A f \in Fields : m[f] \in Value
  BY DEF Meaning
<1>2. \A f \in Fields : (f = "pct") = (m[f].form # "number")
  BY DEF Meaning, Fields
<1> QED
  BY <1>1, <1>2 DEF WriteTyped, Value

LEMMA SameColumnsSameMeaning ==
  ASSUME NEW a \in Meaning, NEW b \in Meaning, WriteTyped(a) = WriteTyped(b)
  PROVE  a = b
<1>1. \A f \in Fields : a[f].n = b[f].n
  BY TypedKeepsMeaning
<1>2. \A f \in Fields : a[f].form = b[f].form
  BY DEF Meaning, Fields
<1>3. \A f \in Fields : a[f] \in Value /\ b[f] \in Value
  BY DEF Meaning
<1>4. \A f \in Fields : a[f] = b[f]
  BY <1>1, <1>2, <1>3 DEF Value
<1> QED
  BY <1>4 DEF Meaning

LEMMA SubmittedAreConfigs ==
  ASSUME DraftsAreConfigs, ConfigInv, NEW raw \in Submitted
  PROVE  raw \in [Fields -> Value]
<1>1. CASE raw \in Drafts
  BY <1>1 DEF DraftsAreConfigs
<1>2. ASSUME NEW v \in DOMAIN stored, raw = ReadBack(stored[v].columns) PROVE raw \in [Fields -> Value]
  <2>1. stored[v] \in StoredRow
    BY DEF ConfigInv
  <2>2. stored[v].columns \in [Fields -> Int]
    BY <2>1 DEF StoredRow
  <2> QED BY <1>2, <2>2 DEF ReadBack, Value
<1> QED
  BY <1>1, <1>2 DEF Submitted

LEMMA NewVersionKeeps ==
  ASSUME DraftsAreConfigs, ConfigInv, NEW raw \in Submitted, Accepts(raw), Version(Normal(raw)) = {},
         stored' = Append(stored, Row(Normal(raw)))
  PROVE  ConfigInv'
<1> DEFINE m == Normal(raw)
<1>1. m \in Meaning
  BY SubmittedAreConfigs, NormalisedMeans
<1>2. Row(m) \in StoredRow /\ Row(m).hash = m /\ Row(m).columns = WriteTyped(m)
  BY <1>1, TypedKeepsMeaning DEF Row, Hash, StoredRow
<1> DEFINE r == Row(m)
<1>3. stored' = Append(stored, r) /\ stored \in Seq(StoredRow) /\ r \in StoredRow
  BY <1>2 DEF ConfigInv
<1>4. \A v \in 1..Len(stored) : stored[v].hash # m
  BY DEF Version, Hash, ConfigInv
<1> HIDE DEF m, r
<1>5. /\ stored' \in Seq(StoredRow) /\ Len(stored') = Len(stored) + 1
      /\ stored'[Len(stored) + 1] = r
      /\ \A v \in 1..Len(stored) : stored'[v] = stored[v]
  BY <1>3
<1>6. Len(stored) \in Nat
  BY <1>3
<1>7. \A v \in 1..Len(stored') : stored'[v].columns = WriteTyped(stored'[v].hash)
  <2> SUFFICES ASSUME NEW v \in 1..Len(stored') PROVE stored'[v].columns = WriteTyped(stored'[v].hash)
    OBVIOUS
  <2>1. CASE v = Len(stored) + 1
    BY <1>2, <1>5, <2>1 DEF r
  <2>2. CASE v \in 1..Len(stored)
    BY <1>5, <2>2 DEF ConfigInv
  <2> QED BY <1>5, <1>6, <2>1, <2>2
<1>8. \A v, w \in 1..Len(stored') : stored'[v].hash = stored'[w].hash => v = w
  <2> SUFFICES ASSUME NEW v \in 1..Len(stored'), NEW w \in 1..Len(stored'), stored'[v].hash = stored'[w].hash
               PROVE  v = w
    OBVIOUS
  <2>1. \A u \in 1..Len(stored) : stored'[u].hash = stored[u].hash /\ stored[u].hash # r.hash
    BY <1>2, <1>4, <1>5 DEF r
  <2>2. \A u \in 1..Len(stored') : u \in 1..Len(stored) \/ u = Len(stored) + 1
    BY <1>5, <1>6
  <2> QED BY <1>5, <2>1, <2>2 DEF ConfigInv
<1> QED
  BY <1>5, <1>7, <1>8 DEF ConfigInv

LEMMA ConfigKept == DraftsAreConfigs /\ ConfigInv /\ [ConfigNext]_configVars => ConfigInv'
<1> SUFFICES ASSUME DraftsAreConfigs, ConfigInv, [ConfigNext]_configVars PROVE ConfigInv'
  OBVIOUS
<1>1. CASE UNCHANGED stored
  BY <1>1 DEF ConfigInv
<1>2. ASSUME NEW e \in Editors, CreateVersion(e) PROVE ConfigInv'
  <2>1. PICK raw \in Submitted :
          \/ UNCHANGED stored
          \/ Accepts(raw) /\ Version(Normal(raw)) = {} /\ stored' = Append(stored, Row(Normal(raw)))
    BY <1>2 DEF CreateVersion
  <2> QED BY <1>1, <2>1, NewVersionKeeps
<1>3. ASSUME NEW e \in Editors, CreateStrategy(e) PROVE ConfigInv'
  <2>1. PICK raw \in Submitted :
          /\ Accepts(raw)
          /\ stored' = IF Version(Normal(raw)) = {} THEN Append(stored, Row(Normal(raw))) ELSE stored
    BY <1>3 DEF CreateStrategy
  <2> QED BY <1>1, <2>1, NewVersionKeeps
<1>4. ASSUME NEW e \in Editors, Look(e) PROVE ConfigInv'
  BY <1>1, <1>4 DEF Look
<1> QED
  BY <1>1, <1>2, <1>3, <1>4 DEF ConfigNext, configVars

LEMMA MeaningsAreVersions == ConfigInv => VersionsAreMeanings
<1> SUFFICES ASSUME ConfigInv PROVE VersionsAreMeanings
  OBVIOUS
<1>1. DOMAIN stored = 1..Len(stored) /\ \A v \in 1..Len(stored) : stored[v] \in StoredRow
  BY DEF ConfigInv
<1>2. \A v \in 1..Len(stored) : stored[v].hash \in Meaning /\ stored[v].columns = WriteTyped(stored[v].hash)
  BY <1>1 DEF ConfigInv, StoredRow
<1>3. ASSUME NEW v \in 1..Len(stored), NEW w \in 1..Len(stored), stored[v].columns = stored[w].columns
      PROVE  v = w
  BY <1>2, <1>3, SameColumnsSameMeaning DEF ConfigInv
<1>4. ASSUME NEW v \in 1..Len(stored)
      PROVE  LET c == stored[v].columns IN
             /\ 0 < c.fast /\ c.fast < c.slow /\ c.slow <= 10 * MaxPeriod
             /\ c.fast % 10 = 0 /\ c.slow % 10 = 0
  <2>1. stored[v].columns["fast"] = stored[v].hash["fast"].n /\ stored[v].columns["slow"] = stored[v].hash["slow"].n
    BY <1>2, TypedKeepsMeaning DEF Fields
  <2> QED BY <1>2, <2>1 DEF Meaning
<1> QED
  BY <1>1, <1>3, <1>4 DEF VersionsAreMeanings

\* A version of a configuration is one meaning, within the bounds the runtime
\* demands, in whatever form clients write it or send it back
\* (strategy_config_store.rs: create_config_version), for any drafts.
THEOREM VersionsMean == DraftsAreConfigs /\ ConfigSpec => []VersionsAreMeanings
<1>1. ConfigInit => ConfigInv
  BY DEF ConfigInit, ConfigInv
<1> SUFFICES ASSUME DraftsAreConfigs PROVE ConfigSpec => []VersionsAreMeanings
  OBVIOUS
<1> QED BY <1>1, ConfigKept, MeaningsAreVersions, PTL DEF ConfigSpec

=============================================================================
