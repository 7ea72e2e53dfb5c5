---------------------------- MODULE Venue_proofs ----------------------------
(***************************************************************************)
(* What this process makes of the venue's answers: the ingestor's facts and *)
(* cursors, the tracker's fees and health, the reconciler's truth, the     *)
(* channels of the market feed, and the journal of emergency cancels.      *)
(***************************************************************************)
EXTENDS ExchangeIngestor, AccountTracker, Reconciler, WsFeed,
        EmergencyCancel, FiniteSetTheorems, SequenceTheorems, TLAPS

(***************************************************************************)
(* ExchangeIngestor: facts written once, cursors that skip nothing         *)
(***************************************************************************)

BoundsAreNumbers ==
  /\ MaxTime \in Nat /\ MaxEvents \in Nat /\ MaxFaults \in Nat
  /\ QueueCap \in Nat /\ PageCap \in Nat

Which == {"own", "synthetic"}
Events == {e \in [kind : {"fill", "order", "funding"}, order : Orders,
                  val : {"buy", "sell", "Cancelled", "paid"}, cloid : BOOLEAN,
                  time : 0..MaxTime] : e.kind = "order" => e.val = "Cancelled"}
OrderRows == [oid : BOOLEAN, size : 0..OrderSize, filled : 0..OrderSize,
              status : Statuses \cup {NoStatus}]

Types ==
  /\ now \in 0..MaxTime /\ venue \in Seq(Events) /\ Len(venue) <= MaxEvents
  /\ queue \in Seq(Nat) /\ Len(queue) <= QueueCap
  /\ lost \subseteq Ids /\ live \in BOOLEAN /\ inbox \subseteq Ids
  /\ cursor \in [Streams -> 0..now]
  /\ rows \in [Orders -> [own : OrderRows, synthetic : OrderRows]]
  /\ facts \in [1..MaxEvents -> Nat]
  /\ booked \subseteq Ids \X Which
  /\ DOMAIN tracker = {"pos", "applied", "funding"} /\ tracker.applied \subseteq inbox
  /\ task \in [stream : Streams \cup {"none"}, start : 0..now, end : Int,
               page : Seq(Nat), full : BOOLEAN]
  /\ faults \in 0..MaxFaults

\* Ids grow with time.
Ordered ==
  /\ \A i \in Ids : venue[i].time <= now
  /\ \A i, j \in Ids : i < j => venue[i].time <= venue[j].time

\* The channel holds events in their order, and an event that is neither
\* committed nor lost is in it.
Channel ==
  /\ \A k \in DOMAIN queue : queue[k] \in Ids
  /\ \A k, l \in DOMAIN queue : k < l => queue[k] < queue[l]
  /\ \A i \in Ids : i \in inbox \cup lost \/ \E k \in DOMAIN queue : queue[k] = i

Covered(i) == i \in inbox \/ (live /\ i \in lost)

\* What recovery has behind it: all before the segment's start, and, with a
\* page in hand, all before the page's head; the page leaves no event out.
SegmentSound ==
  LET Mine == {i \in Ids : StreamOf(venue[i].kind) = task.stream}
      p == task.page
  IN /\ \A k \in DOMAIN p : p[k] \in Mine /\ \A l \in DOMAIN p : k < l => p[k] < p[l]
     /\ p = <<>> => \A i \in Mine : venue[i].time < task.start => Covered(i)
     /\ p # <<>> => \A i \in Mine :
                      \/ i < p[1] /\ Covered(i)
                      \/ \E k \in DOMAIN p : p[k] = i
                      \/ \A k \in DOMAIN p : p[k] < i

\* A committed event has its fact, and a committed fill one entry on a row.
Once ==
  /\ \A i \in 1..MaxEvents : facts[i] = IF i \in inbox THEN 1 ELSE 0
  /\ \A b \in booked : b[1] \in inbox /\ venue[b[1]].kind = "fill"
  /\ \A b, c \in booked : b[1] = c[1] => b = c
  /\ \A i \in inbox : venue[i].kind = "fill" => \E w \in Which : <<i, w>> \in booked

BookedOn(o, w) == {i \in inbox : venue[i].order = o /\ <<i, w>> \in booked}

\* A row without the venue's id has no fills; a missing row is empty.
RowSane(o, w) ==
  LET r == rows[o][w]
      n == Cardinality(BookedOn(o, w))
  IN /\ r.oid => Exists(r)
     /\ ~Exists(r) => r = NoRow
     /\ Exists(r) => r.size > 0
     /\ ~r.oid => BookedOn(o, w) = {} /\ r.filled = 0
     /\ r.filled <= r.size
     /\ r.filled <= n /\ (n > 0 => r.filled > 0)

RowsSane ==
  \A o \in Orders :
    /\ ~(rows[o].own.oid /\ rows[o].synthetic.oid)
    /\ ~rows[o].synthetic.oid => rows[o].synthetic = NoRow
    /\ \A w \in Which : RowSane(o, w)

IInv == Types /\ Ordered /\ Channel /\ CursorCovers /\ SegmentSound /\ Once /\ RowsSane

-----------------------------------------------------------------------------
(* What the steps do to the venue, the channel and the store *)

LEMMA StreamOfType ==
  ASSUME NEW k \in {"fill", "order", "funding"}
  PROVE  StreamOf(k) \in Streams
BY DEF StreamOf, Streams

LEMMA VenueGrows ==
  ASSUME BoundsAreNumbers, Types, VenueEvent
  PROVE  \E e \in Events :
           /\ venue' = Append(venue, e) /\ venue' \in Seq(Events) /\ e.time = now
           /\ Len(venue') = Len(venue) + 1 /\ Len(venue') <= MaxEvents
           /\ Ids \subseteq Ids' /\ \A i \in Ids' : i \in Ids \/ i = Len(venue) + 1
           /\ \A i \in Ids : venue'[i] = venue[i]
           /\ venue'[Len(venue) + 1] = e
<1>1. PICK k \in {"fill", "order", "funding"}, o \in Orders, c \in BOOLEAN,
           v \in {"buy", "sell", "Cancelled", "paid"} :
         /\ venue' = Append(venue, [kind |-> k, order |-> o, val |-> v,
                                    cloid |-> c, time |-> now])
         /\ k = "order" => v = "Cancelled"
  BY DEF VenueEvent
<1>2. PICK e : e = [kind |-> k, order |-> o, val |-> v, cloid |-> c, time |-> now]
  OBVIOUS
<1>3. e \in Events /\ e.time = now
  BY <1>1, <1>2 DEF Events, Types
<1>4. Len(venue) < MaxEvents
  BY DEF VenueEvent
<1>5. venue \in Seq(Events) /\ venue' = Append(venue, e)
  BY <1>1, <1>2 DEF Types
<1>6. /\ venue' \in Seq(Events) /\ Len(venue') = Len(venue) + 1 /\ Len(venue) \in Nat
      /\ \A i \in 1..Len(venue) : venue'[i] = venue[i]
      /\ venue'[Len(venue) + 1] = e
  BY <1>3, <1>5, AppendProperties
<1> QED
  BY <1>3, <1>4, <1>5, <1>6 DEF Ids, BoundsAreNumbers

\* A step that leaves venue and store alone, or only adds an event, leaves the
\* books as they are.
LEMMA StoreKept ==
  ASSUME Types, Once, RowsSane, UNCHANGED durable,
         \A i \in Ids : i \in Ids' /\ venue'[i] = venue[i]
  PROVE  Once' /\ RowsSane'
<1>1. inbox \subseteq Ids /\ inbox' = inbox /\ \A i \in inbox : venue'[i] = venue[i]
  BY DEF Types, durable
<1>2. Once'
  BY <1>1 DEF Once, durable
<1>3. \A o \in Orders, w \in Which : BookedOn(o, w)' = BookedOn(o, w)
  BY <1>1 DEF BookedOn, durable
<1>4. RowsSane'
  BY <1>3 DEF RowsSane, RowSane, Exists, durable
<1> QED
  BY <1>2, <1>4

LEMMA RowUpdate ==
  ASSUME NEW r \in OrderRows, NEW n \in 0..OrderSize, NEW s \in Statuses
  PROVE  /\ [r EXCEPT !.size = n, !.status = s] \in OrderRows
         /\ [r EXCEPT !.filled = n, !.status = s] \in OrderRows
         /\ [r EXCEPT !.oid = TRUE] \in OrderRows
<1>1. [r EXCEPT !.size = n] \in OrderRows /\ [r EXCEPT !.filled = n] \in OrderRows
  BY DEF OrderRows
<1>2. PICK a : a = [r EXCEPT !.size = n]
  OBVIOUS
<1>3. PICK b : b = [r EXCEPT !.filled = n]
  OBVIOUS
<1>4. a \in OrderRows /\ b \in OrderRows
  BY <1>1, <1>2, <1>3
<1>5. [a EXCEPT !.status = s] \in OrderRows /\ [b EXCEPT !.status = s] \in OrderRows
  BY <1>4 DEF OrderRows
<1>6. [r EXCEPT !.size = n, !.status = s] = [a EXCEPT !.status = s]
  BY <1>2
<1>7. [r EXCEPT !.filled = n, !.status = s] = [b EXCEPT !.status = s]
  BY <1>3
<1> QED
  BY <1>5, <1>6, <1>7 DEF OrderRows

LEMMA CoveredStays ==
  ASSUME inbox \subseteq inbox', lost \subseteq lost', live => live', NEW i, Covered(i)
  PROVE  Covered(i)'
BY DEF Covered

-----------------------------------------------------------------------------
(* The initial state *)

LEMMA InitIInv ==
  ASSUME BoundsAreNumbers, IngestInit
  PROVE  IInv
<1>0. venue = <<>> /\ queue = <<>> /\ Ids = {} /\ inbox = {} /\ booked = {} /\ lost = {}
  BY DEF IngestInit, Ids
<1>1. Types
  <2>1. NoRow \in OrderRows /\ [NoRow EXCEPT !.size = OrderSize, !.status = "Submitted"] \in OrderRows
    <3>1. NoRow \in OrderRows
      BY DEF NoRow, OrderRows, OrderSize
    <3>2. "Submitted" \in Statuses
      BY DEF Statuses
    <3>3. OrderSize \in 0..OrderSize
      BY DEF OrderSize
    <3> QED
      BY <3>1, <3>2, <3>3, RowUpdate
  <2>2. rows \in [Orders -> [own : OrderRows, synthetic : OrderRows]]
    BY <2>1 DEF IngestInit
  <2>3. tracker.applied = {} /\ DOMAIN tracker = {"pos", "applied", "funding"}
    BY DEF IngestInit, EmptyTracker
  <2>4. task \in [stream : Streams \cup {"none"}, start : 0..now, end : Int,
                  page : Seq(Nat), full : BOOLEAN]
    BY DEF IngestInit, Idle, Segment
  <2>5. cursor \in [Streams -> 0..now] /\ facts \in [1..MaxEvents -> Nat] /\ now \in 0..MaxTime
        /\ faults \in 0..MaxFaults /\ live \in BOOLEAN
    <3>1. now = 0 /\ cursor = [s \in Streams |-> 0] /\ facts = [i \in 1..MaxEvents |-> 0]
          /\ faults = 0 /\ live = FALSE
      BY DEF IngestInit
    <3>2. cursor \in [Streams -> 0..now]
      BY <3>1
    <3>3. facts \in [1..MaxEvents -> Nat]
      BY <3>1
    <3>4. now \in 0..MaxTime /\ faults \in 0..MaxFaults
      BY <3>1 DEF BoundsAreNumbers
    <3> QED
      BY <3>1, <3>2, <3>3, <3>4
  <2>6. venue \in Seq(Events) /\ Len(venue) <= MaxEvents /\ queue \in Seq(Nat) /\ Len(queue) <= QueueCap
    BY <1>0 DEF BoundsAreNumbers
  <2> QED
    BY <1>0, <2>2, <2>3, <2>4, <2>5, <2>6 DEF Types
<1>2. Ordered /\ Channel /\ CursorCovers /\ SegmentSound
  <2>1. task.page = <<>>
    BY DEF IngestInit, Idle, Segment
  <2> QED
    BY <1>0, <2>1 DEF Ordered, Channel, CursorCovers, SegmentSound
<1>3. Once
  BY <1>0 DEF Once, IngestInit
<1>4. RowsSane
  <2> SUFFICES ASSUME NEW o \in Orders
               PROVE  /\ ~(rows[o].own.oid /\ rows[o].synthetic.oid)
                      /\ ~rows[o].synthetic.oid => rows[o].synthetic = NoRow
                      /\ \A w \in Which : RowSane(o, w)
    BY DEF RowsSane
  <2>1. /\ rows[o].synthetic = NoRow
        /\ rows[o].own = NoRow \/ rows[o].own = [NoRow EXCEPT !.size = OrderSize, !.status = "Submitted"]
    BY DEF IngestInit
  <2>2. \A w \in Which : BookedOn(o, w) = {}
    BY <1>0 DEF BookedOn
  <2>3. Cardinality({}) = 0
    BY FS_EmptySet
  <2>4. ASSUME NEW w \in Which PROVE RowSane(o, w)
    <3>1. PICK r : r = rows[o][w]
      OBVIOUS
    <3>2. r = NoRow \/ r = [NoRow EXCEPT !.size = OrderSize, !.status = "Submitted"]
      BY <2>1, <3>1 DEF Which
    <3>3. /\ ~r.oid /\ r.filled = 0 /\ r.size >= 0
          /\ Exists(r) => r.size > 0
          /\ ~Exists(r) => r = NoRow
      <4>1. CASE r = NoRow
        BY <4>1 DEF Exists, NoRow
      <4>2. CASE r = [NoRow EXCEPT !.size = OrderSize, !.status = "Submitted"]
        <5>1. ~r.oid /\ r.size = 2 /\ r.filled = 0 /\ r.status = "Submitted"
          BY <4>2 DEF NoRow, OrderSize
        <5> QED
          BY <5>1 DEF Exists, NoStatus
      <4> QED
        BY <3>2, <4>1, <4>2
    <3> QED
      BY <2>2, <2>3, <3>1, <3>3 DEF RowSane
  <2> QED
    BY <2>1, <2>4 DEF NoRow
<1> QED
  BY <1>1, <1>2, <1>3, <1>4 DEF IInv

-----------------------------------------------------------------------------
(* One commit *)

LEMMA RowTypes ==
  ASSUME Types, NEW o \in Orders, NEW w \in Which
  PROVE  rows[o][w] \in OrderRows
BY DEF Types, Which

LEMMA FoundRow ==
  ASSUME NEW r \in OrderRows, NEW n \in 1..OrderSize,
         Exists(r) => r.size > 0, ~Exists(r) => r = NoRow, r.filled <= r.size
  PROVE  /\ Found(r, n) \in OrderRows /\ Found(r, n).oid
         /\ Found(r, n).status \in Statuses /\ Found(r, n).size > 0
         /\ Found(r, n).filled = r.filled /\ r.filled <= Found(r, n).size
<1>1. CASE Exists(r)
  <2>1. r.status \in Statuses
    BY <1>1 DEF Exists, OrderRows
  <2>2. PICK q : q = [r EXCEPT !.oid = TRUE]
    OBVIOUS
  <2>3. q.oid /\ q.size = r.size /\ q.filled = r.filled /\ q.status = r.status
    BY <2>2 DEF OrderRows
  <2>4. NoStatus \notin Statuses /\ "Submitted" \in Statuses /\ 0 \in 0..OrderSize
    BY DEF NoStatus, Statuses, OrderSize
  <2>5. q \in OrderRows
    BY <2>2, <2>4, RowUpdate
  <2>6. Found(r, n) = q
    BY <1>1, <2>2 DEF Found
  <2> QED
    BY <1>1, <2>1, <2>3, <2>5, <2>6
<1>2. CASE ~Exists(r)
  <2>1. r.filled = 0
    BY <1>2 DEF NoRow
  <2>2. "Acknowledged" \in Statuses
    BY DEF Statuses
  <2> QED
    BY <1>2, <2>1, <2>2 DEF Found, OrderRows, OrderSize
<1> QED
  BY <1>1, <1>2

LEMMA RowOfType ==
  ASSUME NEW o, NEW known \in BOOLEAN
  PROVE  /\ RowOf(o, known) \in Which
         /\ RowOf(o, known) = "own" => ~rows[o].synthetic.oid
         /\ RowOf(o, known) = "synthetic" => rows[o].synthetic.oid \/ (~known /\ ~rows[o].own.oid)
         /\ rows[o].synthetic.oid => RowOf(o, known) = "synthetic"
BY DEF RowOf, Which

\* What a committed fill leaves of its row.
LEMMA FillRow ==
  ASSUME Types, RowsSane, NEW i \in Ids, NEW found \in BOOLEAN, CommitFill(i, found)
  PROVE  \E w \in Which, q \in OrderRows :
           /\ w = RowOf(venue[i].order, venue[i].cloid \/ found)
           /\ rows' = [rows EXCEPT ![venue[i].order][w] = q]
           /\ booked' = booked \cup {<<i, w>>}
           /\ q.oid /\ Exists(q) /\ q.size > 0 /\ q.filled <= q.size /\ q.filled > 0
           /\ q.filled <= rows[venue[i].order][w].filled + 1
<1>0. venue[i] \in Events /\ venue[i].order \in Orders /\ venue[i].cloid \in BOOLEAN
  BY DEF Types, Ids, Events
<1>1. PICK o \in Orders : o = venue[i].order
  BY <1>0
<1>2. PICK w \in Which : w = RowOf(o, venue[i].cloid \/ found)
  BY <1>0, RowOfType
<1>3. PICK n \in 1..OrderSize : n = IF found THEN OrderSize ELSE 1
  BY DEF OrderSize
<1>4. PICK r : r = Found(rows[o][w], n)
  OBVIOUS
<1>5. rows[o][w] \in OrderRows /\ RowSane(o, w)
  BY RowTypes DEF RowsSane
<1>6. /\ r \in OrderRows /\ r.oid /\ r.size > 0 /\ r.status \in Statuses
      /\ r.filled = rows[o][w].filled /\ r.filled <= r.size
  BY <1>4, <1>5, FoundRow DEF RowSane
<1>7. r.filled \in 0..OrderSize /\ r.size \in 0..OrderSize /\ OrderSize \in Nat
  BY <1>6 DEF OrderRows, OrderSize
<1>8. PICK total : total = IF r.filled + 1 < r.size THEN r.filled + 1 ELSE r.size
  OBVIOUS
<1>9. total \in 0..OrderSize /\ total > 0 /\ total <= r.size /\ total <= r.filled + 1
  BY <1>6, <1>7, <1>8
<1>10. PICK st \in Statuses : st = MergeFill(r.status, total, r.size)
  BY <1>6 DEF MergeFill, Statuses
<1>11. PICK q : q = [r EXCEPT !.filled = total, !.status = st]
  OBVIOUS
<1>12. q \in OrderRows
  BY <1>6, <1>9, <1>11, RowUpdate
<1>13. q.oid = r.oid /\ q.size = r.size /\ q.filled = total /\ q.status = st
  BY <1>6, <1>11, ZenonT(30) DEF OrderRows
<1>14. Exists(q)
  BY <1>13 DEF Exists, Statuses, NoStatus
<1>15. /\ rows' = [rows EXCEPT ![o][w] = q]
       /\ booked' = booked \cup {<<i, w>>}
  BY <1>1, <1>2, <1>3, <1>4, <1>8, <1>10, <1>11, ZenonT(30) DEF CommitFill
<1>16. q.oid /\ q.size > 0 /\ q.filled <= q.size /\ q.filled > 0 /\ q.filled <= rows[o][w].filled + 1
  BY <1>6, <1>9, <1>13
<1> QED
  BY <1>1, <1>2, <1>12, <1>14, <1>15, <1>16

\* What a committed order update leaves of its row.
LEMMA OrderRow ==
  ASSUME Types, RowsSane, NEW i \in Ids, venue[i].kind = "order", CommitOrder(i)
  PROVE  \E w \in Which, q \in OrderRows :
           /\ w = RowOf(venue[i].order, venue[i].cloid)
           /\ rows' = [rows EXCEPT ![venue[i].order] =
                         IF venue[i].cloid THEN [own |-> q, synthetic |-> NoRow]
                         ELSE [@ EXCEPT ![w] = q]]
           /\ q.oid /\ Exists(q) /\ q.size > 0 /\ q.filled <= q.size
           /\ q.filled = rows[venue[i].order][w].filled
<1>0. /\ venue[i] \in Events /\ venue[i].order \in Orders /\ venue[i].cloid \in BOOLEAN
      /\ venue[i].val = "Cancelled"
  BY DEF Types, Ids, Events
<1>1. PICK o \in Orders : o = venue[i].order
  BY <1>0
<1>2. PICK w \in Which : w = RowOf(o, venue[i].cloid)
  BY <1>0, RowOfType
<1>3. PICK r : r = Found(rows[o][w], OrderSize)
  OBVIOUS
<1>4. rows[o][w] \in OrderRows /\ RowSane(o, w)
  BY RowTypes DEF RowsSane
<1>5. OrderSize \in 1..OrderSize /\ OrderSize \in 0..OrderSize
  BY DEF OrderSize
<1>6. /\ r \in OrderRows /\ r.oid /\ r.size > 0 /\ r.status \in Statuses
      /\ r.filled = rows[o][w].filled /\ r.filled <= r.size
  BY <1>3, <1>4, <1>5, FoundRow DEF RowSane
<1>7. PICK st : st = MergeVenue(r.status, venue[i].val)
  OBVIOUS
<1>8. st \in Statuses
  BY <1>0, <1>6, <1>7 DEF MergeVenue, Statuses, Terminal
<1>9. PICK q : q = [r EXCEPT !.size = OrderSize, !.status = st]
  OBVIOUS
<1>10. q \in OrderRows
  BY <1>5, <1>6, <1>8, <1>9, RowUpdate
<1>11. q.oid = r.oid /\ q.size = OrderSize /\ q.filled = r.filled /\ q.status = st
  BY <1>6, <1>9 DEF OrderRows
<1>12. Exists(q)
  BY <1>8, <1>11 DEF Exists, Statuses, NoStatus
<1>13. q.filled <= q.size /\ q.size > 0
  BY <1>6, <1>11 DEF OrderRows, OrderSize
<1>14. rows' = [rows EXCEPT ![o] = IF venue[i].cloid THEN [own |-> q, synthetic |-> NoRow]
                                   ELSE [@ EXCEPT ![w] = q]]
  BY <1>1, <1>2, <1>3, <1>7, <1>9 DEF CommitOrder
<1> QED
  BY <1>1, <1>2, <1>6, <1>10, <1>11, <1>12, <1>13, <1>14

LEMMA BookedFinite ==
  ASSUME Types, NEW o, NEW w
  PROVE  IsFiniteSet(BookedOn(o, w)) /\ Cardinality(BookedOn(o, w)) \in Nat
<1>1. IsFiniteSet(Ids)
  BY FS_Interval DEF Ids, Types
<1>2. BookedOn(o, w) \subseteq Ids
  BY DEF BookedOn, Types
<1> QED
  BY <1>1, <1>2, FS_Subset, FS_CardinalityType

\* The fill is booked once more, on the row that took it.
LEMMA FillBooks ==
  ASSUME BoundsAreNumbers, Types, Once, RowsSane, NEW i \in Ids, i \notin inbox, NEW found \in BOOLEAN,
         CommitFill(i, found), venue[i].kind = "fill",
         inbox' = inbox \cup {i}, facts' = [facts EXCEPT ![i] = @ + 1], venue' = venue
  PROVE  Once' /\ RowsSane'
<1>1. PICK w \in Which, q \in OrderRows :
        /\ w = RowOf(venue[i].order, venue[i].cloid \/ found)
        /\ rows' = [rows EXCEPT ![venue[i].order][w] = q]
        /\ booked' = booked \cup {<<i, w>>}
        /\ q.oid /\ Exists(q) /\ q.size > 0 /\ q.filled <= q.size /\ q.filled > 0
        /\ q.filled <= rows[venue[i].order][w].filled + 1
  BY FillRow
<1>2. PICK o \in Orders : o = venue[i].order
  BY DEF Types, Ids, Events
<1>3. i \in 1..MaxEvents /\ venue[i].cloid \in BOOLEAN
  BY SMTT(30) DEF Types, Ids, Events, BoundsAreNumbers
<1>4. \A v \in Which : <<i, v>> \notin booked
  BY DEF Once
<1>5. Once'
  <2>1. \A j \in 1..MaxEvents : facts'[j] = IF j \in inbox' THEN 1 ELSE 0
    <3>1. facts \in [1..MaxEvents -> Nat]
      BY DEF Types
    <3>2. \A j \in 1..MaxEvents : facts[j] = IF j \in inbox THEN 1 ELSE 0
      BY DEF Once
    <3> QED
      BY <1>3, <3>1, <3>2
  <2>2. \A b \in booked' : b[1] \in inbox' /\ venue'[b[1]].kind = "fill"
    BY <1>1 DEF Once
  <2>3. \A b, c \in booked' : b[1] = c[1] => b = c
    BY <1>1 DEF Once
  <2>4. \A j \in inbox' : venue'[j].kind = "fill" => \E v \in Which : <<j, v>> \in booked'
    BY <1>1 DEF Once
  <2> QED
    BY <2>1, <2>2, <2>3, <2>4 DEF Once
<1>6. \A p \in Orders, v \in Which :
        rows'[p][v] = IF p = o /\ v = w THEN q ELSE rows[p][v]
  BY <1>1, <1>2 DEF Types, Which
<1>7. \A p \in Orders, v \in Which :
        BookedOn(p, v)' = IF p = o /\ v = w THEN BookedOn(p, v) \cup {i} ELSE BookedOn(p, v)
  BY <1>1, <1>2, <1>4 DEF BookedOn
<1>8. i \notin BookedOn(o, w)
  BY DEF BookedOn
<1>9. Cardinality(BookedOn(o, w)') = Cardinality(BookedOn(o, w)) + 1
  BY <1>7, <1>8, BookedFinite, FS_AddElement
<1>10. \A p \in Orders, v \in Which : RowSane(p, v)'
  <2> TAKE p \in Orders, v \in Which
  <2>1. RowSane(p, v) /\ RowSane(o, w) /\ rows[o][w] \in OrderRows
    BY RowTypes DEF RowsSane
  <2>2. CASE p = o /\ v = w
    <3>1. rows'[p][v] = q /\ rows[o][w].filled <= Cardinality(BookedOn(o, w))
      BY <1>6, <2>1, <2>2 DEF RowSane
    <3>2. q.filled <= Cardinality(BookedOn(o, w)) + 1
      BY <1>1, <1>2, <2>1, <3>1, BookedFinite DEF OrderRows
    <3> QED
      BY <1>1, <1>9, <2>2, <3>1, <3>2 DEF RowSane, Exists
  <2>3. CASE ~(p = o /\ v = w)
    BY <1>6, <1>7, <2>1, <2>3 DEF RowSane, Exists
  <2> QED
    BY <2>2, <2>3
<1>11. \A p \in Orders : /\ ~(rows'[p].own.oid /\ rows'[p].synthetic.oid)
                         /\ ~rows'[p].synthetic.oid => rows'[p].synthetic = NoRow
  <2> TAKE p \in Orders
  <2>1. /\ ~(rows[p].own.oid /\ rows[p].synthetic.oid)
        /\ ~rows[p].synthetic.oid => rows[p].synthetic = NoRow
    BY DEF RowsSane
  <2>2. CASE p = o /\ w = "own"
    <3>1. ~rows[o].synthetic.oid
      BY <1>1, <1>2, <1>3, <2>2, RowOfType
    <3> QED
      BY <1>6, <2>1, <2>2, <3>1 DEF Which
  <2>3. CASE p = o /\ w = "synthetic"
    <3>1. ~rows[o].own.oid
      BY <1>1, <1>2, <1>3, <2>1, <2>3, RowOfType
    <3> QED
      BY <1>1, <1>6, <2>3, <3>1 DEF Which
  <2>4. CASE p # o
    BY <1>6, <2>1, <2>4 DEF Which
  <2> QED
    BY <2>2, <2>3, <2>4 DEF Which
<1> QED
  BY <1>5, <1>10, <1>11 DEF RowsSane

\* The bookings stay, and follow their order to the row of its client id.
LEMMA OrderBooks ==
  ASSUME BoundsAreNumbers, Types, Once, RowsSane, NEW i \in Ids, i \notin inbox,
         CommitOrder(i), venue[i].kind = "order",
         inbox' = inbox \cup {i}, facts' = [facts EXCEPT ![i] = @ + 1], venue' = venue
  PROVE  Once' /\ RowsSane'
<1>1. PICK w \in Which, q \in OrderRows :
        /\ w = RowOf(venue[i].order, venue[i].cloid)
        /\ rows' = [rows EXCEPT ![venue[i].order] =
                      IF venue[i].cloid THEN [own |-> q, synthetic |-> NoRow]
                      ELSE [@ EXCEPT ![w] = q]]
        /\ q.oid /\ Exists(q) /\ q.size > 0 /\ q.filled <= q.size
        /\ q.filled = rows[venue[i].order][w].filled
  BY OrderRow
<1>2. PICK o \in Orders : o = venue[i].order
  BY DEF Types, Ids, Events
<1>3. i \in 1..MaxEvents /\ venue[i].cloid \in BOOLEAN
  BY SMTT(30) DEF Types, Ids, Events, BoundsAreNumbers
<1>f. \A j \in 1..MaxEvents : facts'[j] = IF j \in inbox' THEN 1 ELSE 0
  BY <1>3 DEF Once, Types
<1>s. \A p \in Orders : /\ ~(rows[p].own.oid /\ rows[p].synthetic.oid)
                        /\ ~rows[p].synthetic.oid => rows[p].synthetic = NoRow
                        /\ RowSane(p, "own") /\ RowSane(p, "synthetic")
                        /\ RowSane(p, w)
  BY DEF RowsSane, Which
<1>t. rows[o][w] \in OrderRows /\ rows[o].own \in OrderRows /\ rows[o].synthetic \in OrderRows
  BY RowTypes DEF Types
<1>n. ~NoRow.oid /\ NoRow.filled = 0 /\ NoRow.size = 0 /\ ~Exists(NoRow) /\ Cardinality({}) = 0
  BY FS_EmptySet DEF NoRow, Exists
<1>4. CASE ~(venue[i].cloid /\ w = "synthetic")
  <2>1. booked' = booked
    BY <1>1, <1>4 DEF CommitOrder
  <2>2. Once'
    BY <1>f, <2>1 DEF Once
  <2>3. \A p \in Orders, v \in Which : BookedOn(p, v)' = BookedOn(p, v)
    BY <2>1 DEF BookedOn, Once
  <2>4. \A p \in Orders, v \in Which :
          rows'[p][v] = IF p = o /\ v = w THEN q ELSE rows[p][v]
    <3>1. CASE ~venue[i].cloid
      BY <1>1, <1>2, <3>1 DEF Types, Which
    <3>2. CASE venue[i].cloid
      <4>1. w = "own" /\ ~rows[o].synthetic.oid
        BY <1>1, <1>2, <1>4, <3>2, RowOfType DEF Which
      <4>2. rows[o].synthetic = NoRow
        BY <4>1, <1>s
      <4>3. /\ \A p \in Orders : p # o => rows'[p] = rows[p]
            /\ rows'[o] = [own |-> q, synthetic |-> NoRow]
        BY <1>1, <1>2, <3>2 DEF Types
      <4>4. rows'[o]["own"] = q /\ rows'[o]["synthetic"] = rows[o]["synthetic"]
        BY <4>2, <4>3
      <4> QED
        BY <4>1, <4>3, <4>4 DEF Which
    <3> QED
      BY <3>1, <3>2
  <2>5. \A p \in Orders, v \in Which : RowSane(p, v)'
    <3> TAKE p \in Orders, v \in Which
    <3>1. RowSane(p, v) /\ RowSane(o, w)
      BY DEF RowsSane
    <3>2. CASE p = o /\ v = w
      <4>1. rows'[p][v] = q /\ BookedOn(p, v)' = BookedOn(o, w)
        BY <2>3, <2>4, <3>2
      <4>2. q.filled = rows[o][w].filled
        BY <1>1, <1>2
      <4>3. q.filled <= Cardinality(BookedOn(o, w)) /\ (Cardinality(BookedOn(o, w)) > 0 => q.filled > 0)
        BY <3>1, <4>2 DEF RowSane
      <4> QED
        BY <1>1, <4>1, <4>3 DEF RowSane, Exists
    <3>3. CASE ~(p = o /\ v = w)
      BY <2>3, <2>4, <3>1, <3>3 DEF RowSane, Exists
    <3> QED
      BY <3>2, <3>3
  <2>6. \A p \in Orders : /\ ~(rows'[p].own.oid /\ rows'[p].synthetic.oid)
                          /\ ~rows'[p].synthetic.oid => rows'[p].synthetic = NoRow
    <3> TAKE p \in Orders
    <3>1. CASE p = o /\ w = "own"
      <4>1. ~rows[o].synthetic.oid
        BY <1>1, <1>2, <1>3, <3>1, RowOfType
      <4> QED
        BY <1>s, <2>4, <3>1, <4>1 DEF Which
    <3>2. CASE p = o /\ w = "synthetic"
      <4>1. ~rows[o].own.oid
        BY <1>1, <1>2, <1>3, <1>s, <3>2, RowOfType
      <4> QED
        BY <1>1, <2>4, <3>2, <4>1 DEF Which
    <3>3. CASE p # o
      BY <1>s, <2>4, <3>3 DEF Which
    <3> QED
      BY <3>1, <3>2, <3>3 DEF Which
  <2> QED
    BY <2>2, <2>5, <2>6 DEF RowsSane
<1>5. CASE venue[i].cloid /\ w = "synthetic"
  <2>1. booked' = {<<b[1], IF venue[b[1]].order = o THEN "own" ELSE b[2]>> : b \in booked}
    BY <1>1, <1>2, <1>5, ZenonT(30) DEF CommitOrder
  <2>2. rows[o].synthetic.oid /\ ~rows[o].own.oid /\ ~Exists(rows[o].own)
    <3>1. rows[o].synthetic.oid
      BY <1>1, <1>2, <1>5, RowOfType
    <3>2. RowOf(o, TRUE) = "synthetic"
      BY <3>1 DEF RowOf
    <3>3. ~Exists(rows[o].own)
      BY <1>2, <1>5, <3>2 DEF CommitOrder, Collides
    <3> QED
      BY <1>s, <3>1, <3>3
  <2>3. BookedOn(o, "own") = {}
    BY <1>s, <2>2 DEF RowSane
  <2>4. \A b \in booked : b = <<b[1], b[2]>> /\ b[2] \in Which /\ b[1] \in inbox
    BY DEF Types, Once
  <2>5. Once'
    <3>1. \A b \in booked' : b[1] \in inbox' /\ venue'[b[1]].kind = "fill"
      BY <2>1 DEF Once
    <3>2. \A b, c \in booked' : b[1] = c[1] => b = c
      BY <2>1 DEF Once
    <3>3. \A j \in inbox' : venue'[j].kind = "fill" => \E v \in Which : <<j, v>> \in booked'
      <4> SUFFICES ASSUME NEW j \in inbox', venue'[j].kind = "fill"
                   PROVE  \E v \in Which : <<j, v>> \in booked'
        OBVIOUS
      <4>1. PICK v \in Which : <<j, v>> \in booked
        BY DEF Once
      <4>2. PICK u \in Which : u = IF venue[j].order = o THEN "own" ELSE v
        BY DEF Which
      <4>3. <<j, u>> \in booked'
        BY <2>1, <4>1, <4>2
      <4> QED
        BY <4>3
    <3> QED
      BY <1>f, <3>1, <3>2, <3>3 DEF Once
  <2>6. \A p \in Orders, v \in Which :
          BookedOn(p, v)' = IF p # o THEN BookedOn(p, v)
                            ELSE IF v = "own" THEN BookedOn(o, "synthetic") ELSE {}
    <3>1. \A j, v : <<j, v>> \in booked' <=>
            \E u \in Which : /\ <<j, u>> \in booked
                             /\ v = IF venue[j].order = o THEN "own" ELSE u
      BY <2>1, <2>4
    <3>2. \A j, u : <<j, u>> \in booked => j \in inbox /\ u \in Which
      BY <2>4
    <3>3. \A j : venue[j].order = o => <<j, "own">> \notin booked
      BY <2>3, <3>2 DEF BookedOn
    <3>4. \A p \in Orders, v \in Which :
            BookedOn(p, v)' = {j \in inbox : venue[j].order = p /\ <<j, v>> \in booked'}
      BY <3>1, <3>2 DEF BookedOn
    <3> TAKE p \in Orders, v \in Which
    <3>5. CASE p # o
      BY <3>1, <3>2, <3>4, <3>5 DEF BookedOn
    <3>6. CASE p = o /\ v = "own"
      BY <3>1, <3>2, <3>3, <3>4, <3>6 DEF BookedOn, Which
    <3>7. CASE p = o /\ v = "synthetic"
      <4>1. ASSUME NEW j, venue[j].order = o, <<j, "synthetic">> \in booked' PROVE FALSE
        <5>1. PICK u \in Which : "synthetic" = IF venue[j].order = o THEN "own" ELSE u
          BY <3>1, <4>1
        <5> QED
          BY <4>1, <5>1
      <4> QED
        BY <3>4, <3>7, <4>1
    <3> QED
      BY <3>5, <3>6, <3>7 DEF Which
  <2>7. \A p \in Orders, v \in Which :
          rows'[p][v] = IF p # o THEN rows[p][v] ELSE IF v = "own" THEN q ELSE NoRow
    BY <1>1, <1>2, <1>5 DEF Types, Which
  <2>8. \A p \in Orders, v \in Which : RowSane(p, v)'
    <3> TAKE p \in Orders, v \in Which
    <3>1. RowSane(p, v) /\ RowSane(o, "synthetic")
      BY DEF RowsSane, Which
    <3>2. CASE p # o
      BY <2>6, <2>7, <3>1, <3>2 DEF RowSane, Exists
    <3>3. CASE p = o /\ v = "own"
      <4>1. BookedOn(p, v)' = BookedOn(o, "synthetic") /\ rows'[p][v] = q
        BY <2>6, <2>7, <3>3
      <4>2. q.filled = rows[o]["synthetic"].filled /\ rows[o]["synthetic"].oid
        BY <1>1, <1>2, <1>5, <2>2
      <4> QED
        BY <1>1, <3>1, <4>1, <4>2 DEF RowSane, Exists
    <3>4. CASE p = o /\ v = "synthetic"
      <4>1. BookedOn(p, v)' = {} /\ rows'[p][v] = NoRow
        BY <2>6, <2>7, <3>4
      <4> QED
        BY <1>n, <4>1 DEF RowSane, Exists
    <3> QED
      BY <3>2, <3>3, <3>4 DEF Which
  <2>9. \A p \in Orders : /\ ~(rows'[p].own.oid /\ rows'[p].synthetic.oid)
                          /\ ~rows'[p].synthetic.oid => rows'[p].synthetic = NoRow
    BY <1>n, <1>s, <2>7 DEF Which
  <2> QED
    BY <2>5, <2>8, <2>9 DEF RowsSane
<1> QED
  BY <1>4, <1>5

LEMMA CommitTypes ==
  ASSUME BoundsAreNumbers, Types, Ordered, RowsSane, NEW i \in Ids, NEW recovering,
         Commit(i, recovering), UNCHANGED outside
  PROVE  /\ inbox' = inbox \cup {i} /\ Ids' = Ids
         /\ cursor' \in [Streams -> 0..now]
         /\ \A s \in Streams :
              cursor'[s] = cursor[s] \/ (s = StreamOf(venue[i].kind) /\ cursor'[s] = venue[i].time)
         /\ rows' \in [Orders -> [own : OrderRows, synthetic : OrderRows]]
         /\ facts' \in [1..MaxEvents -> Nat]
         /\ booked' \subseteq Ids \X Which
         /\ DOMAIN tracker' = {"pos", "applied", "funding"} /\ tracker'.applied \subseteq inbox'
<1>1. inbox' = inbox \cup {i} /\ Ids' = Ids /\ facts' = [facts EXCEPT ![i] = @ + 1]
      /\ cursor' = AdvanceCursor(StreamOf(venue[i].kind), venue[i].time)
  BY DEF Commit, Ids, outside
<1>2. venue[i] \in Events
  BY DEF Types, Ids
<1>3. StreamOf(venue[i].kind) \in Streams /\ venue[i].time \in 0..now
  BY <1>2, StreamOfType DEF Events, Ordered, Types
<1>4. cursor' \in [Streams -> 0..now]
  BY <1>1, <1>3 DEF AdvanceCursor, Types
<1>5. \A s \in Streams :
        cursor'[s] = cursor[s] \/ (s = StreamOf(venue[i].kind) /\ cursor'[s] = venue[i].time)
  BY <1>1, <1>3 DEF AdvanceCursor, Types
<1>6. facts' \in [1..MaxEvents -> Nat]
  <2>1. facts \in [1..MaxEvents -> Nat] /\ i \in 1..MaxEvents
    BY DEF Types, Ids, BoundsAreNumbers
  <2> QED
    BY <1>1, <2>1
<1>7. NoRow \in OrderRows
  BY DEF NoRow, OrderRows, OrderSize
<1>8. CASE venue[i].kind = "fill"
  <2>1. PICK found \in BOOLEAN : CommitFill(i, found)
    BY <1>8 DEF Commit
  <2>2. PICK w \in Which, q \in OrderRows :
          /\ rows' = [rows EXCEPT ![venue[i].order][w] = q]
          /\ booked' = booked \cup {<<i, w>>}
    BY <2>1, FillRow
  <2>3. rows' \in [Orders -> [own : OrderRows, synthetic : OrderRows]]
    BY <2>2 DEF Types, Which
  <2>4. tracker' = ApplyFill(i)
    BY <2>1 DEF CommitFill
  <2>5. DOMAIN tracker' = {"pos", "applied", "funding"} /\ tracker'.applied \subseteq inbox'
    BY <1>1, <2>4 DEF ApplyFill, Types
  <2> QED
    BY <1>1, <1>4, <1>5, <1>6, <2>2, <2>3, <2>5 DEF Types
<1>9. CASE venue[i].kind = "order"
  <2>1. CommitOrder(i)
    BY <1>9 DEF Commit
  <2>2. PICK w \in Which, q \in OrderRows :
          /\ w = RowOf(venue[i].order, venue[i].cloid)
          /\ rows' = [rows EXCEPT ![venue[i].order] =
                        IF venue[i].cloid THEN [own |-> q, synthetic |-> NoRow]
                        ELSE [@ EXCEPT ![w] = q]]
          /\ q.oid /\ Exists(q) /\ q.size > 0 /\ q.filled <= q.size
          /\ q.filled = rows[venue[i].order][w].filled
    BY <1>9, <2>1, OrderRow
  <2>3. rows' \in [Orders -> [own : OrderRows, synthetic : OrderRows]]
    BY <1>7, <2>2, ZenonT(30) DEF Types, Which
  <2>4. booked' \subseteq Ids \X Which
    BY <2>1 DEF CommitOrder, Types, Which
  <2> QED
    BY <1>1, <1>4, <1>5, <1>6, <2>1, <2>3, <2>4 DEF Types, CommitOrder
<1>10. CASE venue[i].kind = "funding"
  <2>1. CommitFunding(i, recovering)
    BY <1>10 DEF Commit
  <2>2. DOMAIN tracker' = {"pos", "applied", "funding"} /\ tracker'.applied = tracker.applied
    BY <2>1 DEF CommitFunding, Types
  <2> QED
    BY <1>1, <1>4, <1>5, <1>6, <2>1, <2>2 DEF Types, CommitFunding
<1> QED
  BY <1>2, <1>8, <1>9, <1>10 DEF Events

LEMMA CommitBooks ==
  ASSUME BoundsAreNumbers, Types, Once, RowsSane, NEW i \in Ids, i \notin inbox,
         NEW recovering, Commit(i, recovering), UNCHANGED outside
  PROVE  Once' /\ RowsSane'
<1>1. inbox' = inbox \cup {i} /\ facts' = [facts EXCEPT ![i] = @ + 1] /\ venue' = venue
  BY DEF Commit, outside
<1>2. CASE venue[i].kind = "fill"
  BY <1>1, <1>2, FillBooks DEF Commit
<1>3. CASE venue[i].kind = "order"
  BY <1>1, <1>3, OrderBooks DEF Commit
<1>4. CASE venue[i].kind = "funding"
  <2>1. rows' = rows /\ booked' = booked
    BY <1>4 DEF Commit, CommitFunding
  <2>2. i \in 1..MaxEvents /\ facts \in [1..MaxEvents -> Nat]
    BY DEF Types, Ids, BoundsAreNumbers
  <2>3. \A j \in 1..MaxEvents : facts'[j] = IF j \in inbox' THEN 1 ELSE 0
    BY <1>1, <2>2 DEF Once
  <2>4. Once'
    BY <1>1, <1>4, <2>1, <2>3 DEF Once
  <2>5. \A o \in Orders, w \in Which : BookedOn(o, w)' = BookedOn(o, w)
    BY <1>1, <2>1 DEF BookedOn, Once
  <2> QED
    BY <2>1, <2>4, <2>5 DEF RowsSane, RowSane, Exists
<1>5. venue[i].kind \in {"fill", "order", "funding"}
  BY DEF Types, Ids, Events
<1> QED
  BY <1>2, <1>3, <1>4, <1>5

-----------------------------------------------------------------------------
(* Types of the whole state *)

TaskTypes(t, limit) ==
  t \in [stream : Streams \cup {"none"}, start : 0..limit, end : Int,
         page : Seq(Nat), full : BOOLEAN]

LEMMA SegmentTypes ==
  ASSUME BoundsAreNumbers, Types
  PROVE  /\ TaskTypes(Idle, now)
         /\ \A s \in Streams : \A e \in Int : TaskTypes(BeginSegment(s, e), now)
         /\ TaskTypes(NextSegment, now)
<1>0. now \in Nat /\ cursor \in [Streams -> 0..now] /\ task.end \in Int
  BY DEF Types, BoundsAreNumbers
<1>1. \A s \in Streams \cup {"none"}, a \in 0..now, e \in Int : TaskTypes(Segment(s, a, e), now)
  BY DEF TaskTypes, Segment
<1>2. \A s \in Streams : StartOf(s) \in 0..now
  BY <1>0 DEF StartOf
<1>3. TaskTypes(Idle, now)
  BY <1>0, <1>1 DEF Idle
<1>4. \A s \in Streams : \A e \in Int : TaskTypes(BeginSegment(s, e), now)
  BY <1>1, <1>2 DEF BeginSegment
<1> QED
  BY <1>0, <1>3, <1>4 DEF NextSegment, Streams

LEMMA AfterTypes ==
  ASSUME BoundsAreNumbers, Types, Ordered, task.page # <<>>, NEW i \in Ids
  PROVE  TaskTypes(After(i), now)
<1>1. TaskTypes([task EXCEPT !.page = Tail(@)], now)
  <2>1. task.page \in Seq(Nat) /\ TaskTypes(task, now)
    BY DEF Types, TaskTypes
  <2>2. Tail(task.page) \in Seq(Nat)
    BY <2>1, HeadTailProperties
  <2> QED
    BY <2>1, <2>2 DEF TaskTypes
<1>2. TaskTypes(Segment(task.stream, venue[i].time, task.end), now)
  <2>1. venue[i] \in Events
    BY DEF Types, Ids
  <2>2. venue[i].time \in 0..now
    BY <2>1 DEF Events, Ordered, Types, BoundsAreNumbers
  <2>3. task.stream \in Streams \cup {"none"} /\ task.end \in Int
    BY DEF Types
  <2> QED
    BY <2>2, <2>3 DEF TaskTypes, Segment
<1> QED
  BY <1>1, <1>2, SegmentTypes DEF After

\* The clock, the channel and the consumer's own steps.
LEMMA OutsideTypes ==
  ASSUME BoundsAreNumbers, Types, Channel, Tick \/ VenueEvent \/ RecoverStart \/ FetchPage \/ Restart
  PROVE  Types'
<1>1. CASE Tick
  <2>1. now' \in 0..MaxTime /\ now' > now /\ now \in Nat
    BY <1>1 DEF Tick, Types, BoundsAreNumbers
  <2>2. cursor \in [Streams -> 0..now']
    BY <2>1 DEF Types
  <2>3. TaskTypes(task, now')
    BY <2>1 DEF Types, TaskTypes
  <2> QED
    BY <1>1, <2>1, <2>2, <2>3 DEF Tick, Types, TaskTypes, durable, Ids
<1>2. CASE VenueEvent
  <2>1. /\ venue' \in Seq(Events) /\ Len(venue') <= MaxEvents /\ Ids \subseteq Ids'
        /\ Len(venue) + 1 \in Ids'
    BY <1>2, VenueGrows, SMTT(30) DEF Ids, Types
  <2>2. /\ queue' = queue \/ queue' = Enqueue(queue, Len(venue) + 1)
        /\ lost' = lost \/ lost' = lost \cup {Len(venue) + 1}
    BY <1>2 DEF VenueEvent
  <2>3. queue' \in Seq(Nat) /\ Len(queue') <= QueueCap
    <3>1. queue \in Seq(Nat) /\ Len(queue) <= QueueCap /\ Len(queue) \in Nat /\ Len(venue) + 1 \in Nat
      BY DEF Types
    <3>2. /\ Append(queue, Len(venue) + 1) \in Seq(Nat)
          /\ Len(Append(queue, Len(venue) + 1)) = Len(queue) + 1
      BY <3>1, AppendProperties
    <3> QED
      BY <2>2, <3>1, <3>2 DEF Enqueue, BoundsAreNumbers
  <2>4. UNCHANGED <<now, live, durable, tracker, task, faults>>
    BY <1>2 DEF VenueEvent
  <2> QED
    BY <2>1, <2>2, <2>3, <2>4 DEF Types, durable
<1>3. CASE RecoverStart
  <2>1. TaskTypes(task', now)
    BY <1>3, SegmentTypes DEF RecoverStart, Types, Streams
  <2> QED
    BY <1>3, <2>1 DEF RecoverStart, Types, TaskTypes, durable, outside, Ids
<1>4. CASE FetchPage
  <2>0. faults' = faults \/ (faults < MaxFaults /\ faults' = faults + 1)
    BY <1>4 DEF FetchPage
  <2>1. TaskTypes(task', now) /\ faults' \in 0..MaxFaults
    <3>0. faults' \in 0..MaxFaults
      BY <2>0 DEF Types, BoundsAreNumbers
    <3>1. CASE task' = NextSegment
      BY <3>0, <3>1, SegmentTypes
    <3>2. CASE \E n \in 0..PageCap : \E p \in [1..n -> Ids] :
                 task' = [task EXCEPT !.page = p, !.full = n = PageCap] /\ UNCHANGED faults
      <4>n. PICK n \in 0..PageCap : \E p \in [1..n -> Ids] :
              task' = [task EXCEPT !.page = p, !.full = n = PageCap] /\ UNCHANGED faults
        BY <3>2
      <4>1. PICK p \in [1..n -> Ids] :
              task' = [task EXCEPT !.page = p, !.full = n = PageCap] /\ UNCHANGED faults
        BY <4>n
      <4>2. p \in Seq(Nat)
        <5>1. n \in Nat /\ p \in [1..n -> Nat]
          BY <4>1 DEF Ids, BoundsAreNumbers
        <5> QED
          BY <5>1
      <4>3. PICK b \in BOOLEAN : b = (n = PageCap)
        OBVIOUS
      <4>4. PICK t : t = [task EXCEPT !.page = p]
        OBVIOUS
      <4>5. TaskTypes(t, now)
        BY <4>2, <4>4 DEF TaskTypes, Types
      <4>6. task' = [t EXCEPT !.full = b]
        BY <4>1, <4>3, <4>4
      <4> QED
        BY <3>0, <4>3, <4>5, <4>6 DEF TaskTypes
    <3> QED
      BY <1>4, <3>1, <3>2 DEF FetchPage
  <2> QED
    BY <1>4, <2>1 DEF FetchPage, Types, TaskTypes, durable, outside, Ids
<1>5. CASE Restart
  <2>1. TaskTypes(task', now)
    BY <1>5, SegmentTypes DEF Restart
  <2>2. lost' \subseteq Ids /\ queue' = <<>> /\ faults' \in 0..MaxFaults
    <3>1. lost \subseteq Ids /\ 1..Len(queue) = DOMAIN queue /\ faults \in 0..MaxFaults
      BY DEF Types
    <3> QED
      BY <1>5, <3>1 DEF Restart, Channel, BoundsAreNumbers
  <2>3. DOMAIN tracker' = {"pos", "applied", "funding"} /\ tracker'.applied = {}
    BY <1>5 DEF Restart, EmptyTracker
  <2>4. queue' \in Seq(Nat) /\ Len(queue') <= QueueCap
    BY <2>2 DEF BoundsAreNumbers
  <2>5. UNCHANGED <<now, venue, live, inbox, cursor, rows, pos, facts, booked>>
    BY <1>5 DEF Restart, durable, outside
  <2> QED
    BY <2>1, <2>2, <2>3, <2>4, <2>5 DEF Types, TaskTypes, Ids
<1> QED
  BY <1>1, <1>2, <1>3, <1>4, <1>5

\* Both readers of an event: it was there, is committed, or is refused.
LEMMA IngestTypes ==
  ASSUME BoundsAreNumbers, Types, Ordered, Channel, SegmentSound, RowsSane,
         Receive \/ RecoverEvent
  PROVE  Types'
<1>1. PICK i, recovering : i \in Ids /\ (Duplicate(i) \/ Commit(i, recovering) \/ Refused(i))
  <2>1. CASE Receive
    <3>1. 1 \in DOMAIN queue /\ Head(queue) = queue[1]
      BY <2>1 DEF Receive, Types
    <3> QED
      BY <2>1, <3>1 DEF Receive, Channel
  <2>2. CASE RecoverEvent
    <3>1. 1 \in DOMAIN task.page /\ Head(task.page) = task.page[1]
      BY <2>2 DEF RecoverEvent, Types
    <3> QED
      BY <2>2, <3>1 DEF RecoverEvent, SegmentSound
  <2> QED
    BY <2>1, <2>2
<1>2. UNCHANGED outside
  BY DEF Receive, RecoverEvent
<1>3. /\ inbox' \subseteq Ids /\ inbox \subseteq inbox' /\ cursor' \in [Streams -> 0..now]
      /\ rows' \in [Orders -> [own : OrderRows, synthetic : OrderRows]]
      /\ facts' \in [1..MaxEvents -> Nat]
      /\ booked' \subseteq Ids \X Which
      /\ DOMAIN tracker' = {"pos", "applied", "funding"} /\ tracker'.applied \subseteq inbox'
  <2>1. CASE Duplicate(i) \/ Refused(i)
    BY <2>1 DEF Duplicate, Refused, Types, durable
  <2>2. CASE Commit(i, recovering)
    BY <1>1, <1>2, <2>2, CommitTypes DEF Types
  <2> QED
    BY <1>1, <2>1, <2>2
<1>4. faults' \in 0..MaxFaults
  <2>1. faults' = faults \/ (faults < MaxFaults /\ faults' = faults + 1)
    BY DEF Receive, RecoverEvent, Refused
  <2> QED
    BY <2>1 DEF Types, BoundsAreNumbers
<1>5. /\ queue' \in Seq(Nat) /\ Len(queue') <= QueueCap
      /\ lost' \subseteq Ids /\ live' \in BOOLEAN
      /\ TaskTypes(task', now)
  <2>1. CASE Receive
    <3>1. queue # <<>> /\ queue' = Tail(queue) /\ queue \in Seq(Nat)
      BY <2>1 DEF Receive, Types
    <3>2. queue' \in Seq(Nat) /\ Len(queue') <= QueueCap
      BY <3>1, HeadTailProperties DEF Types, BoundsAreNumbers
    <3>3. Head(queue) \in Ids
      <4>1. 1 \in DOMAIN queue /\ Head(queue) = queue[1]
        BY <3>1
      <4> QED
        BY <4>1 DEF Channel
    <3>4. lost' \subseteq Ids /\ task' = task
      BY <2>1, <3>3 DEF Receive, Types
    <3>5. live' = live \/ live' = TRUE
      BY <2>1 DEF Receive
    <3> QED
      BY <3>2, <3>4, <3>5 DEF Types, TaskTypes
  <2>2. CASE RecoverEvent
    <3>1. task.page # <<>> /\ Head(task.page) \in Ids
      <4>1. task.page # <<>> /\ 1 \in DOMAIN task.page /\ Head(task.page) = task.page[1]
        BY <2>2 DEF RecoverEvent, Types
      <4> QED
        BY <4>1 DEF SegmentSound
    <3>2. task' = After(Head(task.page)) \/ task' = NextSegment
      BY <2>2 DEF RecoverEvent
    <3>3. TaskTypes(task', now)
      BY <3>1, <3>2, AfterTypes, SegmentTypes
    <3> QED
      BY <2>2, <3>3 DEF RecoverEvent, Types
  <2> QED
    BY <2>1, <2>2
<1>6. Ids' = Ids
  BY <1>2 DEF Ids, outside
<1> QED
  BY <1>2, <1>3, <1>4, <1>5, <1>6 DEF Types, TaskTypes, outside

-----------------------------------------------------------------------------
(* Time, the channel and the cursors *)

LEMMA NextOrdered ==
  ASSUME BoundsAreNumbers, Types, Ordered, IngestNext
  PROVE  Ordered'
<1>1. CASE VenueEvent
  <2>1. PICK e \in Events :
          /\ e.time = now /\ Ids \subseteq Ids' /\ \A i \in Ids' : i \in Ids \/ i = Len(venue) + 1
          /\ \A i \in Ids : venue'[i] = venue[i]
          /\ venue'[Len(venue) + 1] = e
    BY <1>1, VenueGrows
  <2>2. now' = now /\ \A i \in Ids : i < Len(venue) + 1
    BY <1>1 DEF VenueEvent, Ids, Types
  <2>3. \A i \in Ids' : venue'[i].time <= now'
    <3>1. now \in Nat
      BY DEF Types, BoundsAreNumbers
    <3> QED
      BY <2>1, <2>2, <3>1 DEF Ordered
  <2>4. \A i, j \in Ids' : i < j => venue'[i].time <= venue'[j].time
    <3> SUFFICES ASSUME NEW i \in Ids', NEW j \in Ids', i < j
                 PROVE  venue'[i].time <= venue'[j].time
      OBVIOUS
    <3>1. i \in Ids \/ i = Len(venue) + 1
      BY <2>1
    <3>2. j \in Ids \/ j = Len(venue) + 1
      BY <2>1
    <3>3. Len(venue) \in Nat
      BY DEF Types
    <3>4. i \in Ids
      BY <2>2, <3>1, <3>2, <3>3 DEF Ids
    <3> QED
      BY <2>1, <3>2, <3>4 DEF Ordered
  <2> QED
    BY <2>3, <2>4 DEF Ordered
<1>2. CASE Tick
  <2>1. now' = now + 1 /\ venue' = venue /\ now \in Nat
    BY <1>2 DEF Tick, Types, BoundsAreNumbers
  <2>2. \A i \in Ids : venue[i].time \in Nat
    BY SMTT(30) DEF Types, Ids, Events, BoundsAreNumbers
  <2>3. Ids' = Ids
    BY <2>1 DEF Ids
  <2>4. \A i \in Ids : venue'[i].time <= now'
    <3> SUFFICES ASSUME NEW i \in Ids PROVE venue[i].time <= now + 1
      BY <2>1
    <3>1. venue[i].time \in Nat /\ venue[i].time <= now
      BY <2>2 DEF Ordered
    <3> QED BY <2>1, <3>1
  <2> QED
    BY <2>1, <2>3, <2>4 DEF Ordered
<1>3. CASE Receive \/ RecoverStart \/ FetchPage \/ RecoverEvent \/ Restart
  <2>1. now' = now /\ venue' = venue
    BY <1>3 DEF Receive, RecoverStart, FetchPage, RecoverEvent, Restart, outside
  <2> QED
    BY <2>1 DEF Ordered, Ids
<1> QED
  BY <1>1, <1>2, <1>3 DEF IngestNext

\* What a step may do to the channel.
LEMMA NextChannel ==
  ASSUME BoundsAreNumbers, Types, Channel, IngestNext
  PROVE  Channel'
<1>0. queue \in Seq(Nat) /\ Len(queue) \in Nat /\ DOMAIN queue = 1..Len(queue)
  BY DEF Types
<1>1. CASE VenueEvent
  <2>1. /\ Ids \subseteq Ids' /\ \A i \in Ids' : i \in Ids \/ i = Len(venue) + 1
        /\ Len(venue) + 1 \in Ids'
    BY <1>1, VenueGrows DEF Ids, Types
  <2>2. inbox' = inbox /\ Len(venue) + 1 \in Nat /\ \A i \in Ids : i < Len(venue) + 1
    BY <1>1 DEF VenueEvent, durable, Ids, Types
  <2>3. \/ queue' = queue /\ lost' = lost \cup {Len(venue) + 1}
        \/ queue' = Append(queue, Len(venue) + 1) /\ lost' = lost
    <3>1. PICK up \in BOOLEAN :
            /\ queue' = IF up THEN Enqueue(queue, Len(venue) + 1) ELSE queue
            /\ lost' = IF Len(queue') > Len(queue) THEN lost ELSE lost \cup {Len(venue) + 1}
      BY <1>1 DEF VenueEvent
    <3>2. Len(Append(queue, Len(venue) + 1)) = Len(queue) + 1
      BY <1>0, <2>2, AppendProperties
    <3>3. Len(queue) + 1 > Len(queue) /\ ~(Len(queue) > Len(queue))
      BY <1>0
    <3>4. CASE queue' = Append(queue, Len(venue) + 1)
      BY <3>1, <3>2, <3>3, <3>4
    <3>5. CASE queue' = queue
      BY <3>1, <3>3, <3>5
    <3> QED
      BY <3>1, <3>4, <3>5 DEF Enqueue
  <2>4. CASE queue' = queue /\ lost' = lost \cup {Len(venue) + 1}
    BY <2>1, <2>2, <2>4 DEF Channel
  <2>5. CASE queue' = Append(queue, Len(venue) + 1) /\ lost' = lost
    <3>1. /\ queue' \in Seq(Nat) /\ Len(queue') = Len(queue) + 1
          /\ \A k \in 1..Len(queue) : queue'[k] = queue[k]
          /\ queue'[Len(queue) + 1] = Len(venue) + 1
      BY <1>0, <2>2, <2>5, AppendProperties
    <3>2. \A k \in DOMAIN queue' : k \in DOMAIN queue \/ k = Len(queue) + 1
      BY <1>0, <3>1
    <3>3. \A k \in DOMAIN queue' : queue'[k] \in Ids'
      BY <1>0, <2>1, <3>1, <3>2 DEF Channel
    <3>4. \A k, l \in DOMAIN queue' : k < l => queue'[k] < queue'[l]
      BY <1>0, <2>2, <3>1, <3>2 DEF Channel
    <3>5. \A i \in Ids' : i \in inbox' \cup lost' \/ \E k \in DOMAIN queue' : queue'[k] = i
      <4> SUFFICES ASSUME NEW i \in Ids', i \notin inbox \cup lost
                   PROVE  \E k \in DOMAIN queue' : queue'[k] = i
        BY <2>2, <2>5
      <4>1. CASE i = Len(venue) + 1
        <5>1. Len(queue) + 1 \in DOMAIN queue'
          BY <1>0, <3>1
        <5> QED
          BY <3>1, <4>1, <5>1
      <4>2. CASE i \in Ids
        <5>1. PICK k \in DOMAIN queue : queue[k] = i
          BY <4>2 DEF Channel
        <5>2. k \in DOMAIN queue' /\ queue'[k] = i
          BY <1>0, <3>1, <5>1
        <5> QED
          BY <5>2
      <4> QED
        BY <2>1, <4>1, <4>2
    <3> QED
      BY <3>3, <3>4, <3>5 DEF Channel
  <2> QED
    BY <2>3, <2>4, <2>5
<1>2. CASE Receive
  <2>1. queue # <<>> /\ queue' = Tail(queue) /\ Ids' = Ids
    BY <1>2 DEF Receive, outside, Ids
  <2>2. /\ queue' \in Seq(Nat) /\ Len(queue') = Len(queue) - 1
        /\ \A k \in 1..Len(queue') : queue'[k] = queue[k + 1]
    BY <1>0, <2>1, HeadTailProperties
  <2>3. Head(queue) = queue[1] /\ Len(queue) > 0
    BY <1>0, <2>1
  <2>4. inbox \subseteq inbox' /\ lost \subseteq lost' /\ queue[1] \in inbox' \cup lost'
    <3>1. CASE Duplicate(Head(queue)) /\ lost' = lost
      BY <2>3, <3>1 DEF Duplicate, Claimed, durable
    <3>2. CASE Commit(Head(queue), FALSE) /\ lost' = lost
      BY <2>3, <3>2 DEF Commit
    <3>3. CASE lost' = lost \cup {Head(queue)} /\ Refused(Head(queue))
      BY <2>3, <3>3 DEF Refused, durable
    <3> QED
      BY <1>2, <3>1, <3>2, <3>3 DEF Receive
  <2>5. \A k \in DOMAIN queue' : k \in 1..Len(queue') /\ k + 1 \in DOMAIN queue
    BY <1>0, <2>2
  <2>6. \A k \in DOMAIN queue' : queue'[k] \in Ids'
    BY <2>1, <2>2, <2>5 DEF Channel
  <2>7. \A k, l \in DOMAIN queue' : k < l => queue'[k] < queue'[l]
    BY <1>0, <2>2, <2>5, SMTT(30) DEF Channel
  <2>8. \A i \in Ids' : i \in inbox' \cup lost' \/ \E k \in DOMAIN queue' : queue'[k] = i
    <3> SUFFICES ASSUME NEW i \in Ids', i \notin inbox' \cup lost'
                 PROVE  \E k \in DOMAIN queue' : queue'[k] = i
      OBVIOUS
    <3>1. PICK k \in DOMAIN queue : queue[k] = i
      BY <2>1, <2>4 DEF Channel
    <3>2. k # 1
      BY <2>4, <3>1
    <3>3. PICK m \in 1..Len(queue') : k = m + 1
      <4>1. k - 1 \in 1..Len(queue') /\ k = (k - 1) + 1
        BY <1>0, <2>2, <3>1, <3>2
      <4> QED
        BY <4>1
    <3>4. queue'[m] = i /\ m \in DOMAIN queue'
      BY <2>2, <3>1, <3>3
    <3> QED
      BY <3>4
  <2> QED
    BY <2>6, <2>7, <2>8 DEF Channel
<1>3. CASE RecoverEvent
  <2>1. queue' = queue /\ lost' = lost /\ Ids' = Ids
    BY <1>3 DEF RecoverEvent, outside, Ids
  <2>2. inbox \subseteq inbox'
    BY <1>3 DEF RecoverEvent, Duplicate, Commit, Refused, durable
  <2> QED
    BY <2>1, <2>2 DEF Channel
<1>4. CASE Restart
  <2>1. queue' = <<>> /\ inbox' = inbox /\ Ids' = Ids
        /\ lost' = lost \cup {queue[k] : k \in 1..Len(queue)}
    BY <1>4 DEF Restart, durable, outside, Ids
  <2> QED
    BY <1>0, <2>1 DEF Channel
<1>5. CASE Tick \/ RecoverStart \/ FetchPage
  <2>1. UNCHANGED <<venue, queue, lost, inbox>>
    BY <1>5 DEF Tick, RecoverStart, FetchPage, durable, outside
  <2> QED
    BY <2>1 DEF Channel, Ids
<1> QED
  BY <1>1, <1>2, <1>3, <1>4, <1>5 DEF IngestNext

-----------------------------------------------------------------------------
(* The cursors and recovery *)

LEMMA EventFacts ==
  ASSUME BoundsAreNumbers, Types, Ordered
  PROVE  /\ \A i \in Ids : /\ i \in Nat /\ venue[i].time \in Nat
                           /\ StreamOf(venue[i].kind) \in Streams
         /\ \A i, j \in Ids : venue[i].time < venue[j].time => i < j
<1>1. \A i \in Ids : i \in Nat /\ venue[i] \in Events
  BY DEF Types, Ids
<1>2. \A e \in Events : e.time \in Nat /\ StreamOf(e.kind) \in Streams
  BY StreamOfType DEF Events, BoundsAreNumbers
<1>3. \A i \in Ids : venue[i].time \in Nat /\ StreamOf(venue[i].kind) \in Streams
  BY <1>1, <1>2
<1>4. ASSUME NEW i \in Ids, NEW j \in Ids, venue[i].time < venue[j].time PROVE i < j
  <2>1. ~(j < i)
    BY <1>3, <1>4 DEF Ordered
  <2>2. j # i
    BY <1>3, <1>4
  <2> QED
    BY <1>1, <2>1, <2>2
<1> QED
  BY <1>1, <1>3, <1>4

\* A commit moves its stream's cursor no further than what is behind it.
LEMMA CommitCovers ==
  ASSUME BoundsAreNumbers, Types, Ordered, RowsSane, CursorCovers,
         NEW i \in Ids, NEW recovering, Commit(i, recovering), UNCHANGED outside,
         lost \subseteq lost', live => live',
         \A j \in Ids : /\ StreamOf(venue[j].kind) = StreamOf(venue[i].kind)
                        /\ venue[j].time < venue[i].time
                        => Covered(j)'
  PROVE  CursorCovers'
<1>1. /\ inbox \subseteq inbox' /\ Ids' = Ids /\ venue' = venue
      /\ \A s \in Streams :
           cursor'[s] = cursor[s] \/ (s = StreamOf(venue[i].kind) /\ cursor'[s] = venue[i].time)
  BY CommitTypes DEF outside
<1> SUFFICES ASSUME NEW j \in Ids, venue[j].time < StartOf(StreamOf(venue[j].kind))'
             PROVE  Covered(j)'
  BY <1>1 DEF CursorCovers, Covered
<1>2. PICK s \in Streams : s = StreamOf(venue[j].kind)
  BY EventFacts
<1>5. venue[j].time < IF cursor'[s] = 0 THEN 0 ELSE cursor'[s] - 1
  BY <1>1, <1>2 DEF StartOf
<1>3. CASE cursor'[s] = cursor[s]
  <2>1. venue[j].time < StartOf(s)
    BY <1>3, <1>5 DEF StartOf
  <2>2. Covered(j)
    BY <1>2, <2>1 DEF CursorCovers, Covered
  <2> QED
    BY <1>1, <2>2, CoveredStays
<1>4. CASE s = StreamOf(venue[i].kind) /\ cursor'[s] = venue[i].time
  <2>1. venue[i].time \in Nat /\ venue[j].time \in Nat
    BY EventFacts
  <2>2. venue[j].time < venue[i].time
    BY <1>4, <1>5, <2>1
  <2> QED
    BY <1>2, <1>4, <2>2
<1> QED
  BY <1>1, <1>3, <1>4

LEMMA NextCursors ==
  ASSUME BoundsAreNumbers, Types, Ordered, Channel, SegmentSound, RowsSane, CursorCovers,
         IngestNext
  PROVE  CursorCovers'
<1>1. CASE VenueEvent
  <2>1. PICK e \in Events :
          /\ e.time = now /\ \A i \in Ids' : i \in Ids \/ i = Len(venue) + 1
          /\ \A i \in Ids : venue'[i] = venue[i]
          /\ venue'[Len(venue) + 1] = e
    BY <1>1, VenueGrows
  <2>2. inbox' = inbox /\ cursor' = cursor /\ live' = live /\ lost \subseteq lost'
    BY <1>1 DEF VenueEvent, durable
  <2>3. ~(e.time < StartOf(StreamOf(e.kind)))
    <3>1. cursor[StreamOf(e.kind)] \in 0..now /\ now \in Nat
      BY StreamOfType DEF Types, Events, BoundsAreNumbers
    <3> QED
      BY <2>1, <3>1 DEF StartOf
  <2> QED
    BY <2>1, <2>2, <2>3 DEF CursorCovers, StartOf
<1>2. CASE Receive
  <2>0. queue # <<>> /\ UNCHANGED outside /\ lost \subseteq lost'
    BY <1>2 DEF Receive
  <2>l. live' = live \/ live' = TRUE
    BY <1>2 DEF Receive
  <2>1. queue # <<>> /\ UNCHANGED outside /\ lost \subseteq lost' /\ (live => live')
    BY <2>0, <2>l
  <2>2. 1 \in DOMAIN queue /\ Head(queue) = queue[1]
    BY <2>1 DEF Types
  <2>3. PICK i \in Ids : i = Head(queue)
    BY <2>2 DEF Channel
  <2>4. CASE Commit(i, FALSE) /\ live' = TRUE
    <3>1. ASSUME NEW j \in Ids, venue[j].time < venue[i].time PROVE Covered(j)'
      <4>1. j < i
        BY <3>1, EventFacts
      <4>2. \A k \in DOMAIN queue : queue[k] # j
        <5>1. \A k \in DOMAIN queue : k = 1 \/ 1 < k
          BY DEF Types
        <5>2. \A k \in DOMAIN queue : k = 1 \/ i < queue[k]
          BY <2>2, <2>3, <5>1 DEF Channel
        <5>3. i \in Nat /\ j \in Nat
          BY EventFacts
        <5> QED
          BY <2>2, <2>3, <4>1, <5>2, <5>3
      <4>3. j \in inbox \cup lost
        BY <4>2 DEF Channel
      <4> QED
        BY <2>1, <2>4, <4>3 DEF Covered, Commit
    <3> QED
      BY <2>1, <2>4, <3>1, CommitCovers
  <2>5. CASE Duplicate(i) \/ Refused(i)
    <3>1. inbox' = inbox /\ cursor' = cursor /\ venue' = venue
      BY <2>1, <2>5 DEF Duplicate, Refused, durable, outside
    <3> QED
      BY <2>1, <3>1 DEF CursorCovers, StartOf, Ids
  <2> QED
    BY <1>2, <2>3, <2>4, <2>5 DEF Receive
<1>3. CASE RecoverEvent
  <2>1. task.page # <<>> /\ UNCHANGED outside /\ lost' = lost /\ live' = live
    BY <1>3 DEF RecoverEvent
  <2>2. 1 \in DOMAIN task.page /\ Head(task.page) = task.page[1]
    BY <2>1 DEF Types
  <2>3. PICK i \in Ids : i = Head(task.page)
    BY <2>2 DEF SegmentSound
  <2>4. CASE Commit(i, TRUE)
    <3>1. ASSUME NEW j \in Ids, StreamOf(venue[j].kind) = StreamOf(venue[i].kind),
                 venue[j].time < venue[i].time
          PROVE  Covered(j)'
      <4>1. j < i
        BY <3>1, EventFacts
      <4>2. StreamOf(venue[i].kind) = task.stream /\ i = task.page[1]
        BY <2>2, <2>3 DEF SegmentSound
      <4>3. \A k \in DOMAIN task.page : k = 1 \/ i < task.page[k]
        BY <2>2, <4>2 DEF SegmentSound, Types
      <4>4. Covered(j)
        <5>1. i \in Nat /\ j \in Nat
          BY EventFacts
        <5>2. \A k \in DOMAIN task.page : task.page[k] # j /\ (k = 1 => ~(task.page[k] < j))
          BY <4>1, <4>2, <4>3, <5>1
        <5>3. j \in {l \in Ids : StreamOf(venue[l].kind) = task.stream}
          BY <3>1, <4>2
        <5> QED
          BY <2>1, <2>2, <5>2, <5>3 DEF SegmentSound
      <4> QED
        BY <2>1, <2>4, <4>4, CoveredStays DEF Commit
    <3> QED
      BY <2>1, <2>4, <3>1, CommitCovers
  <2>5. CASE Duplicate(i) \/ Refused(i)
    <3>1. inbox' = inbox /\ cursor' = cursor /\ venue' = venue
      BY <2>1, <2>5 DEF Duplicate, Refused, durable, outside
    <3> QED
      BY <2>1, <3>1 DEF CursorCovers, StartOf, Ids
  <2> QED
    BY <1>3, <2>3, <2>4, <2>5 DEF RecoverEvent
<1>4. CASE Tick \/ RecoverStart \/ FetchPage \/ Restart
  <2>1. UNCHANGED <<venue, live, inbox, cursor>> /\ lost \subseteq lost'
    BY <1>4 DEF Tick, RecoverStart, FetchPage, Restart, durable, outside
  <2> QED
    BY <2>1 DEF CursorCovers, StartOf, Ids
<1> QED
  BY <1>1, <1>2, <1>3, <1>4 DEF IngestNext

LEMMA NothingForgotten ==
  ASSUME Types, IngestNext
  PROVE  inbox \subseteq inbox' /\ lost \subseteq lost' /\ (live => live')
<1>1. CASE VenueEvent
  <2>1. inbox' = inbox /\ live' = live
    BY <1>1 DEF VenueEvent, durable
  <2>2. lost' = lost \/ lost' = lost \cup {Len(venue) + 1}
    BY <1>1 DEF VenueEvent
  <2> QED
    BY <2>1, <2>2
<1>3. CASE Tick \/ RecoverStart \/ FetchPage \/ Restart
  <2>1. inbox' = inbox /\ live' = live /\ lost \subseteq lost'
    BY <1>3 DEF Tick, RecoverStart, FetchPage, Restart, durable
  <2> QED
    BY <2>1
<1>2. CASE Receive \/ RecoverEvent
  <2>1. inbox \subseteq inbox'
    BY <1>2 DEF Receive, RecoverEvent, Duplicate, Commit, Refused, durable
  <2>2. lost \subseteq lost'
    BY <1>2 DEF Receive, RecoverEvent
  <2>3. live' = live \/ live' = TRUE
    BY <1>2 DEF Receive, RecoverEvent
  <2> QED
    BY <2>1, <2>2, <2>3
<1> QED
  BY <1>1, <1>2, <1>3 DEF IngestNext

\* A segment that begins starts where its cursor lets it.
Begun(t) == t.page = <<>> /\ (t.stream \in Streams => t.start = StartOf(t.stream))

LEMMA SegmentsBegin ==
  /\ Begun(Idle) /\ Begun(NextSegment)
  /\ \A s \in Streams : \A e : Begun(BeginSegment(s, e))
<1>1. Begun(Idle)
  BY DEF Begun, Idle, Segment, Streams
<1>2. \A s \in Streams : \A e : Begun(BeginSegment(s, e))
  BY DEF Begun, BeginSegment, Segment
<1> QED
  BY <1>1, <1>2 DEF NextSegment, Streams

LEMMA BegunSound ==
  ASSUME BoundsAreNumbers, Types, Ordered, CursorCovers, Begun(task'), venue' = venue,
         \A i : Covered(i) => Covered(i)'
  PROVE  SegmentSound'
<1>1. \A i \in Ids : StreamOf(venue[i].kind) = task'.stream /\ venue[i].time < task'.start
                     => Covered(i)
  BY EventFacts DEF Begun, CursorCovers, Covered
<1>2. task'.page = <<>> /\ Ids' = Ids
  BY DEF Begun, Ids
<1> QED
  BY <1>1, <1>2 DEF SegmentSound

\* The page is the oldest of the window, and all before the window is covered.
LEMMA PageSound ==
  ASSUME BoundsAreNumbers, Types, Ordered, SegmentSound, task.page = <<>>,
         NEW n \in 1..PageCap, NEW p \in [1..n -> Ids], Page(p),
         task'.page = p, task'.stream = task.stream, venue' = venue,
         \A i : Covered(i) => Covered(i)'
  PROVE  SegmentSound'
<1>0. n \in Nat /\ n > 0 /\ DOMAIN p = 1..n /\ 1 \in DOMAIN p
  BY DEF BoundsAreNumbers
<1>1. p # <<>>
  BY <1>0
<1>2. \A k \in DOMAIN p :
        /\ p[k] \in Ids /\ StreamOf(venue[p[k]].kind) = task.stream
        /\ \A l \in DOMAIN p : k < l => p[k] < p[l]
  BY <1>0 DEF Page, InWindow
<1>3. ASSUME NEW i \in Ids, StreamOf(venue[i].kind) = task.stream
      PROVE  \/ i < p[1] /\ Covered(i)
             \/ \E k \in DOMAIN p : p[k] = i
             \/ \A k \in DOMAIN p : p[k] < i
  <2>1. CASE venue[i].time < task.start
    <3>1. Covered(i)
      BY <1>3, <2>1 DEF SegmentSound
    <3>2. venue[i].time < venue[p[1]].time
      <4>1. task.start <= venue[p[1]].time /\ p[1] \in Ids
        BY <1>0, <1>2 DEF Page, InWindow
      <4>2. task.start \in Nat
        BY DEF Types, BoundsAreNumbers
      <4> QED
        BY <2>1, <4>1, <4>2, EventFacts
    <3>3. i < p[1]
      BY <1>0, <1>2, <3>2, EventFacts
    <3> QED
      BY <3>1, <3>3
  <2>2. CASE ~(venue[i].time < task.start) /\ InWindow(i)
    BY <2>2 DEF Page
  <2>3. CASE ~(venue[i].time < task.start) /\ ~InWindow(i)
    <3>1. task.start \in Nat /\ task.end \in Int /\ venue[i].time \in Nat
      <4>1. task.start \in 0..now /\ now \in Nat /\ task.end \in Int
        BY DEF Types, BoundsAreNumbers
      <4> QED
        BY <4>1, EventFacts
    <3>2. ASSUME NEW k \in DOMAIN p PROVE p[k] < i
      <4>1. p[k] \in Ids /\ InWindow(p[k]) /\ venue[p[k]].time \in Nat
        BY <1>2, <3>2, EventFacts DEF Page
      <4>2. venue[p[k]].time < venue[i].time
        BY <1>3, <2>3, <3>1, <4>1 DEF InWindow
      <4> QED
        BY <4>1, <4>2, EventFacts
    <3> QED
      BY <3>2
  <2> QED
    BY <2>1, <2>2, <2>3
<1>4. Ids' = Ids
  BY DEF Ids
<1> QED
  BY <1>1, <1>2, <1>3, <1>4 DEF SegmentSound

LEMMA RecoverSound ==
  ASSUME BoundsAreNumbers, Types, Ordered, CursorCovers, SegmentSound, RecoverEvent,
         \A i : Covered(i) => Covered(i)'
  PROVE  SegmentSound'
<1>1. venue' = venue /\ Ids' = Ids /\ task.page # <<>> /\ task.page \in Seq(Nat)
  BY DEF RecoverEvent, outside, Ids, Types
<1>2. PICK p \in Seq(Nat) : p = task.page /\ p # <<>> /\ Len(p) \in Nat /\ DOMAIN p = 1..Len(p)
  BY <1>1
<1>3. 1 \in DOMAIN p /\ Head(p) = p[1] /\ Len(p) > 0
  BY <1>2
<1>4. PICK i \in Ids : i = p[1] /\ StreamOf(venue[i].kind) = task.stream
  BY <1>2, <1>3 DEF SegmentSound
<1>s. \A k \in DOMAIN p : /\ p[k] \in Ids /\ StreamOf(venue[p[k]].kind) = task.stream
                          /\ \A l \in DOMAIN p : k < l => p[k] < p[l]
  BY <1>2 DEF SegmentSound
<1>5. CASE task' = NextSegment
  BY <1>1, <1>5, SegmentsBegin, BegunSound
<1>6. CASE task' = After(i) /\ i \in inbox'
  <2>1. CASE Len(p) > 1
    <3>1. PICK q \in Seq(Nat) : /\ q = Tail(p) /\ Len(q) = Len(p) - 1
                                /\ \A k \in 1..Len(q) : q[k] = p[k + 1]
      BY <1>2, HeadTailProperties, ZenonT(30)
    <3>2. task' = [task EXCEPT !.page = q]
      BY <1>2, <1>6, <2>1, <3>1 DEF After
    <3>3. task'.page = q /\ task'.stream = task.stream
      BY <3>2 DEF Types
    <3>4. /\ DOMAIN q = 1..Len(q) /\ 1 \in DOMAIN q /\ q # <<>>
          /\ \A k \in DOMAIN q : k + 1 \in DOMAIN p /\ q[k] = p[k + 1]
      <4>1. Len(q) \in Nat /\ Len(q) > 0 /\ DOMAIN q = 1..Len(q) /\ Len(q) + 1 = Len(p)
        BY <1>2, <2>1, <3>1
      <4>2. 1 \in DOMAIN q /\ q # <<>>
        BY <4>1
      <4>3. \A k \in 1..Len(q) : k + 1 \in 1..Len(p)
        BY <4>1
      <4> QED
        BY <1>2, <3>1, <4>1, <4>2, <4>3
    <3>5. \A k \in DOMAIN q : /\ q[k] \in Ids /\ StreamOf(venue[q[k]].kind) = task.stream
                              /\ \A l \in DOMAIN q : k < l => q[k] < q[l]
      <4>1. \A k, l \in DOMAIN q : k < l => k + 1 < l + 1
        BY <3>1
      <4> QED
        BY <1>s, <3>4, <4>1
    <3>6. ASSUME NEW j \in Ids, StreamOf(venue[j].kind) = task.stream
          PROVE  \/ j < q[1] /\ Covered(j)'
                 \/ \E k \in DOMAIN q : q[k] = j
                 \/ \A k \in DOMAIN q : q[k] < j
      <4>0. j \in {l \in Ids : StreamOf(venue[l].kind) = task.stream}
        BY <3>6
      <4>1. p[1] < q[1] /\ q[1] \in Nat /\ p[1] \in Nat /\ j \in Nat
        <5>1. 2 \in DOMAIN p /\ q[1] = p[2]
          <6>1. 1 + 1 = 2
            OBVIOUS
          <6> QED
            BY <3>4, <6>1
        <5>2. p[1] < p[2]
          BY <1>3, <1>s, <5>1
        <5> QED
          BY <1>3, <1>s, <5>1, <5>2, EventFacts
      <4>2. CASE j < p[1] /\ Covered(j)
        BY <4>1, <4>2
      <4>3. CASE \E k \in DOMAIN p : p[k] = j
        <5>1. PICK k \in DOMAIN p : p[k] = j
          BY <4>3
        <5>2. CASE k = 1
          BY <1>4, <1>6, <4>1, <5>1, <5>2 DEF Covered
        <5>3. CASE k # 1
          <6>1. PICK m \in DOMAIN q : k = m + 1
            <7>1. k - 1 \in 1..Len(q) /\ k = (k - 1) + 1
              BY <1>2, <3>1, <5>1, <5>3
            <7> QED
              BY <3>4, <7>1
          <6> QED
            BY <3>4, <5>1, <6>1
        <5> QED
          BY <5>2, <5>3
      <4>4. CASE \A k \in DOMAIN p : p[k] < j
        BY <3>4, <4>4
      <4> QED
        BY <1>2, <4>0, <4>2, <4>3, <4>4 DEF SegmentSound
    <3> QED
      BY <1>1, <3>3, <3>4, <3>5, <3>6 DEF SegmentSound
  <2>2. CASE task' = Segment(task.stream, venue[i].time, task.end)
    <3>1. task'.page = <<>> /\ task'.stream = task.stream /\ task'.start = venue[i].time
      BY <2>2 DEF Segment
    <3>2. ASSUME NEW j \in Ids, StreamOf(venue[j].kind) = task.stream,
                 venue[j].time < venue[i].time
          PROVE  Covered(j)'
      <4>0. j \in {l \in Ids : StreamOf(venue[l].kind) = task.stream}
        BY <3>2
      <4>1. j < i /\ i \in Nat /\ j \in Nat
        BY <3>2, EventFacts
      <4>2. \A k \in DOMAIN p : k = 1 \/ i < p[k]
        <5>1. \A k \in DOMAIN p : k = 1 \/ 1 < k
          BY <1>2
        <5> QED
          BY <1>3, <1>4, <1>s, <5>1
      <4>3. \A k \in DOMAIN p : p[k] # j /\ (k = 1 => ~(p[k] < j))
        BY <1>2, <1>4, <4>1, <4>2
      <4> QED
        BY <1>2, <1>3, <4>0, <4>3 DEF SegmentSound
    <3> QED
      BY <1>1, <3>1, <3>2 DEF SegmentSound
  <2> QED
    BY <1>2, <1>5, <1>6, <2>1, <2>2 DEF After
<1>7. i = Head(task.page)
  BY <1>2, <1>3, <1>4
<1>8. (task' = After(i) /\ i \in inbox') \/ task' = NextSegment
  <2>1. CASE task' = After(i) /\ Duplicate(i)
    BY <2>1 DEF Duplicate, Claimed, durable
  <2>2. CASE task' = After(i) /\ Commit(i, TRUE)
    BY <2>2 DEF Commit
  <2> QED
    BY <1>7, <2>1, <2>2 DEF RecoverEvent
<1> QED
  BY <1>5, <1>6, <1>8

LEMMA NextSegmentSound ==
  ASSUME BoundsAreNumbers, Types, Ordered, Channel, CursorCovers, SegmentSound, IngestNext
  PROVE  SegmentSound'
<1>0. \A i : Covered(i) => Covered(i)'
  BY NothingForgotten, CoveredStays
<1>1. CASE VenueEvent
  <2>1. PICK e \in Events :
          /\ e.time = now /\ \A i \in Ids' : i \in Ids \/ i = Len(venue) + 1
          /\ Ids \subseteq Ids'
          /\ \A i \in Ids : venue'[i] = venue[i]
          /\ venue'[Len(venue) + 1] = e
    BY <1>1, VenueGrows
  <2>2. task' = task /\ task.start <= now /\ \A i \in Ids : i < Len(venue) + 1
    BY <1>1 DEF VenueEvent, Types, Ids, BoundsAreNumbers
  <2>3. ~(e.time < task.start)
    BY <2>1, <2>2 DEF Types, BoundsAreNumbers
  <2>4. \A k \in DOMAIN task.page : task.page[k] < Len(venue) + 1
    BY <2>2 DEF SegmentSound
  <2> QED
    BY <1>0, <2>1, <2>2, <2>3, <2>4 DEF SegmentSound
<1>2. CASE RecoverEvent
  BY <1>0, <1>2, RecoverSound
<1>3. CASE FetchPage
  <2>1. venue' = venue /\ task.page = <<>>
    BY <1>3 DEF FetchPage, outside
  <2>2. CASE task' = NextSegment
    BY <1>0, <2>1, <2>2, SegmentsBegin, BegunSound
  <2>3. CASE \E n \in 0..PageCap : \E p \in [1..n -> Ids] :
               n # 0 /\ Page(p) /\ task' = [task EXCEPT !.page = p, !.full = n = PageCap]
    <3>1. PICK n \in 0..PageCap : \E p \in [1..n -> Ids] :
               n # 0 /\ Page(p) /\ task' = [task EXCEPT !.page = p, !.full = n = PageCap]
      BY <2>3
    <3>2. PICK p \in [1..n -> Ids] :
               n # 0 /\ Page(p) /\ task' = [task EXCEPT !.page = p, !.full = n = PageCap]
      BY <3>1
    <3>3. task'.page = p /\ task'.stream = task.stream
      BY <3>2 DEF Types
    <3>4. n \in 1..PageCap
      BY <3>2 DEF BoundsAreNumbers
    <3> QED
      BY <1>0, <2>1, <3>2, <3>3, <3>4, PageSound
  <2> QED
    BY <1>3, <2>2, <2>3 DEF FetchPage
<1>4. CASE RecoverStart \/ Restart
  <2>1. venue' = venue /\ Begun(task')
    BY <1>4, SegmentsBegin DEF RecoverStart, Restart, outside, Streams
  <2> QED
    BY <1>0, <2>1, BegunSound
<1>5. CASE Tick \/ Receive
  <2>1. venue' = venue /\ task' = task
    BY <1>5 DEF Tick, Receive, outside
  <2> QED
    BY <1>0, <2>1 DEF SegmentSound, Ids
<1> QED
  BY <1>1, <1>2, <1>3, <1>4, <1>5 DEF IngestNext

-----------------------------------------------------------------------------
(* The invariant *)

LEMMA NextIInv ==
  ASSUME BoundsAreNumbers, IInv, IngestNext
  PROVE  IInv'
<1>1. Types'
  BY OutsideTypes, IngestTypes DEF IInv, IngestNext
<1>2. Ordered' /\ Channel' /\ CursorCovers' /\ SegmentSound'
  BY NextOrdered, NextChannel, NextCursors, NextSegmentSound DEF IInv
<1>3. Once' /\ RowsSane'
  <2>1. CASE VenueEvent
    <3>1. /\ UNCHANGED durable
          /\ \A i \in Ids : i \in Ids' /\ venue'[i] = venue[i]
      BY <2>1, VenueGrows DEF VenueEvent, IInv
    <3> QED
      BY <3>1, StoreKept DEF IInv
  <2>2. CASE Tick \/ RecoverStart \/ FetchPage \/ Restart
    <3>1. UNCHANGED durable /\ venue' = venue
      BY <2>2 DEF Tick, RecoverStart, FetchPage, Restart, outside
    <3> QED
      BY <3>1, StoreKept DEF IInv, Ids
  <2>3. CASE Receive \/ RecoverEvent
    <3>1. PICK i, recovering :
            /\ i \in Ids
            /\ Duplicate(i) \/ Refused(i) \/ (i \notin inbox /\ Commit(i, recovering))
      <4>1. CASE Receive
        <5>1. 1 \in DOMAIN queue /\ Head(queue) = queue[1]
          BY <4>1 DEF Receive, IInv, Types
        <5> QED
          BY <4>1, <5>1 DEF Receive, Channel, IInv, Claimed
      <4>2. CASE RecoverEvent
        <5>1. 1 \in DOMAIN task.page /\ Head(task.page) = task.page[1]
          BY <4>2 DEF RecoverEvent, IInv, Types
        <5> QED
          BY <4>2, <5>1 DEF RecoverEvent, SegmentSound, IInv, Claimed
      <4> QED
        BY <2>3, <4>1, <4>2
    <3>2. UNCHANGED outside
      BY <2>3 DEF Receive, RecoverEvent
    <3>3. CASE Duplicate(i) \/ Refused(i)
      BY <3>2, <3>3, StoreKept DEF Duplicate, Refused, IInv, Ids, outside
    <3>4. CASE i \notin inbox /\ Commit(i, recovering)
      BY <3>1, <3>2, <3>4, CommitBooks DEF IInv
    <3> QED
      BY <3>1, <3>3, <3>4
  <2> QED
    BY <2>1, <2>2, <2>3 DEF IngestNext
<1> QED
  BY <1>1, <1>2, <1>3 DEF IInv

LEMMA StutterIInv ==
  ASSUME IInv, UNCHANGED ingestVars
  PROVE  IInv'
<1>1. Types' /\ Ordered' /\ Channel'
  BY DEF IInv, ingestVars, Types, Ordered, Channel, Ids
<1>2. CursorCovers' /\ SegmentSound'
  BY DEF IInv, ingestVars, CursorCovers, StartOf, SegmentSound, Covered, Ids
<1>3. Once' /\ RowsSane'
  BY StoreKept DEF IInv, ingestVars, durable, Ids
<1> QED
  BY <1>1, <1>2, <1>3 DEF IInv

LEMMA Inductive ==
  ASSUME BoundsAreNumbers
  PROVE  IngestSpec => []IInv
<1>1. IngestInit => IInv
  BY InitIInv
<1>2. IInv /\ [IngestNext]_ingestVars => IInv'
  BY NextIInv, StutterIInv
<1> QED
  BY <1>1, <1>2, PTL DEF IngestSpec

\* A row's bookings, counted as entries or as events.
LEMMA BookedOnce ==
  ASSUME Types, Once, NEW o, NEW w \in Which
  PROVE  Cardinality({b \in booked : venue[b[1]].order = o /\ b[2] = w})
         = Cardinality(BookedOn(o, w))
<1>1. PICK S : S = {b \in booked : venue[b[1]].order = o /\ b[2] = w}
  OBVIOUS
<1>2. PICK f : f = [i \in BookedOn(o, w) |-> <<i, w>>]
  OBVIOUS
<1>3. \A i \in BookedOn(o, w) : f[i] = <<i, w>> /\ f[i] \in S
  BY <1>1, <1>2 DEF BookedOn
<1>4. f \in Injection(BookedOn(o, w), S)
  <2>1. f \in [BookedOn(o, w) -> S]
    BY <1>2, <1>3
  <2>2. \A i, j \in BookedOn(o, w) : f[i] = f[j] => i = j
    BY <1>3
  <2> QED
    BY <2>1, <2>2 DEF Injection, IsInjective
<1>5. \A b \in S : b = <<b[1], w>> /\ b[1] \in BookedOn(o, w)
  <2>1. \A b \in booked : b = <<b[1], b[2]>> /\ b[1] \in inbox
    BY DEF Types, Once
  <2>2. \A b \in S : b \in booked /\ venue[b[1]].order = o /\ b[2] = w
    BY <1>1
  <2>3. \A b \in S : b = <<b[1], w>> /\ <<b[1], w>> \in booked
    BY <2>1, <2>2
  <2> QED
    BY <2>1, <2>2, <2>3 DEF BookedOn
<1>6. f \in Surjection(BookedOn(o, w), S)
  BY <1>2, <1>3, <1>5 DEF Surjection
<1>7. ExistsBijection(BookedOn(o, w), S)
  BY <1>4, <1>6 DEF ExistsBijection, Bijection
<1> QED
  BY <1>1, <1>7, BookedFinite, FS_Bijection

\* The ingestor's state stays within its types: the channel within its
\* capacity, cursors within the clock, no row filled beyond its size.
THEOREM IngestTypeCorrect ==
  ASSUME BoundsAreNumbers
  PROVE  IngestSpec => []IngestTypeOK
<1>1. IInv => IngestTypeOK
  <2> SUFFICES ASSUME IInv PROVE IngestTypeOK
    OBVIOUS
  <2>1. /\ now \in 0..MaxTime /\ Len(venue) <= MaxEvents /\ Len(queue) <= QueueCap
        /\ lost \subseteq Ids /\ inbox \subseteq Ids /\ faults \in 0..MaxFaults
    BY DEF IInv, Types
  <2>2. cursor \in [Streams -> 0..MaxTime]
    BY DEF IInv, Types, BoundsAreNumbers
  <2>3. \A o \in Orders, w \in Which :
          rows[o][w].status \in Statuses \cup {NoStatus} /\ rows[o][w].filled <= rows[o][w].size
    BY RowTypes DEF IInv, RowsSane, RowSane, OrderRows
  <2> QED
    BY <2>1, <2>2, <2>3 DEF IngestTypeOK, Which
<1> QED
  BY <1>1, Inductive, PTL

\* ingest_fill, ingest_order_update and ingest_funding behind claim_inbox:
\* WebSocket replays, REST recovery and restarts write each event's facts once,
\* and what a row has filled is what is booked on it, also when
\* find_or_create_order first made a row without the client id.
THEOREM FactsWrittenOnce ==
  ASSUME BoundsAreNumbers
  PROVE  IngestSpec => []FactsOnce
<1>1. IInv => FactsOnce
  <2> SUFFICES ASSUME IInv PROVE FactsOnce
    OBVIOUS
  <2>0. Types /\ Once /\ RowsSane
    BY DEF IInv
  <2>1. \A i \in Ids : facts[i] = IF i \in inbox THEN 1 ELSE 0
    BY <2>0 DEF Once, Types, Ids, BoundsAreNumbers
  <2>2. ASSUME NEW i \in Ids
        PROVE  Cardinality({b \in booked : b[1] = i})
                 = IF i \in inbox /\ venue[i].kind = "fill" THEN 1 ELSE 0
    <3>1. CASE i \in inbox /\ venue[i].kind = "fill"
      <4>1. PICK w \in Which : <<i, w>> \in booked
        BY <2>0, <3>1 DEF Once
      <4>2. {b \in booked : b[1] = i} = {<<i, w>>}
        BY <2>0, <4>1 DEF Once
      <4> QED
        BY <3>1, <4>2, FS_Singleton
    <3>2. CASE ~(i \in inbox /\ venue[i].kind = "fill")
      <4>1. {b \in booked : b[1] = i} = {}
        BY <2>0, <3>2 DEF Once
      <4> QED
        BY <3>2, <4>1, FS_EmptySet
    <3> QED
      BY <3>1, <3>2
  <2>3. ASSUME NEW o \in Orders, NEW w \in Which
        PROVE  LET n == Cardinality({b \in booked : venue[b[1]].order = o /\ b[2] = w})
               IN rows[o][w].filled <= n /\ (n > 0 => rows[o][w].filled > 0)
    BY <2>0, BookedOnce DEF RowsSane, RowSane
  <2>4. \A o \in Orders : ~(rows[o].own.oid /\ rows[o].synthetic.oid)
    BY <2>0 DEF RowsSane
  <2>5. tracker.applied \subseteq inbox
    BY <2>0 DEF Types
  <2> QED
    BY <2>1, <2>2, <2>3, <2>4, <2>5 DEF FactsOnce, Which
<1> QED
  BY <1>1, Inductive, PTL

\* recover_history and advance_cursor: an event the next request of a stream
\* will not ask for was committed, or is one the live path lost, whatever pages,
\* live events, failed transactions and restarts came between.
THEOREM NothingSkipped ==
  ASSUME BoundsAreNumbers
  PROVE  IngestSpec => []CursorCovers
<1>1. IInv => CursorCovers
  BY DEF IInv
<1> QED
  BY <1>1, Inductive, PTL

(***************************************************************************)
(* AccountTracker: fees counted once, fresh health of applied state        *)
(***************************************************************************)

TrackerNumbers == /\ MaxFills \in Nat /\ MaxAge \in Int
                  /\ Estimates \subseteq Nat
TrackerSpec == TrackerInit /\ [][TrackerNext]_trackerVars

FillRec == [symbol : Symbols, cloid : Cloids, side : {"buy", "sell"}]
\* The units that wait for a commit, by number.
Left == {p \in Cloids \X Nat : 1 <= p[2] /\ p[2] <= prov[p[1]]}

TrackerTypes ==
  /\ trades \in Seq(FillRec) /\ Len(trades) <= MaxFills
  /\ prov \in [Cloids -> Nat] /\ fees \in Int /\ count \in Int
  /\ applied \subseteq Fills /\ announced \subseteq Fills /\ exact \in BOOLEAN
FeesAdd ==
  /\ IsFiniteSet(Left) /\ fees = Cardinality(applied) + Cardinality(Left)
  /\ \A c \in Cloids \ excess : prov[c] <= Cardinality(Owed(c))
  /\ exact => count = fees /\ \A c \in Cloids : c \in keyed <=> prov[c] > 0
FeesInv == TrackerTypes /\ FeesAdd

LEMMA PartsOfFills ==
  ASSUME TrackerNumbers, TrackerTypes
  PROVE  /\ IsFiniteSet(applied) /\ Cardinality(applied) \in Nat
         /\ \A c : IsFiniteSet(Owed(c)) /\ Cardinality(Owed(c)) \in Nat
  <1>1. Fills = 1..Len(trades) /\ Len(trades) \in Nat
    BY DEF Fills, TrackerTypes
  <1>2. IsFiniteSet(Fills)
    BY <1>1, FS_Interval
  <1>3. applied \subseteq Fills /\ \A c : Owed(c) \subseteq Fills
    BY DEF TrackerTypes, Owed
  <1> QED BY <1>2, <1>3, FS_Subset, FS_CardinalityType

LEMMA UnitsAreLeft == ASSUME TrackerTypes PROVE Units = Left
  <1>1. prov \in [Cloids -> Nat]
    BY DEF TrackerTypes
  <1>2. ASSUME NEW p PROVE p \in Units <=> p \in Left
    <2>1. p \in Units <=> \E c \in Cloids : \E k \in 1..prov[c] : p = <<c, k>>
      BY DEF Units
    <2>2. ASSUME NEW c \in Cloids, NEW k \in 1..prov[c], p = <<c, k>> PROVE p \in Left
      <3>1. prov[c] \in Nat /\ k \in Nat /\ 1 <= k /\ k <= prov[c]
        BY <1>1
      <3>2. <<c, k>> \in Cloids \X Nat /\ <<c, k>>[1] = c /\ <<c, k>>[2] = k
        BY <3>1
      <3> QED BY <2>2, <3>1, <3>2 DEF Left
    <2>3. ASSUME p \in Left PROVE \E c \in Cloids : \E k \in 1..prov[c] : p = <<c, k>>
      <3>1. p \in Cloids \X Nat /\ 1 <= p[2] /\ p[2] <= prov[p[1]]
        BY <2>3 DEF Left
      <3>2. p = <<p[1], p[2]>> /\ p[1] \in Cloids /\ p[2] \in Nat
        BY <3>1
      <3>3. p[2] \in 1..prov[p[1]]
        BY <1>1, <3>1, <3>2
      <3> QED BY <3>2, <3>3
    <2> QED BY <2>1, <2>2, <2>3
  <1> QED BY <1>2

\* A report adds its units to those of its order, a commit takes one away.
LEMMA LeftGrows ==
  ASSUME TrackerTypes, NEW c \in Cloids, NEW n \in Nat, prov' = [prov EXCEPT ![c] = @ + n],
         IsFiniteSet(Left)
  PROVE  IsFiniteSet(Left') /\ Cardinality(Left') = Cardinality(Left) + n
  <1>1. prov \in [Cloids -> Nat] /\ prov[c] \in Nat
    BY DEF TrackerTypes
  <1>0. PICK a \in Nat, b \in Nat : a = prov[c] + 1 /\ b = prov[c] + n
    BY <1>1
  <1> DEFINE new == {c} \X (a..b)
  <1>2. \A d \in Cloids : prov'[d] = IF d = c THEN b ELSE prov[d]
    BY <1>0, <1>1
  <1>3. IsFiniteSet(new) /\ Cardinality(new) = n
    <2>1. IsFiniteSet({c}) /\ Cardinality({c}) = 1
      BY FS_Singleton
    <2>2. IsFiniteSet(a..b) /\ Cardinality(a..b) = n
      <3>1. a \in Int /\ b \in Int /\ (IF a > b THEN 0 ELSE b - a + 1) = n
        BY <1>0, <1>1
      <3>2. IsFiniteSet(a..b) /\ Cardinality(a..b) = IF a > b THEN 0 ELSE b - a + 1
        BY <3>1, FS_Interval, Zenon
      <3> QED BY <3>1, <3>2, Zenon
    <2>3. IsFiniteSet(new) /\ Cardinality(new) = Cardinality({c}) * Cardinality(a..b)
      BY <2>1, <2>2, FS_Product
    <2> HIDE DEF new
    <2> QED BY <2>1, <2>2, <2>3
  <1>4. ASSUME NEW p \in Cloids \X Nat
        PROVE  p \in new <=> p[1] = c /\ a <= p[2] /\ p[2] <= b
    <2>1. p = <<p[1], p[2]>> /\ p[1] \in Cloids /\ p[2] \in Nat
      OBVIOUS
    <2>2. p[2] \in a..b <=> a <= p[2] /\ p[2] <= b
      BY <2>1
    <2> QED BY <2>1, <2>2
  <1>5. new \subseteq Cloids \X Nat
    <2>1. a..b \subseteq Nat
      OBVIOUS
    <2> QED BY <2>1
  <1> HIDE DEF new
  <1>6. ASSUME NEW p \in Cloids \X Nat
        PROVE  (p \in Left' <=> p \in Left \/ p \in new) /\ ~(p \in Left /\ p \in new)
    <2>1. p = <<p[1], p[2]>> /\ p[1] \in Cloids /\ p[2] \in Nat
      OBVIOUS
    <2>2. p \in Left' <=> 1 <= p[2] /\ p[2] <= prov'[p[1]]
      BY <1>6 DEF Left
    <2>3. p \in Left <=> 1 <= p[2] /\ p[2] <= prov[p[1]]
      BY <1>6 DEF Left
    <2>4. p \in new <=> p[1] = c /\ a <= p[2] /\ p[2] <= b
      BY <1>4
    <2>5. CASE p[1] # c
      BY <1>2, <2>1, <2>2, <2>3, <2>4, <2>5
    <2>6. CASE p[1] = c
      <3>1. prov'[p[1]] = b /\ prov[p[1]] = prov[c]
        BY <1>2, <2>6
      <3> QED BY <1>0, <1>1, <2>1, <2>2, <2>3, <2>4, <2>6, <3>1
    <2> QED BY <2>5, <2>6
  <1>7. Left' = Left \union new /\ Left \intersect new = {}
    <2>1. Left \subseteq Cloids \X Nat /\ Left' \subseteq Cloids \X Nat
      BY DEF Left
    <2> QED BY <1>5, <1>6, <2>1
  <1>8. /\ IsFiniteSet(Left \union new)
        /\ Cardinality(Left \union new)
             = Cardinality(Left) + Cardinality(new) - Cardinality(Left \intersect new)
    BY <1>3, FS_Union
  <1>9. Cardinality(Left \intersect new) = 0 /\ Cardinality(Left) \in Nat
    BY <1>7, FS_EmptySet, FS_CardinalityType
  <1> QED BY <1>3, <1>7, <1>8, <1>9
LEMMA LeftShrinks ==
  ASSUME TrackerTypes, NEW c \in Cloids, prov' = [prov EXCEPT ![c] = @ - 1], prov[c] > 0, IsFiniteSet(Left)
  PROVE  IsFiniteSet(Left') /\ Cardinality(Left') = Cardinality(Left) - 1
  <1> DEFINE old == <<c, prov[c]>>
  <1>1. prov \in [Cloids -> Nat]
    BY DEF TrackerTypes
  <1>2. \A d \in Cloids : prov'[d] = IF d = c THEN prov[c] - 1 ELSE prov[d]
    BY <1>1
  <1>3. old \in Cloids \X Nat /\ old[1] = c /\ old[2] = prov[c]
    BY <1>1
  <1>4. old \in Left
    BY <1>1, <1>3 DEF Left
  <1>5. ASSUME NEW p \in Cloids \X Nat
        PROVE  p \in Left' <=> p \in Left \ {old}
    <2>1. p = <<p[1], p[2]>> /\ p[1] \in Cloids /\ p[2] \in Nat
      OBVIOUS
    <2>2. p \in Left' <=> 1 <= p[2] /\ p[2] <= prov'[p[1]]
      BY <1>5 DEF Left
    <2>3. p \in Left <=> 1 <= p[2] /\ p[2] <= prov[p[1]]
      BY <1>5 DEF Left
    <2>4. CASE p[1] # c
      <3>1. p # old
        BY <1>3, <2>4
      <3> QED BY <1>2, <2>1, <2>2, <2>3, <2>4, <3>1
    <2>5. CASE p[1] = c
      <3>1. p = old <=> p[2] = prov[c]
        BY <1>3, <2>1, <2>5
      <3>2. prov'[c] = prov[c] - 1 /\ prov[c] \in Nat
        BY <1>1, <1>2
      <3> QED BY <2>1, <2>2, <2>3, <2>5, <3>1, <3>2
    <2> QED BY <2>4, <2>5
  <1> HIDE DEF old
  <1>6. Left' = Left \ {old}
    <2>1. Left \subseteq Cloids \X Nat /\ Left' \subseteq Cloids \X Nat
      BY DEF Left
    <2> QED BY <1>5, <2>1
  <1> QED BY <1>4, <1>6, FS_RemoveElement

LEMMA FeesStart == ASSUME TrackerNumbers, TrackerInit PROVE FeesInv
  <1>1. TrackerTypes
    <2>1. trades \in Seq(FillRec) /\ Len(trades) = 0
      BY DEF TrackerInit
    <2>2. prov \in [Cloids -> Nat]
      BY DEF TrackerInit
    <2> QED BY <2>1, <2>2 DEF TrackerInit, TrackerTypes, TrackerNumbers
  <1>2. Left = {}
    BY DEF TrackerInit, Left
  <1>3. IsFiniteSet(Left) /\ fees = Cardinality(applied) + Cardinality(Left) /\ count = fees
    BY <1>2, FS_EmptySet DEF TrackerInit
  <1>4. \A c \in Cloids : prov[c] <= Cardinality(Owed(c)) /\ (c \in keyed <=> prov[c] > 0)
    BY <1>1, PartsOfFills DEF TrackerInit
  <1> QED BY <1>1, <1>3, <1>4 DEF FeesInv, FeesAdd

LEMMA VenueFillKeepsFees ==
  ASSUME TrackerNumbers, FeesInv, VenueFill
  PROVE  FeesInv'
  <1>1. PICK s \in Symbols, c \in Cloids, side \in {"buy", "sell"} :
          trades' = Append(trades, [symbol |-> s, cloid |-> c, side |-> side])
    BY DEF VenueFill
  <1>0. PICK f : f = [symbol |-> s, cloid |-> c, side |-> side]
    OBVIOUS
  <1>2. f = [symbol |-> s, cloid |-> c, side |-> side] /\ f \in FillRec
    BY <1>0 DEF FillRec
  <1>3. /\ trades' = Append(trades, f) /\ Len(trades) < MaxFills
        /\ UNCHANGED <<prov, fees, count, applied, keyed, announced, excess, exact>>
    BY <1>1, <1>2 DEF VenueFill, accounting, history
  <1>4. /\ trades' \in Seq(FillRec) /\ Len(trades') = Len(trades) + 1 /\ Len(trades) \in Nat
        /\ \A i \in 1..Len(trades) : trades'[i] = trades[i]
    BY <1>2, <1>3 DEF FeesInv, TrackerTypes
  <1>5. Fills \subseteq Fills' /\ Fills = 1..Len(trades)
    BY <1>4 DEF Fills
  <1>6. TrackerTypes'
    <2>1. Len(trades') <= MaxFills
      BY <1>3, <1>4 DEF TrackerNumbers
    <2>2. applied' \subseteq Fills' /\ announced' \subseteq Fills'
      BY <1>3, <1>5 DEF FeesInv, TrackerTypes
    <2>3. prov' \in [Cloids -> Nat] /\ fees' \in Int /\ count' \in Int /\ exact' \in BOOLEAN
      BY <1>3 DEF FeesInv, TrackerTypes
    <2> QED BY <1>4, <2>1, <2>2, <2>3 DEF TrackerTypes
  <1>7. \A d : Owed(d)' = Owed(d)
    <2>1. \A i \in announced : i \in 1..Len(trades)
      BY <1>5 DEF FeesInv, TrackerTypes
    <2> QED BY <1>3, <1>4, <2>1 DEF Owed
  <1> QED BY <1>3, <1>6, <1>7 DEF FeesInv, FeesAdd, Left

LEMMA ProvisionalKeepsFees ==
  ASSUME TrackerNumbers, FeesInv, NEW i \in Fills, NEW fee \in Estimates, ProvisionalFill(i, fee)
  PROVE  FeesInv'
  <1>1. trades[i].cloid \in Cloids /\ fee \in Nat
    <2>1. i \in 1..Len(trades)
      BY DEF Fills
    <2>2. trades[i] \in FillRec
      BY <2>1 DEF FeesInv, TrackerTypes
    <2> QED BY <2>2 DEF FillRec, TrackerNumbers
  <1>2. PICK c \in Cloids : c = trades[i].cloid
    BY <1>1
  <1>3. /\ prov' = [prov EXCEPT ![c] = @ + fee] /\ fees' = fees + fee /\ count' = count + 1
        /\ keyed' = keyed \union {c} /\ announced' = announced \union {i}
        /\ excess' = IF fee > 1 \/ i \in applied \union announced THEN excess \union {c} ELSE excess
        /\ exact' = (exact /\ fee = 1)
        /\ UNCHANGED <<trades, applied>>
    BY <1>2 DEF ProvisionalFill, RecordFillAccounting, world
  <1>4. Fills' = Fills
    BY <1>3 DEF Fills
  <1>5. \A d \in Cloids : prov'[d] = (IF d = c THEN prov[c] + fee ELSE prov[d]) /\ prov[d] \in Nat
    BY <1>1, <1>3 DEF FeesInv, TrackerTypes
  <1>6. TrackerTypes'
    <2>1. prov' \in [Cloids -> Nat] /\ fees' \in Int /\ count' \in Int
      BY <1>1, <1>3 DEF FeesInv, TrackerTypes
    <2>2. announced' \subseteq Fills' /\ exact' \in BOOLEAN
      BY <1>3, <1>4 DEF FeesInv, TrackerTypes
    <2> QED BY <1>3, <1>4, <2>1, <2>2 DEF FeesInv, TrackerTypes
  <1>7. IsFiniteSet(Left') /\ fees' = Cardinality(applied') + Cardinality(Left')
    <2>1. IsFiniteSet(Left') /\ Cardinality(Left') = Cardinality(Left) + fee
      BY <1>1, <1>3, LeftGrows DEF FeesInv, FeesAdd
    <2>2. Cardinality(applied) \in Nat /\ Cardinality(Left) \in Nat
      BY PartsOfFills, FS_CardinalityType DEF FeesInv, FeesAdd
    <2>3. Cardinality(applied') = Cardinality(applied) /\ fees = Cardinality(applied) + Cardinality(Left)
      BY <1>3 DEF FeesInv, FeesAdd
    <2> QED BY <1>1, <1>3, <2>1, <2>2, <2>3
  <1>8. ASSUME NEW d \in Cloids \ excess' PROVE prov'[d] <= Cardinality(Owed(d)')
    <2>1. d \notin excess /\ (d = c => fee <= 1 /\ i \notin applied /\ i \notin announced)
      BY <1>1, <1>3, <1>8
    <2>2. /\ prov[d] <= Cardinality(Owed(d)) /\ IsFiniteSet(Owed(d)) /\ Cardinality(Owed(d)) \in Nat
      BY <2>1, PartsOfFills DEF FeesInv, FeesAdd
    <2>3. CASE d = c
      <3>1. Owed(d)' = Owed(d) \union {i} /\ i \notin Owed(d)
        BY <1>2, <1>3, <2>1, <2>3 DEF Owed
      <3>2. Cardinality(Owed(d)') = Cardinality(Owed(d)) + 1
        BY <2>2, <3>1, FS_AddElement
      <3> QED BY <1>1, <1>5, <2>1, <2>2, <2>3, <3>2
    <2>4. CASE d # c
      <3>1. Owed(d)' = Owed(d)
        BY <1>2, <1>3, <2>4 DEF Owed
      <3> QED BY <1>5, <2>2, <2>4, <3>1
    <2> QED BY <2>3, <2>4
  <1>9. ASSUME exact' PROVE count' = fees' /\ \A d \in Cloids : d \in keyed' <=> prov'[d] > 0
    <2>1. exact /\ fee = 1
      BY <1>3, <1>9
    <2>2. count = fees /\ \A d \in Cloids : d \in keyed <=> prov[d] > 0
      BY <2>1 DEF FeesInv, FeesAdd
    <2>3. count' = fees'
      BY <1>3, <2>1, <2>2
    <2>4. ASSUME NEW d \in Cloids PROVE d \in keyed' <=> prov'[d] > 0
      BY <1>3, <1>5, <2>1, <2>2
    <2> QED BY <2>3, <2>4
  <1> QED BY <1>6, <1>7, <1>8, <1>9 DEF FeesInv, FeesAdd

LEMMA CommitKeepsFees ==
  ASSUME TrackerNumbers, FeesInv, NEW i \in Fills, AuthoritativeFill(i)
  PROVE  FeesInv'
  <1>1. trades[i].cloid \in Cloids
    <2>1. i \in 1..Len(trades)
      BY DEF Fills
    <2>2. trades[i] \in FillRec
      BY <2>1 DEF FeesInv, TrackerTypes
    <2> QED BY <2>2 DEF FillRec
  <1>2. PICK c \in Cloids : c = trades[i].cloid
    BY <1>1
  <1>3. PICK u \in {0, 1} : u = Consumed(c) /\ (u = 1 <=> prov[c] > 0) /\ u <= prov[c] /\ prov[c] \in Nat
    <2>1. prov[c] \in Nat
      BY DEF FeesInv, TrackerTypes
    <2> QED BY <2>1 DEF Consumed
  <1>4. /\ applied' = applied \union {i} /\ fees' = fees + 1 - u
        /\ count' = IF c \in keyed THEN count ELSE count + 1
        /\ keyed' = IF prov[c] > u THEN keyed ELSE keyed \ {c}
        /\ prov' = [prov EXCEPT ![c] = @ - u] /\ i \notin applied
        /\ UNCHANGED <<trades, announced, excess, exact>>
    BY <1>2, <1>3 DEF AuthoritativeFill, world, history
  <1>5. Fills' = Fills
    BY <1>4 DEF Fills
  <1>6. \A d \in Cloids : prov'[d] = (IF d = c THEN prov[c] - u ELSE prov[d]) /\ prov[d] \in Nat
    BY <1>3, <1>4 DEF FeesInv, TrackerTypes
  <1>7. TrackerTypes'
    <2>1. prov' \in [Cloids -> Nat]
      BY <1>3, <1>4 DEF FeesInv, TrackerTypes
    <2>2. fees' \in Int /\ count' \in Int
      BY <1>3, <1>4 DEF FeesInv, TrackerTypes
    <2>3. applied' \subseteq Fills'
      BY <1>4, <1>5 DEF FeesInv, TrackerTypes
    <2> QED BY <1>4, <1>5, <2>1, <2>2, <2>3 DEF FeesInv, TrackerTypes
  <1>8. IsFiniteSet(Left') /\ fees' = Cardinality(applied') + Cardinality(Left')
    <2>1. IsFiniteSet(Left) /\ fees = Cardinality(applied) + Cardinality(Left)
      BY DEF FeesInv, FeesAdd
    <2>2. IsFiniteSet(Left') /\ Cardinality(Left') = Cardinality(Left) - u
      <3>1. CASE u = 1
        BY <1>3, <1>4, <2>1, <3>1, LeftShrinks DEF FeesInv
      <3>2. CASE u = 0
        <4>1. prov' = prov
          BY <1>4, <3>2 DEF FeesInv, TrackerTypes
        <4>2. Left' = Left
          BY <4>1 DEF Left
        <4> QED BY <2>1, <3>2, <4>2, FS_CardinalityType
      <3> QED BY <3>1, <3>2
    <2>3. Cardinality(applied') = Cardinality(applied) + 1
      BY <1>4, PartsOfFills, FS_AddElement DEF FeesInv
    <2>4. Cardinality(applied) \in Nat /\ Cardinality(Left) \in Nat
      BY <2>1, PartsOfFills, FS_CardinalityType DEF FeesInv
    <2> QED BY <1>4, <2>1, <2>2, <2>3, <2>4
  <1>9. ASSUME NEW d \in Cloids \ excess' PROVE prov'[d] <= Cardinality(Owed(d)')
    <2>1. /\ prov[d] <= Cardinality(Owed(d)) /\ IsFiniteSet(Owed(d)) /\ Cardinality(Owed(d)) \in Nat
          /\ prov[d] \in Nat
      BY <1>4, <1>9, PartsOfFills DEF FeesInv, FeesAdd, TrackerTypes
    <2>2. Owed(d)' = Owed(d) \ {i}
      BY <1>4 DEF Owed
    <2>3. i \in Owed(d) => d = c
      BY <1>2 DEF Owed
    <2>4. CASE i \notin Owed(d)
      <3>1. Owed(d)' = Owed(d)
        BY <2>2, <2>4
      <3>2. prov'[d] <= prov[d] /\ prov'[d] \in Nat
        BY <1>3, <1>6
      <3> QED BY <2>1, <3>1, <3>2
    <2>5. CASE i \in Owed(d)
      <3>1. Cardinality(Owed(d)') = Cardinality(Owed(d)) - 1
        BY <2>1, <2>2, <2>5, FS_RemoveElement
      <3>2. prov'[d] = prov[d] - u /\ (u = 1 <=> prov[d] > 0)
        BY <1>3, <1>6, <2>3, <2>5
      <3>3. Cardinality(Owed(d)) # 0
        BY <2>1, <2>5, FS_EmptySet
      <3> QED BY <1>3, <2>1, <3>1, <3>2, <3>3
    <2> QED BY <2>4, <2>5
  <1>10. ASSUME exact' PROVE count' = fees' /\ \A d \in Cloids : d \in keyed' <=> prov'[d] > 0
    <2>1. count = fees /\ \A d \in Cloids : d \in keyed <=> prov[d] > 0
      BY <1>4, <1>10 DEF FeesInv, FeesAdd
    <2>2. c \in keyed <=> u = 1
      BY <1>3, <2>1
    <2>3. fees \in Int
      BY DEF FeesInv, TrackerTypes
    <2>4. CASE u = 1
      <3>1. count' = fees'
        BY <1>4, <2>1, <2>2, <2>3, <2>4
      <3>2. ASSUME NEW d \in Cloids PROVE d \in keyed' <=> prov'[d] > 0
        BY <1>3, <1>4, <1>6, <2>1, <2>4
      <3> QED BY <3>1, <3>2
    <2>5. CASE u = 0
      <3>1. count' = fees'
        BY <1>4, <2>1, <2>2, <2>3, <2>5
      <3>2. ASSUME NEW d \in Cloids PROVE d \in keyed' <=> prov'[d] > 0
        BY <1>3, <1>4, <1>6, <2>1, <2>5
      <3> QED BY <3>1, <3>2
    <2> QED BY <2>4, <2>5
  <1> QED BY <1>7, <1>8, <1>9, <1>10 DEF FeesInv, FeesAdd

LEMMA FeesKept == ASSUME TrackerNumbers, FeesInv, [TrackerNext]_trackerVars PROVE FeesInv'
  <1>1. ASSUME UNCHANGED <<trades, prov, fees, count, applied, keyed, announced, excess, exact>>
        PROVE  FeesInv'
    <2>1. Fills' = Fills
      BY <1>1 DEF Fills
    <2>2. \A c : Owed(c)' = Owed(c)
      BY <1>1 DEF Owed
    <2> QED BY <1>1, <2>1, <2>2 DEF FeesInv, TrackerTypes, FeesAdd, Left
  <1>2. CASE ClockTick \/ PollFails \/ PollStep \/ UNCHANGED trackerVars
    <2>1. UNCHANGED <<trades, prov, fees, count, applied, keyed, announced, excess, exact>>
      BY <1>2 DEF ClockTick, PollFails, PollStep, PollFetch, PollList, PollSymbol, PollPersist, PollHealthy,
                  trackerVars, world, accounting, history
    <2> QED BY <1>1, <2>1
  <1> QED BY <1>2, VenueFillKeepsFees, ProvisionalKeepsFees, CommitKeepsFees DEF TrackerNext

\* AccountTracker: whatever order the reports of fills and their commits come in,
\* however many fills share a client order id and whatever the reports carry, the
\* fees are those of the commits and of what still waits; for an order without a
\* high, late or repeated report no more waits than its reported fills can still
\* bring, so a commit replaces the report; exact reports count fills as fees.
THEOREM FeesAreCountedOnce == TrackerNumbers /\ TrackerSpec => []FeesConverge
  <1>1. ASSUME FeesInv
        PROVE  FeesConverge
    BY <1>1, UnitsAreLeft DEF FeesInv, FeesAdd, FeesConverge
  <1> SUFFICES ASSUME TrackerNumbers PROVE TrackerSpec => []FeesConverge
    OBVIOUS
  <1> QED BY <1>1, FeesStart, FeesKept, PTL DEF TrackerSpec

----------------------------------------------------------------------------
HealthRec == [seen : BOOLEAN, at : Nat, healthy : BOOLEAN]
\* What a poll that succeeds observes.
Snapped == {"clearinghouse", "inventory"}
PollTimes ==
  /\ clock \in Nat /\ spotAt \in Nat /\ spotAt <= clock
  /\ observed \in [Dimensions -> HealthRec]
  /\ DOMAIN poll = {"phase", "snap", "at", "todo"} /\ poll.at \in Nat
  /\ poll.phase # "asleep" => poll.at <= clock /\ spotAt <= poll.at
  /\ poll.phase = "persisted" => spotAt = poll.at
  /\ \A d \in Snapped : observed[d].seen /\ observed[d].healthy => observed[d].at <= spotAt

LEMMA TimesStart == ASSUME TrackerInit PROVE PollTimes
  <1>1. Unobserved \in HealthRec /\ Unobserved.seen = FALSE
    BY DEF Unobserved, HealthRec
  <1>2. DOMAIN Asleep = {"phase", "snap", "at", "todo"} /\ Asleep.at = 0 /\ Asleep.phase = "asleep"
    BY DEF Asleep
  <1> QED BY <1>1, <1>2 DEF TrackerInit, PollTimes, Dimensions, Snapped
LEMMA TimesKept == ASSUME PollTimes, [TrackerNext]_trackerVars PROVE PollTimes'
  <1>1. CASE ClockTick
    BY <1>1 DEF ClockTick, PollTimes, health, poller
  <1>2. CASE VenueFill \/ (\E i \in Fills : AuthoritativeFill(i))
             \/ (\E i \in Fills, fee \in Estimates : ProvisionalFill(i, fee)) \/ UNCHANGED trackerVars
    <2>1. UNCHANGED <<clock, spotAt, observed, poll>>
      BY <1>2 DEF VenueFill, AuthoritativeFill, ProvisionalFill, trackerVars, health, poller, world
    <2> QED BY <2>1 DEF PollTimes
  <1>3. CASE PollFails
    <2>1. PICK r : r = [seen |-> TRUE, at |-> clock, healthy |-> FALSE]
      OBVIOUS
    <2>2. r \in HealthRec /\ r.healthy = FALSE
      BY <2>1 DEF HealthRec, PollTimes
    <2>3. observed' = [observed EXCEPT !["clearinghouse"] = r] /\ UNCHANGED <<clock, spotAt, poll>>
      BY <1>3, <2>1 DEF PollFails, Record, world
    <2>4. /\ observed' \in [Dimensions -> HealthRec] /\ observed'["clearinghouse"] = r
          /\ \A d \in Dimensions : d # "clearinghouse" => observed'[d] = observed[d]
      BY <2>2, <2>3 DEF PollTimes, Dimensions
    <2> QED BY <2>2, <2>3, <2>4 DEF PollTimes, Snapped, Dimensions
  <1>4. CASE PollFetch
    <2>1. PICK a : a = [Asleep EXCEPT !.phase = "fetched", !.snap = VenueNow]
      OBVIOUS
    <2>2. DOMAIN a = {"phase", "snap", "at", "todo"} /\ a.phase = "fetched"
      BY <2>1 DEF Asleep
    <2>3. poll' = [a EXCEPT !.at = clock] /\ UNCHANGED <<clock, spotAt, observed>>
      BY <1>4, <2>1 DEF PollFetch, world, health
    <2>4. DOMAIN poll' = DOMAIN a /\ poll'.at = clock /\ poll'.phase = "fetched"
      BY <2>2, <2>3
    <2> QED BY <2>2, <2>3, <2>4 DEF PollTimes
  <1>5. CASE PollList
    <2>1. poll' = [poll EXCEPT !.phase = "applying", !.todo = ToApply] /\ UNCHANGED <<clock, spotAt, observed>>
          /\ poll.phase = "fetched"
      BY <1>5 DEF PollList, world, health
    <2>2. DOMAIN poll' = DOMAIN poll /\ poll'.at = poll.at /\ poll'.phase = "applying"
      BY <2>1 DEF PollTimes
    <2> QED BY <2>1, <2>2 DEF PollTimes
  <1>6. CASE \E s \in Symbols : PollSymbol(s)
    <2>1. PICK t : poll' = [poll EXCEPT !.todo = t]
      BY <1>6 DEF PollSymbol
    <2>2. UNCHANGED <<clock, spotAt, observed>>
      BY <1>6 DEF PollSymbol, world, health
    <2>3. DOMAIN poll' = DOMAIN poll /\ poll'.at = poll.at /\ poll'.phase = poll.phase
      BY <2>1 DEF PollTimes
    <2> QED BY <2>2, <2>3 DEF PollTimes
  <1>7. CASE PollPersist
    <2>1. poll' = [poll EXCEPT !.phase = "persisted"] /\ spotAt' = poll.at /\ UNCHANGED <<clock, observed>>
          /\ poll.phase = "applying"
      BY <1>7 DEF PollPersist, world
    <2>2. DOMAIN poll' = DOMAIN poll /\ poll'.at = poll.at /\ poll'.phase = "persisted"
      BY <2>1 DEF PollTimes
    <2>3. \A d \in Snapped : observed[d] \in HealthRec /\ observed[d].at \in Nat
      BY DEF PollTimes, Snapped, Dimensions, HealthRec
    <2> QED BY <2>1, <2>2, <2>3 DEF PollTimes
  <1>8. CASE PollHealthy
    <2>1. PICK r : r = [seen |-> TRUE, at |-> poll.at, healthy |-> TRUE]
      OBVIOUS
    <2>2. r \in HealthRec /\ r.at = poll.at
      BY <2>1 DEF HealthRec, PollTimes
    <2>3. observed' = [d \in Dimensions |-> IF d \in {"clearinghouse", "inventory"} THEN r ELSE observed[d]]
      BY <1>8, <2>1 DEF PollHealthy, PollRecorded
    <2>4. observed' \in [Dimensions -> HealthRec] /\ \A d \in Snapped : observed'[d] = r
      BY <2>2, <2>3 DEF PollTimes, Snapped, Dimensions
    <2>5. poll' = Asleep /\ UNCHANGED <<clock, spotAt>> /\ poll.phase = "persisted"
      BY <1>8 DEF PollHealthy, world
    <2>6. DOMAIN Asleep = {"phase", "snap", "at", "todo"} /\ Asleep.at = 0 /\ Asleep.phase = "asleep"
      BY DEF Asleep
    <2> QED BY <2>2, <2>4, <2>5, <2>6 DEF PollTimes
  <1> QED BY <1>1, <1>2, <1>3, <1>4, <1>5, <1>6, <1>7, <1>8 DEF TrackerNext, PollStep

\* The account health record: a clearinghouse or an inventory that counts as fresh
\* is one whose snapshot the tracker has applied, however polls, failures and
\* ticks mix.
THEOREM FreshMeansApplied == TrackerNumbers /\ TrackerSpec => []FreshIsApplied
  <1>1. ASSUME TrackerNumbers, PollTimes
        PROVE  FreshIsApplied
    <2> SUFFICES ASSUME NEW d \in Snapped, Status(d) = "fresh"
                 PROVE  clock - spotAt <= MaxAge /\ spotAt >= observed[d].at
      BY DEF FreshIsApplied, Snapped
    <2>1. observed[d] \in HealthRec /\ observed[d].at \in Nat
      BY <1>1 DEF PollTimes, Snapped, Dimensions, HealthRec
    <2>2. observed[d].seen /\ observed[d].healthy /\ ~(clock - observed[d].at > MaxAge)
      BY DEF Status
    <2> QED BY <1>1, <2>1, <2>2 DEF PollTimes, TrackerNumbers
  <1> SUFFICES ASSUME TrackerNumbers PROVE TrackerSpec => []FreshIsApplied
    OBVIOUS
  <1> QED BY <1>1, TimesStart, TimesKept, PTL DEF TrackerSpec

(***************************************************************************)
(* Reconciler: the venue's truth settles the differences                   *)
(***************************************************************************)

ReconcilerSpec == ReconcilerInit /\ [][ReconcilerNext]_reconcilerVars

Account == [positions : [Assets -> Sizes], balances : [Assets -> Sizes], orders : SUBSET OpenOrders]
AccountsKnown == local \in Account /\ venueTruth \in Account

LEMMA AccountsStart == ReconcilerInit => AccountsKnown
BY DEF ReconcilerInit, AccountsKnown, Account, Nothing, Sizes, Absent

\* What is applied is, for each symbol, the venue's size or its own that equals it.
LEMMA AppliedSizes ==
  ASSUME NEW l \in Account, NEW v \in Account
  PROVE  /\ TruePositions(l, v) \in [Assets -> Sizes] /\ TrueBalances(v) \in [Assets -> Sizes]
         /\ \A a \in Assets : /\ SizeOf(TruePositions(l, v)[a]) = SizeOf(v.positions[a])
                              /\ v.positions[a] \notin {0, Absent} => TruePositions(l, v)[a] = v.positions[a]
                              /\ SizeOf(TrueBalances(v)[a]) = SizeOf(v.balances[a])
BY DEF Account, TruePositions, TrueBalances, SizeOf, Sizes, Absent

LEMMA Applied ==
  ASSUME AccountsKnown, ApplyExchangeTruth
  PROVE  /\ local' \in Account /\ local'.orders = local.orders
         /\ local'.positions = TruePositions(local, venueTruth)
         /\ local'.balances = TrueBalances(venueTruth)
BY AppliedSizes DEF AccountsKnown, ApplyExchangeTruth, Account

LEMMA AccountsKept == AccountsKnown /\ [ReconcilerNext]_reconcilerVars => AccountsKnown'
<1> SUFFICES ASSUME AccountsKnown, [ReconcilerNext]_reconcilerVars PROVE AccountsKnown'
  OBVIOUS
<1>1. CASE Observe
  BY <1>1 DEF Observe, Accounts, AccountsKnown, Account, Sizes, Absent
<1>2. CASE ApplyExchangeTruth
  BY <1>2, Applied DEF ApplyExchangeTruth, AccountsKnown
<1>3. CASE UNCHANGED reconcilerVars
  BY <1>3 DEF reconcilerVars, AccountsKnown
<1> QED BY <1>1, <1>2, <1>3 DEF ReconcilerNext

LEMMA TruthStepSettles ==
  ASSUME IsFiniteSet(Assets), AccountsKnown, [ReconcilerNext]_reconcilerVars
  PROVE  SettlingStep
<1> SUFFICES ASSUME ApplyExchangeTruth
             PROVE  /\ \A d \in BuildDiffs(local', venueTruth) :
                         \/ d \in OrderDiffs(local, venueTruth)
                         \/ d \in {<<"size_mismatch", a>> : a \in {b \in Assets : venueTruth.positions[b] = 0}}
                    /\ corrected' = 0 <=> \A a \in Assets : SizeOf(local.positions[a]) = SizeOf(local'.positions[a])
  BY DEF SettlingStep
<1>1. /\ local' \in Account /\ local'.orders = local.orders
      /\ local'.positions = TruePositions(local, venueTruth)
      /\ local'.balances = TrueBalances(venueTruth)
  BY Applied
<1>2. \A a \in Assets :
        /\ SizeOf(local'.positions[a]) = SizeOf(venueTruth.positions[a])
        /\ venueTruth.positions[a] \notin {0, Absent} => local'.positions[a] = venueTruth.positions[a]
        /\ SizeOf(local'.balances[a]) = SizeOf(venueTruth.balances[a])
  BY <1>1, AppliedSizes DEF AccountsKnown
<1>3. OrderDiffs(local', venueTruth) = OrderDiffs(local, venueTruth)
  BY <1>1 DEF OrderDiffs
<1>4. ASSUME NEW d \in SizeMismatch(local', venueTruth)
      PROVE  d \in {<<"size_mismatch", a>> : a \in {b \in Assets : venueTruth.positions[b] = 0}}
  <2>1. PICK a \in Assets : /\ d = <<"size_mismatch", a>> /\ venueTruth.positions[a] # Absent
                            /\ local'.positions[a] = Absent \/ local'.positions[a] # venueTruth.positions[a]
    BY <1>4 DEF SizeMismatch
  <2>2. venueTruth.positions[a] = 0
    BY <1>2, <2>1
  <2> QED BY <2>1, <2>2
<1>5. ClosedOnExchange(local', venueTruth) = {}
  <2>1. ASSUME NEW a \in Assets, venueTruth.positions[a] = Absent PROVE SizeOf(local'.positions[a]) = 0
    BY <1>2, <2>1 DEF SizeOf
  <2> QED BY <2>1 DEF ClosedOnExchange
<1>6. BalanceDiffs(local', venueTruth) = {}
  BY <1>2 DEF BalanceDiffs
<1>7. corrected' = 0 <=> \A a \in Assets : SizeOf(local.positions[a]) = SizeOf(local'.positions[a])
  <2> DEFINE C == {a \in Assets : SizeOf(local.positions[a]) # SizeOf(venueTruth.positions[a])}
  <2>1. corrected' = Cardinality(C)
    BY DEF ApplyExchangeTruth, Corrections
  <2>2. IsFiniteSet(C)
    BY FS_Subset
  <2>3. Cardinality(C) = 0 <=> C = {}
    BY <2>2, FS_EmptySet
  <2> QED BY <1>2, <2>1, <2>3
<1> QED BY <1>3, <1>4, <1>5, <1>6, <1>7 DEF BuildDiffs

\* The account holds finitely many assets.
AssetsAreFinite == IsFiniteSet(Assets)

\* Applying the venue's truth leaves no difference but open orders and the
\* flat symbols the venue lists (reconciler.rs: build_diffs,
\* apply_exchange_truth), for any finite set of assets.
THEOREM TruthSettlesAll == AssetsAreFinite /\ ReconcilerSpec => [][SettlingStep]_reconcilerVars
<1> SUFFICES ASSUME AssetsAreFinite PROVE ReconcilerSpec => [][SettlingStep]_reconcilerVars
  OBVIOUS
<1>1. AccountsKnown /\ [ReconcilerNext]_reconcilerVars => [SettlingStep]_reconcilerVars
  BY TruthStepSettles DEF AssetsAreFinite
<1> QED BY <1>1, AccountsStart, AccountsKept, PTL DEF ReconcilerSpec

(***************************************************************************)
(* WsFeed: no channel is forgotten                                         *)
(***************************************************************************)

FeedSpec == FeedInit /\ [][FeedNext]_feedVars

\* The limits of a connection are counts.
LimitsAreNumbers == MaxAttempts \in Nat /\ MaxBreaks \in Nat /\ MaxDelay \in Nat

FeedInv ==
  /\ generation \in Nat /\ bookGen \in Nat /\ breaks \in Nat
  /\ attempts \in [Subs -> Nat]
  /\ FeedTypeOK /\ NoChannelForgotten

\* What is taken off the failed subscriptions is asked for again or given up.
LEMMA DrainKeepsTrack ==
  ASSUME LimitsAreNumbers,
         NEW f, NEW asking, NEW tries, NEW fed,
         f \subseteq Subs, asking \subseteq Subs, tries \in [Subs -> Nat],
         Drain(f, asking, tries),
         NEW s \in Subs, s \in fed \cup asking \cup f \/ tries[s] > MaxAttempts
  PROVE  s \in fed \cup asked' \cup failed' \/ attempts'[s] > MaxAttempts
BY DEF Drain, LimitsAreNumbers

LEMMA DrainKeepsTypes ==
  ASSUME NEW f, NEW asking, NEW tries,
         f \subseteq Subs, asking \subseteq Subs, tries \in [Subs -> Nat],
         Drain(f, asking, tries)
  PROVE  asked' \subseteq Subs /\ failed' \subseteq Subs /\ attempts' \in [Subs -> Nat]
BY DEF Drain

LEMMA FeedStarts == LimitsAreNumbers /\ FeedInit => FeedInv
BY DEF FeedInit, FeedInv, FeedTypeOK, NoChannelForgotten, LimitsAreNumbers

LEMMA FeedKept == LimitsAreNumbers /\ FeedInv /\ [FeedNext]_feedVars => FeedInv'
<1> SUFFICES ASSUME LimitsAreNumbers, FeedInv, [FeedNext]_feedVars PROVE FeedInv'
  OBVIOUS
<1> USE DEF FeedInv, FeedTypeOK, NoChannelForgotten, LimitsAreNumbers
<1>1. CASE Connect
  BY <1>1 DEF Connect, Break, feed
<1>2. CASE ConnectFails
  BY <1>2 DEF ConnectFails, Break, Doubled, feed
<1>3. ASSUME NEW s \in Subs, Confirmed(s) PROVE FeedInv'
  <2>1. PICK tries \in [Subs -> Nat] :
          /\ Drain(failed \ {s}, asked \ {s}, tries)
          /\ \A q \in Subs : q = s \/ tries[q] = attempts[q]
    BY <1>3 DEF Confirmed
  <2>2. asked' \subseteq Subs /\ failed' \subseteq Subs /\ attempts' \in [Subs -> Nat]
    BY <2>1, DrainKeepsTypes
  <2>3. ASSUME socket = "up", NEW q \in Subs
        PROVE  q \in active' \cup asked' \cup failed' \/ attempts'[q] > MaxAttempts
    <3>1. q \in active' \cup (asked \ {s}) \cup (failed \ {s}) \/ tries[q] > MaxAttempts
      BY <1>3, <2>1, <2>3 DEF Confirmed
    <3> QED BY <2>1, <3>1, DrainKeepsTrack
  <2> QED BY <1>3, <2>2, <2>3 DEF Confirmed
<1>4. ASSUME NEW s \in Subs, Rejected(s) PROVE FeedInv'
  <2>2. asked' \subseteq Subs /\ failed' \subseteq Subs /\ attempts' \in [Subs -> Nat]
    BY <1>4, DrainKeepsTypes DEF Rejected, QueueRejected
  <2>3. ASSUME socket = "up", NEW q \in Subs
        PROVE  q \in active \cup asked' \cup failed' \/ attempts'[q] > MaxAttempts
    <3>1. q \in active \cup (asked \ {s}) \cup QueueRejected(s) \/ attempts[q] > MaxAttempts
      BY <1>4, <2>3 DEF QueueRejected
    <3> QED BY <1>4, <3>1, DrainKeepsTrack DEF Rejected, QueueRejected
  <2> QED BY <1>4, <2>2, <2>3 DEF Rejected
<1>5. CASE Frame
  <2>2. asked' \subseteq Subs /\ failed' \subseteq Subs /\ attempts' \in [Subs -> Nat]
    BY <1>5, DrainKeepsTypes DEF Frame
  <2>3. ASSUME socket = "up", NEW q \in Subs
        PROVE  q \in active \cup asked' \cup failed' \/ attempts'[q] > MaxAttempts
    BY <1>5, <2>3, DrainKeepsTrack DEF Frame
  <2> QED BY <1>5, <2>2, <2>3 DEF Frame
<1>6. CASE Rest
  BY <1>6 DEF Rest
<1>7. CASE Dropped \/ Dies \/ ReadTimeout
  BY <1>7 DEF Dropped, Dies, ReadTimeout, Lost, Break, Doubled, feed
<1>8. CASE UNCHANGED feedVars
  BY <1>8 DEF feedVars
<1> QED BY <1>1, <1>2, <1>3, <1>4, <1>5, <1>6, <1>7, <1>8 DEF FeedNext, Answer

\* A configured channel is never missing from a working socket by accident
\* (ws_feed.rs: subscribe, drain_resubscribe_queue), for any channels and
\* limits, whatever is rejected, dropped or rested in whatever order.
THEOREM NoChannelIsForgotten ==
  LimitsAreNumbers /\ FeedSpec => [](FeedTypeOK /\ NoChannelForgotten)
<1>1. FeedInv => FeedTypeOK /\ NoChannelForgotten
  BY DEF FeedInv
<1> SUFFICES ASSUME LimitsAreNumbers PROVE FeedSpec => [](FeedTypeOK /\ NoChannelForgotten)
  OBVIOUS
<1> QED BY <1>1, FeedStarts, FeedKept, PTL DEF FeedSpec

(***************************************************************************)
(* EmergencyCancel: the journal knows every request on its way             *)
(***************************************************************************)

CancelBounds == MaxCancels \in Nat /\ "none" \notin Targets
EmergencySpec == CancelInit /\ [][CancelNext]_cancelVars

OpRec == [kind : {"none", "cancel", "cancel_all", "recover"},
          at : {"none", "next", "send", "sent", "verify", "resolve"},
          todo : SUBSET (Numbers \union Targets), old : SUBSET Numbers, dispatched : SUBSET Numbers,
          current : 0..MaxCancels, seen : SUBSET Targets]
AttemptRec == [target : Targets \union {"none"}, intent : BOOLEAN, done : BOOLEAN, sent : BOOLEAN]

CancelTypes ==
  /\ open \subseteq Targets /\ tail \in {"whole", "torn", "glued"}
  /\ attempt \in [Numbers -> AttemptRec] /\ op \in OpRec
NumberedInOrder == \E k \in 0..MaxCancels : Used = 1..k
Journaled ==
  /\ \A n \in Used : attempt[n].done => attempt[n].target \notin open
  /\ \A n \in Used : attempt[n].sent => attempt[n].intent
  /\ wire \subseteq Used /\ \A n \in wire : attempt[n].intent
  /\ reported \intersect open = {}
InHand ==
  /\ op.old \subseteq Used /\ op.dispatched \subseteq Used
  /\ op.at # "none" => open \subseteq op.seen
  /\ op.at \in {"send", "sent"} => op.current \in Used /\ attempt[op.current].intent
  /\ op.at = "resolve" => op.kind = "recover"
Replayed ==
  op.kind = "recover" =>
    /\ op.todo \subseteq Used
    /\ op.at # "verify" => op.dispatched = {}
    /\ \A d, e \in op.dispatched : d = e
    /\ op.at \in {"send", "sent"} => \A n \in op.todo : attempt[n].target = attempt[op.current].target
    /\ op.at = "verify" => \A n \in op.todo, d \in op.dispatched : attempt[n].target = attempt[d].target
    /\ op.at = "resolve" => \A n \in op.todo : attempt[n].target \notin open
CancelInv == CancelTypes /\ NumberedInOrder /\ Journaled /\ InHand /\ Replayed

Fields(p, k, a, td, ol, di, cu, se) ==
  /\ p \in OpRec /\ p.kind = k /\ p.at = a /\ p.todo = td /\ p.old = ol
  /\ p.dispatched = di /\ p.current = cu /\ p.seen = se

\* What an update leaves of the operation under the lock.
LEMMA IdleFields ==
  ASSUME CancelBounds
  PROVE  Fields(NoOp, "none", "none", {}, {}, {}, 0, {})
  BY DEF CancelBounds, Fields, NoOp, OpRec
LEMMA BegunFields ==
  ASSUME CancelBounds, NEW k \in {"cancel", "cancel_all"}, NEW td \in SUBSET Targets,
         NEW se \in SUBSET Targets, NEW p,
         p = [NoOp EXCEPT !.kind = k, !.at = "next", !.todo = td, !.seen = se]
  PROVE  Fields(p, k, "next", td, {}, {}, 0, se)
  <1>1. PICK o : o = [NoOp EXCEPT !.kind = k, !.at = "next"]
    OBVIOUS
  <1>2. Fields(o, k, "next", {}, {}, {}, 0, {})
    BY <1>1, IdleFields DEF Fields, OpRec
  <1>3. p = [o EXCEPT !.todo = td, !.seen = se]
    BY <1>1
  <1> QED BY <1>2, <1>3 DEF Fields, OpRec
LEMMA RecoveryFields ==
  ASSUME CancelBounds, NEW ol \in SUBSET Numbers, NEW se \in SUBSET Targets, NEW p,
         p = [NoOp EXCEPT !.kind = "recover", !.at = "next", !.old = ol, !.seen = se]
  PROVE  Fields(p, "recover", "next", {}, ol, {}, 0, se)
  <1>1. PICK o : o = [NoOp EXCEPT !.kind = "recover", !.at = "next"]
    OBVIOUS
  <1>2. Fields(o, "recover", "next", {}, {}, {}, 0, {})
    BY <1>1, IdleFields DEF Fields, OpRec
  <1>3. p = [o EXCEPT !.old = ol, !.seen = se]
    BY <1>1
  <1> QED BY <1>2, <1>3 DEF Fields, OpRec
LEMMA DispatchFields ==
  ASSUME CancelBounds, NEW o \in OpRec, NEW c \in 0..MaxCancels, NEW t, NEW p,
         p = [o EXCEPT !.at = "send", !.current = c, !.todo = @ \ {t}]
  PROVE  Fields(p, o.kind, "send", o.todo \ {t}, o.old, o.dispatched, c, o.seen)
  BY DEF CancelBounds, Fields, OpRec
LEMMA ReplayFields ==
  ASSUME CancelBounds, NEW o \in OpRec, NEW c \in 0..MaxCancels, NEW n \in Numbers, NEW p,
         p = [o EXCEPT !.at = "send", !.current = c, !.todo = {n}, !.old = @ \ {n}]
  PROVE  Fields(p, o.kind, "send", {n}, o.old \ {n}, o.dispatched, c, o.seen)
  BY DEF CancelBounds, Fields, OpRec
LEMMA SkipFields ==
  ASSUME NEW o \in OpRec, NEW t, NEW p, p = [o EXCEPT !.todo = @ \ {t}]
  PROVE  Fields(p, o.kind, o.at, o.todo \ {t}, o.old, o.dispatched, o.current, o.seen)
  BY DEF Fields, OpRec
LEMMA ResolvedFields ==
  ASSUME NEW o \in OpRec, NEW n, NEW p, p = [o EXCEPT !.old = @ \ {n}]
  PROVE  Fields(p, o.kind, o.at, o.todo, o.old \ {n}, o.dispatched, o.current, o.seen)
  BY DEF Fields, OpRec
LEMMA SentFields ==
  ASSUME NEW o \in OpRec, NEW p, p = [o EXCEPT !.at = "sent"]
  PROVE  Fields(p, o.kind, "sent", o.todo, o.old, o.dispatched, o.current, o.seen)
  BY DEF Fields, OpRec
LEMMA AnsweredFields ==
  ASSUME CancelBounds, NEW o \in OpRec, o.current \in Numbers, NEW v \in SUBSET Targets, NEW p,
         p = [o EXCEPT !.dispatched = @ \union {o.current}, !.current = 0,
                       !.at = IF o.kind = "cancel_all" THEN "next" ELSE "verify",
                       !.seen = IF o.kind = "cancel_all" THEN @ ELSE v]
  PROVE  Fields(p, o.kind, IF o.kind = "cancel_all" THEN "next" ELSE "verify", o.todo, o.old,
                o.dispatched \union {o.current}, 0, IF o.kind = "cancel_all" THEN o.seen ELSE v)
  <1>0. PICK d \in SUBSET Numbers : d = o.dispatched \union {o.current}
    BY DEF OpRec
  <1>z. PICK c \in 0..MaxCancels : c = 0
    BY DEF CancelBounds
  <1>1. PICK q : q = [o EXCEPT !.dispatched = d, !.current = c]
    OBVIOUS
  <1>2. Fields(q, o.kind, o.at, o.todo, o.old, d, 0, o.seen)
    BY <1>1, <1>z DEF Fields, OpRec
  <1>3. PICK a \in {"next", "verify"}, w \in SUBSET Targets :
          /\ a = IF o.kind = "cancel_all" THEN "next" ELSE "verify"
          /\ w = IF o.kind = "cancel_all" THEN o.seen ELSE v
    BY DEF OpRec
  <1>4. p = [q EXCEPT !.at = a, !.seen = w]
    BY <1>0, <1>z, <1>1, <1>3
  <1>5. Fields(p, o.kind, a, o.todo, o.old, d, 0, w)
    BY <1>2, <1>4 DEF Fields, OpRec
  <1> QED BY <1>0, <1>3, <1>5
LEMMA AllSentFields ==
  ASSUME NEW o \in OpRec, NEW v \in SUBSET Targets, NEW p,
         p = [o EXCEPT !.at = "verify", !.seen = v]
  PROVE  Fields(p, o.kind, "verify", o.todo, o.old, o.dispatched, o.current, v)
  BY DEF Fields, OpRec
LEMMA VerifiedFields ==
  ASSUME NEW o \in OpRec, NEW n, NEW a \in {"resolve", "next", "verify"}, NEW p,
         p = [o EXCEPT !.dispatched = @ \ {n}, !.at = a]
  PROVE  Fields(p, o.kind, a, o.todo, o.old, o.dispatched \ {n}, o.current, o.seen)
  BY DEF Fields, OpRec
LEMMA SettledFields ==
  ASSUME NEW o \in OpRec, NEW p, p = [o EXCEPT !.at = "next", !.todo = {}]
  PROVE  Fields(p, o.kind, "next", {}, o.old, o.dispatched, o.current, o.seen)
  BY DEF Fields, OpRec

\* A number is given to an attempt once.
LEMMA FreshIsNew ==
  ASSUME CancelBounds, NumberedInOrder
  PROVE  /\ Fresh \notin Used
         /\ Fresh \in Numbers => \E k \in 0..MaxCancels : Used \union {Fresh} = 1..k
  <1>1. PICK k \in 0..MaxCancels : Used = 1..k
    BY DEF NumberedInOrder
  <1>2. Cardinality(1..k) = k
    BY FS_Interval DEF CancelBounds
  <1>3. Fresh = k + 1
    BY <1>1, <1>2 DEF Fresh
  <1>4. Fresh \notin Used
    BY <1>1, <1>3 DEF CancelBounds
  <1>5. ASSUME Fresh \in Numbers PROVE k + 1 \in 0..MaxCancels /\ Used \union {Fresh} = 1..(k + 1)
    BY <1>1, <1>3, <1>5 DEF CancelBounds, Numbers
  <1> QED BY <1>4, <1>5

\* The record of a new attempt.
LEMMA NewRecord ==
  ASSUME NEW t \in Targets, NEW r,
         \/ r = [NoAttempt EXCEPT !.target = t, !.intent = TRUE]
         \/ r = [NoAttempt EXCEPT !.target = t, !.done = TRUE]
  PROVE  r \in AttemptRec /\ r.target = t /\ r.sent = FALSE /\ r.intent = ~r.done
  BY DEF AttemptRec, NoAttempt

\* Adding it to the journal.
LEMMA Added ==
  ASSUME CancelBounds, CancelTypes, NumberedInOrder, Fresh \in Numbers,
         NEW t \in Targets, NEW r \in AttemptRec, r.target = t,
         attempt' = [attempt EXCEPT ![Fresh] = r]
  PROVE  /\ attempt' \in [Numbers -> AttemptRec] /\ NumberedInOrder'
         /\ Used' = Used \union {Fresh} /\ Fresh \notin Used
         /\ attempt'[Fresh] = r /\ \A n \in Used : attempt'[n] = attempt[n]
  <1>1. attempt' \in [Numbers -> AttemptRec]
    BY DEF CancelTypes
  <1>2. Fresh \notin Used
    BY FreshIsNew
  <1>3. \A n \in Numbers : attempt'[n] = IF n = Fresh THEN r ELSE attempt[n]
    BY DEF CancelTypes
  <1>4. Used' = Used \union {Fresh}
    BY <1>3 DEF Used, CancelBounds
  <1>5. NumberedInOrder'
    BY <1>4, FreshIsNew DEF NumberedInOrder
  <1> QED BY <1>1, <1>2, <1>3, <1>4, <1>5 DEF Used

\* Marking attempts done, or one sent.
LEMMA MarkedDone ==
  ASSUME CancelTypes, NumberedInOrder, NEW S \in SUBSET Numbers,
         \/ \E n \in S : S = {n} /\ attempt' = [attempt EXCEPT ![n].done = TRUE]
         \/ attempt' = [n \in Numbers |-> IF n \in S THEN [attempt[n] EXCEPT !.done = TRUE] ELSE attempt[n]]
  PROVE  /\ attempt' \in [Numbers -> AttemptRec] /\ NumberedInOrder' /\ Used' = Used
         /\ \A n \in Numbers : /\ attempt'[n].target = attempt[n].target
                               /\ attempt'[n].intent = attempt[n].intent
                               /\ attempt'[n].sent = attempt[n].sent
                               /\ n \notin S => attempt'[n].done = attempt[n].done
  <1>1. \A n \in Numbers : attempt[n] \in AttemptRec
    BY DEF CancelTypes
  <1>2. attempt' = [n \in Numbers |-> IF n \in S THEN [attempt[n] EXCEPT !.done = TRUE] ELSE attempt[n]]
    <2>1. CASE \E n \in S : S = {n} /\ attempt' = [attempt EXCEPT ![n].done = TRUE]
      <3>1. PICK n \in S : S = {n} /\ attempt' = [attempt EXCEPT ![n].done = TRUE]
        BY <2>1
      <3> QED BY <3>1 DEF CancelTypes
    <2> QED BY <2>1
  <1>3. ASSUME NEW n \in Numbers
        PROVE  /\ attempt'[n] \in AttemptRec /\ attempt'[n].target = attempt[n].target
               /\ attempt'[n].intent = attempt[n].intent /\ attempt'[n].sent = attempt[n].sent
               /\ n \notin S => attempt'[n].done = attempt[n].done
    <2>1. attempt'[n] = IF n \in S THEN [attempt[n] EXCEPT !.done = TRUE] ELSE attempt[n]
      BY <1>2
    <2>2. attempt[n] \in AttemptRec
      BY <1>1
    <2> QED BY <2>1, <2>2 DEF AttemptRec
  <1>4. attempt' \in [Numbers -> AttemptRec]
    BY <1>2, <1>3
  <1>5. Used' = Used
    BY <1>3 DEF Used
  <1> QED BY <1>3, <1>4, <1>5 DEF NumberedInOrder
LEMMA SentRecord ==
  ASSUME NEW r \in AttemptRec, NEW s, s = [r EXCEPT !.sent = TRUE]
  PROVE  s \in AttemptRec /\ s.target = r.target /\ s.intent = r.intent /\ s.done = r.done
  BY DEF AttemptRec
LEMMA MarkedSent ==
  ASSUME CancelTypes, NumberedInOrder, NEW c \in Numbers,
         attempt' = [attempt EXCEPT ![c].sent = TRUE]
  PROVE  /\ attempt' \in [Numbers -> AttemptRec] /\ NumberedInOrder' /\ Used' = Used
         /\ \A n \in Numbers : /\ attempt'[n].target = attempt[n].target
                               /\ attempt'[n].intent = attempt[n].intent
                               /\ attempt'[n].done = attempt[n].done
                               /\ n # c => attempt'[n].sent = attempt[n].sent
  <1>3. ASSUME NEW n \in Numbers
        PROVE  /\ attempt'[n] \in AttemptRec /\ attempt'[n].target = attempt[n].target
               /\ attempt'[n].intent = attempt[n].intent /\ attempt'[n].done = attempt[n].done
               /\ n # c => attempt'[n].sent = attempt[n].sent
    <2>1. attempt'[n] = IF n = c THEN [attempt[n] EXCEPT !.sent = TRUE] ELSE attempt[n]
      BY DEF CancelTypes
    <2>2. attempt[n] \in AttemptRec
      BY DEF CancelTypes
    <2>3. CASE n = c
      BY <2>1, <2>2, <2>3, SentRecord
    <2> QED BY <2>1, <2>2, <2>3
  <1>4. attempt' \in [Numbers -> AttemptRec]
    BY <1>3 DEF CancelTypes
  <1>5. Used' = Used
    BY <1>3 DEF Used
  <1> QED BY <1>3, <1>4, <1>5 DEF NumberedInOrder

\* cancel, cancel_all and recover_pending start.
LEMMA BeginKeeps ==
  ASSUME CancelBounds, CancelInv, NEW k \in {"cancel", "cancel_all", "recover"}, NEW t \in Targets, Begin(k, t)
  PROVE  CancelInv'
  <1>1. /\ Fields(op', op'.kind, op'.at, op'.todo, op'.old, {}, 0, op'.seen)
        /\ op'.at \in {"none", "next"} /\ op'.old \subseteq Used
        /\ op'.kind = "recover" => op'.todo = {}
        /\ op'.at # "none" => op'.seen = open
    <2>1. CASE k = "recover" /\ ~Readable
      BY <2>1, IdleFields DEF Begin, Fields
    <2>2. CASE k = "recover" /\ Readable
      <3>1. op' = [NoOp EXCEPT !.kind = "recover", !.at = "next", !.old = Pending, !.seen = open]
        BY <2>2 DEF Begin
      <3>2. Pending \subseteq Used /\ Pending \in SUBSET Numbers
        BY DEF Pending, Used
      <3>3. open \in SUBSET Targets
        BY DEF CancelInv, CancelTypes
      <3>4. Fields(op', "recover", "next", {}, Pending, {}, 0, open)
        BY <3>1, <3>2, <3>3, RecoveryFields
      <3> QED BY <3>2, <3>4 DEF Fields
    <2>3. CASE k # "recover"
      <3>1. PICK td \in SUBSET Targets : op' = [NoOp EXCEPT !.kind = k, !.at = "next", !.todo = td, !.seen = open]
        <4>1. CASE k = "cancel"
          <5>1. {t} \intersect open \in SUBSET Targets
            OBVIOUS
          <5> QED BY <4>1, <5>1 DEF Begin
        <4>2. CASE k = "cancel_all"
          BY <4>2 DEF Begin, CancelInv, CancelTypes
        <4> QED BY <2>3, <4>1, <4>2
      <3>2. open \in SUBSET Targets
        BY DEF CancelInv, CancelTypes
      <3>3. Fields(op', k, "next", td, {}, {}, 0, open)
        BY <2>3, <3>1, <3>2, BegunFields
      <3> QED BY <2>3, <3>3 DEF Fields
    <2> QED BY <2>1, <2>2, <2>3
  <1>2. open' = open /\ wire' = wire
    BY DEF Begin
  <1>3. CASE k = "cancel" /\ t \notin open
    <2>1. PICK r : r = [NoAttempt EXCEPT !.target = t, !.done = TRUE]
      OBVIOUS
    <2>2. r \in AttemptRec /\ r.target = t /\ r.sent = FALSE
      BY <2>1, NewRecord
    <2>3. Fresh \in Numbers /\ attempt' = [attempt EXCEPT ![Fresh] = r] /\ Appended
      BY <1>3, <2>1 DEF Begin
    <2>4. /\ attempt' \in [Numbers -> AttemptRec] /\ NumberedInOrder'
          /\ Used' = Used \union {Fresh} /\ Fresh \notin Used
          /\ attempt'[Fresh] = r /\ \A n \in Used : attempt'[n] = attempt[n]
      BY <2>2, <2>3, Added DEF CancelInv
    <2>5. CancelTypes'
      BY <1>1, <1>2, <2>3, <2>4 DEF CancelInv, CancelTypes, Fields, Appended
    <2>6. Journaled'
      <3>1. reported' = reported \union {t}
        BY <1>3 DEF Begin
      <3> QED BY <1>2, <1>3, <2>2, <2>4, <3>1 DEF CancelInv, Journaled
    <2>7. InHand'
      BY <1>1, <1>2, <2>4 DEF InHand, Fields
    <2>8. Replayed'
      BY <1>1, <2>4 DEF Replayed, Fields
    <2> QED BY <2>4, <2>5, <2>6, <2>7, <2>8 DEF CancelInv
  <1>4. CASE ~(k = "cancel" /\ t \notin open)
    <2>1. UNCHANGED <<attempt, tail, reported>>
      BY <1>4 DEF Begin
    <2>2. Used' = Used
      BY <2>1 DEF Used
    <2>3. CancelTypes' /\ NumberedInOrder' /\ Journaled'
      BY <1>1, <1>2, <2>1, <2>2 DEF CancelInv, CancelTypes, Fields, NumberedInOrder, Journaled
    <2>4. InHand' /\ Replayed'
      BY <1>1, <1>2, <2>1, <2>2 DEF InHand, Replayed, Fields
    <2> QED BY <2>3, <2>4 DEF CancelInv
  <1> QED BY <1>3, <1>4

\* A new attempt whose intent is journaled, before its request: for a target,
\* or for the attempt a recovery replays.
LEMMA IntentKeeps ==
  ASSUME CancelBounds, CancelInv, NEW t \in Targets, Fresh \in Numbers, Appended,
         attempt' = [attempt EXCEPT ![Fresh] = [NoAttempt EXCEPT !.target = t, !.intent = TRUE]],
         UNCHANGED <<open, wire, reported>>, op.at = "next",
         NEW td, NEW ol \in SUBSET op.old,
         Fields(op', op.kind, "send", td, ol, op.dispatched, Fresh, op.seen),
         op.kind = "recover" => \E n \in Used : td = {n} /\ attempt[n].target = t
  PROVE  CancelInv'
  <1>1. PICK r : r = [NoAttempt EXCEPT !.target = t, !.intent = TRUE]
    OBVIOUS
  <1>2. r \in AttemptRec /\ r.target = t /\ r.sent = FALSE /\ r.done = FALSE
    BY <1>1 DEF AttemptRec, NoAttempt
  <1>3. r.intent = TRUE
    BY <1>1 DEF NoAttempt
  <1>4. /\ attempt' \in [Numbers -> AttemptRec] /\ NumberedInOrder'
        /\ Used' = Used \union {Fresh} /\ Fresh \notin Used
        /\ attempt'[Fresh] = r /\ \A n \in Used : attempt'[n] = attempt[n]
    BY <1>1, <1>2, Added DEF CancelInv
  <1>5. CancelTypes'
    BY <1>4 DEF CancelInv, CancelTypes, Fields, Appended
  <1>6. Journaled'
    <2>1. \A n \in Used' : attempt'[n].done => attempt'[n].target \notin open'
      <3>1. ~attempt'[Fresh].done
        BY <1>2, <1>4
      <3>2. \A n \in Used : attempt'[n].done => attempt'[n].target \notin open'
        BY <1>4 DEF CancelInv, Journaled
      <3> QED BY <1>4, <3>1, <3>2
    <2>2. \A n \in Used' : attempt'[n].sent => attempt'[n].intent
      BY <1>2, <1>3, <1>4 DEF CancelInv, Journaled
    <2>3. wire' \subseteq Used' /\ \A n \in wire' : attempt'[n].intent
      BY <1>4 DEF CancelInv, Journaled
    <2> QED BY <2>1, <2>2, <2>3 DEF CancelInv, Journaled
  <1>7. InHand'
    BY <1>3, <1>4 DEF CancelInv, InHand, Fields
  <1>8. Replayed'
    BY <1>2, <1>4 DEF CancelInv, Replayed, InHand, Fields
  <1> QED BY <1>4, <1>5, <1>6, <1>7, <1>8 DEF CancelInv

\* A step under the lock that writes no attempt.
LEMMA LockKeeps ==
  ASSUME CancelBounds, CancelInv, UNCHANGED <<open, wire, attempt, reported>>,
         tail' \in {"whole", "torn", "glued"}, op' \in OpRec, InHand', Replayed'
  PROVE  CancelInv'
  <1>1. Used' = Used
    BY DEF Used
  <1> QED BY <1>1 DEF CancelInv, CancelTypes, NumberedInOrder, Journaled
LEMMA IdleKeeps ==
  ASSUME CancelBounds, op' = NoOp
  PROVE  op' \in OpRec /\ InHand' /\ Replayed'
  <1>1. Fields(op', "none", "none", {}, {}, {}, 0, {})
    BY IdleFields
  <1> QED BY <1>1 DEF Fields, InHand, Replayed

LEMMA NextTargetKeeps ==
  ASSUME CancelBounds, CancelInv, NEW t \in Targets, CancelNextTarget(t)
  PROVE  CancelInv'
  <1>1. op.at = "next" /\ op.kind # "recover" /\ op \in OpRec /\ op.at # "none"
    BY DEF CancelNextTarget, CancelInv, CancelTypes
  <1>2. CASE Dispatch(t)
    <2>1. Fresh \in 0..MaxCancels
      BY <1>2 DEF Dispatch, Numbers, CancelBounds
    <2>2. Fields(op', op.kind, "send", op.todo \ {t}, op.old, op.dispatched, Fresh, op.seen)
      BY <1>1, <1>2, <2>1, DispatchFields DEF Dispatch, Steps
    <2>3. op.old \in SUBSET op.old
      OBVIOUS
    <2> QED BY <1>1, <1>2, <2>2, <2>3, IntentKeeps DEF Dispatch
  <1>3. CASE op.kind = "cancel" /\ op' = NoOp /\ UNCHANGED <<open, wire, attempt, tail, reported>>
    BY <1>3, IdleKeeps, LockKeeps DEF CancelInv, CancelTypes
  <1>4. CASE op' = [op EXCEPT !.todo = @ \ {t}] /\ UNCHANGED <<open, wire, attempt, tail, reported>>
    <2>1. Fields(op', op.kind, op.at, op.todo \ {t}, op.old, op.dispatched, op.current, op.seen)
      BY <1>1, <1>4, SkipFields
    <2>2. Used' = Used
      BY <1>4 DEF Used
    <2>3. InHand' /\ Replayed'
      BY <1>1, <1>4, <2>1, <2>2 DEF CancelInv, InHand, Replayed, Fields
    <2> QED BY <1>4, <2>1, <2>3, LockKeeps DEF CancelInv, CancelTypes, Fields
  <1> QED BY <1>2, <1>3, <1>4 DEF CancelNextTarget, Steps

\* Attempts become done whose orders the venue no longer lists.
LEMMA DoneKeeps ==
  ASSUME CancelBounds, CancelInv, NEW S \in SUBSET Used, Appended, UNCHANGED <<open, wire>>,
         \/ \E n \in S : S = {n} /\ attempt' = [attempt EXCEPT ![n].done = TRUE]
         \/ attempt' = [n \in Numbers |-> IF n \in S THEN [attempt[n] EXCEPT !.done = TRUE] ELSE attempt[n]],
         \A n \in S : attempt[n].target \notin open,
         reported' \subseteq reported \union {attempt[n].target : n \in S},
         op' \in OpRec
  PROVE  /\ CancelTypes' /\ NumberedInOrder' /\ Journaled' /\ Used' = Used
         /\ \A n \in Used : attempt'[n].target = attempt[n].target /\ attempt'[n].intent = attempt[n].intent
  <1>1. S \in SUBSET Numbers /\ Used \subseteq Numbers
    BY DEF Used
  <1>2. /\ attempt' \in [Numbers -> AttemptRec] /\ NumberedInOrder' /\ Used' = Used
        /\ \A n \in Numbers : /\ attempt'[n].target = attempt[n].target
                              /\ attempt'[n].intent = attempt[n].intent
                              /\ attempt'[n].sent = attempt[n].sent
                              /\ n \notin S => attempt'[n].done = attempt[n].done
    BY <1>1, MarkedDone DEF CancelInv
  <1>3. CancelTypes'
    BY <1>2 DEF CancelInv, CancelTypes, Appended
  <1>4. Journaled'
    BY <1>1, <1>2 DEF CancelInv, Journaled
  <1> QED BY <1>1, <1>2, <1>3, <1>4

LEMMA ReplayKeeps ==
  ASSUME CancelBounds, CancelInv, NEW n \in Numbers, Replay(n)
  PROVE  CancelInv'
  <1>1. /\ op.at = "next" /\ op.kind = "recover" /\ op \in OpRec /\ op.at # "none"
        /\ n \in op.old /\ n \in Used /\ open \subseteq op.seen /\ OrderOf(n) = attempt[n].target
    BY DEF Replay, CancelInv, CancelTypes, InHand, OrderOf
  <1>2. attempt[n].target \in Targets
    BY <1>1 DEF CancelInv, CancelTypes, AttemptRec, Used
  <1>3. CASE OrderOf(n) \notin op.seen
    <2>1. /\ Appended /\ attempt' = [attempt EXCEPT ![n].done = TRUE]
          /\ reported' = reported \union {OrderOf(n)} /\ op' = [op EXCEPT !.old = @ \ {n}]
          /\ UNCHANGED <<open, wire>>
      BY <1>3 DEF Replay, Steps
    <2>2. Fields(op', op.kind, op.at, op.todo, op.old \ {n}, op.dispatched, op.current, op.seen)
      BY <1>1, <2>1, ResolvedFields
    <2>3. /\ CancelTypes' /\ NumberedInOrder' /\ Journaled' /\ Used' = Used
          /\ \A m \in Used : attempt'[m].target = attempt[m].target /\ attempt'[m].intent = attempt[m].intent
      <3>1. {n} \in SUBSET Used /\ op' \in OpRec
        BY <1>1, <2>2 DEF Fields
      <3>2. \A m \in {n} : attempt[m].target \notin open
        BY <1>1, <1>3
      <3>3. reported' \subseteq reported \union {attempt[m].target : m \in {n}}
        BY <1>1, <2>1
      <3> QED BY <2>1, <3>1, <3>2, <3>3, DoneKeeps
    <2>4. InHand' /\ Replayed'
      BY <1>1, <2>1, <2>2, <2>3 DEF CancelInv, InHand, Replayed, Fields
    <2> QED BY <2>3, <2>4 DEF CancelInv
  <1>4. CASE OrderOf(n) \in op.seen /\ OrderOf(n) \in resolvable
    <2>1. /\ Fresh \in Numbers /\ Appended
          /\ attempt' = [attempt EXCEPT ![Fresh] = [NoAttempt EXCEPT !.target = OrderOf(n), !.intent = TRUE]]
          /\ op' = [op EXCEPT !.at = "send", !.current = Fresh, !.todo = {n}, !.old = @ \ {n}]
          /\ UNCHANGED <<open, wire, reported>>
      BY <1>4 DEF Replay, Steps
    <2>2. Fresh \in 0..MaxCancels
      BY <2>1 DEF Numbers, CancelBounds
    <2>3. Fields(op', op.kind, "send", {n}, op.old \ {n}, op.dispatched, Fresh, op.seen)
      BY <1>1, <2>1, <2>2, ReplayFields
    <2>4. op.old \ {n} \in SUBSET op.old
      OBVIOUS
    <2> QED BY <1>1, <1>2, <2>1, <2>3, <2>4, IntentKeeps
  <1>5. CASE OrderOf(n) \in op.seen /\ OrderOf(n) \notin resolvable
    <2>1. op' = NoOp /\ UNCHANGED <<open, wire, attempt, tail, reported>>
      BY <1>5 DEF Replay, Steps
    <2> QED BY <2>1, IdleKeeps, LockKeeps DEF CancelInv, CancelTypes
  <1> QED BY <1>3, <1>4, <1>5

LEMMA SendKeeps ==
  ASSUME CancelBounds, CancelInv, Send
  PROVE  CancelInv'
  <1>1. /\ op.at = "send" /\ op \in OpRec /\ op.current \in Used /\ attempt[op.current].intent
        /\ op.current \in Numbers /\ Used \subseteq Numbers
    BY DEF Send, CancelInv, CancelTypes, InHand, Used
  <1>2. /\ wire' = wire \union {op.current} /\ attempt' = [attempt EXCEPT ![op.current].sent = TRUE]
        /\ op' = [op EXCEPT !.at = "sent"] /\ UNCHANGED <<open, tail, reported>>
    BY DEF Send, Steps
  <1>3. Fields(op', op.kind, "sent", op.todo, op.old, op.dispatched, op.current, op.seen)
    BY <1>1, <1>2, SentFields
  <1>4. /\ attempt' \in [Numbers -> AttemptRec] /\ NumberedInOrder' /\ Used' = Used
        /\ \A n \in Numbers : /\ attempt'[n].target = attempt[n].target
                              /\ attempt'[n].intent = attempt[n].intent
                              /\ attempt'[n].done = attempt[n].done
                              /\ n # op.current => attempt'[n].sent = attempt[n].sent
    BY <1>1, <1>2, MarkedSent DEF CancelInv
  <1>5. CancelTypes'
    BY <1>2, <1>3, <1>4 DEF CancelInv, CancelTypes, Fields
  <1>6. Journaled'
    BY <1>1, <1>2, <1>4 DEF CancelInv, Journaled
  <1>7. InHand'
    BY <1>1, <1>2, <1>3, <1>4 DEF CancelInv, InHand, Fields
  <1>8. Replayed'
    BY <1>1, <1>3, <1>4 DEF CancelInv, Replayed, Fields
  <1> QED BY <1>4, <1>5, <1>6, <1>7, <1>8 DEF CancelInv

LEMMA AnsweredKeeps ==
  ASSUME CancelBounds, CancelInv, Answered
  PROVE  CancelInv'
  <1>1. /\ op.at = "sent" /\ op.at # "none" /\ op \in OpRec /\ op.current \in Used /\ op.current \in Numbers
        /\ open \in SUBSET Targets
    BY DEF Answered, CancelInv, CancelTypes, InHand, Used
  <1>2. UNCHANGED <<open, wire, attempt, reported>> /\ Appended
    BY DEF Answered
  <1>3. Fields(op', op.kind, IF op.kind = "cancel_all" THEN "next" ELSE "verify", op.todo, op.old,
               op.dispatched \union {op.current}, 0, IF op.kind = "cancel_all" THEN op.seen ELSE open)
    BY <1>1, AnsweredFields DEF Answered, Steps
  <1>4. Used' = Used
    BY <1>2 DEF Used
  <1>5. InHand'
    BY <1>1, <1>2, <1>3, <1>4 DEF CancelInv, InHand, Fields
  <1>6. Replayed'
    BY <1>1, <1>2, <1>3, <1>4 DEF CancelInv, Replayed, Fields
  <1>7. tail' \in {"whole", "torn", "glued"} /\ op' \in OpRec
    BY <1>2, <1>3 DEF Appended, Fields
  <1> QED BY <1>2, <1>5, <1>6, <1>7, LockKeeps

LEMMA AllDispatchedKeeps ==
  ASSUME CancelBounds, CancelInv, AllDispatched
  PROVE  CancelInv'
  <1>1. op.at = "next" /\ op.kind = "cancel_all" /\ op \in OpRec /\ open \in SUBSET Targets
    BY DEF AllDispatched, CancelInv, CancelTypes
  <1>2. UNCHANGED <<open, wire, attempt, tail, reported>>
    BY DEF AllDispatched
  <1>3. Fields(op', op.kind, "verify", op.todo, op.old, op.dispatched, op.current, open)
    BY <1>1, AllSentFields DEF AllDispatched, Steps
  <1>4. Used' = Used
    BY <1>2 DEF Used
  <1>5. InHand' /\ Replayed'
    BY <1>1, <1>2, <1>3, <1>4 DEF CancelInv, InHand, Replayed, Fields
  <1> QED BY <1>2, <1>3, <1>5, LockKeeps DEF CancelInv, CancelTypes, Fields

LEMMA VerifyKeeps ==
  ASSUME CancelBounds, CancelInv, NEW n \in Numbers, Verify(n)
  PROVE  CancelInv'
  <1>1. /\ op.at = "verify" /\ op.at # "none" /\ op \in OpRec /\ n \in op.dispatched /\ n \in Used
        /\ open \subseteq op.seen /\ OrderOf(n) = attempt[n].target /\ Appended
        /\ UNCHANGED <<open, wire>>
    BY DEF Verify, CancelInv, CancelTypes, InHand, OrderOf
  <1>2. PICK a \in {"resolve", "next", "verify"} :
          /\ op' = [op EXCEPT !.dispatched = @ \ {n}, !.at = a]
          /\ op.kind # "recover" => a = "verify"
          /\ op.kind = "recover" => a = IF OrderOf(n) \notin op.seen THEN "resolve" ELSE "next"
    BY <1>1, ZenonT(30) DEF Verify, Steps
  <1>3. Fields(op', op.kind, a, op.todo, op.old, op.dispatched \ {n}, op.current, op.seen)
    BY <1>1, <1>2, VerifiedFields, ZenonT(30)
  <1>4. CASE OrderOf(n) \notin op.seen
    <2>1. attempt' = [attempt EXCEPT ![n].done = TRUE] /\ reported' = reported \union {OrderOf(n)}
      BY <1>4 DEF Verify
    <2>2. /\ CancelTypes' /\ NumberedInOrder' /\ Journaled' /\ Used' = Used
          /\ \A m \in Used : attempt'[m].target = attempt[m].target /\ attempt'[m].intent = attempt[m].intent
      <3>1. {n} \in SUBSET Used /\ op' \in OpRec
        BY <1>1, <1>3 DEF Fields
      <3>2. \A m \in {n} : attempt[m].target \notin open
        BY <1>1, <1>4
      <3>3. reported' \subseteq reported \union {attempt[m].target : m \in {n}}
        BY <1>1, <2>1
      <3> QED BY <1>1, <2>1, <3>1, <3>2, <3>3, DoneKeeps
    <2>3. InHand'
      BY <1>1, <1>2, <1>3, <2>2 DEF CancelInv, InHand, Fields
    <2>4. Replayed'
      BY <1>1, <1>2, <1>3, <1>4, <2>2 DEF CancelInv, Replayed, Fields
    <2> QED BY <2>2, <2>3, <2>4 DEF CancelInv
  <1>5. CASE OrderOf(n) \in op.seen
    <2>1. UNCHANGED <<attempt, reported>>
      BY <1>5 DEF Verify
    <2>2. Used' = Used
      BY <2>1 DEF Used
    <2>3. InHand' /\ Replayed'
      BY <1>1, <1>2, <1>3, <1>5, <2>1, <2>2 DEF CancelInv, InHand, Replayed, Fields
    <2>4. tail' \in {"whole", "torn", "glued"} /\ op' \in OpRec
      BY <1>1, <1>3 DEF Appended, Fields
    <2> QED BY <1>1, <2>1, <2>3, <2>4, LockKeeps
  <1> QED BY <1>4, <1>5

LEMMA ResolveKeeps ==
  ASSUME CancelBounds, CancelInv, Resolve
  PROVE  CancelInv'
  <1>1. /\ op.at = "resolve" /\ op.at # "none" /\ op.at # "verify" /\ op.kind = "recover" /\ op \in OpRec
        /\ op.todo \in SUBSET Used /\ \A n \in op.todo : attempt[n].target \notin open
        /\ Appended /\ UNCHANGED <<open, wire, reported>>
    BY DEF Resolve, CancelInv, CancelTypes, InHand, Replayed
  <1>2. /\ attempt' = [n \in Numbers |-> IF n \in op.todo THEN [attempt[n] EXCEPT !.done = TRUE] ELSE attempt[n]]
        /\ op' = [op EXCEPT !.at = "next", !.todo = {}]
    BY DEF Resolve, Steps
  <1>3. Fields(op', op.kind, "next", {}, op.old, op.dispatched, op.current, op.seen)
    BY <1>1, <1>2, SettledFields
  <1>4. /\ CancelTypes' /\ NumberedInOrder' /\ Journaled' /\ Used' = Used
        /\ \A m \in Used : attempt'[m].target = attempt[m].target /\ attempt'[m].intent = attempt[m].intent
    <2>1. op' \in OpRec /\ reported' \subseteq reported \union {attempt[n].target : n \in op.todo}
      BY <1>1, <1>3 DEF Fields
    <2> QED BY <1>1, <1>2, <2>1, DoneKeeps
  <1>5. InHand' /\ Replayed'
    BY <1>1, <1>3, <1>4 DEF CancelInv, InHand, Replayed, Fields
  <1> QED BY <1>4, <1>5 DEF CancelInv

LEMMA ArrivesKeeps ==
  ASSUME CancelBounds, CancelInv, NEW n \in Numbers, Arrives(n)
  PROVE  CancelInv'
  <1>1. /\ open' \subseteq open /\ wire' \subseteq wire /\ UNCHANGED <<attempt, tail, op, reported>>
    BY DEF Arrives
  <1>2. Used' = Used
    BY <1>1 DEF Used
  <1>3. CancelTypes' /\ NumberedInOrder' /\ Journaled'
    BY <1>1, <1>2 DEF CancelInv, CancelTypes, NumberedInOrder, Journaled
  <1>4. InHand' /\ Replayed'
    BY <1>1, <1>2 DEF CancelInv, InHand, Replayed
  <1> QED BY <1>3, <1>4 DEF CancelInv

\* Every step keeps it.
LEMMA CancelStarts ==
  ASSUME CancelBounds, CancelInit
  PROVE  CancelInv
  <1>1. \A n \in Numbers : attempt[n] = NoAttempt
    BY DEF CancelInit
  <1>2. Used = {}
    BY <1>1 DEF Used, NoAttempt
  <1>3. Fields(op, "none", "none", {}, {}, {}, 0, {})
    BY IdleFields DEF CancelInit
  <1>4. CancelTypes
    <2>1. NoAttempt \in AttemptRec
      BY DEF NoAttempt, AttemptRec
    <2> QED BY <1>3, <2>1 DEF CancelInit, CancelTypes, Fields
  <1>5. NumberedInOrder
    <2>1. 0 \in 0..MaxCancels /\ 1..0 = {}
      BY DEF CancelBounds
    <2> QED BY <1>2, <2>1 DEF NumberedInOrder
  <1>6. Journaled
    BY <1>2 DEF CancelInit, Journaled
  <1>7. InHand /\ Replayed
    BY <1>3 DEF InHand, Replayed, Fields
  <1> QED BY <1>4, <1>5, <1>6, <1>7 DEF CancelInv
LEMMA CancelKept ==
  ASSUME CancelBounds, CancelInv, [CancelNext]_cancelVars
  PROVE  CancelInv'
  <1>1. CASE \E k \in {"cancel", "cancel_all", "recover"}, t \in Targets : Begin(k, t)
    BY <1>1, BeginKeeps
  <1>2. CASE \E t \in Targets : CancelNextTarget(t)
    BY <1>2, NextTargetKeeps
  <1>3. CASE \E n \in Numbers : Replay(n)
    BY <1>3, ReplayKeeps
  <1>4. CASE \E n \in Numbers : Verify(n)
    BY <1>4, VerifyKeeps
  <1>5. CASE Finish
    <2>1. op' = NoOp /\ UNCHANGED <<open, wire, attempt, tail, reported>>
      BY <1>5 DEF Finish, Steps
    <2> QED BY <2>1, IdleKeeps, LockKeeps DEF CancelInv, CancelTypes
  <1>6. CASE \E n \in Numbers : Arrives(n)
    BY <1>6, ArrivesKeeps
  <1>7. CASE \E t \in Targets : Forgotten(t)
    <2>1. UNCHANGED <<open, wire, attempt, tail, op, reported>>
      BY <1>7 DEF Forgotten
    <2> QED BY <2>1 DEF CancelInv, CancelTypes, NumberedInOrder, Journaled, InHand, Replayed, Used
  <1>8. CASE Crash
    <2>1. op' = NoOp /\ UNCHANGED <<open, wire, attempt, reported>> /\ tail' \in {"whole", "torn", "glued"}
      BY <1>8 DEF Crash, CancelInv, CancelTypes
    <2> QED BY <2>1, IdleKeeps, LockKeeps
  <1>9. CASE UNCHANGED cancelVars
    <2>1. UNCHANGED <<open, wire, attempt, tail, op, reported>>
      BY <1>9 DEF cancelVars
    <2> QED BY <2>1 DEF CancelInv, CancelTypes, NumberedInOrder, Journaled, InHand, Replayed, Used
  <1> QED
    BY <1>1, <1>2, <1>3, <1>4, <1>5, <1>6, <1>7, <1>8, <1>9, SendKeeps, AnsweredKeeps, AllDispatchedKeeps,
       ResolveKeeps DEF CancelNext, OpStep

\* WalEmergencyCancelExecutor: in every crash and replay, a request that is on
\* its way has its intent in the journal, an order the executor called
\* cancelled is not open, and an attempt sent for an order that is still open
\* is pending, so that recover_pending finds it.
THEOREM NoCancelIsForgotten == CancelBounds /\ EmergencySpec => []EmergencySound
  <1>1. ASSUME CancelInv
        PROVE  EmergencySound
    BY <1>1 DEF CancelInv, CancelTypes, Journaled, EmergencySound, Pending, OrderOf
  <1> SUFFICES ASSUME CancelBounds PROVE EmergencySpec => []EmergencySound
    OBVIOUS
  <1> QED BY <1>1, CancelStarts, CancelKept, PTL DEF EmergencySpec

=============================================================================
