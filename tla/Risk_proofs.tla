---------------------------- MODULE Risk_proofs -----------------------------
(***************************************************************************)
(* The gates of an order: what may still fill stays reserved, an answer is *)
(* what the sink keeps and a position passes its limit only by orders that *)
(* overlap, nothing expands past an alarm of the canary, what trades is    *)
(* what was chosen, and the legs of an entry hedge each other.             *)
(***************************************************************************)
EXTENDS RiskReservations, Admission, Canary, Configuration, ArbEntry,
        FiniteSetTheorems, TLAPS

(***************************************************************************)
(* RiskReservations: what may still fill is reserved                       *)
(***************************************************************************)

SizesAreLots == \A i \in Ids : OrderOf(i).size \in Nat

FillsOf(i) == {f \in fills : f.id = i}
IngestedOf(i) == {f \in ingested : f.id = i}

Types ==
  /\ status \in [Ids -> {"none", "submitting", "sent", "rejected", "cancelled", "filled"}]
  /\ reserved \in [Ids -> [size: Int, state: {"none", "active", "consumed", "released"},
                           opens: BOOLEAN]]
  /\ resting \in [Ids -> Nat]
  /\ IsFiniteSet(fills) /\ ingested \subseteq fills
  /\ \A f \in fills : f.id \in Ids
  /\ \A a \in answers : a.id \in Ids /\ a.verdict \in {"rejected", "cancelled", "filled"}

\* The exchange knows nothing of an order that was not sent.
Unsent(i) ==
  status[i] \in {"none", "submitting"} =>
    resting[i] = 0 /\ FillsOf(i) = {} /\ \A a \in answers : a.id # i

\* An order on its way is reserved in full; one that rests is reserved but for
\* the fills that were ingested, and its row has not ended.
Reserved(i) ==
  /\ status[i] = "submitting" =>
       reserved[i].state = "active" /\ reserved[i].size = OrderOf(i).size
  /\ resting[i] > 0 =>
       /\ status[i] = "sent" /\ reserved[i].state = "active"
       /\ reserved[i].size >= OrderOf(i).size - Cardinality(IngestedOf(i))

\* No more is filled than was asked, and a verdict comes when nothing rests.
Accounted(i) ==
  /\ resting[i] + Cardinality(FillsOf(i)) <= OrderOf(i).size
  /\ \A a \in answers : a.id = i => resting[i] = 0

Order(i) == Unsent(i) /\ Reserved(i) /\ Accounted(i)
IInv == Types /\ \A i \in Ids : Order(i)

---------------------------------------------------------------------------
(* Sets of fills                                                           *)

LEMMA FillsFinite ==
  ASSUME Types, NEW i
  PROVE  /\ IsFiniteSet(FillsOf(i)) /\ IsFiniteSet(IngestedOf(i))
         /\ Cardinality(FillsOf(i)) \in Nat /\ Cardinality(IngestedOf(i)) \in Nat
         /\ Cardinality(IngestedOf(i)) <= Cardinality(FillsOf(i))
<1>1. FillsOf(i) \subseteq fills /\ IngestedOf(i) \subseteq FillsOf(i)
  BY DEF FillsOf, IngestedOf, Types
<1>2. IsFiniteSet(FillsOf(i))
  BY <1>1, FS_Subset DEF Types
<1> QED
  BY <1>1, <1>2, FS_Subset, FS_CardinalityType

LEMMA Covered ==
  ASSUME SizesAreLots, IInv
  PROVE  LiveOrdersReserved
<1> SUFFICES ASSUME NEW i \in Ids, Pending(i) > 0
             PROVE  reserved[i].state = "active" /\ reserved[i].size >= Pending(i)
  BY DEF LiveOrdersReserved
<1>1. Types /\ Order(i)
  BY DEF IInv
<1>2. CASE status[i] = "submitting"
  BY <1>1, <1>2 DEF Pending, Order, Reserved, SizesAreLots
<1>3. CASE status[i] # "submitting"
  <2>1. Pending(i) = resting[i]
    BY <1>3 DEF Pending
  <2>2. reserved[i].size \in Int /\ resting[i] \in Nat /\ OrderOf(i).size \in Nat
    BY <1>1 DEF Types, SizesAreLots
  <2> QED
    BY <1>1, <2>1, <2>2, FillsFinite DEF Order, Reserved, Accounted
<1> QED
  BY <1>2, <1>3

---------------------------------------------------------------------------
(* The initial states                                                      *)

LEMMA InitIInv ==
  ASSUME SizesAreLots, ReservationInit
  PROVE  IInv
<1>1. Types
  BY FS_EmptySet DEF ReservationInit, Types, NoReservation
<1>2. ASSUME NEW i \in Ids PROVE Order(i)
  <2>1. FillsOf(i) = {} /\ Cardinality({}) = 0
    BY FS_EmptySet DEF ReservationInit, FillsOf
  <2> QED
    BY <2>1 DEF ReservationInit, Order, Unsent, Reserved, Accounted, SizesAreLots
<1> QED
  BY <1>1, <1>2 DEF IInv

---------------------------------------------------------------------------
(* The steps                                                               *)

LEMMA OthersKept ==
  ASSUME IInv, NEW j \in Ids, Types', status'[j] = status[j],
         reserved'[j] = reserved[j], resting'[j] = resting[j],
         FillsOf(j)' = FillsOf(j), IngestedOf(j)' = IngestedOf(j),
         \A a \in answers' : a.id = j => a \in answers
  PROVE  Order(j)'
  BY DEF IInv, Order, Unsent, Reserved, Accounted

LEMMA PlaceKeeps ==
  ASSUME SizesAreLots, IInv, NEW i \in Ids, Place(i)
  PROVE  IInv'
<1>1. Types'
  <2> DEFINE r == [size |-> OrderOf(i).size, state |-> "active",
                   opens |-> ~(OrderOf(i).reduce \/ OrderOf(i).risk)]
             ReservationRow == [size: Int, state: {"none", "active", "consumed", "released"},
                      opens: BOOLEAN]
  <2>1. r \in ReservationRow
    BY DEF SizesAreLots
  <2>2. reserved \in [Ids -> ReservationRow]
    BY DEF IInv, Types
  <2>3. reserved' = [reserved EXCEPT ![i] = r] \/ reserved' = reserved
    BY DEF Place
  <2>4. reserved' \in [Ids -> ReservationRow]
    <3> HIDE DEF r, ReservationRow
    <3> QED
      BY <2>1, <2>2, <2>3
  <2>5. status' \in [Ids -> {"none", "submitting", "sent", "rejected", "cancelled", "filled"}]
    BY DEF Place, IInv, Types
  <2> QED
    BY <2>4, <2>5 DEF Place, IInv, Types
<1>2. ASSUME NEW j \in Ids PROVE Order(j)'
  <2>1. FillsOf(j)' = FillsOf(j) /\ IngestedOf(j)' = IngestedOf(j)
    BY DEF Place, FillsOf, IngestedOf
  <2>2. CASE j # i
    BY <1>1, <2>1, <2>2, OthersKept DEF Place, IInv, Types
  <2>3. CASE j = i
    <3>1. /\ status[i] = "none" /\ resting' = resting /\ answers' = answers
          /\ Unsent(i) /\ Accounted(i)
      BY DEF Place, IInv, Order
    <3>2. resting'[i] = 0
      BY <3>1 DEF Unsent
    <3>3. \/ status'[i] = "rejected"
          \/ status'[i] = "submitting" /\ reserved'[i].state = "active"
             /\ reserved'[i].size = OrderOf(i).size
      BY DEF Place, IInv, Types
    <3> QED
      BY <2>1, <2>3, <3>1, <3>2, <3>3 DEF Order, Unsent, Reserved, Accounted
  <2> QED
    BY <2>2, <2>3
<1> QED
  BY <1>1, <1>2 DEF IInv

LEMMA SendKeeps ==
  ASSUME SizesAreLots, IInv, NEW i \in Ids, Send(i)
  PROVE  IInv'
<1>1. Types'
  BY DEF IInv, Types, Send, SizesAreLots
<1>2. ASSUME NEW j \in Ids PROVE Order(j)'
  <2>1. FillsOf(j)' = FillsOf(j) /\ IngestedOf(j)' = IngestedOf(j)
    BY DEF Send, FillsOf, IngestedOf
  <2>2. CASE j # i
    BY <1>1, <2>1, <2>2, OthersKept DEF Send, IInv, Types
  <2>3. CASE j = i
    <3>1. /\ status[i] = "submitting" /\ status'[i] = "sent" /\ reserved' = reserved
          /\ Unsent(i) /\ Reserved(i)
      BY DEF Send, IInv, Order, Types
    <3>2. FillsOf(i) = {} /\ Cardinality({}) = 0 /\ IngestedOf(i) = {}
      BY <3>1, FS_EmptySet DEF Unsent, IInv, Types, FillsOf, IngestedOf
    <3>3. \/ resting'[i] = OrderOf(i).size /\ answers' = answers
          \/ resting'[i] = 0
      BY <3>1 DEF Send, Unsent, IInv, Types
    <3>4. OrderOf(i).size \in Nat
      BY DEF SizesAreLots
    <3> QED
      BY <2>1, <2>3, <3>1, <3>2, <3>3, <3>4 DEF Order, Unsent, Reserved, Accounted
  <2> QED
    BY <2>2, <2>3
<1> QED
  BY <1>1, <1>2 DEF IInv

LEMMA FillKeeps ==
  ASSUME SizesAreLots, IInv, NEW i \in Ids, Fill(i)
  PROVE  IInv'
<1> DEFINE f == [id |-> i, left |-> resting[i] - 1, start |-> truth[OrderOf(i).symbol]]
<1>0. /\ resting[i] > 0 /\ resting' = [resting EXCEPT ![i] = @ - 1]
      /\ fills' = fills \union {f} /\ status' = status /\ reserved' = reserved
      /\ ingested' = ingested
      /\ answers' = IF resting[i] = 1
                    THEN answers \union {[id |-> i, verdict |-> "filled"]} ELSE answers
  BY DEF Fill
<1>1. Types'
  <2>1. IsFiniteSet(fills')
    BY <1>0, FS_AddElement DEF IInv, Types
  <2>2. resting' \in [Ids -> Nat]
    BY <1>0 DEF IInv, Types
  <2>3. \A g \in fills' : g.id \in Ids
    BY <1>0 DEF IInv, Types
  <2>4. \A a \in answers' : a.id \in Ids /\ a.verdict \in {"rejected", "cancelled", "filled"}
    BY <1>0 DEF IInv, Types
  <2> QED
    BY <1>0, <2>1, <2>2, <2>3, <2>4 DEF IInv, Types
<1>2. ASSUME NEW j \in Ids PROVE Order(j)'
  <2>1. IngestedOf(j)' = IngestedOf(j)
    BY <1>0 DEF IngestedOf
  <2>2. CASE j # i
    <3>1. FillsOf(j)' = FillsOf(j)
      BY <1>0, <2>2 DEF FillsOf
    <3>2. resting'[j] = resting[j]
      BY <1>0, <2>2 DEF IInv, Types
    <3>3. \A a \in answers' : a.id = j => a \in answers
      BY <1>0, <2>2
    <3> QED
      BY <1>0, <1>1, <2>1, <3>1, <3>2, <3>3, OthersKept
  <2>3. CASE j = i
    <3>1. FillsOf(i)' = FillsOf(i) \union {f}
      BY <1>0 DEF FillsOf
    <3>2. /\ Cardinality(FillsOf(i)) \in Nat
          /\ Cardinality(FillsOf(i)') \in Nat
          /\ Cardinality(FillsOf(i)') <= Cardinality(FillsOf(i)) + 1
      <4>1. IsFiniteSet(FillsOf(i)) /\ Cardinality(FillsOf(i)) \in Nat
        BY FillsFinite DEF IInv
      <4>2. Cardinality(FillsOf(i) \union {f}) =
              IF f \in FillsOf(i) THEN Cardinality(FillsOf(i)) ELSE Cardinality(FillsOf(i)) + 1
        <5> HIDE DEF f
        <5> QED
          BY <4>1, FS_AddElement
      <4> QED
        BY <3>1, <4>1, <4>2
    <3>3. resting[i] \in Nat /\ resting'[i] = resting[i] - 1 /\ OrderOf(i).size \in Nat
      BY <1>0 DEF IInv, Types, SizesAreLots
    <3>4. status[i] = "sent" /\ Order(i) /\ \A a \in answers : a.id # i
      BY <1>0, <3>3 DEF IInv, Order, Reserved, Accounted
    <3>5. \A a \in answers' : a.id = i => resting'[i] = 0
      BY <1>0, <3>3, <3>4
    <3> QED
      BY <1>0, <2>1, <2>3, <3>2, <3>3, <3>4, <3>5 DEF Order, Unsent, Reserved, Accounted
  <2> QED
    BY <2>2, <2>3
<1> QED
  BY <1>1, <1>2 DEF IInv

LEMMA CancelKeeps ==
  ASSUME SizesAreLots, IInv, NEW i \in Ids, CancelAtExchange(i)
  PROVE  IInv'
<1>1. Types'
  BY DEF IInv, Types, CancelAtExchange
<1>2. ASSUME NEW j \in Ids PROVE Order(j)'
  <2>1. FillsOf(j)' = FillsOf(j) /\ IngestedOf(j)' = IngestedOf(j)
    BY DEF CancelAtExchange, FillsOf, IngestedOf
  <2>2. CASE j # i
    BY <1>1, <2>1, <2>2, OthersKept DEF CancelAtExchange, IInv, Types
  <2>3. CASE j = i
    <3>1. resting[i] > 0 /\ resting'[i] = 0 /\ status' = status /\ reserved' = reserved
      BY DEF CancelAtExchange, IInv, Types
    <3>2. status[i] = "sent" /\ Order(i)
      BY <3>1 DEF IInv, Order, Reserved
    <3>3. Cardinality(FillsOf(i)) \in Nat /\ resting[i] \in Nat /\ OrderOf(i).size \in Nat
      BY FillsFinite DEF IInv, Types, SizesAreLots
    <3> QED
      BY <2>1, <2>3, <3>1, <3>2, <3>3 DEF Order, Unsent, Reserved, Accounted
  <2> QED
    BY <2>2, <2>3
<1> QED
  BY <1>1, <1>2 DEF IInv

LEMMA VerdictKeeps ==
  ASSUME SizesAreLots, IInv, NEW a \in answers, Verdict(a)
  PROVE  IInv'
<1>0. a.id \in Ids /\ a.verdict \in {"rejected", "cancelled", "filled"}
  BY DEF IInv, Types
<1>1. Types'
  <2>1. Ended(reserved[a.id], a.verdict) \in
          [size: Int, state: {"none", "active", "consumed", "released"}, opens: BOOLEAN]
    BY <1>0 DEF IInv, Types, Ended, Resized
  <2> QED
    BY <1>0, <2>1 DEF IInv, Types, Verdict
<1>2. ASSUME NEW j \in Ids PROVE Order(j)'
  <2>1. FillsOf(j)' = FillsOf(j) /\ IngestedOf(j)' = IngestedOf(j)
    BY DEF Verdict, FillsOf, IngestedOf
  <2>2. CASE j # a.id
    BY <1>0, <1>1, <2>1, <2>2, OthersKept DEF Verdict, IInv, Types
  <2>3. CASE j = a.id
    <3>1. /\ status'[j] = a.verdict /\ resting' = resting /\ answers' \subseteq answers
      BY <1>0, <2>3 DEF Verdict, IInv, Types
    <3>2. Accounted(j) /\ resting[j] = 0
      BY <2>3 DEF IInv, Order, Accounted
    <3> QED
      BY <1>0, <2>1, <3>1, <3>2 DEF Order, Unsent, Reserved, Accounted
  <2> QED
    BY <2>2, <2>3
<1> QED
  BY <1>1, <1>2 DEF IInv

LEMMA IngestKeeps ==
  ASSUME SizesAreLots, IInv, NEW f \in fills, IngestFill(f)
  PROVE  IInv'
<1> DEFINE i == f.id
           n == Cardinality(IngestedOf(i))
           done == n + 1 >= OrderOf(i).size
           left == Left(i)
<1>0. /\ f \notin ingested /\ ingested' = ingested \union {f} /\ fills' = fills
      /\ resting' = resting /\ answers' = answers
      /\ status' = IF done THEN [status EXCEPT ![i] = "filled"] ELSE status
      /\ reserved' = IF reserved[i].state # "active" THEN reserved
                     ELSE [reserved EXCEPT ![i] = Resized(@, left,
                            IF left = 0 \/ status'[i] = "filled" THEN "consumed" ELSE "active")]
  BY DEF IngestFill, IngestedOf
<1>1. i \in Ids /\ reserved[i].size \in Int /\ resting[i] \in Nat /\ OrderOf(i).size \in Nat
  BY DEF IInv, Types, SizesAreLots
<1>2. left \in Int /\ (reserved[i].size >= 2 => left = reserved[i].size - 1 /\ left # 0)
  BY <1>1 DEF Left, Larger
<1>3. Types'
  <2>1. \A state \in {"consumed", "active"} : Resized(reserved[i], left, state) \in
          [size: Int, state: {"none", "active", "consumed", "released"}, opens: BOOLEAN]
    BY <1>1, <1>2 DEF IInv, Types, Resized
  <2>2. reserved' \in [Ids -> [size: Int, state: {"none", "active", "consumed", "released"},
                               opens: BOOLEAN]]
    BY <1>0, <1>1, <2>1 DEF IInv, Types
  <2> QED
    BY <1>0, <1>1, <2>2 DEF IInv, Types
<1>4. ASSUME NEW j \in Ids PROVE Order(j)'
  <2>1. FillsOf(j)' = FillsOf(j)
    BY <1>0 DEF FillsOf
  <2>2. CASE j # i
    <3>1. IngestedOf(j)' = IngestedOf(j)
      BY <1>0, <2>2 DEF IngestedOf
    <3> QED
      BY <1>0, <1>3, <2>1, <2>2, <3>1, OthersKept DEF IInv, Types
  <2>3. CASE j = i
    <3>1. IngestedOf(i)' = IngestedOf(i) \union {f} /\ f \notin IngestedOf(i)
          /\ IngestedOf(i) \union {f} \subseteq FillsOf(i)
      BY <1>0 DEF IngestedOf, FillsOf, IInv, Types
    <3>2. /\ n \in Nat /\ Cardinality(IngestedOf(i)') = n + 1
          /\ Cardinality(FillsOf(i)) \in Nat /\ n + 1 <= Cardinality(FillsOf(i))
      <4>1. Cardinality(IngestedOf(i) \union {f}) = n + 1
        BY <3>1, FillsFinite, FS_AddElement DEF IInv
      <4> QED
        BY <3>1, <4>1, FillsFinite, FS_Subset DEF IInv
    <3>3. Order(i) /\ status[i] \notin {"none", "submitting"}
      BY <1>1 DEF IInv, Order, Unsent, FillsOf
    <3>4. status'[i] \notin {"none", "submitting"}
      BY <1>0, <1>1, <3>3 DEF IInv, Types
    <3>5. ASSUME resting[i] > 0
          PROVE  /\ status'[i] = "sent" /\ reserved'[i].state = "active"
                 /\ reserved'[i].size >= OrderOf(i).size - (n + 1)
      <4>1. /\ status[i] = "sent" /\ reserved[i].state = "active"
            /\ reserved[i].size >= OrderOf(i).size - n
            /\ resting[i] + Cardinality(FillsOf(i)) <= OrderOf(i).size
        BY <3>3, <3>5 DEF Order, Reserved, Accounted
      <4>2. ~done /\ reserved[i].size >= 2
        BY <1>1, <3>2, <3>5, <4>1
      <4>3. reserved'[i] = Resized(reserved[i], left, "active") /\ status'[i] = "sent"
        BY <1>0, <1>1, <1>2, <4>1, <4>2 DEF IInv, Types
      <4> QED
        BY <1>1, <1>2, <3>2, <4>1, <4>2, <4>3 DEF Resized
    <3> QED
      BY <1>0, <1>1, <2>1, <2>3, <3>2, <3>3, <3>4, <3>5 DEF Order, Unsent, Reserved, Accounted
  <2> QED
    BY <2>2, <2>3
<1> QED
  BY <1>3, <1>4 DEF IInv

LEMMA PollsKeep ==
  ASSUME SizesAreLots, IInv,
         PollReads \/ PollCommits \/ GoesStale \/ UNCHANGED reservationVars
  PROVE  IInv'
<1>1. UNCHANGED <<status, reserved, resting, fills, ingested, answers>>
  BY DEF PollReads, PollCommits, GoesStale, reservationVars
<1> QED
  BY <1>1 DEF IInv, Types, Order, Unsent, Reserved, Accounted, FillsOf, IngestedOf

LEMMA NextIInv ==
  ASSUME SizesAreLots, IInv, [ReservationNext]_reservationVars
  PROVE  IInv'
  BY PlaceKeeps, SendKeeps, FillKeeps, CancelKeeps, VerdictKeeps, IngestKeeps, PollsKeep
  DEF ReservationNext

---------------------------------------------------------------------------
(* What an order may still fill is reserved, however submissions, fills,   *)
(* cancels, verdicts and ingested events interleave (persist_transition,   *)
(* ingest_order_update and ingest_fill shorten no reservation early).      *)
THEOREM LiveOrdersKept ==
  ASSUME SizesAreLots
  PROVE  ReservationSpec => []LiveOrdersReserved
<1>1. ReservationInit => IInv
  BY InitIInv
<1>2. IInv /\ [ReservationNext]_reservationVars => IInv'
  BY NextIInv
<1>3. IInv => LiveOrdersReserved
  BY Covered
<1> QED
  BY <1>1, <1>2, <1>3, PTL DEF ReservationSpec

(***************************************************************************)
(* Admission: answers, position limits, lots                               *)
(***************************************************************************)

IntentRec == [side : {1, -1}, size : Nat, spot : BOOLEAN, reduce : BOOLEAN, risk : BOOLEAN, post : BOOLEAN]
AdmissionBounds == Lot \in Nat \ {0} /\ MinSize \in Nat /\ MaxSize \in Nat /\ Intents \subseteq IntentRec
AdmissionSpec == AdmissionInit /\ [][AdmissionNext]_admissionVars

CallStages == {"none", "safety", "data", "risk", "budget", "normalize", "accept", "reject"}
CallRec == [at : CallStages, id : RequestIds \union {0}, intent : IntentRec,
            market : {"good", "crossed", "priceless", "bad"}, gate : CallStages]
ReceiptRec == [status : {"none", "accepted", "rejected"}, intent : IntentRec]
ToldRec == [id : RequestIds \union {0}, answer : {"none", "accepted", "rejected", "conflict"}]
WholeLots(i) == i.size >= MinSize /\ i.size % Lot = 0

AdmissionTypes ==
  /\ call \in [Callers -> CallRec] /\ receipt \in [RequestIds -> ReceiptRec] /\ told \in [Callers -> ToldRec]
  /\ tracked \in Int /\ venuePosition \in Int /\ open \subseteq RequestIds /\ unseen \subseteq RequestIds
  /\ market \in {"good", "crossed", "priceless", "bad"}
  /\ \A c \in Callers : call[c].at # "none" => call[c].id \in RequestIds
Answers == \A c \in Callers : told[c].answer \in {"accepted", "rejected"} =>
             told[c].id \in RequestIds /\ receipt[told[c].id].status = told[c].answer
Whole ==
  /\ \A c \in Callers : call[c].at = "accept" => WholeLots(call[c].intent)
  /\ \A id \in RequestIds : receipt[id].status = "accepted" => WholeLots(receipt[id].intent)
Recorded == \A id \in open \union unseen : receipt[id].status # "none"
Checked(c) == call[c].at \in {"budget", "normalize", "accept"}
OneAtATime ==
  /\ \A c, d \in Callers : Checked(c) /\ Checked(d) => c = d
  /\ \A c \in Callers : Checked(c) =>
       unseen = {} /\ Size(tracked + Delta(call[c].intent)) <= MaxSize
  /\ open \subseteq unseen /\ \A i, j \in unseen : i = j
  /\ Size(tracked) <= MaxSize
  /\ unseen = {} => venuePosition = tracked
  /\ \A id \in unseen : /\ Size(tracked + Delta(receipt[id].intent)) <= MaxSize
                        /\ id \in open => venuePosition = tracked
                        /\ id \notin open => venuePosition = tracked + Delta(receipt[id].intent)
AdmissionInv == AdmissionTypes /\ Answers /\ Whole /\ Recorded /\ (crowded \/ OneAtATime)

\* The size that is normalized.
LEMMA LotsOf ==
  ASSUME NEW n \in Nat, NEW l \in Nat \ {0}
  PROVE  /\ (n \div l) * l \in Nat /\ (n \div l) * l <= n /\ n < (n \div l) * l + l
         /\ ((n \div l) * l) % l = 0
  <1>1. n \div l \in Nat /\ n = l * (n \div l) + (n % l) /\ n % l \in 0..(l - 1)
    OBVIOUS
  <1>2. (n \div l) * l \in Nat /\ (n \div l) * l <= n /\ n < (n \div l) * l + l
    BY <1>1
  <1>3. ASSUME NEW q \in Nat
        PROVE  (q * l) % l = 0
    BY Z3
  <1> QED BY <1>1, <1>2, <1>3
LEMMA DeltaIsNumber ==
  ASSUME NEW i \in IntentRec
  PROVE  Delta(i) \in Int
  BY DEF IntentRec, Delta
LEMMA NormalIsSmaller ==
  ASSUME AdmissionBounds, NEW i \in IntentRec
  PROVE  /\ Normal(i) \in IntentRec /\ Normal(i).size % Lot = 0
         /\ \A t \in Int : Size(t) <= MaxSize /\ Size(t + Delta(i)) <= MaxSize
                             => Size(t + Delta(Normal(i))) <= MaxSize
  <1>1. PICK m \in Nat : m = (i.size \div Lot) * Lot /\ m <= i.size /\ m % Lot = 0
    BY LotsOf DEF AdmissionBounds, IntentRec
  <1>2. Normal(i) = [i EXCEPT !.size = m]
    BY <1>1 DEF Normal
  <1>3. /\ Normal(i) \in IntentRec /\ Normal(i).size = m /\ Normal(i).side = i.side /\ Normal(i).spot = i.spot
    BY <1>2 DEF IntentRec
  <1>4. ASSUME NEW t \in Int, Size(t) <= MaxSize, Size(t + Delta(i)) <= MaxSize
        PROVE  Size(t + Delta(Normal(i))) <= MaxSize
    <2>1. CASE i.spot
      BY <1>3, <1>4, <2>1 DEF Delta
    <2>2. CASE ~i.spot /\ i.side = 1
      <3>1. Delta(i) = i.size /\ Delta(Normal(i)) = m /\ i.size \in Nat
        BY <1>3, <2>2 DEF Delta, IntentRec
      <3> QED BY <1>1, <1>4, <3>1 DEF Size, AdmissionBounds
    <2>3. CASE ~i.spot /\ i.side = -1
      <3>1. Delta(i) = -i.size /\ Delta(Normal(i)) = -m /\ i.size \in Nat
        BY <1>3, <2>3 DEF Delta, IntentRec
      <3> QED BY <1>1, <1>4, <3>1 DEF Size, AdmissionBounds
    <2> QED BY <2>1, <2>2, <2>3 DEF IntentRec
  <1> QED BY <1>1, <1>3, <1>4

\* A field of a caller's submission.
LEMMA AtSet ==
  ASSUME NEW f \in [Callers -> CallRec], NEW c \in Callers, NEW a \in CallStages, NEW p,
         p = [f EXCEPT ![c].at = a]
  PROVE  /\ p \in [Callers -> CallRec] /\ \A d \in Callers : d # c => p[d] = f[d]
         /\ p[c].at = a /\ p[c].id = f[c].id /\ p[c].intent = f[c].intent /\ p[c].market = f[c].market
  <1>1. p[c] = [f[c] EXCEPT !.at = a] /\ f[c] \in CallRec
    OBVIOUS
  <1>2. /\ p[c] \in CallRec /\ p[c].at = a /\ p[c].id = f[c].id /\ p[c].intent = f[c].intent
        /\ p[c].market = f[c].market
    BY <1>1 DEF CallRec
  <1> QED BY <1>2
LEMMA GateSet ==
  ASSUME NEW f \in [Callers -> CallRec], NEW c \in Callers, NEW g \in CallStages, NEW p,
         p = [f EXCEPT ![c].gate = g]
  PROVE  /\ p \in [Callers -> CallRec] /\ \A d \in Callers : d # c => p[d] = f[d]
         /\ p[c].at = f[c].at /\ p[c].id = f[c].id /\ p[c].intent = f[c].intent
  <1>1. p[c] = [f[c] EXCEPT !.gate = g] /\ f[c] \in CallRec
    OBVIOUS
  <1>2. p[c] \in CallRec /\ p[c].at = f[c].at /\ p[c].id = f[c].id /\ p[c].intent = f[c].intent
    BY <1>1 DEF CallRec
  <1> QED BY <1>2
LEMMA NothingAsked ==
  NoCall \in CallRec /\ NoCall.at = "none" /\ NoIntent \in IntentRec
  BY DEF NoCall, NoIntent, CallRec, IntentRec, CallStages

\* What a caller's step leaves of its own submission and of the others'.
OnlyCall(c, a, id, i) ==
  /\ call' \in [Callers -> CallRec] /\ \A d \in Callers : d # c => call'[d] = call[d]
  /\ call'[c].at = a /\ call'[c].id = id /\ call'[c].intent = i
LEMMA PassesCall ==
  ASSUME AdmissionTypes, NEW c \in Callers, NEW a \in CallStages, call' = Passes(c, a)
  PROVE  OnlyCall(c, a, call[c].id, call[c].intent)
  BY AtSet DEF AdmissionTypes, Passes, OnlyCall
LEMMA RefusedCall ==
  ASSUME AdmissionTypes, NEW c \in Callers, call' = Refused(c)
  PROVE  OnlyCall(c, "reject", call[c].id, call[c].intent)
  <1>1. PICK p : p = [call EXCEPT ![c].at = "reject"]
    OBVIOUS
  <1>2. PICK g \in CallStages : g = call[c].at
    BY DEF AdmissionTypes, CallRec
  <1>3. call' = [p EXCEPT ![c].gate = g]
    BY <1>1, <1>2 DEF Refused
  <1>4. "reject" \in CallStages
    BY DEF CallStages
  <1>5. /\ p \in [Callers -> CallRec] /\ \A d \in Callers : d # c => p[d] = call[d]
        /\ p[c].at = "reject" /\ p[c].id = call[c].id /\ p[c].intent = call[c].intent
    BY <1>1, <1>4, AtSet DEF AdmissionTypes
  <1>6. /\ call' \in [Callers -> CallRec] /\ \A d \in Callers : d # c => call'[d] = p[d]
        /\ call'[c].at = p[c].at /\ call'[c].id = p[c].id /\ call'[c].intent = p[c].intent
    <2>1. p \in [Callers -> CallRec]
      BY <1>5
    <2>2. PICK q : q = [p EXCEPT ![c].gate = g]
      OBVIOUS
    <2>3. /\ q \in [Callers -> CallRec] /\ \A d \in Callers : d # c => q[d] = p[d]
          /\ q[c].at = p[c].at /\ q[c].id = p[c].id /\ q[c].intent = p[c].intent
      BY <2>1, <2>2, GateSet
    <2> QED BY <1>3, <2>2, <2>3
  <1> QED BY <1>5, <1>6 DEF OnlyCall

\* A step that touches the calls alone.
LEMMA CallKeeps ==
  ASSUME AdmissionBounds, AdmissionInv, NEW c \in Callers, NEW a \in CallStages, NEW id, NEW i,
         OnlyCall(c, a, id, i), a # "none" => id \in RequestIds,
         UNCHANGED <<tracked, venuePosition, open, unseen, receipt, told, market>>,
         a = "accept" => WholeLots(i),
         crowded => crowded',
         a \in {"budget", "normalize", "accept"} =>
           \/ crowded'
           \/ Checked(c) /\ i = call[c].intent
           \/ Checked(c) /\ Size(tracked + Delta(i)) <= MaxSize
           \/ /\ unseen = {} /\ InFlight(c) = {} /\ Size(tracked + Delta(i)) <= MaxSize
  PROVE  AdmissionInv'
  <1>1. AdmissionTypes'
    BY DEF AdmissionInv, AdmissionTypes, OnlyCall
  <1>2. Answers' /\ Recorded'
    BY DEF AdmissionInv, Answers, Recorded
  <1>3. Whole'
    BY DEF AdmissionInv, Whole, OnlyCall
  <1>4. ASSUME ~crowded'
        PROVE  OneAtATime'
    <2>1. OneAtATime
      BY <1>4 DEF AdmissionInv
    <2>2. \A d \in Callers : d # c => call'[d] = call[d]
      BY DEF OnlyCall
    <2>3. \A d \in Callers : d # c => (Checked(d)' <=> Checked(d))
      BY <2>2 DEF Checked
    <2>4. Checked(c)' <=> a \in {"budget", "normalize", "accept"}
      BY DEF Checked, OnlyCall
    <2>5. Checked(c)' => \A d \in Callers : d # c => ~Checked(d)
      BY <1>4, <2>1, <2>4 DEF OneAtATime, InFlight, Checked
    <2>6. Checked(c)' => unseen = {} /\ Size(tracked + Delta(i)) <= MaxSize
      BY <1>4, <2>1, <2>4 DEF OneAtATime
    <2>7. \A d, e \in Callers : Checked(d)' /\ Checked(e)' => d = e
      BY <2>1, <2>3, <2>5 DEF OneAtATime
    <2>8. ASSUME NEW d \in Callers, Checked(d)'
          PROVE  unseen' = {} /\ Size(tracked' + Delta(call'[d].intent)) <= MaxSize
      <3>1. CASE d = c
        BY <2>6, <2>8, <3>1 DEF OnlyCall
      <3>2. CASE d # c
        BY <2>1, <2>2, <2>3, <2>8, <3>2 DEF OneAtATime
      <3> QED BY <3>1, <3>2
    <2> QED BY <2>1, <2>7, <2>8 DEF OneAtATime
  <1> QED BY <1>1, <1>2, <1>3, <1>4 DEF AdmissionInv

----------------------------------------------------------------------------
LEMMA SubmitKept ==
  ASSUME AdmissionBounds, AdmissionInv, NEW c \in Callers, NEW id \in RequestIds, NEW i \in Intents, Submit(c, id, i)
  PROVE  AdmissionInv'
  <1>1. PICK n \in CallRec : n = [NoCall EXCEPT !.at = "safety", !.id = id, !.intent = i] /\ n.at = "safety"
    <2>1. i \in IntentRec
      BY DEF AdmissionBounds
    <2>2. PICK o : o = [NoCall EXCEPT !.at = "safety"]
      OBVIOUS
    <2>3. o \in CallRec /\ o.at = "safety"
      BY <2>2, NothingAsked DEF CallRec, CallStages
    <2>4. PICK p : p = [o EXCEPT !.id = id]
      OBVIOUS
    <2>5. p \in CallRec /\ p.at = "safety"
      BY <2>3, <2>4 DEF CallRec
    <2>6. PICK q : q = [p EXCEPT !.intent = i]
      OBVIOUS
    <2>7. q \in CallRec /\ q.at = "safety"
      BY <2>1, <2>5, <2>6 DEF CallRec
    <2> QED BY <2>2, <2>4, <2>6, <2>7
  <1>2. n.id = id
    BY <1>1, NothingAsked DEF CallRec
  <1>3. call' = [call EXCEPT ![c] = n]
    BY <1>1 DEF Submit
  <1>4. OnlyCall(c, "safety", id, n.intent)
    BY <1>1, <1>2, <1>3 DEF OnlyCall, AdmissionInv, AdmissionTypes
  <1>5. /\ UNCHANGED <<tracked, venuePosition, open, unseen, receipt, told, market>> /\ crowded' = crowded
        /\ "safety" \in CallStages
    BY DEF Submit, positionVars, sinkVars, gateVars, CallStages
  <1> QED BY <1>4, <1>5, CallKeeps

LEMMA GateKept ==
  ASSUME AdmissionBounds, AdmissionInv, NEW c \in Callers, GateStep(c)
  PROVE  AdmissionInv'
  <1>1. /\ UNCHANGED <<tracked, venuePosition, open, unseen, receipt, told, market>> /\ (crowded => crowded')
        /\ call[c].at \in {"safety", "data", "risk", "budget", "normalize"}
        /\ call[c].id \in RequestIds /\ call[c].intent \in IntentRec
    <2>1. UNCHANGED <<tracked, venuePosition, open, unseen, receipt, told, market>> /\ (crowded => crowded')
      <3>1. Quiet /\ (crowded => crowded')
        <4>1. CASE Risk(c)
          <5>1. Quiet
            BY <4>1 DEF Risk
          <5>2. crowded' = (crowded \/ unseen # {} \/ InFlight(c) # {}) \/ crowded' = crowded
            BY <4>1 DEF Risk
          <5>3. ASSUME crowded PROVE crowded'
            <6>1. (crowded \/ unseen # {} \/ InFlight(c) # {}) = TRUE
              BY <5>3
            <6> QED BY <5>2, <5>3, <6>1
          <5> QED BY <5>1, <5>3
        <4>2. CASE Safety(c) \/ Data(c)
          BY <4>2 DEF Safety, Data
        <4>3. CASE Budget(c) \/ Normalize(c)
          BY <4>3 DEF Budget, Normalize
        <4> QED BY <4>1, <4>2, <4>3 DEF GateStep
      <3> QED BY <3>1 DEF Quiet, positionVars, sinkVars, gateVars
    <2>2. call[c].at \in {"safety", "data", "risk", "budget", "normalize"}
      BY DEF GateStep, Safety, Data, Risk, Budget, Normalize
    <2> QED BY <2>1, <2>2 DEF AdmissionInv, AdmissionTypes, CallRec
  <1>2. {"safety", "data", "risk", "budget", "normalize", "accept", "reject"} \subseteq CallStages
    BY DEF CallStages
  <1>3. AdmissionTypes
    BY DEF AdmissionInv
  <1>4. CASE call' = Refused(c)
    <2>1. OnlyCall(c, "reject", call[c].id, call[c].intent)
      BY <1>3, <1>4, RefusedCall
    <2> QED BY <1>1, <1>2, <2>1, CallKeeps
  <1>5. CASE Safety(c) /\ call' = Passes(c, "data")
    <2>1. OnlyCall(c, "data", call[c].id, call[c].intent)
      BY <1>2, <1>3, <1>5, PassesCall
    <2> QED BY <1>1, <1>2, <2>1, CallKeeps
  <1>6. CASE Data(c) /\ call' = [call EXCEPT ![c].at = "risk", ![c].market = market]
    <2>1. PICK p : p = [call EXCEPT ![c].at = "risk"]
      OBVIOUS
    <2>2. /\ p \in [Callers -> CallRec] /\ \A d \in Callers : d # c => p[d] = call[d]
          /\ p[c].at = "risk" /\ p[c].id = call[c].id /\ p[c].intent = call[c].intent
      BY <1>2, <1>3, <2>1, AtSet DEF AdmissionTypes
    <2>3. PICK m \in {"good", "crossed", "priceless", "bad"} : m = market
      BY <1>3 DEF AdmissionTypes
    <2>q. PICK q : q = [p EXCEPT ![c].market = m]
      OBVIOUS
    <2>4. call' = q
      BY <1>6, <2>1, <2>3, <2>q
    <2>5. p \in [Callers -> CallRec]
      BY <2>2
    <2>6. /\ q \in [Callers -> CallRec] /\ \A d \in Callers : d # c => q[d] = p[d]
          /\ q[c].at = p[c].at /\ q[c].id = p[c].id /\ q[c].intent = p[c].intent
      <3>1. q[c] = [p[c] EXCEPT !.market = m] /\ p[c] \in CallRec
        BY <2>q, <2>5
      <3>2. q[c] \in CallRec /\ q[c].at = p[c].at /\ q[c].id = p[c].id /\ q[c].intent = p[c].intent
        BY <3>1 DEF CallRec
      <3> QED BY <2>q, <2>5, <3>2
    <2>7. OnlyCall(c, "risk", call[c].id, call[c].intent)
      BY <2>2, <2>4, <2>6 DEF OnlyCall
    <2> QED BY <1>1, <1>2, <2>7, CallKeeps
  <1>7. CASE Risk(c) /\ RiskAllows(call[c].intent) /\ call' = Passes(c, "budget")
             /\ crowded' = (crowded \/ unseen # {} \/ InFlight(c) # {})
    <2>1. OnlyCall(c, "budget", call[c].id, call[c].intent)
      BY <1>2, <1>3, <1>7, PassesCall
    <2>2. ASSUME ~crowded' PROVE unseen = {} /\ InFlight(c) = {} /\ Size(tracked + Delta(call[c].intent)) <= MaxSize
      <3>1. unseen = {} /\ InFlight(c) = {} /\ ~crowded
        BY <1>7, <2>2
      <3>2. Size(tracked) <= MaxSize /\ tracked \in Int
        BY <3>1 DEF AdmissionInv, AdmissionTypes, OneAtATime
      <3>3. CASE call[c].intent.spot
        <4>1. Delta(call[c].intent) = 0
          BY <3>3 DEF Delta
        <4>2. tracked + Delta(call[c].intent) = tracked
          BY <3>2, <4>1
        <4> QED BY <3>1, <3>2, <4>2
      <3>4. CASE ~call[c].intent.spot
        <4>1. Delta(call[c].intent) = call[c].intent.side * call[c].intent.size
          BY <3>4 DEF Delta
        <4>2. Size(tracked + call[c].intent.side * call[c].intent.size) <= MaxSize
          BY <1>7, <3>4 DEF RiskAllows
        <4>3. tracked + Delta(call[c].intent) = tracked + call[c].intent.side * call[c].intent.size
          BY <4>1
        <4> QED BY <3>1, <4>2, <4>3
      <3> QED BY <3>1, <3>3, <3>4
    <2>3. "budget" # "accept" /\ "budget" # "none"
      OBVIOUS
    <2> QED BY <1>1, <1>2, <2>1, <2>2, <2>3, CallKeeps
  <1>8. CASE Budget(c) /\ call' = Passes(c, "normalize")
    <2>1. OnlyCall(c, "normalize", call[c].id, call[c].intent)
      BY <1>2, <1>3, <1>8, PassesCall
    <2>2. Checked(c)
      BY <1>8 DEF Budget, Checked
    <2> QED BY <1>1, <1>2, <2>1, <2>2, CallKeeps
  <1>9. CASE Normalize(c) /\ Normalizes(call[c].intent, call[c].market)
             /\ call' = [call EXCEPT ![c].at = "accept", ![c].intent = Normal(call[c].intent)]
    <2>1. PICK n \in IntentRec : /\ n = Normal(call[c].intent) /\ WholeLots(n)
                                 /\ \A t \in Int : Size(t) <= MaxSize /\ Size(t + Delta(call[c].intent)) <= MaxSize
                                      => Size(t + Delta(n)) <= MaxSize
      BY <1>1, <1>9, NormalIsSmaller DEF WholeLots, Normalizes
    <2>2. PICK p : p = [call EXCEPT ![c].at = "accept"]
      OBVIOUS
    <2>3. /\ p \in [Callers -> CallRec] /\ \A d \in Callers : d # c => p[d] = call[d]
          /\ p[c].at = "accept" /\ p[c].id = call[c].id
      BY <1>2, <1>3, <2>2, AtSet DEF AdmissionTypes
    <2>4. PICK q : q = [p EXCEPT ![c].intent = n]
      OBVIOUS
    <2>5. call' = q
      BY <1>9, <2>1, <2>2, <2>4
    <2>6. p \in [Callers -> CallRec]
      BY <2>3
    <2>7. /\ q \in [Callers -> CallRec] /\ \A d \in Callers : d # c => q[d] = p[d]
          /\ q[c].at = p[c].at /\ q[c].id = p[c].id /\ q[c].intent = n
      <3>1. q[c] = [p[c] EXCEPT !.intent = n] /\ p[c] \in CallRec
        BY <2>4, <2>6
      <3>2. q[c] \in CallRec /\ q[c].at = p[c].at /\ q[c].id = p[c].id /\ q[c].intent = n
        BY <3>1 DEF CallRec
      <3> QED BY <2>4, <2>6, <3>2
    <2>8. OnlyCall(c, "accept", call[c].id, n)
      BY <2>3, <2>5, <2>7 DEF OnlyCall
    <2>9. Checked(c) /\ (crowded' \/ Size(tracked + Delta(n)) <= MaxSize)
      <3>1. Checked(c) /\ crowded' = crowded
        BY <1>9 DEF Normalize, Checked
      <3>2. ~crowded => Size(tracked) <= MaxSize /\ Size(tracked + Delta(call[c].intent)) <= MaxSize
        BY <3>1 DEF AdmissionInv, OneAtATime
      <3> QED BY <1>3, <2>1, <3>1, <3>2 DEF AdmissionTypes
    <2> QED BY <1>1, <1>2, <2>1, <2>8, <2>9, CallKeeps
  <1> QED BY <1>4, <1>5, <1>6, <1>7, <1>8, <1>9 DEF GateStep, Safety, Data, Risk, Budget, Normalize

LEMMA AbandonKept ==
  ASSUME AdmissionBounds, AdmissionInv, NEW c \in Callers, Abandon(c)
  PROVE  AdmissionInv'
  <1>1. call' = [call EXCEPT ![c] = NoCall]
    BY DEF Abandon
  <1>2. OnlyCall(c, "none", NoCall.id, NoCall.intent)
    BY <1>1, NothingAsked DEF AdmissionInv, AdmissionTypes, OnlyCall
  <1>3. /\ UNCHANGED <<tracked, venuePosition, open, unseen, receipt, told, market>> /\ crowded' = crowded
        /\ "none" \in CallStages
    BY DEF Abandon, positionVars, sinkVars, gateVars, CallStages
  <1> QED BY <1>2, <1>3, CallKeeps

\* A command reaches the sink.
LEMMA PersistKept ==
  ASSUME AdmissionBounds, AdmissionInv, NEW c \in Callers, Persist(c)
  PROVE  AdmissionInv'
  <1>1. PICK id \in RequestIds : id = call[c].id
    BY DEF Persist, AdmissionInv, AdmissionTypes
  <1>2. PICK ending \in {"accepted", "rejected"} : ending = IF call[c].at = "accept" THEN "accepted" ELSE "rejected"
    OBVIOUS
  <1>3. PICK i \in IntentRec : i = call[c].intent
    BY DEF AdmissionInv, AdmissionTypes, CallRec
  <1>4. /\ call[c].at \in {"accept", "reject"} /\ call' = [call EXCEPT ![c] = NoCall]
        /\ UNCHANGED <<tracked, venuePosition, crowded, market>>
    BY DEF Persist, gateVars
  <1>5. OnlyCall(c, "none", NoCall.id, NoCall.intent)
    BY <1>4, NothingAsked DEF AdmissionInv, AdmissionTypes, OnlyCall
  <1>6. /\ receipt' \in [RequestIds -> ReceiptRec]
        /\ \A j \in RequestIds : j # id \/ receipt[id].status # "none" => receipt'[j] = receipt[j]
        /\ receipt[id].status = "none" => receipt'[id].status = ending /\ receipt'[id].intent = i
        /\ open' = open \/ (receipt[id].status = "none" /\ ending = "accepted" /\ open' = open \union {id})
        /\ open' = open => unseen' = unseen \/ id \in open
        /\ open' # open => unseen' = unseen \union {id}
        /\ receipt'[id].status \in {"accepted", "rejected"}
    <2>1. CASE receipt[id].status = "none"
      <3>0. PICK r : r = [status |-> ending, intent |-> i]
        OBVIOUS
      <3>1. r \in ReceiptRec /\ r = [status |-> ending, intent |-> i] /\ r.status = ending /\ r.intent = i
        BY <3>0 DEF ReceiptRec
      <3>2. receipt' = [receipt EXCEPT ![id] = r]
        BY <1>1, <1>2, <1>3, <2>1, <3>1 DEF Persist
      <3>3. /\ open' = IF ending = "accepted" THEN open \union {id} ELSE open
            /\ unseen' = IF ending = "accepted" THEN unseen \union {id} ELSE unseen
        BY <1>1, <1>2, <2>1 DEF Persist
      <3> QED BY <2>1, <3>1, <3>2, <3>3 DEF AdmissionInv, AdmissionTypes
    <2>2. CASE receipt[id].status # "none"
      <3>1. UNCHANGED <<receipt, open, unseen>>
        BY <1>1, <2>2 DEF Persist, sinkVars
      <3> QED BY <2>2, <3>1 DEF AdmissionInv, AdmissionTypes, ReceiptRec
    <2> QED BY <2>1, <2>2
  <1>7. PICK answer \in {"accepted", "rejected", "conflict"} :
          /\ told' = [told EXCEPT ![c] = [id |-> id, answer |-> answer]]
          /\ answer # "conflict" => answer = receipt'[id].status
    <2>1. PICK answer : /\ told' = [told EXCEPT ![c] = [id |-> id, answer |-> answer]]
                        /\ answer = receipt'[id].status \/ answer = "conflict"
      BY <1>1 DEF Persist
    <2> QED BY <1>6, <2>1
  <1>8. AdmissionTypes'
    <2>1. [id |-> id, answer |-> answer] \in ToldRec
      BY DEF ToldRec
    <2>2. told' \in [Callers -> ToldRec]
      BY <1>7, <2>1 DEF AdmissionInv, AdmissionTypes
    <2>3. open' \subseteq RequestIds /\ unseen' \subseteq RequestIds
      BY <1>6 DEF Persist, sinkVars, AdmissionInv, AdmissionTypes
    <2> QED BY <1>4, <1>5, <1>6, <2>2, <2>3 DEF AdmissionInv, AdmissionTypes, OnlyCall
  <1>9. Answers'
    <2> SUFFICES ASSUME NEW d \in Callers, told'[d].answer \in {"accepted", "rejected"}
                 PROVE  told'[d].id \in RequestIds /\ receipt'[told'[d].id].status = told'[d].answer
      BY DEF Answers
    <2>1. CASE d = c
      BY <1>7, <2>1 DEF AdmissionInv, AdmissionTypes
    <2>2. CASE d # c
      <3>1. told'[d] = told[d]
        BY <1>7, <2>2 DEF AdmissionInv, AdmissionTypes
      <3>2. told[d].id \in RequestIds /\ receipt[told[d].id].status = told[d].answer
        BY <3>1 DEF AdmissionInv, Answers
      <3> QED BY <1>6, <3>1, <3>2
    <2> QED BY <2>1, <2>2
  <1>10. Whole'
    <2>1. ending = "accepted" => WholeLots(i)
      BY <1>2, <1>3 DEF AdmissionInv, Whole
    <2>2. \A j \in RequestIds : receipt'[j].status = "accepted" => WholeLots(receipt'[j].intent)
      BY <1>6, <2>1 DEF AdmissionInv, Whole
    <2> QED BY <1>5, <2>2 DEF AdmissionInv, Whole, OnlyCall
  <1>11. ASSUME receipt[id].status = "none"
         PROVE  /\ ending = "accepted" => open' = open \union {id} /\ unseen' = unseen \union {id}
                /\ ending = "rejected" => open' = open /\ unseen' = unseen
    BY <1>1, <1>2, <1>11 DEF Persist
  <1>12. ASSUME receipt[id].status # "none" PROVE UNCHANGED <<receipt, open, unseen>>
    BY <1>1, <1>12 DEF Persist, sinkVars
  <1>13. Recorded'
    <2>1. CASE receipt[id].status = "none"
      BY <1>6, <1>11, <2>1 DEF AdmissionInv, AdmissionTypes, Recorded
    <2> QED BY <1>12, <2>1 DEF AdmissionInv, Recorded
  <1>14. ASSUME ~crowded PROVE OneAtATime'
    <2>1. OneAtATime
      BY <1>14 DEF AdmissionInv
    <2>2. /\ \A d \in Callers : d # c => call'[d] = call[d]
          /\ \A d \in Callers : Checked(d)' => d # c /\ Checked(d)
      BY <1>5 DEF OnlyCall, Checked
    <2>3. CASE ~(receipt[id].status = "none" /\ ending = "accepted")
      <3>1. open' = open /\ unseen' = unseen /\ \A j \in unseen : receipt'[j] = receipt[j]
        BY <1>6, <1>11, <1>12, <2>3 DEF AdmissionInv, AdmissionTypes, Recorded
      <3>2. /\ \A d, e \in Callers : Checked(d)' /\ Checked(e)' => d = e
            /\ \A d \in Callers : Checked(d)' =>
                 unseen' = {} /\ Size(tracked' + Delta(call'[d].intent)) <= MaxSize
        BY <1>4, <2>1, <2>2, <3>1 DEF OneAtATime
      <3> QED BY <1>4, <2>1, <3>1, <3>2 DEF OneAtATime
    <2>4. CASE receipt[id].status = "none" /\ ending = "accepted"
      <3>1. Checked(c)
        BY <1>2, <2>4 DEF Checked
      <3>2. /\ unseen = {} /\ open = {} /\ Size(tracked + Delta(i)) <= MaxSize /\ venuePosition = tracked
            /\ Size(tracked) <= MaxSize
        BY <1>3, <2>1, <3>1 DEF OneAtATime
      <3>3. unseen' = {id} /\ open' = {id} /\ receipt'[id].intent = i
        BY <1>6, <1>11, <2>4, <3>2
      <3>4. \A d \in Callers : ~Checked(d)'
        BY <2>1, <2>2, <3>1 DEF OneAtATime
      <3> QED BY <1>4, <3>2, <3>3, <3>4 DEF OneAtATime
    <2> QED BY <2>3, <2>4
  <1> QED BY <1>4, <1>8, <1>9, <1>10, <1>13, <1>14 DEF AdmissionInv

LEMMA ExecuteKept ==
  ASSUME AdmissionBounds, AdmissionInv, NEW id \in RequestIds, Execute(id)
  PROVE  AdmissionInv'
  <1>1. /\ id \in open /\ open' = open \ {id} /\ venuePosition' = venuePosition + Delta(receipt[id].intent)
        /\ UNCHANGED <<market, tracked, unseen, call, receipt, told, crowded>>
    BY DEF Execute, gateVars, sinkVars
  <1>2. Delta(receipt[id].intent) \in Int
    BY DeltaIsNumber DEF AdmissionInv, AdmissionTypes, ReceiptRec
  <1>3. AdmissionTypes' /\ Answers' /\ Whole' /\ Recorded'
    BY <1>1, <1>2 DEF AdmissionInv, AdmissionTypes, Answers, Whole, Recorded
  <1>4. ASSUME ~crowded PROVE OneAtATime'
    <2>1. OneAtATime
      BY <1>4 DEF AdmissionInv
    <2>2. id \in unseen /\ venuePosition = tracked /\ unseen = {id} /\ open' = {}
      BY <1>1, <2>1 DEF OneAtATime
    <2>3. \A d \in Callers : Checked(d)' <=> Checked(d)
      BY <1>1 DEF Checked
    <2> QED BY <1>1, <1>2, <2>1, <2>2, <2>3 DEF OneAtATime
  <1> QED BY <1>1, <1>3, <1>4 DEF AdmissionInv

LEMMA TruthIsInside ==
  ASSUME AdmissionInv, OneAtATime
  PROVE  Size(venuePosition) <= MaxSize
  <1>1. CASE unseen = {}
    BY <1>1 DEF OneAtATime
  <1>2. CASE unseen # {}
    <2>1. PICK id \in unseen : TRUE
      BY <1>2
    <2> QED BY <2>1 DEF OneAtATime
  <1> QED BY <1>1, <1>2

LEMMA RefreshKept ==
  ASSUME AdmissionBounds, AdmissionInv, Refresh
  PROVE  AdmissionInv'
  <1>1. /\ tracked' = venuePosition /\ unseen' = open
        /\ UNCHANGED <<market, venuePosition, open, call, receipt, told, crowded>>
    BY DEF Refresh, gateVars, sinkVars
  <1>2. AdmissionTypes' /\ Answers' /\ Whole' /\ Recorded'
    BY <1>1 DEF AdmissionInv, AdmissionTypes, Answers, Whole, Recorded
  <1>3. ASSUME ~crowded PROVE OneAtATime'
    <2>1. OneAtATime
      BY <1>3 DEF AdmissionInv
    <2>2. Size(venuePosition) <= MaxSize
      BY <2>1, TruthIsInside
    <2>3. \A d \in Callers : Checked(d)' <=> Checked(d)
      BY <1>1 DEF Checked
    <2>4. \A d \in Callers : Checked(d) => open = {} /\ venuePosition = tracked
      BY <2>1 DEF OneAtATime
    <2>5. \A j \in open : venuePosition = tracked
      BY <2>1 DEF OneAtATime
    <2> QED BY <1>1, <2>1, <2>2, <2>3, <2>4, <2>5 DEF OneAtATime
  <1> QED BY <1>1, <1>2, <1>3 DEF AdmissionInv

LEMMA AdmissionStarts == ASSUME AdmissionBounds, AdmissionInit PROVE AdmissionInv
  <1>1. \A c \in Callers : call[c] = NoCall
    BY DEF AdmissionInit
  <1>2. AdmissionTypes
    <2>1. NoReceipt \in ReceiptRec
      BY NothingAsked DEF NoReceipt, ReceiptRec
    <2>2. [id |-> 0, answer |-> "none"] \in ToldRec
      BY DEF ToldRec
    <2> QED BY <1>1, <2>1, <2>2, NothingAsked DEF AdmissionInit, AdmissionTypes
  <1>3. Answers /\ Whole /\ Recorded
    BY <1>1, NothingAsked DEF AdmissionInit, Answers, Whole, Recorded, NoReceipt
  <1>4. OneAtATime
    <2>1. Size(tracked) <= MaxSize
      BY DEF AdmissionInit, Size, AdmissionBounds
    <2>2. \A c \in Callers : ~Checked(c)
      BY <1>1, NothingAsked DEF Checked
    <2> QED BY <2>1, <2>2 DEF AdmissionInit, OneAtATime
  <1> QED BY <1>2, <1>3, <1>4 DEF AdmissionInv
LEMMA AdmissionKept == ASSUME AdmissionBounds, AdmissionInv, [AdmissionNext]_admissionVars PROVE AdmissionInv'
  <1>1. CASE Change \/ UNCHANGED admissionVars
    <2>1. UNCHANGED <<tracked, venuePosition, open, unseen, call, receipt, told, crowded>>
      BY <1>1 DEF Change, admissionVars, positionVars, sinkVars
    <2>2. market' \in {"good", "crossed", "priceless", "bad"}
      BY <1>1 DEF Change, admissionVars, gateVars, AdmissionInv, AdmissionTypes
    <2> QED BY <2>1, <2>2 DEF AdmissionInv, AdmissionTypes, Answers, Whole, Recorded, OneAtATime, Checked
  <1> QED BY <1>1, SubmitKept, GateKept, AbandonKept, PersistKept, ExecuteKept, RefreshKept DEF AdmissionNext

\* TradingCommandService and RiskChecker: for every lot, limit, intent and
\* interleaving of the callers, the venue's position passes the limit only
\* after a check that another accepted order had not reached the tracker by; an
\* answer is what the sink keeps; an accepted size is whole lots, large enough.
THEOREM AdmissionHolds == AdmissionBounds /\ AdmissionSpec => []AdmissionSound
  <1>1. ASSUME AdmissionBounds, AdmissionInv
        PROVE  AdmissionSound
    <2>1. Size(venuePosition) > MaxSize => crowded
      <3>1. OneAtATime => Size(venuePosition) <= MaxSize
        BY <1>1, TruthIsInside
      <3>2. Size(venuePosition) \in Int /\ MaxSize \in Int
        BY <1>1 DEF AdmissionBounds, AdmissionInv, AdmissionTypes, Size
      <3> QED BY <1>1, <3>1, <3>2 DEF AdmissionInv
    <2> QED BY <1>1, <2>1 DEF AdmissionInv, Answers, Whole, WholeLots, AdmissionSound
  <1> SUFFICES ASSUME AdmissionBounds PROVE AdmissionSpec => []AdmissionSound
    OBVIOUS
  <1> QED BY <1>1, AdmissionStarts, AdmissionKept, PTL DEF AdmissionSpec

(***************************************************************************)
(* Canary: alarms stop what expands                                        *)
(***************************************************************************)

CanarySpec == CanaryInit /\ [][CanaryNext]_canaryVars

Recovery == [cloid : Cloids, slot : Slots, found : Int,
             status : {"required", "cancel_pending", "resolved_terminal"}]

CanaryTypes ==
  /\ healthy \subseteq Healths
  /\ measure \in [Measures \cup Evidence -> {"within", "at", "past"}]
  /\ registry \subseteq Recovery
  /\ venue \in [Cloids -> {"none", "live", "terminal"}]
  /\ now \in Int

\* Only orders that were sent are in the registry; what it calls resolved has
\* ended; every live order is an unresolved entry, and no two are in one slot.
RegistryKnows ==
  /\ \A r \in registry : venue[r.cloid] # "none"
  /\ \A r \in registry : r.status = "resolved_terminal" => venue[r.cloid] = "terminal"
  /\ \A c \in Cloids : venue[c] = "live" => \E r \in Unresolved : r.cloid = c
  /\ \A r, q \in Unresolved :
       (venue[r.cloid] = "live" /\ venue[q.cloid] = "live" /\ r.slot = q.slot) => r = q

Marked(r, st) == [r EXCEPT !.status = st]

LEMMA RecoveryMarked ==
  ASSUME NEW r \in Recovery, NEW st \in {"required", "cancel_pending", "resolved_terminal"}
  PROVE  Marked(r, st) \in Recovery
BY DEF Recovery, Marked

LEMMA MarkedRecovery ==
  ASSUME NEW r \in Recovery, NEW st \in {"required", "cancel_pending", "resolved_terminal"}
  PROVE  /\ Marked(r, st).cloid = r.cloid
         /\ Marked(r, st).slot = r.slot
         /\ Marked(r, st).status = st
BY DEF Recovery, Marked

LEMMA CanaryStarts == CanaryInit => CanaryTypes /\ RegistryKnows
BY DEF CanaryInit, CanaryTypes, RegistryKnows, Unresolved

LEMMA CanaryKept == CanaryTypes /\ RegistryKnows /\ [CanaryNext]_canaryVars => CanaryTypes' /\ RegistryKnows'
<1> SUFFICES ASSUME CanaryTypes, RegistryKnows, [CanaryNext]_canaryVars PROVE CanaryTypes' /\ RegistryKnows'
  OBVIOUS
<1>1. CASE Measure
  <2>1. measure' \in [Measures \cup Evidence -> {"within", "at", "past"}]
    BY <1>1 DEF Measure, CanaryTypes
  <2> QED BY <1>1, <2>1 DEF Measure, CanaryTypes, RegistryKnows, Unresolved
<1>2. CASE Report
  BY <1>2 DEF Report, CanaryTypes, RegistryKnows, Unresolved
<1>3. CASE Start \/ Expand
  BY <1>3 DEF Start, Expand, CanaryTypes, RegistryKnows, Unresolved
<1>4. CASE PlaceUnknown
  <2>1. PICK c \in Cloids, s \in Slots :
          /\ venue[c] = "none" /\ ~PlacementBlocked(s)
          /\ venue' = [venue EXCEPT ![c] = "live"]
          /\ registry' = registry \union
               {[cloid |-> c, slot |-> s, found |-> now, status |-> "required"]}
    BY <1>4 DEF PlaceUnknown
  <2> DEFINE n == [cloid |-> c, slot |-> s, found |-> now, status |-> "required"]
  <2>2. n \in Recovery /\ n.cloid = c /\ n.slot = s /\ n.status # "resolved_terminal"
    BY DEF Recovery, CanaryTypes
  <2>3. registry' = registry \cup {n}
    BY <2>1
  <2> HIDE DEF n
  <2>4. venue' \in [Cloids -> {"none", "live", "terminal"}] /\ venue'[c] = "live" /\ \A d \in Cloids \ {c} : venue'[d] = venue[d]
    BY <2>1 DEF CanaryTypes
  <2>5. CanaryTypes'
    BY <1>4, <2>2, <2>3, <2>4 DEF PlaceUnknown, CanaryTypes
  <2>6. \A r \in registry : r.cloid \in Cloids /\ r.cloid # c
    BY <2>1 DEF CanaryTypes, Recovery, RegistryKnows
  <2>7. Unresolved' = Unresolved \cup {n}
    BY <2>2, <2>3 DEF Unresolved
  <2>8. \A r \in Unresolved : r.slot # s /\ r \in registry
    BY <2>1 DEF PlacementBlocked, Unresolved
  <2>9. \A r \in registry' : /\ venue'[r.cloid] # "none"
                             /\ r.status = "resolved_terminal" => venue'[r.cloid] = "terminal"
    BY <2>2, <2>3, <2>4, <2>6 DEF RegistryKnows
  <2>10. \A d \in Cloids : venue'[d] = "live" => \E r \in Unresolved' : r.cloid = d
    BY <2>2, <2>4, <2>7 DEF RegistryKnows
  <2>11. \A r, q \in Unresolved' :
           (venue'[r.cloid] = "live" /\ venue'[q.cloid] = "live" /\ r.slot = q.slot) => r = q
    BY <2>2, <2>4, <2>6, <2>7, <2>8 DEF RegistryKnows
  <2> QED BY <2>5, <2>9, <2>10, <2>11 DEF RegistryKnows
<1>5. CASE Register
  <2>1. UNCHANGED canaryVars
    BY <1>5 DEF Register, RegistryKnows, Unresolved, canaryVars
  <2> QED BY <2>1 DEF canaryVars, CanaryTypes, RegistryKnows, Unresolved
<1>6. ASSUME NEW r \in registry, NEW st \in {"cancel_pending", "resolved_terminal"},
             st = "cancel_pending" => r \in Unresolved,
             st = "resolved_terminal" => venue[r.cloid] = "terminal",
             registry' = (registry \ {r}) \cup {Marked(r, st)},
             UNCHANGED <<stage, measure, healthy, venue, now>>
      PROVE  CanaryTypes' /\ RegistryKnows'
  <2> DEFINE n == Marked(r, st)
  <2>1. r \in Recovery /\ n \in Recovery /\ n.cloid = r.cloid /\ n.slot = r.slot /\ n.status = st
    BY RecoveryMarked, MarkedRecovery DEF CanaryTypes
  <2>2. registry' = (registry \ {r}) \cup {n} /\ venue' = venue /\ now' = now
    BY <1>6
  <2> HIDE DEF n
  <2>3. CanaryTypes'
    BY <1>6, <2>1, <2>2 DEF CanaryTypes
  <2>4. \A q \in registry' : /\ venue'[q.cloid] # "none"
                             /\ q.status = "resolved_terminal" => venue'[q.cloid] = "terminal"
    BY <1>6, <2>1, <2>2 DEF RegistryKnows
  <2>5. Unresolved' = (Unresolved \ {r}) \cup (IF st = "cancel_pending" THEN {n} ELSE {})
    BY <1>6, <2>1, <2>2 DEF Unresolved
  <2>6. ASSUME NEW d \in Cloids, venue'[d] = "live" PROVE \E q \in Unresolved' : q.cloid = d
    <3>1. PICK q \in Unresolved : q.cloid = d
      BY <2>2, <2>6 DEF RegistryKnows
    <3>2. CASE q # r
      BY <2>5, <3>1, <3>2
    <3>3. CASE q = r
      <4>1. venue[r.cloid] = "live" BY <2>2, <2>6, <3>1, <3>3
      <4>2. st = "cancel_pending" BY <1>6, <4>1
      <4>3. n \in Unresolved' BY <2>5, <4>2
      <4> QED BY <2>1, <3>1, <3>3, <4>3
    <3> QED BY <3>2, <3>3
  <2>7. ASSUME NEW p \in Unresolved', NEW q \in Unresolved',
               venue'[p.cloid] = "live", venue'[q.cloid] = "live", p.slot = q.slot
        PROVE  p = q
    <3> DEFINE Old(x) == IF x = n THEN r ELSE x
    <3>1. ASSUME NEW x \in Unresolved', venue'[x.cloid] = "live"
          PROVE  Old(x) \in Unresolved /\ Old(x).cloid = x.cloid /\ Old(x).slot = x.slot
      <4>1. CASE x = n
        <5>1. st = "cancel_pending" BY <1>6, <2>1, <2>2, <3>1, <4>1
        <5> QED BY <1>6, <2>1, <4>1, <5>1
      <4>2. CASE x # n
        BY <2>5, <4>2
      <4> QED BY <4>1, <4>2
    <3>2. Old(p) \in Unresolved /\ Old(p).cloid = p.cloid /\ Old(p).slot = p.slot
      BY <2>7, <3>1
    <3>3. Old(q) \in Unresolved /\ Old(q).cloid = q.cloid /\ Old(q).slot = q.slot
      BY <2>7, <3>1
    <3>4. Old(p) = Old(q)
      <4> HIDE DEF Old
      <4> QED BY <2>2, <2>7, <3>2, <3>3 DEF RegistryKnows
    <3>5. \A x \in Unresolved' : x # n => x # r
      BY <2>5
    <3> QED BY <3>4, <3>5
  <2> QED BY <2>2, <2>3, <2>4, <2>6, <2>7 DEF RegistryKnows
<1>7. CASE MarkCancelPending
  <2>1. PICK r \in Unresolved : registry' = (registry \ {r}) \union {Marked(r, "cancel_pending")}
    BY <1>7 DEF MarkCancelPending, Marked
  <2> QED BY <1>6, <1>7, <2>1 DEF MarkCancelPending, Unresolved
<1>8. CASE Reconcile
  <2>1. PICK r \in registry :
          registry' = IF venue[r.cloid] = "terminal"
                      THEN (registry \ {r}) \union {Marked(r, "resolved_terminal")}
                      ELSE registry
    BY <1>8 DEF Reconcile, Marked
  <2>2. CASE venue[r.cloid] = "terminal"
    BY <1>6, <1>8, <2>1, <2>2 DEF Reconcile
  <2>3. CASE venue[r.cloid] # "terminal"
    BY <1>8, <2>1, <2>3 DEF Reconcile, CanaryTypes, RegistryKnows, Unresolved
  <2> QED BY <2>2, <2>3
<1>9. CASE OrderEnds
  BY <1>9 DEF OrderEnds, CanaryTypes, RegistryKnows, Unresolved, Recovery
<1>10. CASE Clock
  BY <1>10 DEF Clock, CanaryTypes, RegistryKnows, Unresolved
<1>11. CASE UNCHANGED canaryVars
  BY <1>11 DEF canaryVars, CanaryTypes, RegistryKnows, Unresolved
<1> QED BY <1>1, <1>2, <1>3, <1>4, <1>5, <1>7, <1>8, <1>9, <1>10, <1>11 DEF CanaryNext

LEMMA CanaryIsSound == Sla \in Nat /\ CanaryTypes /\ RegistryKnows => CanarySound
<1> SUFFICES ASSUME Sla \in Nat, CanaryTypes, RegistryKnows PROVE CanarySound
  OBVIOUS
<1>1. Directive = "running" => ~Halted /\ ~CancelOnly /\ ~Paused
  BY DEF Directive
<1>2. ~Halted /\ ~CancelOnly => healthy = Healths
  BY DEF Halted, CancelOnly, Healths, CanaryTypes
<1>3. ~Halted /\ ~CancelOnly /\ ~Paused => \A k \in Measures : measure[k] # "past"
  BY DEF Halted, CancelOnly, Paused, Past, Measures
<1>4. ~CancelOnly => \A r \in registry : venue[r.cloid] = "live" => now - r.found <= Sla
  <2> SUFFICES ASSUME ~CancelOnly, NEW r \in registry, venue[r.cloid] = "live" PROVE now - r.found <= Sla
    OBVIOUS
  <2>1. r.found \in Int /\ r.cloid \in Cloids /\ now \in Int
    BY DEF CanaryTypes, Recovery
  <2>2. r \in Unresolved
    BY DEF RegistryKnows, Unresolved
  <2>3. ~(Age(r) > Sla)
    BY <2>2 DEF CancelOnly, SlaExceeded
  <2> QED BY <2>1, <2>3 DEF Age
<1> QED BY <1>1, <1>2, <1>3, <1>4 DEF CanarySound, RegistryKnows

\* CanaryGuard (canary.rs) and the recovery registry (recovery.rs): in whatever
\* order measures, evidence and recoveries come, no alarm lets a canary expand,
\* and an order with an unknown fate holds its slot until it is resolved, for
\* every deadline.
THEOREM CanaryHoldsBack == Sla \in Nat /\ CanarySpec => []CanarySound
<1> SUFFICES ASSUME Sla \in Nat PROVE CanarySpec => []CanarySound
  OBVIOUS
<1> QED BY CanaryStarts, CanaryKept, CanaryIsSound, PTL DEF CanarySpec

(***************************************************************************)
(* Configuration: what trades is what was chosen                           *)
(*                                                                         *)
(* The variables of a launch are laid over the settings in any order, so what*)
(* a setting shows on the way depends on which of them are laid: LayersInv.*)
(***************************************************************************)

ConfigurationSpec == ConfigInit /\ [][ConfigurationNext]_configVars

Layered == {"overlay", "loaded", "observing", "trading"}
Settled == {"loaded", "observing", "trading"}
Under == Topmost(<<[environment |-> selected], given.yaml, Defaults>>)
Single(s) == \A n, m \in Names(s) : n = m

\* Each setting with one spelling shows its variable once that is laid over
\* what lies under it, and no variable comes twice.
LayersInv == phase \in Layered =>
  /\ selected = SelectEnvironment(given) /\ selected \in Environments
  /\ Settings \subseteq DOMAIN values
  /\ pending \subseteq DOMAIN AllEnv(given)
  /\ \A s \in Settings :
       /\ Names(s) \subseteq pending => values[s] = Under[s]
       /\ \A n \in Names(s) \ pending : Single(s) => values[s] = AllEnv(given)[n]

LoadedInv == phase \in Settled =>
  /\ pending = {} /\ values.environment = selected /\ endpoint = UrlsFor(selected)
  /\ ValidChain(values)
  /\ values.environment = "mainnet" => ValidateMainnet(values)

TradingInv == phase = "trading" =>
  /\ V2Trading(values) /\ values.postgres # ""
  /\ values.environment = "mainnet" => OptedIn

ConfigurationInv == LayersInv /\ LoadedInv /\ TradingInv

LEMMA TwoLayers ==
  ASSUME NEW f, NEW g
  PROVE  /\ DOMAIN Topmost(<<f, g>>) = DOMAIN f \union DOMAIN g
         /\ \A n \in DOMAIN f : Topmost(<<f, g>>)[n] = f[n]
         /\ \A n \in DOMAIN g \ DOMAIN f : Topmost(<<f, g>>)[n] = g[n]
<1> DEFINE layers == <<f, g>>
<1>1. DOMAIN layers = {1, 2} /\ layers[1] = f /\ layers[2] = g
  OBVIOUS
<1> HIDE DEF layers
<1>2. DOMAIN Topmost(layers) = DOMAIN f \union DOMAIN g
  BY <1>1 DEF Topmost
<1>3. ASSUME NEW n \in DOMAIN f \union DOMAIN g
      PROVE  Topmost(layers)[n] = IF n \in DOMAIN f THEN f[n] ELSE g[n]
  <2> DEFINE has == {i \in DOMAIN layers : n \in DOMAIN layers[i]}
             top == CHOOSE i \in has : \A j \in has : i <= j
  <2>1. Topmost(layers)[n] = layers[top][n]
    BY <1>1, <1>3 DEF Topmost
  <2>2. has = IF n \in DOMAIN f THEN IF n \in DOMAIN g THEN {1, 2} ELSE {1} ELSE {2}
    BY <1>1, <1>3
  <2> HIDE DEF has
  <2>3. top = IF n \in DOMAIN f THEN 1 ELSE 2
    BY <2>2
  <2> HIDE DEF top
  <2> QED BY <1>1, <2>1, <2>3
<1> QED BY <1>2, <1>3 DEF layers

LEMMA LayersLie ==
  ASSUME NEW layers, DOMAIN layers = {1, 2, 3}
  PROVE  /\ DOMAIN Topmost(layers) = DOMAIN layers[1] \union DOMAIN layers[2] \union DOMAIN layers[3]
         /\ \A n \in DOMAIN Topmost(layers) :
              Topmost(layers)[n] = IF n \in DOMAIN layers[1] THEN layers[1][n]
                                   ELSE IF n \in DOMAIN layers[2] THEN layers[2][n] ELSE layers[3][n]
<1>1. DOMAIN Topmost(layers) = DOMAIN layers[1] \union DOMAIN layers[2] \union DOMAIN layers[3]
  BY DEF Topmost
<1>2. ASSUME NEW n \in DOMAIN Topmost(layers)
      PROVE  Topmost(layers)[n] = IF n \in DOMAIN layers[1] THEN layers[1][n]
                                  ELSE IF n \in DOMAIN layers[2] THEN layers[2][n] ELSE layers[3][n]
  <2> DEFINE has == {i \in DOMAIN layers : n \in DOMAIN layers[i]}
             top == CHOOSE i \in has : \A j \in has : i <= j
             first == IF n \in DOMAIN layers[1] THEN 1 ELSE IF n \in DOMAIN layers[2] THEN 2 ELSE 3
  <2>1. Topmost(layers)[n] = layers[top][n]
    BY <1>2 DEF Topmost
  <2>2. /\ has \subseteq {1, 2, 3} /\ (1 \in has <=> n \in DOMAIN layers[1])
        /\ (2 \in has <=> n \in DOMAIN layers[2]) /\ (3 \in has <=> n \in DOMAIN layers[3])
    OBVIOUS
  <2>3. first \in has /\ \A j \in has : first <= j
    BY <1>1, <1>2
  <2> HIDE DEF has
  <2>4. \A i \in has : (\A j \in has : i <= j) => i = first
    BY <2>2, <2>3
  <2> HIDE DEF first
  <2>5. top = first
    BY <2>3, <2>4
  <2> HIDE DEF top
  <2> QED BY <2>1, <2>5 DEF first
<1> QED BY <1>1, <1>2

LEMMA HasSettings == {"environment", "postgres", "address", "key"} \subseteq Settings
<1> DEFINE layers == <<AppDefaults, FeatureDefaults, ReferenceDefaults, RiskDefaults, BudgetDefaults,
                       MakingDefaults, ArbDefaults, ApiDefaults, ExchangeDefaults>>
<1>1. DOMAIN layers = 1..9 /\ layers[1] = AppDefaults /\ layers[9] = ExchangeDefaults
  OBVIOUS
<1>2. Settings = DOMAIN Topmost(layers)
  BY DEF Settings, Defaults
<1> HIDE DEF layers
<1>3. DOMAIN layers[1] \union DOMAIN layers[9] \subseteq Settings
  BY <1>1, <1>2 DEF Topmost
<1> QED BY <1>1, <1>3 DEF AppDefaults, ExchangeDefaults

LEMMA ConfigurationStarts == ASSUME ConfigInit PROVE ConfigurationInv
BY DEF ConfigInit, ConfigurationInv, LayersInv, LoadedInv, TradingInv, Layered, Settled

\* What the layers of the launch say of a variable and of a setting.
LEMMA GivenSays ==
  ASSUME UNCHANGED given
  PROVE  /\ SelectEnvironment(given)' = SelectEnvironment(given) /\ AllEnv(given)' = AllEnv(given)
         /\ \A s : Names(s)' = Names(s) /\ (Single(s)' <=> Single(s))
         /\ OptedIn' = OptedIn
         /\ \A v : ValidateMainnet(v)' <=> ValidateMainnet(v)
BY DEF SelectEnvironment, Explicit, AllEnv, Names, Single, OptedIn, ValidateMainnet, FromProcess

LEMMA SelectKeeps == ASSUME ConfigurationInv, Select PROVE ConfigurationInv'
<1>1. CASE phase' = "refused"
  BY <1>1 DEF ConfigurationInv, LayersInv, LoadedInv, TradingInv, Layered, Settled
<1>2. CASE phase' # "refused"
  <2>1. /\ phase' = "overlay" /\ selected' = SelectEnvironment(given) /\ selected' \in Environments
        /\ pending' = DOMAIN AllEnv(given) /\ UNCHANGED given
        /\ values' = Topmost(<<[environment |-> selected'], given.yaml, Defaults>>)
    BY <1>2, Zenon DEF Select, Refuse
  <2>2. values' = Under'
    BY <2>1 DEF Under
  <2>3. Settings \subseteq DOMAIN Topmost(<<[environment |-> selected'], given.yaml, Defaults>>)
    <3> DEFINE layers == <<[environment |-> selected'], given.yaml, Defaults>>
    <3>1. DOMAIN layers = {1, 2, 3} /\ layers[3] = Defaults
      OBVIOUS
    <3> HIDE DEF layers
    <3>2. Settings \subseteq DOMAIN Topmost(layers)
      BY <3>1, LayersLie DEF Settings
    <3> QED BY <3>2 DEF layers
  <2>4. \A s : Names(s) \subseteq DOMAIN AllEnv(given)
    BY TwoLayers DEF Names, AllEnv
  <2>5. LayersInv'
    BY <2>1, <2>2, <2>3, <2>4, GivenSays DEF LayersInv
  <2> QED BY <2>1, <2>5 DEF ConfigurationInv, LoadedInv, TradingInv, Settled
<1> QED BY <1>1, <1>2

LEMMA OverlayKeeps == ASSUME ConfigurationInv, NEW n \in pending, Overlay(n) PROVE ConfigurationInv'
<1>1. /\ phase = "overlay" /\ pending' = pending \ {n} /\ UNCHANGED <<given, phase, selected, endpoint>>
      /\ values' = IF n # "ENV" /\ Means(n) \in Settings
                   THEN [values EXCEPT ![Means(n)] = AllEnv(given)[n]] ELSE values
  BY DEF Overlay
<1>2. /\ selected = SelectEnvironment(given) /\ selected \in Environments
      /\ Settings \subseteq DOMAIN values /\ pending \subseteq DOMAIN AllEnv(given)
  BY <1>1 DEF ConfigurationInv, LayersInv, Layered
<1>3. Under' = Under
  BY <1>1 DEF Under
<1>4. Settings \subseteq DOMAIN values'
  BY <1>1, <1>2
<1>5. ASSUME NEW s \in Settings
      PROVE  /\ Names(s) \subseteq pending' => values'[s] = Under[s]
             /\ \A m \in Names(s) \ pending' : Single(s) => values'[s] = AllEnv(given)[m]
  <2>1. /\ Names(s) \subseteq pending => values[s] = Under[s]
        /\ \A m \in Names(s) \ pending : Single(s) => values[s] = AllEnv(given)[m]
    BY <1>1 DEF ConfigurationInv, LayersInv, Layered
  <2>2. CASE n \in Names(s)
    <3>1. n # "ENV" /\ Means(n) = s
      BY <2>2 DEF Names
    <3>2. values'[s] = AllEnv(given)[n]
      BY <1>1, <1>2, <3>1
    <3> QED BY <1>1, <2>2, <3>2 DEF Single
  <2>3. CASE n \notin Names(s)
    <3>1. n \in DOMAIN AllEnv(given)
      BY <1>2
    <3>2. n \in DOMAIN given.process \union DOMAIN given.dotenv
      BY <3>1, TwoLayers DEF AllEnv
    <3>3. n = "ENV" \/ Means(n) # s
      BY <2>3, <3>2 DEF Names
    <3>4. values'[s] = values[s]
      BY <1>1, <1>2, <3>3
    <3> QED BY <1>1, <2>1, <2>3, <3>4
  <2> QED BY <2>2, <2>3
<1>6. LayersInv'
  BY <1>1, <1>2, <1>3, <1>4, <1>5, GivenSays DEF LayersInv
<1> QED BY <1>1, <1>6 DEF ConfigurationInv, LoadedInv, TradingInv, Settled

LEMMA LaterKeeps ==
  ASSUME LayersInv, phase \in Layered, UNCHANGED <<given, selected, values, pending>>
  PROVE  LayersInv'
<1>1. Under' = Under
  BY DEF Under
<1> QED BY <1>1, GivenSays DEF LayersInv

LEMMA LoadKeeps == ASSUME ConfigurationInv, Load PROVE ConfigurationInv'
<1>1. phase = "overlay" /\ pending = {} /\ UNCHANGED <<given, selected, values, pending>>
  BY DEF Load
<1>2. LayersInv'
  BY <1>1, LaterKeeps DEF ConfigurationInv, Layered
<1>3. CASE phase' = "refused"
  BY <1>2, <1>3 DEF ConfigurationInv, LoadedInv, TradingInv, Settled
<1>4. CASE phase' # "refused"
  <2>1. /\ phase' = "loaded" /\ endpoint' = UrlsFor(values.environment)
        /\ values.environment = selected /\ Validate(values)
        /\ values.environment = "mainnet" => ValidateMainnet(values)
    BY <1>4, Zenon DEF Load, Refuse
  <2>2. LoadedInv'
    BY <1>1, <2>1, GivenSays DEF LoadedInv, Validate
  <2> QED BY <1>2, <2>1, <2>2 DEF ConfigurationInv, TradingInv
<1> QED BY <1>3, <1>4

LEMMA WiringKeeps ==
  ASSUME ConfigurationInv, ControlPlane \/ \E c \in BOOLEAN : Trade(c) PROVE ConfigurationInv'
<1>1. /\ phase = "loaded" /\ UNCHANGED <<given, selected, values, pending, endpoint>>
      /\ \/ phase' \in {"observing", "refused"}
         \/ /\ phase' = "trading" /\ V2Trading(values) /\ values.postgres # ""
            /\ values.environment = "mainnet" => OptedIn
  BY Zenon DEF ControlPlane, Trade
<1>2. LayersInv'
  BY <1>1, LaterKeeps DEF ConfigurationInv, Layered
<1>3. LoadedInv'
  BY <1>1, GivenSays DEF ConfigurationInv, LoadedInv, Settled
<1>4. TradingInv'
  BY <1>1, GivenSays DEF TradingInv
<1> QED BY <1>2, <1>3, <1>4 DEF ConfigurationInv

LEMMA ConfigurationSteps == ConfigurationInv /\ [ConfigurationNext]_configVars => ConfigurationInv'
<1> SUFFICES ASSUME ConfigurationInv, [ConfigurationNext]_configVars PROVE ConfigurationInv'
  OBVIOUS
<1>1. CASE (\E d \in Deployments : Launch(d)) \/ Exit
  BY <1>1 DEF Launch, Exit, ConfigurationInv, LayersInv, LoadedInv, TradingInv, Layered, Settled
<1>2. CASE \E n \in pending : Overlay(n)
  BY <1>2, OverlayKeeps
<1>3. CASE UNCHANGED configVars
  <2>1. UNCHANGED <<given, phase, selected, values, pending, endpoint>>
    BY <1>3 DEF configVars
  <2>2. LoadedInv' /\ TradingInv'
    BY <2>1, GivenSays DEF ConfigurationInv, LoadedInv, TradingInv
  <2>3. Under' = Under
    BY <2>1 DEF Under
  <2>4. LayersInv'
    BY <2>1, <2>3, GivenSays DEF ConfigurationInv, LayersInv
  <2> QED BY <2>2, <2>4 DEF ConfigurationInv
<1> QED BY <1>1, <1>2, <1>3, SelectKeeps, LoadKeeps, WiringKeeps DEF ConfigurationNext

LEMMA LayersAreKept == ASSUME ConfigurationInv PROVE LayersHold
<1> SUFFICES ASSUME phase \in {"observing", "trading"}, NEW s \in Settings, Single(s)
             PROVE  values[s] = TopLayer(s)
  BY DEF LayersHold, Single
<1>1. /\ pending = {}
      /\ Names(s) \subseteq pending => values[s] = Under[s]
      /\ \A n \in Names(s) \ pending : Single(s) => values[s] = AllEnv(given)[n]
  BY DEF ConfigurationInv, LayersInv, LoadedInv, Layered, Settled
<1>2. CASE Names(s) = {}
  <2>1. values[s] = Under[s]
    BY <1>1, <1>2
  <2>2. TopLayer(s) = IF s = "environment" THEN selected ELSE Topmost(<<given.yaml, Defaults>>)[s]
    BY <1>2 DEF TopLayer
  <2>3. DOMAIN [environment |-> selected] = {"environment"}
    OBVIOUS
  <2> DEFINE top == [environment |-> selected]
  <2>4. DOMAIN top = {"environment"} /\ top["environment"] = selected
    BY <2>3
  <2>5. Under = Topmost(<<top, given.yaml, Defaults>>)
    BY DEF Under
  <2>6. Under[s] = IF s = "environment" THEN selected
                   ELSE IF s \in DOMAIN given.yaml THEN given.yaml[s] ELSE Defaults[s]
    <3> DEFINE layers == <<top, given.yaml, Defaults>>
    <3>1. DOMAIN layers = {1, 2, 3} /\ layers[1] = top /\ layers[2] = given.yaml /\ layers[3] = Defaults
      OBVIOUS
    <3>2. Under = Topmost(layers)
      BY <2>5
    <3> HIDE DEF layers, top
    <3> QED BY <2>4, <3>1, <3>2, LayersLie DEF Settings
  <2>7. Topmost(<<given.yaml, Defaults>>)[s] = IF s \in DOMAIN given.yaml THEN given.yaml[s] ELSE Defaults[s]
    <3>1. /\ \A m \in DOMAIN given.yaml : Topmost(<<given.yaml, Defaults>>)[m] = given.yaml[m]
          /\ \A m \in DOMAIN Defaults \ DOMAIN given.yaml :
               Topmost(<<given.yaml, Defaults>>)[m] = Defaults[m]
      BY TwoLayers, Zenon
    <3> QED BY <3>1 DEF Settings
  <2> QED BY <2>1, <2>2, <2>6, <2>7
<1>3. CASE Names(s) # {}
  <2>1. PICK n \in Names(s) : Names(s) = {n}
    BY <1>3 DEF Single
  <2>2. values[s] = AllEnv(given)[n] /\ n \in DOMAIN given.process \union DOMAIN given.dotenv
    BY <1>1, <2>1 DEF Names
  <2>3. CASE n \in DOMAIN given.process
    <3>1. TopLayer(s) = given.process[CHOOSE m \in Names(s) : m \in DOMAIN given.process]
      BY <2>1, <2>3 DEF TopLayer
    <3>2. (CHOOSE m \in Names(s) : m \in DOMAIN given.process) = n
      BY <2>1, <2>3
    <3>3. AllEnv(given)[n] = given.process[n]
      BY <2>3, TwoLayers DEF AllEnv
    <3> QED BY <2>2, <3>1, <3>2, <3>3
  <2>4. CASE n \notin DOMAIN given.process
    <3>1. TopLayer(s) = given.dotenv[CHOOSE m \in Names(s) : TRUE]
      BY <2>1, <2>4 DEF TopLayer
    <3>2. (CHOOSE m \in Names(s) : TRUE) = n
      BY <2>1
    <3>3. \A m \in DOMAIN given.dotenv \ DOMAIN given.process : AllEnv(given)[m] = given.dotenv[m]
      BY TwoLayers, Zenon DEF AllEnv
    <3>4. AllEnv(given)[n] = given.dotenv[n]
      BY <2>2, <2>4, <3>3
    <3> QED BY <2>2, <3>1, <3>2, <3>4
  <2> QED BY <2>3, <2>4
<1> QED BY <1>2, <1>3

LEMMA ChosenTrades == ASSUME ConfigurationInv PROVE TradesAsChosen
<1> SUFFICES ASSUME phase = "trading"
             PROVE  /\ values.environment = SelectEnvironment(given)
                    /\ endpoint = UrlsFor(SelectEnvironment(given))
                    /\ V2Trading(values) /\ ~On(values, "legacy") /\ values.postgres # ""
                    /\ On(values, "arb") => SelectEnvironment(given) = "testnet"
                    /\ SelectEnvironment(given) = "mainnet" =>
                         /\ OptedIn /\ On(values, "kill") /\ AdminToken(values)
                         /\ \A s \in Required : Names(s) = {s} => values[s] = given.process[s]
  BY DEF TradesAsChosen
<1>1. /\ selected = SelectEnvironment(given) /\ values.environment = selected
      /\ endpoint = UrlsFor(selected) /\ ValidChain(values) /\ pending = {}
      /\ values.environment = "mainnet" => ValidateMainnet(values)
      /\ V2Trading(values) /\ values.postgres # ""
      /\ values.environment = "mainnet" => OptedIn
  BY DEF ConfigurationInv, LayersInv, LoadedInv, TradingInv, Layered, Settled
<1>2. ~On(values, "legacy") /\ (On(values, "arb") => values.environment = "testnet")
  BY <1>1 DEF ValidChain, V2Trading
<1>3. ASSUME selected = "mainnet"
      PROVE  /\ On(values, "kill") /\ AdminToken(values)
             /\ \A s \in Required : FromProcess(s)
  BY <1>1, <1>3 DEF ValidateMainnet
<1>4. ASSUME NEW s \in Required, FromProcess(s), Names(s) = {s}
      PROVE  values[s] = given.process[s]
  <2>1. s \in DOMAIN given.process
    BY <1>4 DEF FromProcess, ValueIn
  <2>2. s \in Settings
    BY HasSettings DEF Required
  <2>3. values[s] = TopLayer(s)
    BY <1>4, <2>2, LayersAreKept DEF LayersHold
  <2>4. (CHOOSE m \in Names(s) : m \in DOMAIN given.process) = s
    BY <1>4, <2>1
  <2> QED BY <1>4, <2>1, <2>3, <2>4 DEF TopLayer
<1> QED BY <1>1, <1>2, <1>3, <1>4

\* What trades is what was chosen, layer by layer, however the variables come.
THEOREM ChosenIsWhatTrades == ConfigurationSpec => []ConfigurationSound
<1>1. ConfigurationInv => ConfigurationSound
  BY LayersAreKept, ChosenTrades DEF ConfigurationSound
<1> QED BY <1>1, ConfigurationStarts, ConfigurationSteps, PTL DEF ConfigurationSpec

(***************************************************************************)
(* ArbEntry: the legs of an entry, and its volume                          *)
(*                                                                         *)
(* What was read of a market goes stale on the way into a plan: through the*)
(* answer, the cache, the scan and the snapshot, each with its own delay.  *)
(* LostAfter says how long ago a volume that counted as enough may have been*)
(* lost; EntryInv carries it along with the delays added up.               *)
(***************************************************************************)

EntrySpec == EntryInit /\ [][EntryNext]_entryVars

EntryBounds ==
  /\ \A s \in DOMAIN Instruments :
       Instruments[s].lot \in Nat \ {0} /\ Instruments[s].min \in Nat \ {0}
  /\ \A shape \in Shapes \union {FirstBook} :
       shape.bids[1].price \in Nat \ {0} /\ shape.asks[1].price \in Nat \ {0}
  /\ MaxNotional \in Nat /\ Hedge \in Nat /\ MinVolume \in Nat /\ Volumes \subseteq Nat
  /\ CacheTtl \in Nat \ {0}

\* Every book in sight, shown or read, has a best price on both sides.
Shown(b) == b.shape \in Shapes \union {FirstBook}

\* A volume that was enough at a moment was lost after it, if at all.
LostAfter(since, v, moment) == v >= MinVolume => since = -1 \/ since >= moment
Reach == 2 * CacheTtl + 1

VolumesInv ==
  /\ time \in Nat /\ volume \in [Perps -> Nat] /\ lowSince \in [Perps -> Nat \union {-1}]
  /\ \A p \in Perps : lowSince[p] <= time /\ (lowSince[p] = -1 <=> volume[p] >= MinVolume)
  /\ \A a \in asked : /\ a.at \in Nat /\ a.at <= time /\ time - a.at <= 2
                      /\ \A p \in Perps : LostAfter(lowSince[p], a.of[p], a.at)
  /\ \A c \in context : /\ c.at \in Nat /\ c.at <= time
                        /\ \A p \in Perps : LostAfter(lowSince[p], c.of[p], c.at - 2)
  /\ using.at \in Nat /\ using.at <= time
  /\ \A p \in Perps : LostAfter(lowSince[p], using.of[p], using.at - Reach)

Paired(s) == /\ s.perp \in Perps /\ s.spot \in Spots
             /\ \E u \in SpotUniverse : u.name = s.spot /\ u.base = s.perp
Hedging(perp, spot, s) ==
  LET short == perp * Hedge - spot * 100
      lot == Instruments[s.spot].lot
  IN /\ spot > 0 /\ short >= 0 /\ short < 100 * lot
     /\ perp % Instruments[s.perp].lot = 0 /\ spot % lot = 0

EntryInv ==
  /\ VolumesInv
  /\ DOMAIN books = Perps \union Spots /\ \A s \in Perps \union Spots : Shown(books[s])
  /\ \A pair \in todo : Paired(pair)
  /\ \A s \in snapshots : /\ Paired(s) /\ Shown(s.perpBook) /\ Shown(s.spotBook)
                          /\ LostAfter(lowSince[s.perp], s.volume, using.at - Reach)
  /\ step # "collect" => snapshots = {}
  /\ \A p \in plan : /\ Paired(p.on) /\ Hedging(p.perp, p.spot, p.on)
                     /\ p.volumeAt \in Nat /\ p.volumeAt <= time
                     /\ lowSince[p.on.perp] = -1 \/ lowSince[p.on.perp] >= p.volumeAt - Reach

LEMMA EntryStarts == ASSUME EntryBounds, EntryInit PROVE EntryInv
<1>1. VolumesInv
  BY DEF EntryBounds, EntryInit, VolumesInv, LostAfter, Reach
<1> QED BY <1>1 DEF EntryInit, EntryInv, Shown

LEMMA FloorIs ==
  ASSUME NEW n \in Nat, NEW l \in Nat \ {0}
  PROVE  /\ FloorTo(n, l) \in Nat /\ FloorTo(n, l) <= n /\ n < FloorTo(n, l) + l
         /\ FloorTo(n, l) % l = 0
BY LotsOf DEF FloorTo

\* A candidate's legs hedge each other to less than a lot of the spot.
LEMMA CandidatesHedge ==
  ASSUME EntryBounds, NEW s, CandidatePlan(s), Shown(s.perpBook)
  PROVE  Hedging(PerpSize(s), SpotSize(s), s)
<1>1. {s.perp, s.spot} \subseteq DOMAIN Instruments
  BY DEF CandidatePlan, Matched
<1> DEFINE l == Instruments[s.perp].lot
           k == Instruments[s.spot].lot
           mid == Mid2(s.perpBook)
           n == (2 * MaxNotional) \div mid
           perp == PerpSize(s)
           m == (perp * Hedge) \div 100
           spot == SpotSize(s)
<1>2. l \in Nat \ {0} /\ k \in Nat \ {0} /\ Instruments[s.spot].min \in Nat \ {0}
  BY <1>1 DEF EntryBounds
<1>0. spot >= Instruments[s.spot].min
  BY DEF CandidatePlan
<1>3. mid \in Nat \ {0}
  BY DEF EntryBounds, Shown, Mid2, Bid, Ask
<1> HIDE DEF mid
<1>4. n \in Nat
  BY <1>3 DEF EntryBounds
<1>5. perp = FloorTo(n, l)
  BY DEF PerpSize, mid
<1> HIDE DEF n, l
<1>6. perp \in Nat /\ perp % l = 0
  BY <1>2, <1>4, <1>5, FloorIs
<1>7. spot = FloorTo(m, k)
  BY DEF SpotSize
<1> HIDE DEF perp, spot
<1>8. perp * Hedge \in Nat
  BY <1>6 DEF EntryBounds
<1>9. m \in Nat /\ 100 * m <= perp * Hedge /\ perp * Hedge < 100 * m + 100
  BY <1>8
<1> HIDE DEF m, k
<1>10. spot \in Nat /\ spot > 0 /\ spot <= m /\ m < spot + k /\ spot % k = 0
  <2>1. spot \in Nat /\ spot <= m /\ m < spot + k /\ spot % k = 0
    BY <1>2, <1>7, <1>9, FloorIs
  <2> QED BY <1>2, <1>0, <2>1
<1>11. perp * Hedge - spot * 100 >= 0 /\ perp * Hedge - spot * 100 < 100 * k
  BY <1>2, <1>8, <1>9, <1>10
<1> QED BY <1>2, <1>6, <1>10, <1>11 DEF Hedging, perp, spot, k, l

\* What was enough at a moment stays so, however volumes move from now on.
LEMMA StillEnough ==
  ASSUME EntryBounds, EntryInv, NEW p, NEW v, UNCHANGED lowSince \/ VolumeMoves(p, v)
  PROVE  \A q \in Perps, moment \in Int : \A w :
           moment <= time /\ LostAfter(lowSince[q], w, moment) => LostAfter(lowSince'[q], w, moment)
<1>1. lowSince \in [Perps -> Nat \union {-1}] /\ time \in Nat
  BY DEF EntryInv, VolumesInv
<1>2. \A q \in Perps : \/ lowSince'[q] = lowSince[q] \/ lowSince'[q] = -1
                       \/ lowSince[q] = -1 /\ lowSince'[q] = time
  BY <1>1 DEF VolumeMoves
<1> QED BY <1>1, <1>2 DEF LostAfter

LEMMA VolumeKeeps ==
  ASSUME EntryBounds, EntryInv, NEW p \in Perps, NEW v \in Volumes, VolumeMoves(p, v)
  PROVE  EntryInv'
<1>1. /\ volume' = [volume EXCEPT ![p] = v]
      /\ lowSince' = [lowSince EXCEPT ![p] = IF v >= MinVolume THEN -1 ELSE IF @ = -1 THEN time ELSE @]
      /\ UNCHANGED <<time, rate, books, context, loaded, asked, using, snapshots, todo, step, plan>>
  BY DEF VolumeMoves, Moved, scanning
<1>2. v \in Nat /\ volume \in [Perps -> Nat] /\ lowSince \in [Perps -> Nat \union {-1}] /\ time \in Nat
  BY DEF EntryInv, VolumesInv, EntryBounds
<1>3. /\ volume' \in [Perps -> Nat] /\ lowSince' \in [Perps -> Nat \union {-1}]
      /\ \A q \in Perps : lowSince'[q] <= time /\ (lowSince'[q] = -1 <=> volume'[q] >= MinVolume)
  BY <1>1, <1>2 DEF EntryInv, VolumesInv, EntryBounds
<1>4. Reach \in Nat
  BY DEF Reach, EntryBounds
<1>5. VolumesInv'
  <2>1. \A a \in asked, q \in Perps : LostAfter(lowSince'[q], a.of[q], a.at)
    BY StillEnough DEF EntryInv, VolumesInv
  <2>2. \A c \in context, q \in Perps : LostAfter(lowSince'[q], c.of[q], c.at - 2)
    <3>1. \A c \in context : c.at - 2 \in Int /\ c.at - 2 <= time
      BY <1>2 DEF EntryInv, VolumesInv
    <3> QED BY <3>1, StillEnough DEF EntryInv, VolumesInv
  <2>3. \A q \in Perps : LostAfter(lowSince'[q], using.of[q], using.at - Reach)
    <3>1. using.at - Reach \in Int /\ using.at - Reach <= time
      BY <1>2, <1>4 DEF EntryInv, VolumesInv
    <3> QED BY <3>1, StillEnough DEF EntryInv, VolumesInv
  <2> QED BY <1>1, <1>3, <2>1, <2>2, <2>3 DEF EntryInv, VolumesInv, LostAfter, Reach
<1>6. \A s \in snapshots : LostAfter(lowSince'[s.perp], s.volume, using.at - Reach)
  <2>1. using.at - Reach \in Int /\ using.at - Reach <= time
    BY <1>2, <1>4 DEF EntryInv, VolumesInv
  <2> QED BY <2>1, StillEnough DEF EntryInv, Paired
<1>7. \A e \in plan : lowSince'[e.on.perp] = -1 \/ lowSince'[e.on.perp] >= e.volumeAt - Reach
  <2>1. \A e \in plan : /\ e.volumeAt - Reach \in Int /\ e.volumeAt - Reach <= time
                        /\ e.on.perp \in Perps /\ LostAfter(lowSince[e.on.perp], MinVolume, e.volumeAt - Reach)
    BY <1>2, <1>4 DEF EntryInv, LostAfter, Paired
  <2>2. \A e \in plan : LostAfter(lowSince'[e.on.perp], MinVolume, e.volumeAt - Reach)
    BY <2>1, StillEnough
  <2>3. MinVolume >= MinVolume
    BY DEF EntryBounds
  <2> QED BY <1>1, <2>2, <2>3 DEF LostAfter, Reach
<1> QED BY <1>1, <1>5, <1>6, <1>7 DEF EntryInv, Shown, Paired, Hedging, LostAfter, Reach

\* What the steps below leave alone.
LEMMA FramedVolumes ==
  ASSUME VolumesInv, UNCHANGED <<volume, lowSince, asked, context, using, time>>
  PROVE  VolumesInv'
BY DEF VolumesInv, LostAfter, Reach

LEMMA FramedPlan ==
  ASSUME EntryInv, UNCHANGED <<lowSince, time>>, plan' \subseteq plan
  PROVE  \A p \in plan' : /\ Paired(p.on)' /\ Hedging(p.perp, p.spot, p.on)'
                          /\ p.volumeAt \in Nat /\ p.volumeAt <= time'
                          /\ lowSince'[p.on.perp] = -1 \/ lowSince'[p.on.perp] >= p.volumeAt - Reach
BY DEF EntryInv, Paired, Hedging

LEMMA FramedSnapshots ==
  ASSUME EntryInv, UNCHANGED <<lowSince, using>>, snapshots' \subseteq snapshots
  PROVE  \A s \in snapshots' : /\ Paired(s)' /\ Shown(s.perpBook)' /\ Shown(s.spotBook)'
                               /\ LostAfter(lowSince'[s.perp], s.volume, using.at - Reach)
BY DEF EntryInv, Paired, Shown, LostAfter, Reach

LEMMA SmallKeeps ==
  ASSUME EntryInv,
         \/ \E s \in DOMAIN books, shape \in Shapes : BookMoves(s, shape)
         \/ \E p \in Perps, r \in Rates : RateMoves(p, r)
         \/ InstrumentsLoad \/ CheckExit \/ UNCHANGED entryVars
  PROVE  EntryInv'
<1>1. /\ UNCHANGED <<volume, lowSince, asked, context, using, time, todo, snapshots, step>>
      /\ plan' \subseteq plan
  BY DEF BookMoves, RateMoves, InstrumentsLoad, CheckExit, Moved, scanning, marketVars, entryVars
<1>2. DOMAIN books' = Perps \union Spots /\ \A s \in Perps \union Spots : Shown(books'[s])
  <2>1. DOMAIN books = Perps \union Spots /\ \A s \in Perps \union Spots : Shown(books[s])
    BY DEF EntryInv
  <2>2. CASE UNCHANGED books
    BY <2>1, <2>2
  <2>3. CASE \E s \in DOMAIN books, shape \in Shapes : BookMoves(s, shape)
    BY <2>1, <2>3 DEF BookMoves, Shown
  <2> QED BY <2>2, <2>3 DEF RateMoves, InstrumentsLoad, CheckExit, marketVars, entryVars
<1>3. VolumesInv'
  BY <1>1, FramedVolumes DEF EntryInv
<1>4. \A pair \in todo' : Paired(pair)'
  BY <1>1 DEF EntryInv, Paired
<1>5. (\A s \in Perps \union Spots : Shown(books[s]))'
  BY <1>2 DEF Shown
<1>6. step' # "collect" => snapshots' = {}
  BY <1>1 DEF EntryInv
<1> QED BY <1>1, <1>2, <1>3, <1>4, <1>5, <1>6, FramedPlan, FramedSnapshots DEF EntryInv

LEMMA TickKeepsEntry == ASSUME EntryBounds, EntryInv, Tick PROVE EntryInv'
<1>1. /\ time' = time + 1 /\ \A a \in asked : time - a.at < 2
      /\ UNCHANGED <<rate, books, volume, lowSince, context, loaded, asked, using, snapshots, todo, step, plan>>
  BY DEF Tick, marketVars, scanning
<1>2. VolumesInv'
  BY <1>1 DEF EntryInv, VolumesInv, LostAfter, Reach
<1>3. \A p \in plan' : p.volumeAt <= time'
  BY <1>1 DEF EntryInv, VolumesInv
<1> QED BY <1>1, <1>2, <1>3 DEF EntryInv, Shown, Paired, Hedging, LostAfter, Reach

LEMMA ScanKeeps == ASSUME EntryInv, Scan PROVE EntryInv'
<1>1. /\ step' = "asking" /\ snapshots' = {}
      /\ todo' = {[perp |-> q.perp, spot |-> q.spot, rate |-> rate[q.perp]] : q \in SpotMap}
      /\ UNCHANGED <<time, rate, books, volume, lowSince, loaded, context, asked, using, plan>>
  BY DEF Scan, marketVars
<1>2. \A q \in SpotMap : /\ q.perp \in Perps /\ q.spot \in Spots
                         /\ \E u \in SpotUniverse : u.name = q.spot /\ u.base = q.perp
  BY DEF SpotMap, Spots
<1>3. \A pair \in todo' : Paired(pair)'
  BY <1>1, <1>2 DEF Paired
<1>4. VolumesInv'
  BY <1>1, FramedVolumes DEF EntryInv
<1> QED BY <1>1, <1>3, <1>4, FramedPlan DEF EntryInv, Shown

LEMMA AskingKeeps ==
  ASSUME EntryBounds, EntryInv, UseCache \/ AskContexts \/ \E b \in BOOLEAN : ContextsAnswered(b)
  PROVE  EntryInv'
<1>1. /\ step \in {"asking", "answer"} /\ snapshots = {} /\ snapshots' = {}
      /\ UNCHANGED <<time, rate, books, volume, lowSince, loaded, todo, plan>>
  BY DEF UseCache, AskContexts, ContextsAnswered, marketVars, EntryInv
<1>2. /\ time \in Nat /\ \A p \in Perps : lowSince[p] \in Nat \union {-1} /\ volume[p] \in Nat
      /\ \A p \in Perps : lowSince[p] <= time /\ (lowSince[p] = -1 <=> volume[p] >= MinVolume)
      /\ MinVolume \in Nat /\ CacheTtl \in Nat \ {0} /\ Reach \in Nat /\ Reach = 2 * CacheTtl + 1
  BY DEF EntryInv, VolumesInv, EntryBounds, Reach
<1>3. VolumesInv'
  <2>1. CASE UseCache
    <3>1. PICK c \in context : Fresh(c) /\ using' = [of |-> c.of, at |-> time]
      BY <2>1 DEF UseCache
    <3>2. c.at \in Nat /\ time - c.at < 2 * CacheTtl
      BY <3>1 DEF Fresh, EntryInv, VolumesInv
    <3>3. \A p \in Perps : LostAfter(lowSince[p], using'.of[p], using'.at - Reach)
      BY <1>2, <3>1, <3>2 DEF EntryInv, VolumesInv, LostAfter
    <3> QED BY <1>1, <1>2, <2>1, <3>1, <3>3 DEF UseCache, EntryInv, VolumesInv, LostAfter, Reach
  <2>2. CASE AskContexts
    <3>1. asked' = {[at |-> time, of |-> volume]} /\ UNCHANGED <<context, using>>
      BY <2>2 DEF AskContexts
    <3>2. \A p \in Perps : LostAfter(lowSince[p], volume[p], time)
      BY <1>2 DEF LostAfter
    <3> QED BY <1>1, <1>2, <3>1, <3>2 DEF EntryInv, VolumesInv, LostAfter, Reach
  <2>3. CASE \E b \in BOOLEAN : ContextsAnswered(b)
    <3>1. PICK b \in BOOLEAN, a \in asked :
            /\ asked' = {}
            /\ context' = IF b THEN {[at |-> time, of |-> a.of]} ELSE context
            /\ using' = [of |-> IF b THEN a.of ELSE [p \in Perps |-> 0], at |-> time]
      BY <2>3 DEF ContextsAnswered
    <3>2. a.at \in Nat /\ time - a.at <= 2 /\ \A p \in Perps : LostAfter(lowSince[p], a.of[p], a.at)
      BY DEF EntryInv, VolumesInv
    <3>3. \A p \in Perps : LostAfter(lowSince[p], a.of[p], time - 2) /\ LostAfter(lowSince[p], a.of[p], time - Reach)
      BY <1>2, <3>2 DEF LostAfter
    <3>4. \A p \in Perps : LostAfter(lowSince[p], 0, time - Reach)
      BY <1>2 DEF LostAfter
    <3>5. \A p \in Perps : LostAfter(lowSince[p], using'.of[p], using'.at - Reach)
      BY <3>1, <3>3, <3>4
    <3>6. \A c \in context' : /\ c.at \in Nat /\ c.at <= time
                              /\ \A p \in Perps : LostAfter(lowSince[p], c.of[p], c.at - 2)
      BY <1>2, <3>1, <3>3 DEF EntryInv, VolumesInv
    <3>7. using'.at \in Nat /\ using'.at <= time
      BY <1>2, <3>1
    <3> QED BY <1>1, <1>2, <3>1, <3>5, <3>6, <3>7 DEF EntryInv, VolumesInv, LostAfter, Reach
  <2> QED BY <2>1, <2>2, <2>3
<1> QED BY <1>1, <1>3, FramedPlan DEF EntryInv, Shown, Paired

LEMMA CollectKeeps == ASSUME EntryInv, NEW pair \in todo, Collect(pair) PROVE EntryInv'
<1>1. /\ step = "collect" /\ todo' = todo \ {pair} /\ snapshots' = snapshots \union {Snapshot(pair)}
      /\ UNCHANGED <<time, rate, books, volume, lowSince, loaded, context, asked, using, step, plan>>
  BY DEF Collect, marketVars
<1>2. Paired(pair)
  BY DEF EntryInv
<1> DEFINE s == Snapshot(pair)
<1>3. /\ s.perp = pair.perp /\ s.spot = pair.spot /\ s.volume = using.of[pair.perp]
      /\ s.perpBook = books[pair.perp] /\ s.spotBook = books[pair.spot]
  BY DEF Snapshot
<1> HIDE DEF s
<1>4. /\ Paired(s) /\ Shown(s.perpBook) /\ Shown(s.spotBook)
      /\ LostAfter(lowSince[s.perp], s.volume, using.at - Reach)
  BY <1>2, <1>3 DEF EntryInv, VolumesInv, Paired
<1>5. snapshots' = snapshots \union {s}
  BY <1>1 DEF s
<1>6. VolumesInv'
  BY <1>1, FramedVolumes DEF EntryInv
<1>7. \A e \in snapshots' : /\ Paired(e)' /\ Shown(e.perpBook)' /\ Shown(e.spotBook)'
                            /\ LostAfter(lowSince'[e.perp], e.volume, using.at - Reach)
  BY <1>1, <1>4, <1>5 DEF EntryInv, Paired, Shown, LostAfter, Reach
<1> QED BY <1>1, <1>6, <1>7, FramedPlan DEF EntryInv, Shown, Paired

LEMMA EvaluateKeeps == ASSUME EntryBounds, EntryInv, Evaluate PROVE EntryInv'
<1>1. /\ step' = "idle" /\ snapshots' = {}
      /\ UNCHANGED <<time, rate, books, volume, lowSince, loaded, context, asked, using, todo>>
  BY DEF Evaluate, marketVars
<1>2. ASSUME NEW p \in plan'
      PROVE  /\ Paired(p.on) /\ Hedging(p.perp, p.spot, p.on)
             /\ p.volumeAt \in Nat /\ p.volumeAt <= time
             /\ lowSince[p.on.perp] = -1 \/ lowSince[p.on.perp] >= p.volumeAt - Reach
  <2>1. PICK s \in Eligible :
          p = [on |-> s, at |-> time, volumeAt |-> using.at, perp |-> PerpSize(s), spot |-> SpotSize(s)]
    BY <1>2, Zenon DEF Evaluate
  <2>2. s \in snapshots /\ CandidatePlan(s)
    BY DEF Eligible
  <2>3. s.volume >= MinVolume
    BY <2>2 DEF CandidatePlan
  <2>4. /\ Paired(s) /\ Shown(s.perpBook) /\ LostAfter(lowSince[s.perp], s.volume, using.at - Reach)
        /\ using.at \in Nat /\ using.at <= time
    BY <2>2 DEF EntryInv, VolumesInv
  <2>5. Hedging(PerpSize(s), SpotSize(s), s)
    BY <2>2, <2>4, CandidatesHedge
  <2>6. p.on = s /\ p.volumeAt = using.at /\ p.perp = PerpSize(s) /\ p.spot = SpotSize(s)
    BY <2>1
  <2> QED BY <2>3, <2>4, <2>5, <2>6 DEF LostAfter
<1>3. VolumesInv'
  BY <1>1, FramedVolumes DEF EntryInv
<1>4. \A p \in plan' : Paired(p.on)' /\ Hedging(p.perp, p.spot, p.on)'
  BY <1>2 DEF Paired, Hedging
<1> QED BY <1>1, <1>2, <1>3, <1>4 DEF EntryInv, Shown, Paired, Reach

LEMMA EntrySteps == ASSUME EntryBounds, EntryInv, [EntryNext]_entryVars PROVE EntryInv'
BY SmallKeeps, VolumeKeeps, TickKeepsEntry, ScanKeeps, AskingKeeps, CollectKeeps, EvaluateKeeps, Zenon
DEF EntryNext

\* The legs of an entry are of one token, whole lots, and hedge each other to
\* less than a lot of the spot (live_scanner.rs, the evaluation).
THEOREM EntriesHedge == EntryBounds /\ EntrySpec => []EntryHedged
<1>1. EntryInv => EntryHedged
  BY DEF EntryInv, EntryHedged, Hedging, Paired
<1> SUFFICES ASSUME EntryBounds PROVE EntrySpec => []EntryHedged
  OBVIOUS
<1> QED BY <1>1, EntryStarts, EntrySteps, PTL DEF EntrySpec

\* No market is entered on a volume it lost longer ago than the cache and the
\* request that filled it explain.
THEOREM EntriesAreLiquid == EntryBounds /\ EntrySpec => []EntryLiquid
<1>1. EntryBounds /\ EntryInv => EntryLiquid
  <2> SUFFICES ASSUME EntryBounds, EntryInv, NEW p \in plan, lowSince[p.on.perp] # -1
               PROVE  p.volumeAt - lowSince[p.on.perp] < 2 * (CacheTtl + 1)
    BY DEF EntryLiquid
  <2>1. lowSince[p.on.perp] \in Nat /\ lowSince[p.on.perp] >= p.volumeAt - Reach /\ p.volumeAt \in Nat
    BY DEF EntryInv, VolumesInv, Paired
  <2> QED BY <2>1 DEF Reach, EntryBounds
<1> SUFFICES ASSUME EntryBounds PROVE EntrySpec => []EntryLiquid
  OBVIOUS
<1> QED BY <1>1, EntryStarts, EntrySteps, PTL DEF EntrySpec

=============================================================================
