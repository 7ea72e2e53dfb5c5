------------------------- MODULE ExternalReference -------------------------
(***************************************************************************)
(* The reference price taken from another venue: the latest quote of each  *)
(* of its markets, the quality gates, the basis calibrated against the     *)
(* native midpoint, and the second age check of the feature engine.        *)
(*                                                                         *)
(* Of a quote's prices only their shape is kept: good, crossed, or far     *)
(* from the other markets'.  A weight is positive or it is not.            *)
(***************************************************************************)
EXTENDS Integers, FiniteSets

CONSTANTS
  MaxTime, MaxQuotes,
  StaleAfter, BasisMaxAge,    \* stale_after_ms, basis_max_age_ms
  FeatureMaxAge               \* external_max_age_seconds of the market maker

Markets == {"spot", "perpetual", "mark"}
None == [gen |-> 0, seq |-> 0, shape |-> "none", at |-> 0]

VARIABLES
  time, sent, inFlight,   \* clock; number of quotes sent; those on their way
  line,                   \* the venue connection: generation and sequence
  quotes, basisAt,        \* provider state; basisAt is -1 before a calibration
  arrived                 \* per market, the (gen, seq) pairs that were applied to

referenceVars == <<time, sent, inFlight, line, quotes, basisAt, arrived>>

ReferenceInit ==
  /\ time = 0 /\ sent = 0 /\ inFlight = {} /\ line = [gen |-> 1, seq |-> 0]
  /\ quotes = [m \in Markets |-> None] /\ basisAt = -1
  /\ arrived = [m \in Markets |-> {}]

TimePasses == /\ time < MaxTime /\ time' = time + 1
              /\ UNCHANGED <<sent, inFlight, line, quotes, basisAt, arrived>>

\* A quote leaves the venue, on this connection or the first of a new one,
\* whose sequence starts over.
VenueQuote ==
  /\ sent < MaxQuotes /\ sent' = sent + 1
  /\ \E m \in Markets, shape \in {"good", "crossed", "far"}, fresh \in BOOLEAN :
       /\ m = "mark" => shape # "crossed"
       /\ line' = IF fresh THEN [gen |-> line.gen + 1, seq |-> 1]
                  ELSE [line EXCEPT !.seq = @ + 1]
       /\ inFlight' = inFlight \cup
            {[market |-> m, gen |-> line'.gen, seq |-> line'.seq, shape |-> shape]}
  /\ UNCHANGED <<time, quotes, basisAt, arrived>>

Regresses(q, old) == \/ q.gen < old.gen
                     \/ q.gen = old.gen /\ q.seq <= old.seq

\* update_quote, in whatever order the readers of two sockets deliver.
UpdateQuote(q) ==
  /\ inFlight' = inFlight \ {q}
  /\ quotes' = IF Regresses(q, quotes[q.market]) THEN quotes
               ELSE [quotes EXCEPT ![q.market] =
                       [gen |-> q.gen, seq |-> q.seq, shape |-> q.shape, at |-> time]]
  /\ arrived' = [arrived EXCEPT ![q.market] = @ \cup {<<q.gen, q.seq>>}]
  /\ UNCHANGED <<time, sent, line, basisAt>>

Seen(m) == quotes[m] # None
Fresh(m) == Seen(m) /\ time - quotes[m].at <= StaleAfter
Usable(m) == Fresh(m) /\ quotes[m].shape # "crossed"
Books == {m \in {"spot", "perpetual"} : Usable(m)}

\* A crossed quote is held against the reference however old it is.
Anomaly ==
  \/ \E m \in {"spot", "perpetual"} : quotes[m].shape = "crossed"
  \/ /\ Books = {"spot", "perpetual"}
     /\ quotes["spot"].shape # quotes["perpetual"].shape
  \/ /\ Usable("perpetual") /\ Fresh("mark")
     /\ quotes["perpetual"].shape # quotes["mark"].shape

Quality == CASE Books = {} -> "stale"
             [] Books = {"spot", "perpetual"} /\ ~Anomaly -> "healthy"
             [] OTHER -> "degraded"

BasisFresh == basisAt = -1 \/ time - basisAt <= BasisMaxAge

\* The age of a reference is that of its oldest contributor.
Age == CHOOSE a \in 0..MaxTime :
         /\ \E m \in Books : a = time - quotes[m].at
         /\ \A m \in Books : a >= time - quotes[m].at

Weighs == Quality # "stale" /\ ~Anomaly /\ BasisFresh /\ Age < StaleAfter

\* update_hyperliquid_mid: only a healthy reference calibrates the basis.
Calibrate ==
  /\ Quality = "healthy" /\ basisAt' = time
  /\ UNCHANGED <<time, sent, inFlight, line, quotes, arrived>>

\* external_features: the engine checks age once more, and its own distance.
FeatureWeighs(outlier) == Weighs /\ Age < FeatureMaxAge /\ ~outlier

ReferenceNext == \/ TimePasses \/ VenueQuote \/ Calibrate
                 \/ \E q \in inFlight : UpdateQuote(q)

---------------------------------------------------------------------------
(* Properties                                                              *)

ReferenceTypeOK ==
  /\ \A m \in Markets : quotes[m].at \in 0..MaxTime
  /\ basisAt \in -1..MaxTime /\ sent <= MaxQuotes

\* Over reconnects that restart the sequence and quotes that overtake each
\* other, a market shows the newest quote that arrived; a reference that
\* weighs rests only on such quotes, none of them crossed or stale, and on a
\* calibration that is not older than its limit.
ReferenceIsNewest ==
  /\ \A m \in Markets : \A p \in arrived[m] :
       \/ p[1] < quotes[m].gen
       \/ p[1] = quotes[m].gen /\ p[2] <= quotes[m].seq
  /\ \A outlier \in BOOLEAN : FeatureWeighs(outlier) =>
       /\ Quality # "stale" /\ \A m \in Books : quotes[m].shape # "crossed"
       /\ basisAt # -1 => time - basisAt <= BasisMaxAge

=============================================================================
