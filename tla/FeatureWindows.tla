--------------------------- MODULE FeatureWindows ---------------------------
(***************************************************************************)
(* The rolling windows behind the market maker's features: mids and trades *)
(* of the last Window seconds, at most MaxKept of each, from which a cycle *)
(* takes its trade flow, its short return and its variance.                *)
(* (market_data/features.rs, and the cycle of market_maker/runtime.rs that *)
(* calls it)                                                               *)
(*                                                                         *)
(* One symbol, sizes of 1; a mid is the time of its book.  A cycle copies  *)
(* the runtime's book, waits for its providers and then for the engine's   *)
(* mutex; the event loop and a mode change run cycles of their own.        *)
(* Order-flow imbalance, microprice, toxicity and the external reference   *)
(* are functions of one book and of these numbers and are left out.        *)
(***************************************************************************)
EXTENDS Integers, SequencesExt

CONSTANTS
  Window, MaxKept,  \* window and max_events
  Cycles,           \* the tasks that run cycles: the loop first
  LastTime, MaxTrades, MaxBuilds

VARIABLES
  now,
  book,             \* the runtime's book: [at], at 0 before the first
  copy,             \* task -> the book its cycle copied, or NoBook
  history,          \* the engine's mids, oldest pushed first
  trades,           \* the engine's trades: [at, buy]
  seen,             \* every trade ever observed
  trimmedAt,        \* the latest time the engine trimmed at
  features,         \* the last features built
  beside,           \* a cycle has run beside the loop's
  builds

featureVars == <<now, book, copy, history, trades, seen, trimmedAt, features,
                 beside, builds>>
engine == <<history, trades, seen, trimmedAt, features>>

NoBook == [at |-> 0]
NoFeatures == [flow |-> 0, from |-> 0, to |-> 0, steps |-> 0]

FeaturesInit ==
  /\ now = 1 /\ book = NoBook /\ copy = [c \in Cycles |-> NoBook]
  /\ history = <<>> /\ trades = <<>> /\ seen = <<>> /\ trimmedAt = 0
  /\ features = NoFeatures /\ beside = FALSE /\ builds = 0

Tick == /\ now < LastTime /\ now' = now + 1
        /\ UNCHANGED <<book, copy, engine, beside, builds>>

\* A full window gives up its oldest entry before the new one enters.
Push(s, e) == Append(IF Len(s) >= MaxKept THEN Tail(s) ELSE s, e)

\* Entries leave from the front, up to the first that is recent enough.
Trim(s, t) ==
  LET recent == {i \in DOMAIN s : t - s[i].at <= Window} IN
  IF recent = {} THEN <<>> ELSE SubSeq(s, Min(recent), Len(s))

\* Both windows are trimmed at the time of whatever was observed.
Observed(newHistory, newTrades, t) ==
  /\ history' = Trim(newHistory, t)
  /\ trades' = Trim(newTrades, t)
  /\ trimmedAt' = Max({trimmedAt, t})

---------------------------------------------------------------------------
(* What a cycle reads off the windows.                                     *)

Buys(s) == Len(SelectSeq(s, LAMBDA e : e.buy))
TradeFlow(s) == 2 * Buys(s) - Len(s)        \* of Len(s), buys minus sells

\* The pairs of neighbours whose second is later: the others are skipped.
ForwardPairs(s) ==
  {i \in 1..(Len(s) - 1) : s[i + 1].at > s[i].at}

Features(h, ts) ==
  [flow  |-> TradeFlow(ts),
   from  |-> IF Len(h) < 2 THEN 0 ELSE Head(h).at,
   to    |-> IF Len(h) < 2 THEN 0 ELSE Last(h).at,
   steps |-> Cardinality(ForwardPairs(h))]

---------------------------------------------------------------------------

\* The loop's task is free again when its cycle has built.
Free(c) == copy[c] = NoBook

\* A book arrives, and a cycle begins with a copy of it.
BookEvent(c) ==
  /\ Free(c)
  /\ book' = [at |-> now]
  /\ copy' = [copy EXCEPT ![c] = book']
  /\ UNCHANGED <<now, engine, beside, builds>>

\* A trade is observed, and a cycle begins with the book there is.
TradeEvent(c) ==
  /\ Free(c) /\ Len(seen) < MaxTrades
  /\ \E b \in BOOLEAN :
       LET t == [at |-> now, buy |-> b] IN
       /\ seen' = Append(seen, t)
       /\ Observed(history, Push(trades, t), now)
  /\ copy' = [copy EXCEPT ![c] = book]
  /\ UNCHANGED <<now, book, features, beside, builds>>

\* A mode change runs a cycle beside the loop's.
ControlCycle(c) ==
  /\ Free(c) /\ book # NoBook
  /\ copy' = [copy EXCEPT ![c] = book]
  /\ beside' = TRUE
  /\ UNCHANGED <<now, book, engine, builds>>

\* build observes its book again, and again for every cycle on the same book.
Build(c) ==
  /\ ~Free(c) /\ builds < MaxBuilds
  /\ builds' = builds + 1
  /\ Observed(Push(history, copy[c]), trades, copy[c].at)
  /\ features' = Features(history', trades')
  /\ copy' = [copy EXCEPT ![c] = NoBook]
  /\ UNCHANGED <<now, book, seen, beside>>

FeaturesNext ==
  \/ Tick
  \/ BookEvent("loop") \/ TradeEvent("loop")
  \/ \E c \in Cycles : (c # "loop" /\ ControlCycle(c)) \/ Build(c)

---------------------------------------------------------------------------
\* Whatever mixes of books and trades trimmed the window, and however old the
\* book a cycle brought, the trades kept are those of the window ending at the
\* newest observation, up to the bound: none too old is counted, none recent
\* enough is lost.
FlowIsTheWindow ==
  LET recent == SubSeq(seen, Max({1, Len(seen) - MaxKept + 1}), Len(seen)) IN
  trades = SelectSeq(recent, LAMBDA e : trimmedAt - e.at <= Window)

\* While no cycle ran beside the loop's, the short return leads from the oldest
\* book of the window to the newest, however often each was observed again.
ReturnIsForward ==
  ~beside => /\ \A i \in 1..(Len(history) - 1) : history[i].at <= history[i + 1].at
             /\ features.from <= features.to
             /\ features.to # 0 => features.to = book.at \/ copy["loop"] = book

WindowsSound == FlowIsTheWindow /\ ReturnIsForward
=============================================================================
