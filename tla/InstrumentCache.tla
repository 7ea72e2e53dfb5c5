-------------------------- MODULE InstrumentCache --------------------------
(***************************************************************************)
(* The cache of the venue's instruments: two maps, of instruments by the   *)
(* venue's name and of display aliases of spot pairs, replaced one after   *)
(* the other by a refresh that may fail, and looked up meanwhile.          *)
(*                                                                         *)
(* A perpetual has no alias; ticks, lots and leverage are left out.        *)
(***************************************************************************)
EXTENDS Integers, Sequences, SequencesExt

CONSTANTS Coins, Perps, NameOf(_), MaxListings, MaxFailures

VARIABLES
  listing, listings,                \* the venue's universe, in its order
  instruments, aliases, loaded,     \* the cache
  refresh, failures                 \* the refresh task, consecutive failures

vars == <<listing, listings, instruments, aliases, loaded, refresh, failures>>

Nobody == "nobody"
Names == {NameOf(c) : c \in Coins \ Perps}
NoAliases == [n \in Names |-> Nobody]
Waiting == [phase |-> "waiting", universe |-> <<>>]

CacheInit ==
  /\ listing = SetToSeq(Perps) /\ listings = 0
  /\ instruments = {} /\ aliases = NoAliases /\ loaded = FALSE
  /\ refresh = Waiting /\ failures = 0

\* The venue lists other spot pairs, in any order.
Relist ==
  /\ listings < MaxListings /\ listings' = listings + 1
  /\ \E pairs \in SUBSET (Coins \ Perps) :
       \E order \in {s \in [1..Cardinality(pairs) -> pairs] : IsInjective(s)} :
         listing' = SetToSeq(Perps) \o order
  /\ UNCHANGED <<instruments, aliases, loaded, refresh, failures>>

\* A second market with the same name drops the alias, a third brings one back.
AliasStep(a, c) ==
  [a EXCEPT ![NameOf(c)] = IF @ = Nobody THEN c ELSE Nobody]

ParsedAliases(universe) ==
  FoldLeft(LAMBDA a, c : IF c \in Perps THEN a ELSE AliasStep(a, c), NoAliases, universe)

Fetch ==
  /\ refresh.phase = "waiting"
  /\ \/ /\ refresh' = [phase |-> "parsed", universe |-> listing]
        /\ UNCHANGED failures
     \/ failures < MaxFailures /\ failures' = failures + 1 /\ UNCHANGED refresh
  /\ UNCHANGED <<listing, listings, instruments, aliases, loaded>>

ReplaceInstruments ==
  /\ refresh.phase = "parsed"
  /\ instruments' = ToSet(refresh.universe)
  /\ refresh' = [refresh EXCEPT !.phase = "half"]
  /\ UNCHANGED <<listing, listings, aliases, loaded, failures>>

ReplaceAliases ==
  /\ refresh.phase = "half"
  /\ aliases' = ParsedAliases(refresh.universe)
  /\ loaded' = TRUE /\ failures' = 0 /\ refresh' = Waiting
  /\ UNCHANGED <<listing, listings, instruments>>

CacheNext == Relist \/ Fetch \/ ReplaceInstruments \/ ReplaceAliases

\* get: by the venue's name, else through an alias.
Get(name) ==
  IF name \in instruments THEN name
  ELSE IF name \in Names /\ aliases[name] \in instruments THEN aliases[name]
  ELSE Nobody

---------------------------------------------------------------------------
(* Properties                                                              *)

CacheTypeOK ==
  /\ instruments \subseteq Coins /\ aliases \in [Names -> (Coins \ Perps) \cup {Nobody}]
  /\ listings <= MaxListings /\ failures <= MaxFailures

\* A name finds a market of the cached universe that bears it, or none, also
\* while a refresh has replaced one map and not the other.  In between two
\* refreshes the name of one market finds it and a name two share finds none;
\* but where the code means to drop an ambiguous name, a third bearer brings it
\* back, and so on: a name is found when an odd number bear it.
NamesFindBearers ==
  \A n \in Names :
    LET bearers == {c \in instruments \ Perps : NameOf(c) = n}
    IN /\ Get(n) # Nobody => Get(n) \in bearers
       /\ refresh.phase # "half" => (Get(n) # Nobody <=> Cardinality(bearers) % 2 = 1)

=============================================================================
