---------------------------- MODULE Reconciler ----------------------------
(***************************************************************************)
(* The comparison of the local account with a snapshot of the venue, and   *)
(* the step that makes the venue's facts the local ones.                   *)
(*                                                                         *)
(* A size that is missing from a map is Absent.  Prices travel with a      *)
(* corrected position and are left out.                                    *)
(***************************************************************************)
EXTENDS Integers, FiniteSets

CONSTANTS Assets, OpenOrders

VARIABLES local, venueTruth, corrected

reconcilerVars == <<local, venueTruth, corrected>>

Absent == 9
Sizes == {-1, 0, 1, Absent}
SizeOf(x) == IF x = Absent THEN 0 ELSE x
Nothing == [positions |-> [a \in Assets |-> Absent],
            balances |-> [a \in Assets |-> Absent], orders |-> {}]
Accounts(positions, balances) ==
  [positions : [Assets -> positions], balances : [Assets -> balances],
   orders : SUBSET OpenOrders]

ReconcilerInit == local = Nothing /\ venueTruth = Nothing /\ corrected = 0

OrderDiffs(l, v) ==
  ({"local_open_missing_on_exchange"} \X (l.orders \ v.orders))
    \cup ({"exchange_open_missing_locally"} \X (v.orders \ l.orders))

\* A symbol the venue lists and we do not hold differs, whatever its size.
SizeMismatch(l, v) ==
  {"size_mismatch"} \X
    {a \in Assets : /\ v.positions[a] # Absent
                    /\ l.positions[a] = Absent \/ l.positions[a] # v.positions[a]}

ClosedOnExchange(l, v) ==
  {"closed_on_exchange"} \X
    {a \in Assets : v.positions[a] = Absent /\ SizeOf(l.positions[a]) # 0}

BalanceDiffs(l, v) ==
  {"spot_balance_mismatch"} \X
    {a \in Assets : SizeOf(l.balances[a]) # SizeOf(v.balances[a])}

BuildDiffs(l, v) == OrderDiffs(l, v) \cup SizeMismatch(l, v)
                    \cup ClosedOnExchange(l, v) \cup BalanceDiffs(l, v)

\* Bug: a position the venue does not list any more stays.
KeepClosed(l, v) ==
  [a \in Assets |-> IF v.positions[a] = Absent THEN l.positions[a] ELSE v.positions[a]]

\* Positions that differ are replaced, a flat one by a flat entry; those the
\* venue no longer lists are removed unless they are flat.
TruePositions(l, v) ==
  [a \in Assets |->
     IF v.positions[a] # Absent
     THEN IF SizeOf(l.positions[a]) # v.positions[a] THEN v.positions[a]
          ELSE l.positions[a]
     ELSE IF SizeOf(l.positions[a]) = 0 THEN l.positions[a] ELSE Absent]

\* Balances are replaced as a whole, those that are zero dropped.
TrueBalances(v) ==
  [a \in Assets |-> IF SizeOf(v.balances[a]) = 0 THEN Absent ELSE v.balances[a]]

Corrections(l, v) ==
  Cardinality({a \in Assets : SizeOf(l.positions[a]) # SizeOf(v.positions[a])})

\* An order of the venue is imported open, or as pending if it is not.
ImportedStatus(venueStatus) ==
  IF venueStatus \in {"open", "resting", "triggered"} THEN "Acknowledged" ELSE "Pending"

Observe ==
  /\ local = Nothing /\ venueTruth = Nothing
  /\ local' \in Accounts(Sizes, {0, 1, Absent})
  /\ venueTruth' \in Accounts(Sizes, {0, 1, Absent})
  /\ UNCHANGED corrected

ApplyExchangeTruth ==
  /\ venueTruth # Nothing
  /\ local' = [local EXCEPT !.positions = TruePositions(local, venueTruth),
                            !.balances = TrueBalances(venueTruth)]
  /\ corrected' = Corrections(local, venueTruth)
  /\ UNCHANGED venueTruth

ReconcilerNext == Observe \/ ApplyExchangeTruth

---------------------------------------------------------------------------
(* Properties                                                              *)

\* Applying the venue's truth leaves nothing to report but open orders, which
\* it does not touch, and symbols the venue lists as flat and we do not hold,
\* which build_diffs calls critical every time.
SettlingStep ==
  ApplyExchangeTruth =>
    LET left == BuildDiffs(local', venueTruth)
                  \ (OrderDiffs(local, venueTruth)
                     \cup {<<"size_mismatch", a>> : a \in
                             {b \in Assets : venueTruth.positions[b] = 0}})
    IN left = {} /\ (corrected' = 0 <=>
         \A a \in Assets : SizeOf(local.positions[a]) = SizeOf(local'.positions[a]))

TruthSettles == [][SettlingStep]_reconcilerVars

=============================================================================
