-------------------------- MODULE PlacementPromise --------------------------
(***************************************************************************)
(* What submit_order promises its caller about one client order id: the    *)
(* intent is recorded before anything leaves the process, it is put on the *)
(* wire at most once, and an intent that was refused or aborted stays off  *)
(* the wire for ever.  DurableExecution implements it.                     *)
(***************************************************************************)
EXTENDS Naturals

CONSTANT Cloids

VARIABLES
  promise,   \* what the caller may rely on
  attempts   \* placements put on the wire

pvars == <<promise, attempts>>

Promises == {"none", "recorded", "sent", "aborted"}

PTypeOK ==
  /\ promise \in [Cloids -> Promises]
  /\ attempts \in [Cloids -> Nat]

PInit ==
  /\ promise = [c \in Cloids |-> "none"]
  /\ attempts = [c \in Cloids |-> 0]

Become(c, p) == promise' = [promise EXCEPT ![c] = p]

Record(c) == promise[c] = "none" /\ Become(c, "recorded") /\ UNCHANGED attempts

Put(c) ==
  /\ promise[c] = "recorded"
  /\ Become(c, "sent")
  /\ attempts' = [attempts EXCEPT ![c] = @ + 1]

Abort(c) ==
  promise[c] \in {"none", "recorded"} /\ Become(c, "aborted") /\ UNCHANGED attempts

PNext == \E c \in Cloids : Record(c) \/ Put(c) \/ Abort(c)

PSpec == PInit /\ [][PNext]_pvars
=============================================================================
