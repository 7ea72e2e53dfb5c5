------------------------------- MODULE Batch -------------------------------
(***************************************************************************)
(* The durable batch models: one command of ordered children, the network  *)
(* attempts made for each, and the outcome of the whole.                   *)
(***************************************************************************)
EXTENDS Integers, FiniteSets

CONSTANTS
  MaxChildren,     \* bound on the children of the command
  AttemptIds       \* identities of network attempts

VARIABLES children, attempts, closed

batchVars == <<children, attempts, closed>>

Resolved == {"succeeded", "rejected", "superseded", "expired", "blocked"}

\* children: outcome and dependency (0: none) by ordinal; attempts: the attempt
\* ids by child; closed: the outcome each child was first resolved to.
BatchInit ==
  /\ children = <<>> /\ attempts = <<>> /\ closed = <<>>

\* BatchExecutionCommand::new: ordinals contiguous, dependencies among them.
NewCommand(n, deps) ==
  /\ children = <<>>
  /\ children' = [i \in 1..n |-> [outcome |-> "pending", after |-> deps[i]]]
  /\ attempts' = [i \in 1..n |-> {}]
  /\ closed' = [i \in 1..n |-> "open"]

\* dispatchable_children
Dispatchable == {i \in DOMAIN children :
  /\ children[i].outcome = "pending"
  /\ children[i].after # 0 => children[children[i].after].outcome = "succeeded"}

\* A known attempt is no new one; a settled or UNKNOWN child is never resent.
Resend(i, a) == children[i].outcome \notin Resolved \cup {"unknown"}

RecordAttempt(i, a) ==
  /\ i \in Dispatchable \/ children[i].outcome # "pending"
  /\ a \notin attempts[i] /\ Resend(i, a)
  /\ children' = [children EXCEPT ![i].outcome = "dispatching"]
  /\ attempts' = [attempts EXCEPT ![i] = @ \cup {a}]
  /\ UNCHANGED closed

\* resolve: the first settled outcome stays.
Resolve(i, o) ==
  /\ children[i].outcome \notin Resolved
  /\ children' = [children EXCEPT ![i].outcome = o]
  /\ closed' = [closed EXCEPT ![i] = IF o \in Resolved THEN o ELSE "open"]
  /\ UNCHANGED attempts

BatchNext ==
  \/ \E n \in 1..MaxChildren : \E deps \in [1..n -> 0..n] :
       (\A i \in 1..n : deps[i] < i) /\ NewCommand(n, deps)
  \/ \E i \in DOMAIN children :
       \/ \E a \in AttemptIds : RecordAttempt(i, a)
       \/ \E o \in Resolved \cup {"unknown"} : Resolve(i, o)

\* BatchExecutionCommand::outcome
Outcome ==
  LET os == {children[i].outcome : i \in DOMAIN children} IN
  IF os \subseteq Resolved
  THEN IF os \subseteq {"succeeded"} THEN "succeeded"
       ELSE IF "succeeded" \in os THEN "partial" ELSE "completed"
  ELSE IF "unknown" \in os THEN "unknown"
  ELSE IF "dispatching" \in os THEN "dispatching" ELSE "pending"

Cost == Cardinality(UNION {{<<i, a>> : a \in attempts[i]} : i \in DOMAIN children})

-----------------------------------------------------------------------------
\* A batch that reports success sent nothing ahead of its dependency and has
\* no child left to send; one that reports doubt may still be resolved.
BatchSound ==
  /\ \A i \in DOMAIN children : attempts[i] # {} /\ children[i].after # 0 =>
       closed[children[i].after] = "succeeded"
  /\ Outcome \in {"succeeded", "partial", "completed"} => Dispatchable = {}
  /\ Outcome = "unknown" => \E i \in DOMAIN children : closed[i] = "open"
  /\ \A i \in DOMAIN children : closed[i] # "open" => children[i].outcome = closed[i]
=============================================================================
