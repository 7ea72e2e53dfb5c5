---------------------------- MODULE OrderStatus ----------------------------
(***************************************************************************)
(* The order lifecycle table of crates/domain and the merge rules that     *)
(* decide what a durable order row becomes when a transport outcome or a   *)
(* venue event reaches it.  Everything here is a pure operator; the state  *)
(* machines that use them are in DurableExecution.                         *)
(***************************************************************************)
EXTENDS Naturals

Statuses ==
  {"Pending", "Submitted", "SubmitUnknown", "Acknowledged", "PartialFill",
   "CancelUnknown", "Filled", "Cancelled", "Rejected", "Expired"}

Terminal == {"Filled", "Cancelled", "Rejected", "Expired"}

\* No order row, or no entry in the engine's map.
NoStatus == "none"

Open == Statuses \ Terminal

\* The legal targets of each status (the pairs of can_transition).
NextStatuses ==
  LET any == {"PartialFill", "Filled", "Cancelled", "Expired"}
  IN [s \in Statuses |->
        CASE s = "Pending"       -> {"Submitted", "Rejected", "Cancelled"}
          [] s = "Submitted"     -> any \cup {"Acknowledged", "SubmitUnknown",
                                              "Rejected", "CancelUnknown"}
          [] s = "SubmitUnknown" -> any \cup {"Acknowledged", "CancelUnknown",
                                              "Rejected"}
          [] s = "Acknowledged"  -> any \cup {"CancelUnknown"}
          [] s = "PartialFill"   -> any \cup {"CancelUnknown"}
          [] s = "CancelUnknown" -> any \cup {"Acknowledged", "Rejected"}
          [] OTHER               -> {}]

CanTransition(from, to) == to \in NextStatuses[from]

\* Bug: a stale copy of the order overwrites a closed row.
MergeForgetsTerminal(current, incoming) ==
  IF /\ current = "PartialFill"
     /\ incoming \in {"Pending", "Submitted", "SubmitUnknown", "Acknowledged"}
  THEN current ELSE incoming

\* What a row at `current` becomes when a caller persists its copy of the
\* order at `incoming`: terminal rows and the higher partial fill win.
MergeTransport(current, incoming) ==
  IF \/ current \in Terminal
     \/ /\ current = "PartialFill"
        /\ incoming \in {"Pending", "Submitted", "SubmitUnknown", "Acknowledged"}
  THEN current ELSE incoming

\* What a row becomes when the venue's order update says `event`.
MergeVenue(current, event) ==
  IF \/ current = "Filled" /\ event \in Terminal
     \/ current \in Terminal /\ event \notin Terminal
  THEN current ELSE event

\* What a row becomes when a fill brings its filled size to `total`.
MergeFill(current, total, size) ==
  IF total >= size THEN "Filled"
  ELSE IF current \in Terminal \ {"Filled"} THEN current
  ELSE "PartialFill"
=============================================================================
