--------------------------- MODULE EmergencyCancel ---------------------------
(***************************************************************************)
(* WalEmergencyCancelExecutor: cancelling at the venue without a database. *)
(* Every attempt is journaled before its request leaves (append + fsync),  *)
(* an attempt is done when the venue's own list no longer shows its order, *)
(* and a later process replays the attempts the journal leaves open.  The  *)
(* journal is a file of lines; a crash in the middle of an append leaves a *)
(* torn one, and the next append continues that same line.                 *)
(***************************************************************************)
EXTENDS Integers, FiniteSets

CONSTANTS
  Targets, MaxCancels, MaxOps, MaxCrashes

VARIABLES
  open,             \* the venue's open orders
  wire,             \* attempts whose request is on its way
  resolvable,       \* symbols whose asset index can be resolved
  attempt,          \* by number: the order, and what the journal says of it
  tail,             \* the last line of the journal: "whole", "torn", "glued"
  op,               \* the operation under the lock
  reported,         \* orders a result called cancelled or absent
  ops, crashes

cancelVars == <<open, wire, resolvable, attempt, tail, op, reported, ops, crashes>>

Numbers == 1..MaxCancels
NoAttempt == [target |-> "none", intent |-> FALSE, done |-> FALSE, sent |-> FALSE]
NoOp == [kind |-> "none", at |-> "none", todo |-> {}, old |-> {}, dispatched |-> {},
         current |-> 0, seen |-> {}]

CancelInit ==
  /\ open = Targets /\ wire = {} /\ resolvable = Targets
  /\ attempt = [n \in Numbers |-> NoAttempt]
  /\ tail = "whole" /\ op = NoOp /\ reported = {}
  /\ ops = 0 /\ crashes = 0

Used == {n \in Numbers : attempt[n].target # "none"}
Fresh == Cardinality(Used) + 1
\* read_records: a malformed line that is not a torn last one fails the read.
Readable == tail # "glued"
Pending == {n \in Used : attempt[n].intent /\ ~attempt[n].done}
OrderOf(n) == attempt[n].target

\* append_sync: a line of its own, unless the file ends in a torn one.
Appended == tail' = IF tail = "whole" THEN "whole" ELSE "glued"
Steps(new) == op' = new /\ UNCHANGED <<resolvable, ops, crashes>>

----------------------------------------------------------------------------
\* cancel, cancel_all and recover_pending, under operation_lock, read the
\* venue's list; recovery reads the journal first.
Begin(kind, t) ==
  /\ op = NoOp /\ ops < MaxOps /\ ops' = ops + 1
  /\ CASE kind = "cancel" ->
            op' = [NoOp EXCEPT !.kind = kind, !.at = "next", !.todo = {t} \intersect open, !.seen = open]
       [] kind = "cancel_all" ->
            op' = [NoOp EXCEPT !.kind = kind, !.at = "next", !.todo = open, !.seen = open]
       [] OTHER ->
            op' = IF Readable
                  THEN [NoOp EXCEPT !.kind = kind, !.at = "next", !.old = Pending, !.seen = open]
                  ELSE NoOp
  /\ IF kind = "cancel" /\ t \notin open
     THEN /\ Fresh \in Numbers /\ Appended
          /\ attempt' = [attempt EXCEPT ![Fresh] = [NoAttempt EXCEPT !.target = t, !.done = TRUE]]
          /\ reported' = reported \union {t}
     ELSE UNCHANGED <<attempt, tail, reported>>
  /\ UNCHANGED <<open, wire, resolvable, crashes>>

\* dispatch: the asset index first, then the intent, then the request.
Dispatch(t) ==
  /\ Fresh \in Numbers /\ Appended
  /\ attempt' = [attempt EXCEPT ![Fresh] = [NoAttempt EXCEPT !.target = t, !.intent = TRUE]]
  /\ Steps([op EXCEPT !.at = "send", !.current = Fresh, !.todo = @ \ {t}])
  /\ UNCHANGED <<open, wire, reported>>
CancelNextTarget(t) ==
  /\ op.at = "next" /\ op.kind # "recover" /\ t \in op.todo
  /\ \/ t \in resolvable /\ Dispatch(t)
     \/ /\ t \notin resolvable
        /\ Steps(IF op.kind = "cancel" THEN NoOp ELSE [op EXCEPT !.todo = @ \ {t}])
        /\ UNCHANGED <<open, wire, attempt, tail, reported>>
\* recover_pending: an order the last list does not show is resolved; any error
\* ends the whole recovery.
Replay(n) ==
  /\ op.at = "next" /\ op.kind = "recover" /\ n \in op.old
  /\ LET t == OrderOf(n)
     IN CASE t \notin op.seen ->
               /\ Appended /\ attempt' = [attempt EXCEPT ![n].done = TRUE]
               /\ reported' = reported \union {t}
               /\ Steps([op EXCEPT !.old = @ \ {n}])
               /\ UNCHANGED <<open, wire>>
          [] t \in op.seen /\ t \in resolvable ->
               /\ Fresh \in Numbers /\ Appended
               /\ attempt' = [attempt EXCEPT ![Fresh] = [NoAttempt EXCEPT !.target = t, !.intent = TRUE]]
               /\ Steps([op EXCEPT !.at = "send", !.current = Fresh, !.todo = {n}, !.old = @ \ {n}])
               /\ UNCHANGED <<open, wire, reported>>
          [] OTHER -> Steps(NoOp) /\ UNCHANGED <<open, wire, attempt, tail, reported>>
\* The request, and the transport's answer or error: journaled, not terminal.
Send ==
  /\ op.at = "send"
  /\ wire' = wire \union {op.current}
  /\ attempt' = [attempt EXCEPT ![op.current].sent = TRUE]
  /\ Steps([op EXCEPT !.at = "sent"])
  /\ UNCHANGED <<open, tail, reported>>
Answered ==
  /\ op.at = "sent" /\ Appended
  /\ Steps([op EXCEPT !.dispatched = @ \union {op.current}, !.current = 0,
                      !.at = IF op.kind = "cancel_all" THEN "next" ELSE "verify",
                      !.seen = IF op.kind = "cancel_all" THEN @ ELSE open])
  /\ UNCHANGED <<open, wire, attempt, reported>>
AllDispatched ==
  /\ op.kind = "cancel_all" /\ op.at = "next" /\ op.todo = {}
  /\ Steps([op EXCEPT !.at = "verify", !.seen = open])
  /\ UNCHANGED <<open, wire, attempt, tail, reported>>
\* verify, against the list read after the requests.
Verify(n) ==
  /\ op.at = "verify" /\ n \in op.dispatched
  /\ Appended
  /\ LET gone == OrderOf(n) \notin op.seen
         next == [op EXCEPT !.dispatched = @ \ {n},
                            !.at = IF op.kind = "recover" THEN (IF gone THEN "resolve" ELSE "next") ELSE @]
     IN /\ attempt' = IF gone THEN [attempt EXCEPT ![n].done = TRUE] ELSE attempt
        /\ reported' = IF gone THEN reported \union {OrderOf(n)} ELSE reported
        /\ Steps(next)
  /\ UNCHANGED <<open, wire>>
\* The attempt that was replayed is resolved as well.
Resolve ==
  /\ op.at = "resolve" /\ Appended
  /\ attempt' = [n \in Numbers |-> IF n \in op.todo THEN [attempt[n] EXCEPT !.done = TRUE] ELSE attempt[n]]
  /\ Steps([op EXCEPT !.at = "next", !.todo = {}])
  /\ UNCHANGED <<open, wire, reported>>
Finish ==
  /\ \/ op.at = "next" /\ op.kind = "cancel" /\ op.todo = {}
     \/ op.at = "next" /\ op.kind = "recover" /\ op.old = {}
     \/ op.at = "verify" /\ op.dispatched = {}
  /\ Steps(NoOp)
  /\ UNCHANGED <<open, wire, attempt, tail, reported>>

----------------------------------------------------------------------------
\* The venue executes a request when it arrives, if it does.
Arrives(n) ==
  /\ n \in wire /\ wire' = wire \ {n}
  /\ open' \in {open, open \ {OrderOf(n)}}
  /\ UNCHANGED <<resolvable, attempt, tail, op, reported, ops, crashes>>
Forgotten(t) ==
  /\ t \in resolvable /\ resolvable' = resolvable \ {t}
  /\ op = NoOp
  /\ UNCHANGED <<open, wire, attempt, tail, op, reported, ops, crashes>>
\* A crash: between two steps, or in the middle of an append.
Crash ==
  /\ op # NoOp /\ crashes < MaxCrashes /\ crashes' = crashes + 1
  /\ op' = NoOp
  /\ tail' \in {tail} \union
               (IF op.at = "send" THEN {} ELSE {IF tail = "whole" THEN "torn" ELSE "glued"})
  /\ resolvable' = Targets
  /\ UNCHANGED <<open, wire, attempt, reported, ops>>

OpStep ==
  \/ \E t \in Targets : CancelNextTarget(t)
  \/ \E n \in Numbers : Replay(n) \/ Verify(n)
  \/ Send \/ Answered \/ AllDispatched \/ Resolve \/ Finish
CancelNext ==
  \/ \E k \in {"cancel", "cancel_all", "recover"}, t \in Targets : Begin(k, t)
  \/ OpStep
  \/ \E n \in Numbers : Arrives(n)
  \/ \E t \in Targets : Forgotten(t)
  \/ Crash

----------------------------------------------------------------------------
\* No request is on its way that the journal does not know of, an order called
\* cancelled is not open, and an attempt on an open order stays pending: a
\* later process finds it.
EmergencySound ==
  /\ open \subseteq Targets /\ tail \in {"whole", "torn", "glued"}
  /\ \A n \in wire : attempt[n].intent
  /\ reported \intersect open = {}
  /\ \A n \in Used : attempt[n].sent /\ OrderOf(n) \in open => n \in Pending
=============================================================================
