-------------------------- MODULE DurableExecution --------------------------
(***************************************************************************)
(* The durable order pipeline of HypeEdge, deferred mode (what the app     *)
(* runs): callers of submit_order write an order row, a pending command    *)
(* and a risk reservation in one transaction; one worker claims commands   *)
(* under a lease, re-runs the gates and sends through the serial nonce     *)
(* queue; cancels and the kill-switch sweep use the same queue; the        *)
(* ingestor applies venue events to the rows.  A crash loses memory and    *)
(* queue and keeps the rows.                                               *)
(*                                                                         *)
(* The venue is external: it is what the engine's parsers accept from it.  *)
(***************************************************************************)
EXTENDS OrderStatus, Integers, Sequences, FiniteSets, TLC

CONSTANTS
  Cloids,         \* client order ids, one order each
  Callers,        \* concurrent submit_order calls
  Size,           \* lots of every order
  Ioc,            \* the orders whose remainder the venue closes on arrival
  AckCarriesFill, \* TRUE: a resting answer may carry a partial fill
  AssetGaps,      \* TRUE: one order of a sweep may have no asset index
  QueueCap,       \* jobs the nonce queue holds, the running one included
  MaxFaults,      \* bound: crashes, worker errors, lost or garbled answers
  MaxCancels,     \* bound: cancel_order calls
  MaxKills        \* bound: kill-switch triggers

ASSUME ConstantsAssumption ==
  /\ IsFiniteSet(Cloids)
  /\ Size \in Nat \ {0} /\ QueueCap \in Nat \ {0}
  /\ Ioc \subseteq Cloids
  /\ AckCarriesFill \in BOOLEAN /\ AssetGaps \in BOOLEAN
  /\ MaxFaults \in Nat /\ MaxCancels \in Nat /\ MaxKills \in Nat

VARIABLES
  status, filled, reserved, cmd,         \* Postgres: rows survive a crash
  mem,                                   \* ExecutionEngine.orders
  caller, worker, canceller, sweeper,    \* tasks
  nq, stage, reply,                      \* nonce queue; its head's progress
  strays,                                \* requests on the wire nobody awaits
  ex, xfill, evOrder, evFill,            \* venue: orders and unseen events
  killed,                                \* KillSwitch.active
  sends, swept, excused,                 \* history, read by properties only
  faults, cancels, kills                 \* bounds

rowVars   == <<status, filled, reserved, cmd>>
queueVars == <<nq, stage, reply, strays>>
venueVars == <<ex, xfill, evOrder, evFill>>
histVars  == <<sends, swept, excused>>
bounds    == <<faults, cancels, kills>>
vars == <<rowVars, mem, caller, worker, canceller, sweeper, queueVars,
          venueVars, killed, histVars, bounds>>

Kinds    == {"place", "cancel"}
Lots     == 0..Size
Done     == {"succeeded", "failed", "cancelled"}
Commands == {"none", "pending", "processing", "unknown"} \cup Done

\* What a task learns about its request: an entry of the answer, a cloid
\* lookup, or why there is neither.
Outcomes == {"resting", "restingPartial", "filled", "rejected", "cancelled",
             "refused", "open", "missing", "garbled", "opaque", "aborted",
             "timeout"}
Answers == [out: Outcomes, amt: Lots]
Ans(out, amt) == [out |-> out, amt |-> amt]

Owners == {"worker", "canceller", "sweeper", "nobody"}
Jobs   == [kind: Kinds, cs: Seq(Cloids), owner: Owners]
Requests == [kind: Kinds, cs: Seq(Cloids)]
Targets  == [c: Cloids, snap: Statuses]

Idle == [pc |-> "idle"]
CallerStates == {Idle} \cup
  [pc: {"persist"}, c: Cloids, admitted: BOOLEAN] \cup
  [pc: {"expose"}, c: Cloids, st: {"Submitted", "Rejected"}]
WorkerStates == {Idle} \cup
  [pc: {"load", "gate", "query", "send", "wait", "lookup", "apply", "defer"},
   kind: Kinds, c: Cloids, resolve: BOOLEAN, snap: Statuses, ans: Answers]
CancellerStates == {Idle} \cup
  [pc: {"send", "wait", "lookup", "apply"}, c: Cloids, own: BOOLEAN, snap: Statuses,
   ans: Answers]
SweeperStates == {Idle, [pc |-> "due"]} \cup
  [pc: {"send", "wait", "apply"}, chunk: Seq(Targets), wires: Seq(Cloids),
   outs: Seq(Answers), answered: BOOLEAN]

NoAnswer == Ans("timeout", 0)

\* A busy task at its next step.
WorkerAt(pc, resolve, snap, ans) ==
  [pc |-> pc, kind |-> worker.kind, c |-> worker.c, resolve |-> resolve,
   snap |-> snap, ans |-> ans]
WorkerSends == WorkerAt("send", worker.resolve, worker.snap, worker.ans)
WorkerApplies(ans) == WorkerAt("apply", worker.resolve, worker.snap, ans)

CancellerAt(pc, ans) ==
  [pc |-> pc, c |-> canceller.c, own |-> canceller.own, snap |-> canceller.snap,
   ans |-> ans]

SweeperAt(pc, chunk, wires, outs, answered) ==
  [pc |-> pc, chunk |-> chunk, wires |-> wires, outs |-> outs, answered |-> answered]

TypeOK ==
  /\ status \in [Cloids -> Statuses \cup {NoStatus}]
  /\ filled \in [Cloids -> Lots]
  /\ reserved \in [Cloids -> Lots]
  /\ cmd \in [Kinds -> [Cloids -> Commands]]
  /\ mem \in [Cloids -> Statuses \cup {NoStatus}]
  /\ caller \in [Callers -> CallerStates]
  /\ worker \in WorkerStates
  /\ canceller \in CancellerStates
  /\ sweeper \in SweeperStates
  /\ nq \in Seq(Jobs)
  /\ stage \in {"queued", "cleared", "sent", "answered"}
  /\ reply \in Seq(Answers)
  /\ strays \subseteq Requests
  /\ ex \in [Cloids -> {"absent", "live", "filled", "cancelled", "rejected"}]
  /\ xfill \in [Cloids -> Lots]
  /\ evOrder \in [Cloids -> SUBSET {"Acknowledged", "Filled", "Cancelled", "Rejected"}]
  /\ evFill \in [Cloids -> Lots]
  /\ killed \in BOOLEAN
  /\ sends \in [Cloids -> Nat]
  /\ swept \in BOOLEAN
  /\ excused \subseteq Cloids
  /\ faults \in 0..MaxFaults /\ cancels \in 0..MaxCancels /\ kills \in 0..MaxKills

Init ==
  /\ status = [c \in Cloids |-> NoStatus]
  /\ filled = [c \in Cloids |-> 0]
  /\ reserved = [c \in Cloids |-> 0]
  /\ cmd = [k \in Kinds |-> [c \in Cloids |-> "none"]]
  /\ mem = [c \in Cloids |-> NoStatus]
  /\ caller = [a \in Callers |-> Idle]
  /\ worker = Idle /\ canceller = Idle /\ sweeper = Idle
  /\ nq = <<>> /\ stage = "queued" /\ reply = <<>> /\ strays = {}
  /\ ex = [c \in Cloids |-> "absent"]
  /\ xfill = [c \in Cloids |-> 0]
  /\ evOrder = [c \in Cloids |-> {}]
  /\ evFill = [c \in Cloids |-> 0]
  /\ killed = FALSE
  /\ sends = [c \in Cloids |-> 0]
  /\ swept = FALSE /\ excused = {}
  /\ faults = 0 /\ cancels = 0 /\ kills = 0

Fault == faults < MaxFaults /\ faults' = faults + 1 /\ UNCHANGED <<cancels, kills>>

-----------------------------------------------------------------------------
(* Rows *)

\* Bug: the reservation is released with the lots still uncertain.
ReleaseOnUnknown(c, incoming, amt) ==
  LET merged == MergeTransport(status[c], incoming)
  IN /\ status' = [status EXCEPT ![c] = merged]
     /\ filled' = [filled EXCEPT ![c] = IF amt > @ THEN amt ELSE @]
     /\ reserved' = [reserved EXCEPT ![c] =
          IF merged \in Terminal \cup {"SubmitUnknown", "CancelUnknown"} THEN 0 ELSE @]

\* persist_transition: a caller's copy of the order meets the locked row.
PersistTransition(c, incoming, amt) ==
  LET merged == MergeTransport(status[c], incoming)
  IN /\ status' = [status EXCEPT ![c] = merged]
     /\ filled' = [filled EXCEPT ![c] = IF amt > @ THEN amt ELSE @]
     /\ reserved' = [reserved EXCEPT ![c] = IF merged \in Terminal THEN 0 ELSE @]

SetCommand(k, c, to) == cmd' = [cmd EXCEPT ![k][c] = to]

-----------------------------------------------------------------------------
(* submit_order, deferred *)

\* No row and no entry in memory (else the call replays the order): run the
\* gates, the risk check and the credit check.
SubmitCheck(a, c) ==
  /\ caller[a] = Idle
  /\ mem[c] = NoStatus /\ status[c] = NoStatus
  /\ \E admitted \in IF killed THEN {FALSE} ELSE BOOLEAN :
       caller' = [caller EXCEPT ![a] = [pc |-> "persist", c |-> c, admitted |-> admitted]]
  /\ UNCHANGED <<rowVars, mem, worker, canceller, sweeper, queueVars, venueVars,
                 killed, histVars, bounds>>

\* persist_placement: one transaction, idempotent on the cloid; the
\* account-scope risk check inside it may still refuse.
SubmitPersist(a) ==
  /\ caller[a].pc = "persist"
  /\ LET c == caller[a].c
         Then(st) == IF caller[a].admitted
                     THEN [pc |-> "expose", c |-> c, st |-> st] ELSE Idle
         Insert(st, command, lots) ==
           /\ status' = [status EXCEPT ![c] = st]
           /\ SetCommand("place", c, command)
           /\ reserved' = [reserved EXCEPT ![c] = lots]
           /\ caller' = [caller EXCEPT ![a] = Then(st)]
           /\ UNCHANGED filled
     IN \/ /\ status[c] # NoStatus
           /\ caller' = [caller EXCEPT ![a] =
                Then(IF status[c] = "Rejected" THEN "Rejected" ELSE "Submitted")]
           /\ UNCHANGED rowVars
        \/ status[c] = NoStatus /\ caller[a].admitted /\ Insert("Submitted", "pending", Size)
        \/ status[c] = NoStatus /\ Insert("Rejected", "failed", 0)
  /\ UNCHANGED <<mem, worker, canceller, sweeper, queueVars, venueVars, killed,
                 histVars, bounds>>

\* The order becomes visible in memory only after its row is committed.
SubmitExpose(a) ==
  /\ caller[a].pc = "expose"
  /\ mem' = [mem EXCEPT ![caller[a].c] = caller[a].st]
  /\ caller' = [caller EXCEPT ![a] = Idle]
  /\ UNCHANGED <<rowVars, worker, canceller, sweeper, queueVars, venueVars,
                 killed, histVars, bounds>>

-----------------------------------------------------------------------------
(* The command queue and its worker *)

\* Bug: a reclaimed command is dispatched as if it were new.
NeverResolves(was) == FALSE

\* A command whose last attempt is unknown is looked up before anything is sent.
Resolves(was) == was = "unknown"

\* Bug: a lease never runs out.
NoExpiry == {}

\* The commands whose lease may run out: their step failed or the process died.
Expirable == {e \in Kinds \X Cloids : cmd[e[1]][e[2]] = "processing"}

\* claim: leases that ran out turn unknown, then one ready command is taken.
\* An order's placement is older than its cancel.
Claim(k, c) ==
  /\ worker = Idle
  /\ \E expired \in SUBSET Expirable :
       LET was == IF <<k, c>> \in expired THEN "unknown" ELSE cmd[k][c]
       IN /\ was \in {"pending", "unknown"}
          /\ k = "cancel" => cmd["place"][c] # "pending"
          /\ cmd' = [q \in Kinds |-> [d \in Cloids |->
                       IF q = k /\ d = c THEN "processing"
                       ELSE IF <<q, d>> \in expired THEN "unknown" ELSE cmd[q][d]]]
          /\ worker' = [pc |-> "load", kind |-> k, c |-> c, resolve |-> Resolves(was),
                        snap |-> "Pending", ans |-> NoAnswer]
  /\ UNCHANGED <<status, filled, reserved, mem, caller, canceller, sweeper,
                 queueVars, venueVars, killed, histVars, bounds>>

AfterLoad == IF worker.resolve THEN "query" ELSE IF worker.kind = "place" THEN "gate" ELSE "send"

\* get_order and store.  A terminal row ends a cancel command; a placement
\* command returns resolved without being completed.
WorkerLoad ==
  /\ worker.pc = "load"
  /\ LET c == worker.c
     IN /\ mem' = [mem EXCEPT ![c] = status[c]]
        /\ \/ /\ status[c] \in Terminal
              /\ worker' = Idle
              /\ IF worker.kind = "place" THEN UNCHANGED cmd
                 ELSE SetCommand("cancel", c,
                        IF status[c] = "Cancelled" THEN "succeeded" ELSE "failed")
           \/ /\ status[c] \in Open
              /\ worker' = WorkerAt(AfterLoad, worker.resolve, status[c], worker.ans)
              /\ UNCHANGED cmd
  /\ UNCHANGED <<status, filled, reserved, caller, canceller, sweeper, queueVars,
                 venueVars, killed, histVars, bounds>>

\* The gates run again before dispatch: kill and safety, the reference
\* price, the risk check, the credits.  An order that makes no wire request
\* is rejected unsent.
WorkerGate ==
  /\ worker.pc = "gate"
  /\ \/ worker' = WorkerApplies(Ans("aborted", 0))
     \/ ~killed /\ worker' \in {WorkerSends, WorkerApplies(Ans("rejected", 0))}
  /\ UNCHANGED <<rowVars, mem, caller, canceller, sweeper, queueVars, venueVars,
                 killed, histVars, bounds>>

\* A task whose request finds the queue full waits for room.
Full == Len(nq) >= QueueCap
Enqueue(kind, cs, o) == ~Full /\ nq' = Append(nq, [kind |-> kind, cs |-> cs, owner |-> o])

WorkerSend ==
  /\ worker.pc = "send"
  /\ Enqueue(worker.kind, <<worker.c>>, "worker")
  /\ worker' = WorkerAt("wait", FALSE, worker.snap, worker.ans)
  /\ UNCHANGED <<rowVars, mem, caller, canceller, sweeper, stage, reply, strays,
                 venueVars, killed, histVars, bounds>>

\* A task that stops waiting after three seconds leaves its job in the queue;
\* one that still waits for room leaves none.
Disown(o) == [i \in DOMAIN nq |->
                IF nq[i].owner = o
                THEN [kind |-> nq[i].kind, cs |-> nq[i].cs, owner |-> "nobody"] ELSE nq[i]]

\* A placement whose answer is missing is looked up, never resent; a cancel
\* is left unknown.
WorkerGiveUp ==
  /\ worker.pc = "wait" \/ (worker.pc = "send" /\ Full)
  /\ Fault
  /\ nq' = Disown("worker")
  /\ worker' = WorkerAt(IF worker.kind = "place" THEN "lookup" ELSE "apply",
                        FALSE, worker.snap, NoAnswer)
  /\ UNCHANGED <<rowVars, mem, caller, canceller, sweeper, stage, reply, strays,
                 venueVars, killed, histVars>>

\* What orderStatus says of a cloid; a filled order's amount may be absent.
Lookup(c) ==
  CASE ex[c] = "absent"    -> {Ans("missing", 0)}
    [] ex[c] = "live"      -> {Ans("open", 0)}
    [] ex[c] = "filled"    -> {Ans("filled", 0), Ans("filled", Size)}
    [] ex[c] = "cancelled" -> {Ans("cancelled", 0)}
    [] ex[c] = "rejected"  -> {Ans("rejected", 0)}

\* The lookup after an unanswered placement; a failed lookup reads as no
\* answer.
WorkerLookup ==
  /\ worker.pc = "lookup"
  /\ \E a \in Lookup(worker.c) :
       \/ /\ worker' = WorkerApplies(IF a.out = "missing" THEN NoAnswer ELSE a)
          /\ UNCHANGED bounds
       \/ worker' = WorkerApplies(NoAnswer) /\ Fault
  /\ UNCHANGED <<rowVars, mem, caller, canceller, sweeper, queueVars, venueVars,
                 killed, histVars>>

\* Bug: a live order's cancel is looked up again and never resent.
QueryOnly ==
  /\ worker.pc = "query"
  /\ \E a \in Lookup(worker.c) : worker' = WorkerApplies(a)
  /\ UNCHANGED <<rowVars, mem, caller, canceller, sweeper, queueVars, venueVars,
                 killed, histVars, bounds>>

\* The lookup that resolves a reclaimed command, before anything is sent: a
\* live order's cancel is sent again, a placement never is.
WorkerQuery ==
  /\ worker.pc = "query"
  /\ \E a \in Lookup(worker.c) :
       worker' = IF worker.kind = "cancel" /\ a.out = "open"
                 THEN WorkerSends
                 ELSE WorkerApplies(a)
  /\ UNCHANGED <<rowVars, mem, caller, canceller, sweeper, queueVars, venueVars,
                 killed, histVars, bounds>>

Deferred == WorkerAt("defer", FALSE, "Pending", NoAnswer)

\* Bug: an order the venue does not know yet is taken for dead.
MissingIsDead(out) ==
  CASE out \in {"resting", "open"}                 -> "Acknowledged"
    [] out = "restingPartial"                      -> "PartialFill"
    [] out = "filled"                              -> "Filled"
    [] out = "rejected"                            -> "Rejected"
    [] out \in {"cancelled", "aborted", "missing"} -> "Cancelled"
    [] OTHER                                       -> "SubmitUnknown"

\* Bug: a transport error is taken for a refusal.
TimeoutIsRefusal(out) ==
  CASE out \in {"resting", "open"}              -> "Acknowledged"
    [] out = "restingPartial"                   -> "PartialFill"
    [] out = "filled"                           -> "Filled"
    [] out \in {"rejected", "timeout", "garbled"} -> "Rejected"
    [] out \in {"cancelled", "aborted"}         -> "Cancelled"
    [] OTHER                                    -> "SubmitUnknown"

\* handle_submit_response and the outcomes around it: the status each
\* outcome moves the order to, and what it makes of the command.
SubmitTarget(out) ==
  CASE out \in {"resting", "open"}              -> "Acknowledged"
    [] out = "restingPartial"                   -> "PartialFill"
    [] out = "filled"                           -> "Filled"
    [] out = "rejected"                         -> "Rejected"
    [] out \in {"cancelled", "aborted"}         -> "Cancelled"
    [] OTHER                                    -> "SubmitUnknown"

\* Bug: an answer that cannot be read fails the command.
GarbledFails(out) ==
  CASE out \in {"rejected", "garbled"} -> "failed"
    [] out = "aborted"                 -> "cancelled"
    [] out \in {"timeout", "missing"}  -> "unknown"
    [] OTHER                           -> "succeeded"

SubmitCommand(out) ==
  CASE out = "rejected"                         -> "failed"
    [] out = "aborted"                          -> "cancelled"
    [] out \in {"garbled", "timeout", "missing"} -> "unknown"
    [] OTHER                                    -> "succeeded"

\* An illegal transition is an error: the command keeps its lease.  An
\* answer of no known shape changes nothing.
WorkerApplyPlace ==
  /\ worker.pc = "apply" /\ worker.kind = "place"
  /\ LET c == worker.c
         out == worker.ans.out
         to == SubmitTarget(out)
         After(st) == IF st = "SubmitUnknown" THEN Deferred ELSE Idle
     IN \/ /\ out = "opaque"
           /\ worker' = After(worker.snap)
           /\ UNCHANGED rowVars
        \/ /\ out # "opaque"
           /\ CanTransition(worker.snap, to) \/ (out = "missing" /\ worker.snap = to)
           /\ PersistTransition(c, to, worker.ans.amt)
           /\ SetCommand("place", c, SubmitCommand(out))
           /\ worker' = After(to)
        \/ /\ out # "opaque"
           /\ ~CanTransition(worker.snap, to)
           /\ ~(out = "missing" /\ worker.snap = to)
           /\ worker' = Idle
           /\ UNCHANGED rowVars
  /\ UNCHANGED <<mem, caller, canceller, sweeper, queueVars, venueVars, killed,
                 histVars, bounds>>

\* Bug: an unanswered cancel is taken for a done one.
CancelAssumed(snap, out) ==
  LET to == CASE out = "filled"   -> "Filled"
              [] out = "rejected" -> "Rejected"
              [] out = "refused"  -> snap
              [] OTHER            -> "Cancelled"
  IN IF to = snap \/ CanTransition(snap, to) THEN to ELSE NoStatus

\* handle_cancel_response: the order after the outcome (NoStatus: the move is
\* illegal and nothing is written), and what it makes of the command.
CancelTarget(snap, out) ==
  LET Legal(to) == IF CanTransition(snap, to) THEN to ELSE NoStatus
  IN CASE out = "cancelled" -> Legal("Cancelled")
       [] out = "filled"    -> Legal("Filled")
       [] out = "rejected"  -> Legal("Rejected")
       [] out = "refused"   -> snap
       [] OTHER             -> IF CanTransition(snap, "CancelUnknown")
                               THEN "CancelUnknown" ELSE snap

CancelCommand(out) ==
  CASE out = "cancelled"                         -> "succeeded"
    [] out \in {"filled", "rejected", "refused"} -> "failed"
    [] OTHER                                     -> "unknown"

\* A sent cancel is resolved only when the venue confirms it; a looked-up one
\* when the order did not stay unknown.
WorkerApplyCancel ==
  /\ worker.pc = "apply" /\ worker.kind = "cancel"
  /\ LET c == worker.c
         out == worker.ans.out
         to == CancelTarget(worker.snap, out)
         resolved == IF worker.resolve THEN to # "CancelUnknown" /\ out # "missing"
                     ELSE out = "cancelled"
     IN \/ /\ to # NoStatus
           /\ PersistTransition(c, to, worker.ans.amt)
           /\ SetCommand("cancel", c, CancelCommand(out))
           /\ worker' = IF resolved THEN Idle ELSE Deferred
        \/ /\ to = NoStatus
           /\ worker' = Idle
           /\ UNCHANGED rowVars
  /\ UNCHANGED <<mem, caller, canceller, sweeper, queueVars, venueVars, killed,
                 histVars, bounds>>

\* defer_unknown writes unknown whatever the command has become.
WorkerDefer ==
  /\ worker.pc = "defer"
  /\ SetCommand(worker.kind, worker.c, "unknown")
  /\ worker' = Idle
  /\ UNCHANGED <<status, filled, reserved, mem, caller, canceller, sweeper,
                 queueVars, venueVars, killed, histVars, bounds>>

\* Any await of the worker's step that touches the database or the resolving
\* lookup may fail: run backs off and the command keeps its lease.
WorkerError ==
  /\ worker.pc \in {"load", "gate", "query", "apply", "defer"}
  /\ Fault
  /\ worker' = Idle
  /\ UNCHANGED <<rowVars, mem, caller, canceller, sweeper, queueVars, venueVars,
                 killed, histVars>>

-----------------------------------------------------------------------------
(* cancel_order *)

\* The memory copy is open: commit the request (its command row is inserted
\* once per order), then queue the cancel.
CancelRequest(c) ==
  /\ canceller = Idle /\ cancels < MaxCancels
  /\ mem[c] \in Open /\ status[c] # NoStatus
  /\ cancels' = cancels + 1 /\ UNCHANGED <<faults, kills>>
  /\ LET own == cmd["cancel"][c] = "none"
     IN /\ IF own THEN SetCommand("cancel", c, "pending") ELSE UNCHANGED cmd
        /\ canceller' = [pc |-> "send", c |-> c, own |-> own, snap |-> mem[c],
                         ans |-> NoAnswer]
  /\ UNCHANGED <<status, filled, reserved, mem, caller, worker, sweeper, queueVars,
                 venueVars, killed, histVars>>

CancelSend ==
  /\ canceller.pc = "send"
  /\ Enqueue("cancel", <<canceller.c>>, "canceller")
  /\ canceller' = CancellerAt("wait", NoAnswer)
  /\ UNCHANGED <<rowVars, mem, caller, worker, sweeper, stage, reply, strays,
                 venueVars, killed, histVars, bounds>>

CancelGiveUp ==
  /\ canceller.pc = "wait" \/ (canceller.pc = "send" /\ Full)
  /\ Fault
  /\ nq' = Disown("canceller")
  /\ canceller' = CancellerAt("lookup", NoAnswer)
  /\ UNCHANGED <<rowVars, mem, caller, worker, sweeper, stage, reply, strays,
                 venueVars, killed, histVars>>

CancelLookup ==
  /\ canceller.pc = "lookup"
  /\ \E a \in Lookup(canceller.c) :
       canceller' = CancellerAt("apply", IF a.out = "missing" THEN NoAnswer ELSE a)
  /\ UNCHANGED <<rowVars, mem, caller, worker, sweeper, queueVars, venueVars,
                 killed, histVars, bounds>>

\* The copy taken when the call began is persisted and stored back.
CancelApply ==
  /\ canceller.pc = "apply"
  /\ canceller' = Idle
  /\ LET c == canceller.c
         to == CancelTarget(canceller.snap, canceller.ans.out)
     IN \/ /\ to # NoStatus
           /\ PersistTransition(c, to, canceller.ans.amt)
           /\ IF canceller.own
              THEN SetCommand("cancel", c, CancelCommand(canceller.ans.out))
              ELSE UNCHANGED cmd
           /\ mem' = [mem EXCEPT ![c] = to]
        \/ to = NoStatus /\ UNCHANGED <<rowVars, mem>>
  /\ UNCHANGED <<caller, worker, sweeper, queueVars, venueVars, killed, histVars, bounds>>

-----------------------------------------------------------------------------
(* Kill switch and its cancel-all hook *)

KillLatch ==
  /\ ~killed /\ kills < MaxKills /\ sweeper = Idle
  /\ killed' = TRUE /\ swept' = FALSE
  /\ sweeper' = [pc |-> "due"]
  /\ kills' = kills + 1 /\ UNCHANGED <<faults, cancels>>
  /\ UNCHANGED <<rowVars, mem, caller, worker, canceller, queueVars, venueVars,
                 sends, excused>>

KillReset ==
  /\ killed /\ killed' = FALSE
  /\ swept' = FALSE
  /\ UNCHANGED <<rowVars, mem, caller, worker, canceller, sweeper, queueVars,
                 venueVars, sends, excused, bounds>>

\* The map iterates in any order.
Orderings(S) ==
  {s \in [1..Cardinality(S) -> S] : \A i, j \in 1..Cardinality(S) : s[i] = s[j] => i = j}

Without(s, i) == [j \in 1..(Len(s) - 1) |-> IF j < i THEN s[j] ELSE s[j + 1]]

\* Snapshot the open orders of memory; the batch names those whose asset is
\* known.
SweepStart ==
  /\ sweeper.pc = "due"
  /\ \E chunk \in Orderings({c \in Cloids : mem[c] \in Open}) :
     \E gap \in IF AssetGaps THEN 0..Len(chunk) ELSE {0} :
       LET wires == IF gap = 0 THEN chunk ELSE Without(chunk, gap)
       IN IF wires = <<>>
          THEN /\ sweeper' = Idle
               /\ swept' = (killed /\ chunk = <<>>)
          ELSE /\ sweeper' = SweeperAt("send", [i \in 1..Len(chunk) |->
                                 [c |-> chunk[i], snap |-> mem[chunk[i]]]],
                                 wires, <<>>, FALSE)
               /\ UNCHANGED swept
  /\ UNCHANGED <<rowVars, mem, caller, worker, canceller, queueVars, venueVars,
                 killed, sends, excused, bounds>>

SweepSend ==
  /\ sweeper.pc = "send"
  /\ Enqueue("cancel", sweeper.wires, "sweeper")
  /\ sweeper' = SweeperAt("wait", sweeper.chunk, <<>>, sweeper.outs, FALSE)
  /\ UNCHANGED <<rowVars, mem, caller, worker, canceller, stage, reply, strays,
                 venueVars, killed, histVars, bounds>>

SweepGiveUp ==
  /\ sweeper.pc = "wait" \/ (sweeper.pc = "send" /\ Full)
  /\ Fault
  /\ nq' = Disown("sweeper")
  /\ sweeper' = SweeperAt("apply", sweeper.chunk, <<>>, sweeper.outs, FALSE)
  /\ UNCHANGED <<rowVars, mem, caller, worker, canceller, stage, reply, strays,
                 venueVars, killed, histVars>>

\* One target: the i-th order takes the i-th entry of the answer.
SweepApply ==
  /\ sweeper.pc = "apply" /\ sweeper.chunk # <<>>
  /\ LET t == Head(sweeper.chunk)
         a == IF sweeper.outs = <<>> THEN NoAnswer ELSE Head(sweeper.outs)
         to == CancelTarget(t.snap, a.out)
     IN /\ IF to = NoStatus THEN UNCHANGED <<status, filled, reserved>>
           ELSE PersistTransition(t.c, to, a.amt)
        /\ mem' = [mem EXCEPT ![t.c] = IF to = NoStatus THEN t.snap ELSE to]
  /\ sweeper' = SweeperAt("apply", Tail(sweeper.chunk), <<>>,
                          IF sweeper.outs = <<>> THEN <<>> ELSE Tail(sweeper.outs),
                          sweeper.answered)
  /\ UNCHANGED <<cmd, caller, worker, canceller, queueVars, venueVars, killed,
                 histVars, bounds>>

SweepFinish ==
  /\ sweeper.pc = "apply" /\ sweeper.chunk = <<>>
  /\ swept' = (killed /\ sweeper.answered)
  /\ sweeper' = Idle
  /\ UNCHANGED <<rowVars, mem, caller, worker, canceller, queueVars, venueVars,
                 killed, sends, excused, bounds>>

-----------------------------------------------------------------------------
(* The serial nonce queue: the head job runs to its end before the next *)

Request(job) == [kind |-> job.kind, cs |-> job.cs]

\* The head ends with `outs`: whoever still waits for it gets its answer.
\* A transport failure is Failed: a placement is then looked up.
Finish(outs, failed) ==
  LET o == Head(nq).owner
      first == IF outs = <<>> THEN NoAnswer ELSE Head(outs)
  IN /\ nq' = Tail(nq)
     /\ stage' = "queued"
     /\ reply' = <<>>
     /\ worker' = IF o # "worker" THEN worker
                  ELSE WorkerAt(IF failed /\ worker.kind = "place" THEN "lookup" ELSE "apply",
                                worker.resolve, worker.snap, first)
     /\ canceller' = IF o # "canceller" THEN canceller
                     ELSE CancellerAt("apply", first)
     /\ sweeper' = IF o # "sweeper" THEN sweeper
                   ELSE SweeperAt("apply", sweeper.chunk, <<>>, outs, ~failed)

\* Bug: the queue trusts the gates the sender passed earlier.
PreflightSkipped ==
  /\ nq # <<>> /\ stage = "queued" /\ Head(nq).kind = "place"
  /\ stage' = "cleared"
  /\ UNCHANGED <<nq, reply, worker, canceller, sweeper>>
  /\ UNCHANGED <<rowVars, mem, caller, strays, venueVars, killed, histVars, bounds>>

\* The preflight of a placement, in the worker of the queue: kill and safety
\* first, then credits, weight, risk and budget; a refusal ends the job unsent.
NoncePreflight ==
  /\ nq # <<>> /\ stage = "queued" /\ Head(nq).kind = "place"
  /\ \/ /\ ~killed
        /\ stage' = "cleared"
        /\ UNCHANGED <<nq, reply, worker, canceller, sweeper>>
     \/ Finish(<<Ans("aborted", 0)>>, FALSE)
  /\ UNCHANGED <<rowVars, mem, caller, strays, venueVars, killed, histVars, bounds>>

NonceSendPlace ==
  /\ nq # <<>> /\ stage = "cleared"
  /\ stage' = "sent"
  /\ sends' = [sends EXCEPT ![Head(nq).cs[1]] = @ + 1]
  /\ UNCHANGED <<rowVars, mem, caller, worker, canceller, sweeper, nq, reply,
                 strays, venueVars, killed, swept, excused, bounds>>

NonceSendCancel ==
  /\ nq # <<>> /\ stage = "queued" /\ Head(nq).kind = "cancel"
  /\ stage' = "sent"
  /\ UNCHANGED <<rowVars, mem, caller, worker, canceller, sweeper, nq, reply,
                 strays, venueVars, killed, histVars, bounds>>

NonceReply ==
  /\ nq # <<>> /\ stage = "answered"
  /\ \/ Finish(reply, FALSE) /\ UNCHANGED bounds
     \/ /\ Fault
        /\ Finish(IF Head(nq).owner = "sweeper" THEN <<>> ELSE <<Ans("garbled", 0)>>, FALSE)
     \/ Fault /\ Head(nq).kind = "place" /\ Finish(<<Ans("opaque", 0)>>, FALSE)
  /\ UNCHANGED <<rowVars, mem, caller, strays, venueVars, killed, histVars>>

\* A transport error, no weight for a cancel, or the queue's own timeout, which
\* drops the request's future: the request is lost or may still reach the venue.
NonceLose ==
  /\ nq # <<>> /\ stage \in {"sent", "answered"}
  /\ Fault
  /\ Finish(<<>>, TRUE)
  /\ IF stage = "sent"
     THEN /\ strays' \in {strays, strays \cup {Request(Head(nq))}}
          /\ excused' = IF Head(nq).kind = "place" THEN excused \cup {Head(nq).cs[1]}
                        ELSE excused
     ELSE UNCHANGED <<strays, excused>>
  /\ UNCHANGED <<rowVars, mem, caller, venueVars, killed, sends, swept>>

-----------------------------------------------------------------------------
(* The venue (external) *)

Emit(c, s) == evOrder' = [evOrder EXCEPT ![c] = @ \cup {s}]

\* A placement arrives: refused, or taken with k lots filled on arrival.
Arrive(c, answer) ==
  \/ /\ ex[c] # "absent"
     /\ answer = Ans("rejected", 0)
     /\ UNCHANGED venueVars
  \/ /\ ex[c] = "absent"
     /\ ex' = [ex EXCEPT ![c] = "rejected"]
     /\ Emit(c, "Rejected")
     /\ answer = Ans("rejected", 0)
     /\ UNCHANGED <<xfill, evFill>>
  \/ /\ ex[c] = "absent"
     /\ \E k \in Lots :
          LET to == IF k = Size THEN "filled"
                    ELSE IF c \in Ioc THEN "cancelled" ELSE "live"
          IN /\ c \in Ioc => k > 0
             /\ ex' = [ex EXCEPT ![c] = to]
             /\ Emit(c, IF to = "live" THEN "Acknowledged"
                          ELSE IF to = "filled" THEN "Filled" ELSE "Cancelled")
             /\ xfill' = [xfill EXCEPT ![c] = k]
             /\ evFill' = [evFill EXCEPT ![c] = k]
             /\ answer = IF k = Size \/ c \in Ioc THEN Ans("filled", k)
                         ELSE IF k > 0 /\ AckCarriesFill THEN Ans("restingPartial", k)
                         ELSE Ans("resting", 0)

\* A cancel batch arrives: live orders close, the others are refused.
Withdraw(cs) ==
  LET closing == {c \in Cloids : ex[c] = "live" /\ \E i \in DOMAIN cs : cs[i] = c}
  IN /\ ex' = [c \in Cloids |-> IF c \in closing THEN "cancelled" ELSE ex[c]]
     /\ evOrder' = [c \in Cloids |-> IF c \in closing THEN evOrder[c] \cup {"Cancelled"}
                                     ELSE evOrder[c]]
     /\ UNCHANGED <<xfill, evFill>>

VenuePlace ==
  /\ nq # <<>> /\ stage = "sent" /\ Head(nq).kind = "place"
  /\ \E answer \in Answers : Arrive(Head(nq).cs[1], answer) /\ reply' = <<answer>>
  /\ stage' = "answered"
  /\ UNCHANGED <<rowVars, mem, caller, worker, canceller, sweeper, nq, strays,
                 killed, histVars, bounds>>

VenueCancel ==
  /\ nq # <<>> /\ stage = "sent" /\ Head(nq).kind = "cancel"
  /\ LET cs == Head(nq).cs
     IN /\ Withdraw(cs)
        /\ reply' = [i \in 1..Len(cs) |->
                       Ans(IF ex[cs[i]] = "live" THEN "cancelled" ELSE "refused", 0)]
  /\ stage' = "answered"
  /\ UNCHANGED <<rowVars, mem, caller, worker, canceller, sweeper, nq, strays,
                 killed, histVars, bounds>>

\* A request nobody awaits arrives late, or never.
VenueStray(r) ==
  /\ r \in strays
  /\ strays' = strays \ {r}
  /\ \/ r.kind = "place" /\ \E answer \in Answers : Arrive(r.cs[1], answer)
     \/ r.kind = "cancel" /\ Withdraw(r.cs)
     \/ UNCHANGED venueVars
  /\ UNCHANGED <<rowVars, mem, caller, worker, canceller, sweeper, nq, stage,
                 reply, killed, histVars, bounds>>

VenueFill(c) ==
  /\ ex[c] = "live"
  /\ xfill' = [xfill EXCEPT ![c] = @ + 1]
  /\ evFill' = [evFill EXCEPT ![c] = @ + 1]
  /\ IF xfill[c] + 1 = Size THEN ex' = [ex EXCEPT ![c] = "filled"] /\ Emit(c, "Filled")
     ELSE UNCHANGED <<ex, evOrder>>
  /\ UNCHANGED <<rowVars, mem, caller, worker, canceller, sweeper, queueVars,
                 killed, histVars, bounds>>

-----------------------------------------------------------------------------
(* The ingestor: each venue event once, in any order *)

IngestOrder(c, s) ==
  /\ s \in evOrder[c] /\ status[c] # NoStatus
  /\ evOrder' = [evOrder EXCEPT ![c] = @ \ {s}]
  /\ status' = [status EXCEPT ![c] = MergeVenue(@, s)]
  /\ reserved' = [reserved EXCEPT ![c] = IF s \in Terminal THEN 0 ELSE @]
  /\ UNCHANGED <<filled, cmd, mem, caller, worker, canceller, sweeper, queueVars,
                 ex, xfill, evFill, killed, histVars, bounds>>

\* Bug: a fill of an order that is already full is added on top.
UncappedTotal(c) == filled[c] + 1

\* Bug: a fill that comes after the order closed is dropped.
ClosedDropsFill(c) == IF status[c] \in Terminal \/ filled[c] = Size THEN filled[c] ELSE filled[c] + 1

\* The fill aggregate with one lot more, at most the order.
FillTotal(c) == IF filled[c] + 1 > Size THEN Size ELSE filled[c] + 1

\* Bug: the event's key is not recorded, so a redelivery counts again.
FillWithoutDedup(c) ==
  /\ evFill[c] > 0 /\ status[c] # NoStatus
  /\ LET st == MergeFill(status[c], FillTotal(c), Size)
     IN /\ filled' = [filled EXCEPT ![c] = FillTotal(c)]
        /\ status' = [status EXCEPT ![c] = st]
        /\ reserved' = [reserved EXCEPT ![c] = IF @ = 0 \/ st = "Filled" THEN 0 ELSE @ - 1]
  /\ UNCHANGED <<cmd, mem, caller, worker, canceller, sweeper, queueVars, venueVars,
                 killed, histVars, bounds>>

\* One lot: the fill aggregate, the status and the active reservation.
IngestFill(c) ==
  /\ evFill[c] > 0 /\ status[c] # NoStatus
  /\ evFill' = [evFill EXCEPT ![c] = @ - 1]
  /\ LET st == MergeFill(status[c], FillTotal(c), Size)
     IN /\ filled' = [filled EXCEPT ![c] = FillTotal(c)]
        /\ status' = [status EXCEPT ![c] = st]
        /\ reserved' = [reserved EXCEPT ![c] = IF @ = 0 \/ st = "Filled" THEN 0 ELSE @ - 1]
  /\ UNCHANGED <<cmd, mem, caller, worker, canceller, sweeper, queueVars, ex,
                 xfill, evOrder, killed, histVars, bounds>>

-----------------------------------------------------------------------------
(* Crash and restart: rows and the venue stay; the latch comes back only if
   its row was written; nothing reloads memory or cancels. *)
Crash ==
  /\ Fault
  /\ mem' = [c \in Cloids |-> NoStatus]
  /\ caller' = [a \in Callers |-> Idle]
  /\ worker' = Idle /\ canceller' = Idle /\ sweeper' = Idle
  /\ nq' = <<>> /\ stage' = "queued" /\ reply' = <<>>
  /\ strays' \in IF nq # <<>> /\ stage = "sent"
                 THEN {strays, strays \cup {Request(Head(nq))}} ELSE {strays}
  /\ killed' \in {FALSE, killed}
  /\ swept' = FALSE
  /\ excused' = {c \in Cloids : sends[c] > 0} \cup excused
  /\ UNCHANGED <<rowVars, venueVars, sends>>

WorkerStep ==
  \/ WorkerLoad \/ WorkerGate \/ WorkerSend \/ WorkerLookup \/ WorkerQuery
  \/ WorkerApplyPlace \/ WorkerApplyCancel \/ WorkerDefer
QueueStep == NoncePreflight \/ NonceSendPlace \/ NonceSendCancel \/ NonceReply
VenueStep == VenuePlace \/ VenueCancel

Next ==
  \/ \E a \in Callers : (\E c \in Cloids : SubmitCheck(a, c)) \/ SubmitPersist(a) \/ SubmitExpose(a)
  \/ \E k \in Kinds, c \in Cloids : Claim(k, c)
  \/ WorkerStep \/ WorkerGiveUp \/ WorkerError
  \/ \E c \in Cloids : CancelRequest(c)
  \/ CancelSend \/ CancelGiveUp \/ CancelLookup \/ CancelApply
  \/ KillLatch \/ KillReset
  \/ SweepStart \/ SweepSend \/ SweepGiveUp \/ SweepApply \/ SweepFinish
  \/ QueueStep \/ NonceLose
  \/ VenueStep
  \/ \E r \in strays : VenueStray(r)
  \/ \E c \in Cloids : VenueFill(c) \/ IngestFill(c)
  \/ \E c \in Cloids, s \in Terminal \cup {"Acknowledged"} : IngestOrder(c, s)
  \/ Crash

Spec == Init /\ [][Next]_vars

-----------------------------------------------------------------------------
(* Properties *)

\* A placement request for c is on its way to the venue.
InFlight(c) ==
  \/ /\ nq # <<>> /\ stage = "sent"
     /\ Head(nq).kind = "place" /\ Head(nq).cs[1] = c
  \/ \E r \in strays : r.kind = "place" /\ r.cs[1] = c

\* The venue works the order now, or may yet begin to.
Exposed(c) == ex[c] = "live" \/ InFlight(c)

\* No order is sent twice, whatever leases expire, answers are lost or
\* processes die: a placement with an unknown outcome is only looked up.
AtMostOnePlacement == \A c \in Cloids : sends[c] <= 1

\* The active reservation covers what can still fill, so the admission of the
\* next order counts it.
LiveCovered == \A c \in Cloids : Exposed(c) => reserved[c] >= Size - xfill[c]

\* A terminal row is never an order the venue still works: risk, quotes and
\* recovery all read terminal as gone.
ClosedRowsAreClosed == \A c \in Cloids : status[c] \in Terminal => ~Exposed(c)

\* A finished command tells the truth: a succeeded cancel and a failed or
\* aborted placement leave nothing working at the venue.
CommandsTellTheTruth ==
  \A c \in Cloids :
    (cmd["cancel"][c] = "succeeded" \/ cmd["place"][c] \in {"failed", "cancelled"})
      => ~Exposed(c)

\* Answers, lookups and fill events in any order never lose a lot that the
\* venue filled: it is in the row or still to be ingested.
FillsNeverLost == \A c \in Cloids : filled[c] + evFill[c] >= xfill[c]

\* When no resting answer carries a fill and the venue closes no remainder on
\* arrival, the row never counts a lot the venue did not fill.
FillsNeverInvented == \A c \in Cloids : filled[c] <= xfill[c]

\* Once the kill sweep has its answer and the latch is still set, the venue
\* works no order but those whose request outlived its sender.
KillSweepCovers ==
  killed /\ swept => \A c \in Cloids : ex[c] = "live" => c \in excused

\* A cancelled, rejected or expired row never becomes an open order again;
\* late fills may still turn it filled.
NeverReopened ==
  [][\A c \in Cloids : status[c] \in Terminal \ {"Filled"} => status'[c] \in Terminal]_vars

\* The rows go through the legal lifecycle only, as each in-memory copy does.
RowsFollowTheTable ==
  [][\A c \in Cloids :
       status[c] \in Statuses /\ status'[c] # status[c]
         => CanTransition(status[c], status'[c])]_vars
-----------------------------------------------------------------------------
(* What the pipeline promises a caller: each order is recorded before it is
   sent, sent once, and never after its row says it was refused or aborted. *)

Promise ==
  [c \in Cloids |->
     IF sends[c] > 0 THEN "sent"
     ELSE IF status[c] \in Terminal THEN "aborted"
     ELSE IF status[c] # NoStatus THEN "recorded" ELSE "none"]

P == INSTANCE PlacementPromise WITH promise <- Promise, attempts <- sends

KeepsPromise == P!PSpec

-----------------------------------------------------------------------------
(* Fairness and liveness *)

\* The worker's loop, the queue's task and the venue's answers run on; a
\* command that is ready again and again is claimed (oldest first, and a
\* deferred one waits five seconds).  Nothing makes callers call, the ingestor
\* deliver, or a timer fire.
Fairness ==
  /\ WF_vars(WorkerStep) /\ WF_vars(QueueStep) /\ WF_vars(VenueStep)
  /\ \A k \in Kinds, c \in Cloids : SF_vars(Claim(k, c))

FairSpec == Spec /\ Fairness

Unresolved(c) == status[c] \in {"Submitted", "SubmitUnknown"}

\* While its command is unfinished, an order the venue knows does not stay
\* unresolved, even if no event ever arrives: claiming, lease expiry and the
\* cloid lookup settle its row.
KnownPlacementResolved ==
  \A c \in Cloids :
    (ex[c] # "absent" /\ Unresolved(c) /\ cmd["place"][c] \notin Done)
      ~> (~Unresolved(c) \/ cmd["place"][c] \in Done)

\* A recorded cancel of a working order takes effect or is answered.
CancelTakesEffect ==
  \A c \in Cloids :
    (cmd["cancel"][c] \in {"pending", "processing", "unknown"} /\ ex[c] = "live")
      ~> (ex[c] # "live" \/ cmd["cancel"][c] \in Done)

\* A placement command whose order is settled is completed.
SettledCommandsComplete ==
  \A c \in Cloids : status[c] \in Terminal ~> cmd["place"][c] \in Done

\* Concurrent submitters differ in name only: what TLC may take for symmetry.
CallerSymmetry == Permutations(Callers)

=============================================================================
