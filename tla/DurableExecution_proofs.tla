---------------------- MODULE DurableExecution_proofs ----------------------
(***************************************************************************)
(* For every set of orders and callers, every size, queue capacity and     *)
(* bound: DurableExecution is type-correct, never sends an order twice and *)
(* never reopens a closed row.  Then what the rows say of the venue: no    *)
(* filled lot is lost, and, where resting answers carry no fill and every  *)
(* asset has its index, closed rows and finished commands are true, what may *)
(* still fill is reserved, the pipeline keeps its promise, and a kill sweep *)
(* covers what works.                                                      *)
(***************************************************************************)
EXTENDS DurableExecution, FiniteSetTheorems, SequenceTheorems, TLAPS

\* Who owns a queued job waits for it, and owns no other.
OwnersWait ==
  /\ \A i \in DOMAIN nq :
       /\ nq[i].owner = "worker"    => worker.pc = "wait"
       /\ nq[i].owner = "canceller" => canceller.pc = "wait"
       /\ nq[i].owner = "sweeper"   => sweeper.pc = "wait"
  /\ \A i, j \in DOMAIN nq :
       nq[i].owner = nq[j].owner /\ nq[i].owner # "nobody" => i = j

\* The venue fills no more than the order and announces no more than it fills.
FillsBounded ==
  \A c \in Cloids : evFill[c] <= xfill[c] /\ (ex[c] = "live" => xfill[c] < Size)

\* A placement job names one order, and only such a job is cleared to go.
QueueSane ==
  /\ \A i \in DOMAIN nq : nq[i].kind = "place" => Len(nq[i].cs) = 1
  /\ stage # "queued" => nq # <<>>
  /\ stage = "cleared" => nq[1].kind = "place"

\* A placement command and the worker's step for it imply the row.
RowBeforeCommand ==
  /\ \A c \in Cloids : status[c] = NoStatus => cmd["place"][c] = "none"
  /\ worker.pc # "idle" /\ worker.kind = "place" => status[worker.c] # NoStatus

\* The three places where the right to send an order can be, one at a time: its
\* fresh command, the worker between claim and send, a job not yet sent.
Fresh(c) == cmd["place"][c] \in {"none", "pending"}

MaySend(c) ==
  /\ worker.pc # "idle" /\ worker.kind = "place" /\ worker.c = c
  /\ worker.pc \in {"gate", "send"} \/ (worker.pc = "load" /\ ~worker.resolve)

Unsent(i) == nq[i].kind = "place" /\ (i = 1 => stage \notin {"sent", "answered"})

Queued(c) == \E i \in DOMAIN nq : Unsent(i) /\ nq[i].cs[1] = c

OneSender ==
  /\ \A c \in Cloids : Fresh(c) => ~MaySend(c) /\ ~Queued(c)
  /\ \A c \in Cloids : MaySend(c) => ~Queued(c)
  /\ \A i, j \in DOMAIN nq :
       Unsent(i) /\ Unsent(j) /\ nq[i].cs[1] = nq[j].cs[1] => i = j
  /\ \A c \in Cloids : Fresh(c) \/ MaySend(c) \/ Queued(c) => sends[c] = 0
  /\ \A c \in Cloids : sends[c] <= 1

IInv ==
  TypeOK /\ OwnersWait /\ FillsBounded /\ QueueSane /\ RowBeforeCommand /\ OneSender
-----------------------------------------------------------------------------
LEMMA Constants ==
  /\ Size \in Nat /\ Size > 0 /\ 0 \in Lots /\ Size \in Lots
  /\ NoAnswer \in Answers
  /\ IsFiniteSet(Cloids)
  /\ MaxFaults \in Nat /\ MaxCancels \in Nat /\ MaxKills \in Nat
BY ConstantsAssumption DEF Lots, NoAnswer, Ans, Answers, Outcomes

\* A merge of a row and an incoming copy is a status.
LEMMA MergeTransportType ==
  ASSUME NEW s \in Statuses \cup {NoStatus}, NEW t \in Statuses
  PROVE  /\ MergeTransport(s, t) \in Statuses
         /\ s \in Terminal => MergeTransport(s, t) = s
BY DEF MergeTransport, Statuses, NoStatus, Terminal

LEMMA SetCommandType ==
  ASSUME TypeOK, NEW k \in Kinds, NEW c \in Cloids, NEW to \in Commands,
         SetCommand(k, c, to)
  PROVE  /\ cmd' \in [Kinds -> [Cloids -> Commands]]
         /\ \A q \in Kinds, d \in Cloids :
              cmd'[q][d] = IF q = k /\ d = c THEN to ELSE cmd[q][d]
<1>1. [cmd[k] EXCEPT ![c] = to] \in [Cloids -> Commands]
  BY DEF TypeOK
<1>2. cmd' = [cmd EXCEPT ![k] = [cmd[k] EXCEPT ![c] = to]]
  BY DEF SetCommand, TypeOK
<1> QED
  BY <1>1, <1>2 DEF TypeOK

LEMMA PersistType ==
  ASSUME TypeOK, NEW c \in Cloids, NEW to \in Statuses, NEW amt \in Lots,
         PersistTransition(c, to, amt)
  PROVE  /\ status' \in [Cloids -> Statuses \cup {NoStatus}]
         /\ filled' \in [Cloids -> Lots]
         /\ reserved' \in [Cloids -> Lots]
<1>1. MergeTransport(status[c], to) \in Statuses
  BY MergeTransportType DEF TypeOK
<1> QED
  BY <1>1, Constants DEF PersistTransition, TypeOK

USE DEF rowVars, queueVars, venueVars, histVars, bounds

LEMMA SubmitCheckType ==
  ASSUME TypeOK, NEW a \in Callers, NEW c \in Cloids, SubmitCheck(a, c)
  PROVE  TypeOK'
<1>1. PICK b \in BOOLEAN :
        caller' = [caller EXCEPT ![a] = [pc |-> "persist", c |-> c, admitted |-> b]]
  BY DEF SubmitCheck, TypeOK
<1>2. [pc |-> "persist", c |-> c, admitted |-> b] \in CallerStates
  BY DEF CallerStates
<1> QED
  BY <1>1, <1>2 DEF SubmitCheck, TypeOK

LEMMA SubmitPersistType ==
  ASSUME TypeOK, NEW a \in Callers, SubmitPersist(a)
  PROVE  TypeOK'
<1> DEFINE c == caller[a].c
<1>1. c \in Cloids /\ caller[a].admitted \in BOOLEAN
  BY DEF SubmitPersist, TypeOK, CallerStates, Idle
<1>2. \A st \in {"Submitted", "Rejected"} :
        /\ [pc |-> "expose", c |-> c, st |-> st] \in CallerStates
        /\ Idle \in CallerStates
        /\ st \in Statuses
  BY <1>1 DEF CallerStates, Statuses
<1>3. caller' \in [Callers -> CallerStates]
  BY <1>2 DEF SubmitPersist, TypeOK
<1>4. cmd' \in [Kinds -> [Cloids -> Commands]]
  <2>1. "place" \in Kinds /\ {"pending", "failed"} \subseteq Commands
    BY DEF Kinds, Commands, Done
  <2>2. UNCHANGED rowVars => cmd' \in [Kinds -> [Cloids -> Commands]]
    BY DEF TypeOK
  <2>3. SetCommand("place", c, "pending") => cmd' \in [Kinds -> [Cloids -> Commands]]
    BY <1>1, <2>1, SetCommandType
  <2>4. SetCommand("place", c, "failed") => cmd' \in [Kinds -> [Cloids -> Commands]]
    BY <1>1, <2>1, SetCommandType
  <2> QED
    BY <2>2, <2>3, <2>4 DEF SubmitPersist
<1>5. /\ status' \in [Cloids -> Statuses \cup {NoStatus}]
      /\ filled' \in [Cloids -> Lots]
      /\ reserved' \in [Cloids -> Lots]
  <2>1. CASE UNCHANGED rowVars
    BY <2>1 DEF TypeOK
  <2>2. CASE /\ status' = [status EXCEPT ![c] = "Submitted"]
             /\ reserved' = [reserved EXCEPT ![c] = Size] /\ UNCHANGED filled
    BY <2>2, <1>1, <1>2, Constants DEF TypeOK
  <2>3. CASE /\ status' = [status EXCEPT ![c] = "Rejected"]
             /\ reserved' = [reserved EXCEPT ![c] = 0] /\ UNCHANGED filled
    BY <2>3, <1>1, <1>2, Constants DEF TypeOK
  <2> QED
    BY <2>1, <2>2, <2>3 DEF SubmitPersist
<1> QED
  BY <1>3, <1>4, <1>5 DEF SubmitPersist, TypeOK

LEMMA SubmitExposeType ==
  ASSUME TypeOK, NEW a \in Callers, SubmitExpose(a)
  PROVE  TypeOK'
BY DEF SubmitExpose, TypeOK, CallerStates, Idle, Statuses

LEMMA ClaimType ==
  ASSUME TypeOK, NEW k \in Kinds, NEW c \in Cloids, Claim(k, c)
  PROVE  TypeOK'
BY Constants DEF Claim, TypeOK, WorkerStates, Idle, Statuses, Kinds, Commands, Resolves

\* A busy worker at another step.
LEMMA WorkerAtType ==
  ASSUME TypeOK, worker.pc # "idle",
         NEW pc \in {"load", "gate", "query", "send", "wait", "lookup", "apply", "defer"},
         NEW resolve \in BOOLEAN, NEW snap \in Statuses, NEW ans \in Answers
  PROVE  WorkerAt(pc, resolve, snap, ans) \in WorkerStates
BY DEF TypeOK, WorkerStates, Idle, WorkerAt

LEMMA BusyWorker ==
  ASSUME TypeOK, worker.pc # "idle"
  PROVE  /\ worker.kind \in Kinds /\ worker.c \in Cloids /\ worker.resolve \in BOOLEAN
         /\ worker.snap \in Statuses /\ worker.ans \in Answers
         /\ worker.ans.out \in Outcomes /\ worker.ans.amt \in Lots
         /\ Idle \in WorkerStates
BY DEF TypeOK, WorkerStates, Idle, Answers

LEMMA WorkerLoadType ==
  ASSUME TypeOK, WorkerLoad
  PROVE  TypeOK'
<1> DEFINE c == worker.c
<1>0. worker.pc # "idle" /\ Idle \in WorkerStates
  BY DEF WorkerLoad, WorkerStates
<1>1. c \in Cloids /\ worker.kind \in Kinds /\ AfterLoad \in {"query", "gate", "send"}
  BY <1>0, BusyWorker DEF AfterLoad
<1>2. worker' \in WorkerStates
  <2>1. CASE status[c] \in Terminal
    BY <2>1, <1>0 DEF WorkerLoad, Open
  <2>2. CASE status[c] \in Open
    <3>1. worker' = WorkerAt(AfterLoad, worker.resolve, status[c], worker.ans)
      BY <2>2 DEF WorkerLoad, Open
    <3> QED
      BY <3>1, <1>0, <1>1, <2>2, BusyWorker, WorkerAtType DEF Open
  <2> QED
    BY <2>1, <2>2 DEF WorkerLoad
<1>3. mem' \in [Cloids -> Statuses \cup {NoStatus}]
  BY <1>1 DEF WorkerLoad, TypeOK
<1>4. cmd' \in [Kinds -> [Cloids -> Commands]]
  BY <1>1, SetCommandType DEF WorkerLoad, TypeOK, Commands, Done, Kinds
<1> QED
  BY <1>2, <1>3, <1>4 DEF WorkerLoad, TypeOK

LEMMA WorkerGateType ==
  ASSUME TypeOK, WorkerGate
  PROVE  TypeOK'
<1>1. Ans("aborted", 0) \in Answers /\ Ans("rejected", 0) \in Answers
  BY Constants DEF Ans, Answers, Outcomes
<1>2. worker' \in WorkerStates
  BY <1>1, BusyWorker, WorkerAtType DEF WorkerGate, WorkerApplies, WorkerSends
<1> QED
  BY <1>2 DEF WorkerGate, TypeOK

LEMMA EnqueueType ==
  ASSUME TypeOK, NEW kind \in Kinds, NEW cs \in Seq(Cloids), NEW o \in Owners,
         Enqueue(kind, cs, o)
  PROVE  /\ nq' \in Seq(Jobs) /\ nq \in Seq(Jobs)
         /\ Len(nq') = Len(nq) + 1 /\ DOMAIN nq' = 1..(Len(nq) + 1)
         /\ \A i \in DOMAIN nq : nq'[i] = nq[i]
         /\ nq'[Len(nq) + 1] = [kind |-> kind, cs |-> cs, owner |-> o]
BY DEF TypeOK, Enqueue, Jobs

LEMMA DisownType ==
  ASSUME TypeOK, NEW o \in Owners, nq' = Disown(o)
  PROVE  /\ nq' \in Seq(Jobs) /\ Len(nq') = Len(nq) /\ DOMAIN nq' = DOMAIN nq
         /\ \A i \in DOMAIN nq :
              /\ nq'[i].kind = nq[i].kind /\ nq'[i].cs = nq[i].cs
              /\ nq'[i].owner = IF nq[i].owner = o THEN "nobody" ELSE nq[i].owner
<1>1. nq \in Seq(Jobs)
  BY DEF TypeOK
<1>2. ASSUME NEW i \in 1..Len(nq)
      PROVE  /\ nq[i] \in Jobs
             /\ [kind |-> nq[i].kind, cs |-> nq[i].cs, owner |-> "nobody"] \in Jobs
  <2>1. nq[i] \in Jobs
    BY <1>1
  <2>2. nq[i].kind \in Kinds /\ nq[i].cs \in Seq(Cloids) /\ "nobody" \in Owners
    BY <2>1 DEF Jobs, Owners
  <2> QED
    BY <2>1, <2>2 DEF Jobs
<1>3. \A i \in 1..Len(nq) : Disown(o)[i] \in Jobs
  BY <1>1, <1>2 DEF Disown
<1> QED
  BY <1>1, <1>2, <1>3 DEF Disown

LEMMA WorkerSendType ==
  ASSUME TypeOK, WorkerSend
  PROVE  TypeOK'
<1>1. worker.pc # "idle"
  BY DEF WorkerSend
<1>2. worker.kind \in Kinds /\ <<worker.c>> \in Seq(Cloids) /\ "worker" \in Owners
  BY <1>1, BusyWorker DEF Owners
<1>3. nq' \in Seq(Jobs)
  BY <1>2, EnqueueType DEF WorkerSend
<1>4. worker' \in WorkerStates
  BY <1>1, BusyWorker, WorkerAtType DEF WorkerSend
<1> QED
  BY <1>3, <1>4 DEF WorkerSend, TypeOK

LEMMA FaultType ==
  ASSUME TypeOK, Fault
  PROVE  faults' \in 0..MaxFaults /\ cancels' = cancels /\ kills' = kills
BY Constants DEF TypeOK, Fault

LEMMA WorkerGiveUpType ==
  ASSUME TypeOK, WorkerGiveUp
  PROVE  TypeOK'
<1>1. worker.pc # "idle" /\ "worker" \in Owners
  BY DEF WorkerGiveUp, Owners
<1>2. nq' \in Seq(Jobs)
  BY <1>1, DisownType DEF WorkerGiveUp
<1>3. worker' \in WorkerStates
  BY <1>1, BusyWorker, WorkerAtType, Constants DEF WorkerGiveUp
<1> QED
  BY <1>2, <1>3, FaultType DEF WorkerGiveUp, TypeOK

LEMMA LookupType ==
  ASSUME TypeOK, NEW c \in Cloids, NEW a \in Lookup(c)
  PROVE  a \in Answers /\ a.out \in Outcomes
<1>1. \A out \in Outcomes, n \in Lots : Ans(out, n) \in Answers
  BY DEF Ans, Answers
<1>2. ex[c] \in {"absent", "live", "filled", "cancelled", "rejected"}
  BY DEF TypeOK
<1>3. a \in Answers
  BY <1>1, <1>2, Constants DEF Lookup, Outcomes
<1> QED
  BY <1>3 DEF Answers

LEMMA WorkerLookupType ==
  ASSUME TypeOK, WorkerLookup
  PROVE  TypeOK'
<1>1. worker.pc # "idle"
  BY DEF WorkerLookup
<1>2. PICK a \in Lookup(worker.c) :
        \/ /\ worker' = WorkerApplies(IF a.out = "missing" THEN NoAnswer ELSE a)
           /\ UNCHANGED bounds
        \/ worker' = WorkerApplies(NoAnswer) /\ Fault
  BY DEF WorkerLookup
<1>3. worker' \in WorkerStates
  BY <1>1, <1>2, LookupType, BusyWorker, WorkerAtType, Constants DEF WorkerApplies
<1>4. faults' \in 0..MaxFaults /\ cancels' = cancels /\ kills' = kills
  BY <1>2, FaultType DEF TypeOK
<1> QED
  BY <1>3, <1>4 DEF WorkerLookup, TypeOK

LEMMA WorkerQueryType ==
  ASSUME TypeOK, WorkerQuery
  PROVE  TypeOK'
<1>1. worker.pc # "idle"
  BY DEF WorkerQuery
<1>2. worker' \in WorkerStates
  BY <1>1, LookupType, BusyWorker, WorkerAtType DEF WorkerQuery, WorkerApplies, WorkerSends
<1> QED
  BY <1>2 DEF WorkerQuery, TypeOK

LEMMA OutcomeTypes ==
  ASSUME NEW out \in Outcomes, NEW snap \in Statuses
  PROVE  /\ SubmitTarget(out) \in Statuses /\ SubmitCommand(out) \in Commands
         /\ CancelTarget(snap, out) \in Statuses \cup {NoStatus}
         /\ CancelCommand(out) \in Commands
<1>1. SubmitTarget(out) \in Statuses
  BY DEF SubmitTarget, Statuses, Outcomes
<1>2. SubmitCommand(out) \in Commands
  BY DEF SubmitCommand, Commands, Done, Outcomes
<1>3. CancelTarget(snap, out) \in Statuses \cup {NoStatus}
  BY DEF CancelTarget, Statuses, Outcomes
<1>4. CancelCommand(out) \in Commands
  BY DEF CancelCommand, Commands, Done, Outcomes
<1> QED
  BY <1>1, <1>2, <1>3, <1>4

LEMMA DeferredType ==
  ASSUME TypeOK, worker.pc # "idle"
  PROVE  Deferred \in WorkerStates
BY WorkerAtType, Constants DEF Deferred, Statuses

LEMMA WorkerApplyPlaceType ==
  ASSUME TypeOK, WorkerApplyPlace
  PROVE  TypeOK'
<1> DEFINE c == worker.c
           out == worker.ans.out
           to == SubmitTarget(out)
<1>1. worker.pc # "idle" /\ worker.kind = "place" /\ "place" \in Kinds
  BY DEF WorkerApplyPlace, Kinds
<1>2. /\ c \in Cloids /\ worker.ans.amt \in Lots /\ to \in Statuses
      /\ SubmitCommand(out) \in Commands
  BY <1>1, BusyWorker, OutcomeTypes
<1>3. worker' \in WorkerStates
  BY <1>1, BusyWorker, DeferredType DEF WorkerApplyPlace
<1>4. \/ UNCHANGED rowVars
      \/ PersistTransition(c, to, worker.ans.amt) /\ SetCommand("place", c, SubmitCommand(out))
  BY DEF WorkerApplyPlace
<1>5. /\ status' \in [Cloids -> Statuses \cup {NoStatus}] /\ filled' \in [Cloids -> Lots]
      /\ reserved' \in [Cloids -> Lots] /\ cmd' \in [Kinds -> [Cloids -> Commands]]
  <2>1. CASE UNCHANGED rowVars
    BY <2>1 DEF TypeOK
  <2>2. CASE /\ PersistTransition(c, to, worker.ans.amt)
             /\ SetCommand("place", c, SubmitCommand(out))
    BY <2>2, <1>1, <1>2, PersistType, SetCommandType
  <2> QED
    BY <2>1, <2>2, <1>4
<1> QED
  BY <1>3, <1>5 DEF WorkerApplyPlace, TypeOK

LEMMA WorkerApplyCancelType ==
  ASSUME TypeOK, WorkerApplyCancel
  PROVE  TypeOK'
<1> DEFINE c == worker.c
           out == worker.ans.out
           to == CancelTarget(worker.snap, out)
<1>1. worker.pc # "idle" /\ "cancel" \in Kinds
  BY DEF WorkerApplyCancel, Kinds
<1>2. /\ c \in Cloids /\ worker.ans.amt \in Lots /\ to \in Statuses \cup {NoStatus}
      /\ CancelCommand(out) \in Commands
  BY <1>1, BusyWorker, OutcomeTypes
<1>3. worker' \in WorkerStates
  BY <1>1, BusyWorker, DeferredType DEF WorkerApplyCancel
<1>4. \/ UNCHANGED rowVars
      \/ /\ to # NoStatus /\ PersistTransition(c, to, worker.ans.amt)
         /\ SetCommand("cancel", c, CancelCommand(out))
  BY DEF WorkerApplyCancel
<1>5. /\ status' \in [Cloids -> Statuses \cup {NoStatus}] /\ filled' \in [Cloids -> Lots]
      /\ reserved' \in [Cloids -> Lots] /\ cmd' \in [Kinds -> [Cloids -> Commands]]
  <2>1. CASE UNCHANGED rowVars
    BY <2>1 DEF TypeOK
  <2>2. CASE /\ to # NoStatus /\ PersistTransition(c, to, worker.ans.amt)
             /\ SetCommand("cancel", c, CancelCommand(out))
    BY <2>2, <1>1, <1>2, PersistType, SetCommandType
  <2> QED
    BY <2>1, <2>2, <1>4
<1> QED
  BY <1>3, <1>5 DEF WorkerApplyCancel, TypeOK

LEMMA WorkerDeferType ==
  ASSUME TypeOK, WorkerDefer
  PROVE  TypeOK'
<1>1. worker.pc # "idle" /\ "unknown" \in Commands
  BY DEF WorkerDefer, Commands
<1>2. cmd' \in [Kinds -> [Cloids -> Commands]] /\ worker' \in WorkerStates
  BY <1>1, BusyWorker, SetCommandType DEF WorkerDefer
<1> QED
  BY <1>2 DEF WorkerDefer, TypeOK

LEMMA WorkerErrorType ==
  ASSUME TypeOK, WorkerError
  PROVE  TypeOK'
BY FaultType DEF WorkerError, TypeOK, WorkerStates

LEMMA BusyCanceller ==
  ASSUME TypeOK, canceller.pc # "idle"
  PROVE  /\ canceller.c \in Cloids /\ canceller.own \in BOOLEAN
         /\ canceller.snap \in Statuses /\ canceller.ans \in Answers
         /\ canceller.ans.out \in Outcomes /\ canceller.ans.amt \in Lots
         /\ \A pc \in {"send", "wait", "lookup", "apply"}, ans \in Answers :
              CancellerAt(pc, ans) \in CancellerStates
BY DEF TypeOK, CancellerStates, Idle, Answers, CancellerAt

LEMMA CancelRequestType ==
  ASSUME TypeOK, NEW c \in Cloids, CancelRequest(c)
  PROVE  TypeOK'
<1>1. mem[c] \in Statuses /\ "pending" \in Commands /\ "cancel" \in Kinds
  BY DEF CancelRequest, TypeOK, Open, Commands, Kinds
<1>2. \A own \in BOOLEAN :
        [pc |-> "send", c |-> c, own |-> own, snap |-> mem[c], ans |-> NoAnswer]
          \in CancellerStates
  BY <1>1, Constants DEF CancellerStates
<1>3. canceller' \in CancellerStates
  BY <1>2 DEF CancelRequest
<1>4. UNCHANGED cmd \/ SetCommand("cancel", c, "pending")
  BY DEF CancelRequest
<1>5. cmd' \in [Kinds -> [Cloids -> Commands]]
  BY <1>1, <1>4, SetCommandType DEF TypeOK
<1>6. faults' = faults /\ kills' = kills /\ cancels' \in 0..MaxCancels
  BY Constants DEF CancelRequest, TypeOK
<1> QED
  BY <1>3, <1>5, <1>6 DEF CancelRequest, TypeOK

LEMMA CancelSendType ==
  ASSUME TypeOK, CancelSend
  PROVE  TypeOK'
<1>1. canceller.pc # "idle" /\ "cancel" \in Kinds /\ "canceller" \in Owners
  BY DEF CancelSend, Kinds, Owners
<1>2. <<canceller.c>> \in Seq(Cloids)
  BY <1>1, BusyCanceller
<1>3. nq' \in Seq(Jobs)
  BY <1>1, <1>2, EnqueueType DEF CancelSend
<1>4. canceller' \in CancellerStates
  BY <1>1, BusyCanceller, Constants DEF CancelSend
<1> QED
  BY <1>3, <1>4 DEF CancelSend, TypeOK

LEMMA CancelGiveUpType ==
  ASSUME TypeOK, CancelGiveUp
  PROVE  TypeOK'
<1>1. canceller.pc # "idle" /\ "canceller" \in Owners
  BY DEF CancelGiveUp, Owners
<1>2. nq' \in Seq(Jobs)
  BY <1>1, DisownType DEF CancelGiveUp
<1>3. canceller' \in CancellerStates
  BY <1>1, BusyCanceller, Constants DEF CancelGiveUp
<1> QED
  BY <1>2, <1>3, FaultType DEF CancelGiveUp, TypeOK

LEMMA CancelLookupType ==
  ASSUME TypeOK, CancelLookup
  PROVE  TypeOK'
<1>1. canceller.pc # "idle"
  BY DEF CancelLookup
<1>2. canceller' \in CancellerStates
  BY <1>1, LookupType, BusyCanceller, Constants DEF CancelLookup
<1> QED
  BY <1>2 DEF CancelLookup, TypeOK

LEMMA CancelApplyType ==
  ASSUME TypeOK, CancelApply
  PROVE  TypeOK'
<1> DEFINE c == canceller.c
           out == canceller.ans.out
           to == CancelTarget(canceller.snap, out)
<1>1. canceller.pc # "idle" /\ "cancel" \in Kinds
  BY DEF CancelApply, Kinds
<1>2. /\ c \in Cloids /\ canceller.ans.amt \in Lots /\ to \in Statuses \cup {NoStatus}
      /\ CancelCommand(out) \in Commands
  BY <1>1, BusyCanceller, OutcomeTypes
<1>3. canceller' \in CancellerStates
  BY DEF CancelApply, CancellerStates
<1>4. \/ UNCHANGED rowVars /\ UNCHANGED mem
      \/ /\ to # NoStatus /\ PersistTransition(c, to, canceller.ans.amt)
         /\ UNCHANGED cmd \/ SetCommand("cancel", c, CancelCommand(out))
         /\ mem' = [mem EXCEPT ![c] = to]
  BY DEF CancelApply
<1>5. /\ status' \in [Cloids -> Statuses \cup {NoStatus}] /\ filled' \in [Cloids -> Lots]
      /\ reserved' \in [Cloids -> Lots] /\ cmd' \in [Kinds -> [Cloids -> Commands]]
      /\ mem' \in [Cloids -> Statuses \cup {NoStatus}]
  <2>1. CASE UNCHANGED rowVars /\ UNCHANGED mem
    BY <2>1 DEF TypeOK
  <2>2. CASE /\ to # NoStatus /\ PersistTransition(c, to, canceller.ans.amt)
             /\ UNCHANGED cmd \/ SetCommand("cancel", c, CancelCommand(out))
             /\ mem' = [mem EXCEPT ![c] = to]
    <3>1. cmd' \in [Kinds -> [Cloids -> Commands]]
      BY <2>2, <1>1, <1>2, SetCommandType DEF TypeOK
    <3>2. mem' \in [Cloids -> Statuses \cup {NoStatus}]
      BY <2>2, <1>2 DEF TypeOK
    <3> QED
      BY <3>1, <3>2, <2>2, <1>2, PersistType
  <2> QED
    BY <2>1, <2>2, <1>4
<1> QED
  BY <1>3, <1>5 DEF CancelApply, TypeOK

LEMMA KillType ==
  ASSUME TypeOK, KillLatch \/ KillReset
  PROVE  TypeOK'
<1>1. CASE KillLatch
  <2>1. sweeper' \in SweeperStates
    BY <1>1 DEF KillLatch, SweeperStates
  <2>2. kills' \in 0..MaxKills /\ faults' = faults /\ cancels' = cancels
    BY <1>1, Constants DEF KillLatch, TypeOK
  <2> QED
    BY <1>1, <2>1, <2>2 DEF KillLatch, TypeOK
<1>2. CASE KillReset
  BY <1>2 DEF KillReset, TypeOK
<1> QED
  BY <1>1, <1>2

LEMMA BusySweeper ==
  ASSUME TypeOK, sweeper.pc \in {"send", "wait", "apply"}
  PROVE  /\ sweeper.chunk \in Seq(Targets) /\ sweeper.wires \in Seq(Cloids)
         /\ sweeper.outs \in Seq(Answers) /\ sweeper.answered \in BOOLEAN
BY DEF TypeOK, SweeperStates, Idle

LEMMA SweeperAtType ==
  ASSUME NEW pc \in {"send", "wait", "apply"}, NEW chunk \in Seq(Targets),
         NEW wires \in Seq(Cloids), NEW outs \in Seq(Answers), NEW answered \in BOOLEAN
  PROVE  SweeperAt(pc, chunk, wires, outs, answered) \in SweeperStates
BY DEF SweeperAt, SweeperStates

LEMMA SweepStartType ==
  ASSUME TypeOK, SweepStart
  PROVE  TypeOK'
<1> DEFINE S == {c \in Cloids : mem[c] \in Open}
           chosen(chunk, gap) == IF gap = 0 THEN chunk ELSE Without(chunk, gap)
           targets(chunk) == [i \in 1..Len(chunk) |-> [c |-> chunk[i], snap |-> mem[chunk[i]]]]
<1>0. PICK chunk \in Orderings(S) :
        \E gap \in IF AssetGaps THEN 0..Len(chunk) ELSE {0} :
          IF chosen(chunk, gap) = <<>>
          THEN sweeper' = Idle /\ swept' = (killed /\ chunk = <<>>)
          ELSE /\ sweeper' = SweeperAt("send", targets(chunk), chosen(chunk, gap), <<>>, FALSE)
               /\ UNCHANGED swept
  BY DEF SweepStart
<1>1. PICK gap \in IF AssetGaps THEN 0..Len(chunk) ELSE {0} :
        IF chosen(chunk, gap) = <<>>
        THEN sweeper' = Idle /\ swept' = (killed /\ chunk = <<>>)
        ELSE /\ sweeper' = SweeperAt("send", targets(chunk), chosen(chunk, gap), <<>>, FALSE)
             /\ UNCHANGED swept
  BY <1>0
<1>2. Cardinality(S) \in Nat
  BY Constants, FS_Subset, FS_CardinalityType
<1>3. chunk \in [1..Cardinality(S) -> S]
  BY DEF Orderings
<1>4. chunk \in Seq(S)
  BY <1>2, <1>3, SeqDef
<1>5. chunk \in Seq(Cloids) /\ Len(chunk) \in Nat
      /\ \A i \in 1..Len(chunk) : chunk[i] \in S
  BY <1>4
<1>6. chosen(chunk, gap) \in Seq(Cloids)
  <2>1. CASE gap = 0
    BY <2>1, <1>5
  <2>2. CASE gap # 0
    <3>1. gap \in 1..Len(chunk) /\ Len(chunk) - 1 \in Nat
      BY <2>2, <1>5
    <3>2. \A j \in 1..(Len(chunk) - 1) :
            (IF j < gap THEN chunk[j] ELSE chunk[j + 1]) \in Cloids
      BY <3>1, <1>5
    <3>3. Without(chunk, gap) \in [1..(Len(chunk) - 1) -> Cloids]
      BY <3>2 DEF Without
    <3> QED
      BY <3>1, <3>3, <2>2, SeqDef
  <2> QED
    BY <2>1, <2>2
<1>7. targets(chunk) \in Seq(Targets)
  <2>1. \A i \in 1..Len(chunk) : [c |-> chunk[i], snap |-> mem[chunk[i]]] \in Targets
    BY <1>5 DEF Targets, Open
  <2>2. targets(chunk) \in [1..Len(chunk) -> Targets]
    BY <2>1
  <2> QED
    BY <1>5, <2>2, SeqDef
<1>8. <<>> \in Seq(Answers)
  OBVIOUS
<1>9. sweeper' \in SweeperStates /\ swept' \in BOOLEAN
  <2>1. CASE chosen(chunk, gap) = <<>>
    <3>1. sweeper' = Idle /\ swept' = (killed /\ chunk = <<>>)
      BY <2>1, <1>1
    <3>2. Idle \in SweeperStates
      BY DEF SweeperStates
    <3>3. swept' \in BOOLEAN
      BY <3>1, Zenon
    <3> QED
      BY <3>1, <3>2, <3>3
  <2>2. CASE chosen(chunk, gap) # <<>>
    <3>1. /\ sweeper' = SweeperAt("send", targets(chunk), chosen(chunk, gap), <<>>, FALSE)
          /\ UNCHANGED swept
      BY <2>2, <1>1
    <3>2. SweeperAt("send", targets(chunk), chosen(chunk, gap), <<>>, FALSE) \in SweeperStates
      <4> HIDE DEF targets, chosen
      <4> QED
        BY <1>6, <1>7, <1>8, SweeperAtType
    <3> QED
      BY <3>1, <3>2 DEF TypeOK
  <2> QED
    BY <2>1, <2>2
<1> QED
  BY <1>9 DEF SweepStart, TypeOK

LEMMA SweepSendType ==
  ASSUME TypeOK, SweepSend
  PROVE  TypeOK'
<1>1. sweeper.pc = "send" /\ "cancel" \in Kinds /\ "sweeper" \in Owners
  BY DEF SweepSend, Kinds, Owners
<1>2. nq' \in Seq(Jobs)
  BY <1>1, BusySweeper, EnqueueType DEF SweepSend
<1>3. <<>> \in Seq(Cloids)
  OBVIOUS
<1>4. sweeper' \in SweeperStates
  BY <1>1, <1>3, BusySweeper, SweeperAtType DEF SweepSend
<1> QED
  BY <1>2, <1>4 DEF SweepSend, TypeOK

LEMMA SweepGiveUpType ==
  ASSUME TypeOK, SweepGiveUp
  PROVE  TypeOK'
<1>1. sweeper.pc \in {"send", "wait"} /\ "sweeper" \in Owners
  BY DEF SweepGiveUp, Owners
<1>2. nq' \in Seq(Jobs)
  BY <1>1, DisownType DEF SweepGiveUp
<1>3. <<>> \in Seq(Cloids)
  OBVIOUS
<1>4. sweeper' \in SweeperStates
  BY <1>1, <1>3, BusySweeper, SweeperAtType DEF SweepGiveUp
<1> QED
  BY <1>2, <1>4, FaultType DEF SweepGiveUp, TypeOK

LEMMA SweepApplyType ==
  ASSUME TypeOK, SweepApply
  PROVE  TypeOK'
<1> DEFINE t == Head(sweeper.chunk)
           a == IF sweeper.outs = <<>> THEN NoAnswer ELSE Head(sweeper.outs)
           to == CancelTarget(t.snap, a.out)
           rest == IF sweeper.outs = <<>> THEN <<>> ELSE Tail(sweeper.outs)
<1>1. /\ sweeper.chunk \in Seq(Targets) /\ sweeper.chunk # <<>>
      /\ sweeper.outs \in Seq(Answers) /\ sweeper.answered \in BOOLEAN
  BY BusySweeper DEF SweepApply
<1>2. t \in Targets /\ Tail(sweeper.chunk) \in Seq(Targets)
  BY <1>1
<1>3. a \in Answers /\ rest \in Seq(Answers)
  BY <1>1, Constants
<1>4. t.c \in Cloids /\ t.snap \in Statuses /\ a.out \in Outcomes /\ a.amt \in Lots
  BY <1>2, <1>3 DEF Targets, Answers
<1>5. to \in Statuses \cup {NoStatus}
  BY <1>4, OutcomeTypes
<1>6. mem' \in [Cloids -> Statuses \cup {NoStatus}]
  BY <1>4, <1>5 DEF SweepApply, TypeOK
<1>7. sweeper' \in SweeperStates
  <2>1. sweeper' = SweeperAt("apply", Tail(sweeper.chunk), <<>>, rest, sweeper.answered)
    BY DEF SweepApply
  <2>2. <<>> \in Seq(Cloids)
    OBVIOUS
  <2> QED
    BY <2>1, <2>2, <1>1, <1>2, <1>3, SweeperAtType
<1>8. /\ status' \in [Cloids -> Statuses \cup {NoStatus}] /\ filled' \in [Cloids -> Lots]
      /\ reserved' \in [Cloids -> Lots]
  <2>1. \/ to = NoStatus /\ UNCHANGED <<status, filled, reserved>>
        \/ to # NoStatus /\ PersistTransition(t.c, to, a.amt)
    BY DEF SweepApply
  <2>2. CASE UNCHANGED <<status, filled, reserved>>
    BY <2>2 DEF TypeOK
  <2>3. CASE to # NoStatus /\ PersistTransition(t.c, to, a.amt)
    BY <2>3, <1>4, <1>5, PersistType
  <2> QED
    BY <2>1, <2>2, <2>3
<1> QED
  BY <1>6, <1>7, <1>8 DEF SweepApply, TypeOK

LEMMA SweepFinishType ==
  ASSUME TypeOK, SweepFinish
  PROVE  TypeOK'
BY BusySweeper DEF SweepFinish, TypeOK, SweeperStates

\* The head of the queue ends: its owner, who waits, gets the answer.
LEMMA FinishType ==
  ASSUME TypeOK, OwnersWait, nq # <<>>, NEW outs \in Seq(Answers), NEW failed \in BOOLEAN,
         Finish(outs, failed)
  PROVE  /\ nq' \in Seq(Jobs) /\ stage' = "queued" /\ reply' = <<>>
         /\ worker' \in WorkerStates /\ canceller' \in CancellerStates
         /\ sweeper' \in SweeperStates
<1> DEFINE o == Head(nq).owner
           first == IF outs = <<>> THEN NoAnswer ELSE Head(outs)
           next == IF failed /\ worker.kind = "place" THEN "lookup" ELSE "apply"
<1>1. nq \in Seq(Jobs) /\ 1 \in DOMAIN nq /\ Head(nq) = nq[1] /\ Tail(nq) \in Seq(Jobs)
  BY DEF TypeOK
<1>2. first \in Answers /\ next \in {"lookup", "apply"}
  BY Constants
<1>3. worker' \in WorkerStates
  <2>1. CASE o = "worker"
    <3>1. worker.pc = "wait"
      BY <2>1, <1>1 DEF OwnersWait
    <3>2. worker' = WorkerAt(next, worker.resolve, worker.snap, first)
      BY <2>1 DEF Finish
    <3> QED
      BY <3>1, <3>2, <1>2, BusyWorker, WorkerAtType
  <2>2. CASE o # "worker"
    BY <2>2 DEF Finish, TypeOK
  <2> QED
    BY <2>1, <2>2
<1>4. canceller' \in CancellerStates
  <2>1. CASE o = "canceller"
    <3>1. canceller.pc = "wait"
      BY <2>1, <1>1 DEF OwnersWait
    <3>2. canceller' = CancellerAt("apply", first)
      BY <2>1 DEF Finish
    <3> QED
      BY <3>1, <3>2, <1>2, BusyCanceller
  <2>2. CASE o # "canceller"
    BY <2>2 DEF Finish, TypeOK
  <2> QED
    BY <2>1, <2>2
<1>5. sweeper' \in SweeperStates
  <2>1. CASE o = "sweeper"
    <3>1. sweeper.pc = "wait" /\ <<>> \in Seq(Cloids)
      BY <2>1, <1>1 DEF OwnersWait
    <3>2. sweeper' = SweeperAt("apply", sweeper.chunk, <<>>, outs, ~failed)
      BY <2>1 DEF Finish
    <3> QED
      BY <3>1, <3>2, BusySweeper, SweeperAtType
  <2>2. CASE o # "sweeper"
    BY <2>2 DEF Finish, TypeOK
  <2> QED
    BY <2>1, <2>2
<1> QED
  BY <1>1, <1>3, <1>4, <1>5 DEF Finish

LEMMA NoncePreflightType ==
  ASSUME TypeOK, OwnersWait, NoncePreflight
  PROVE  TypeOK'
<1>1. Ans("aborted", 0) \in Answers
  BY Constants DEF Ans, Answers, Outcomes
<1>2. <<Ans("aborted", 0)>> \in Seq(Answers)
  BY <1>1
<1>3. CASE Finish(<<Ans("aborted", 0)>>, FALSE)
  <2>1. nq # <<>>
    BY DEF NoncePreflight
  <2>2. /\ nq' \in Seq(Jobs) /\ stage' = "queued" /\ reply' = <<>>
        /\ worker' \in WorkerStates /\ canceller' \in CancellerStates
        /\ sweeper' \in SweeperStates
    BY <2>1, <1>2, <1>3, FinishType
  <2> QED
    BY <2>2 DEF NoncePreflight, TypeOK
<1>4. CASE stage' = "cleared" /\ UNCHANGED <<nq, reply, worker, canceller, sweeper>>
  BY <1>4 DEF NoncePreflight, TypeOK
<1> QED
  BY <1>3, <1>4 DEF NoncePreflight

LEMMA NonceSendType ==
  ASSUME TypeOK, NonceSendPlace \/ NonceSendCancel
  PROVE  TypeOK'
<1>1. CASE NonceSendPlace
  <2>1. sends' \in [Cloids -> Nat]
    <3> DEFINE x == Head(nq).cs[1]
    <3>1. sends \in [Cloids -> Nat] /\ sends' = [sends EXCEPT ![x] = sends[x] + 1]
      BY <1>1 DEF NonceSendPlace, TypeOK
    <3> HIDE DEF x
    <3>2. \A c \in Cloids : sends'[c] \in Nat
      BY <3>1
    <3> QED
      BY <3>1, <3>2
  <2>2. stage' = "sent"
    BY <1>1 DEF NonceSendPlace
  <2> QED
    BY <1>1, <2>1, <2>2 DEF NonceSendPlace, TypeOK
<1>2. CASE NonceSendCancel
  BY <1>2 DEF NonceSendCancel, TypeOK
<1> QED
  BY <1>1, <1>2

LEMMA NonceReplyType ==
  ASSUME TypeOK, OwnersWait, NonceReply
  PROVE  TypeOK'
<1>1. /\ reply \in Seq(Answers) /\ <<>> \in Seq(Answers)
      /\ <<Ans("garbled", 0)>> \in Seq(Answers) /\ <<Ans("opaque", 0)>> \in Seq(Answers)
  <2>1. Ans("garbled", 0) \in Answers /\ Ans("opaque", 0) \in Answers
    BY Constants DEF Ans, Answers, Outcomes
  <2> QED
    BY <2>1 DEF TypeOK
<1>2. PICK outs \in Seq(Answers) : Finish(outs, FALSE) /\ (Fault \/ UNCHANGED bounds)
  BY <1>1 DEF NonceReply
<1>3. faults' \in 0..MaxFaults /\ cancels' = cancels /\ kills' = kills
  BY <1>2, FaultType DEF TypeOK
<1>4. nq # <<>>
  BY DEF NonceReply
<1>5. /\ nq' \in Seq(Jobs) /\ stage' = "queued" /\ reply' = <<>>
      /\ worker' \in WorkerStates /\ canceller' \in CancellerStates
      /\ sweeper' \in SweeperStates
  BY <1>2, <1>4, FinishType
<1> QED
  BY <1>3, <1>5 DEF NonceReply, TypeOK

LEMMA RequestType ==
  ASSUME TypeOK, nq # <<>>
  PROVE  /\ Head(nq) \in Jobs /\ Head(nq) = nq[1] /\ 1 \in DOMAIN nq
         /\ Request(Head(nq)) \in Requests
<1>1. Head(nq) \in Jobs /\ Head(nq) = nq[1] /\ 1 \in DOMAIN nq
  BY DEF TypeOK
<1> QED
  BY <1>1 DEF Jobs, Request, Requests

LEMMA NonceLoseType ==
  ASSUME TypeOK, OwnersWait, QueueSane, NonceLose
  PROVE  TypeOK'
<1>1. nq # <<>> /\ <<>> \in Seq(Answers)
  BY DEF NonceLose
<1>2. Head(nq) \in Jobs /\ Head(nq) = nq[1] /\ 1 \in DOMAIN nq /\ Request(Head(nq)) \in Requests
  BY <1>1, RequestType
<1>3. Head(nq).kind = "place" => Head(nq).cs[1] \in Cloids
  <2>1. Head(nq).kind = "place" => Len(Head(nq).cs) = 1
    BY <1>2 DEF QueueSane
  <2>2. Head(nq).cs \in Seq(Cloids)
    BY <1>2 DEF Jobs
  <2> QED
    BY <2>1, <2>2
<1>4. strays' \subseteq Requests /\ excused' \subseteq Cloids
  BY <1>2, <1>3 DEF NonceLose, TypeOK
<1>5. /\ nq' \in Seq(Jobs) /\ stage' = "queued" /\ reply' = <<>>
      /\ worker' \in WorkerStates /\ canceller' \in CancellerStates
      /\ sweeper' \in SweeperStates
  BY <1>1, FinishType DEF NonceLose
<1> QED
  BY <1>4, <1>5, FaultType DEF NonceLose, TypeOK

\* What an arriving request does to the venue.
VenueTyped ==
  /\ ex \in [Cloids -> {"absent", "live", "filled", "cancelled", "rejected"}]
  /\ xfill \in [Cloids -> Lots]
  /\ evOrder \in [Cloids -> SUBSET {"Acknowledged", "Filled", "Cancelled", "Rejected"}]
  /\ evFill \in [Cloids -> Lots]

LEMMA ArriveType ==
  ASSUME TypeOK, FillsBounded, NEW c, NEW answer, Arrive(c, answer)
  PROVE  VenueTyped' /\ FillsBounded'
<1>1. CASE UNCHANGED venueVars
  BY <1>1 DEF TypeOK, FillsBounded, VenueTyped
<1>2. CASE /\ ex' = [ex EXCEPT ![c] = "rejected"] /\ Emit(c, "Rejected")
           /\ UNCHANGED <<xfill, evFill>>
  BY <1>2 DEF TypeOK, FillsBounded, VenueTyped, Emit
<1>3. ASSUME NEW k \in Lots, NEW to \in {"filled", "cancelled", "live"},
             NEW e \in {"Acknowledged", "Filled", "Cancelled"},
             k = Size => to = "filled",
             ex' = [ex EXCEPT ![c] = to],
             Emit(c, e),
             xfill' = [xfill EXCEPT ![c] = k],
             evFill' = [evFill EXCEPT ![c] = k]
      PROVE  VenueTyped' /\ FillsBounded'
  <2>1. VenueTyped'
    BY <1>3 DEF TypeOK, VenueTyped, Emit
  <2>2. ASSUME NEW d \in Cloids
        PROVE  evFill'[d] <= xfill'[d] /\ (ex'[d] = "live" => xfill'[d] < Size)
    <3>1. CASE d = c
      BY <3>1, <1>3, Constants DEF TypeOK, Lots
    <3>2. CASE d # c
      BY <3>2, <1>3 DEF TypeOK, FillsBounded
    <3> QED
      BY <3>1, <3>2
  <2> QED
    BY <2>1, <2>2 DEF FillsBounded
<1> QED
  BY <1>1, <1>2, <1>3 DEF Arrive

LEMMA WithdrawType ==
  ASSUME TypeOK, FillsBounded, NEW cs, Withdraw(cs)
  PROVE  VenueTyped' /\ FillsBounded'
BY DEF TypeOK, FillsBounded, VenueTyped, Withdraw

LEMMA VenuePlaceType ==
  ASSUME TypeOK, FillsBounded, VenuePlace
  PROVE  TypeOK' /\ FillsBounded'
<1>1. PICK answer \in Answers : Arrive(Head(nq).cs[1], answer) /\ reply' = <<answer>>
  BY DEF VenuePlace
<1>2. VenueTyped' /\ FillsBounded'
  BY <1>1, ArriveType
<1>3. reply' \in Seq(Answers)
  BY <1>1
<1> QED
  BY <1>2, <1>3 DEF VenuePlace, VenueTyped, TypeOK

LEMMA VenueCancelType ==
  ASSUME TypeOK, FillsBounded, VenueCancel
  PROVE  TypeOK' /\ FillsBounded'
<1> DEFINE cs == Head(nq).cs
           entry(i) == Ans(IF ex[cs[i]] = "live" THEN "cancelled" ELSE "refused", 0)
<1>1. VenueTyped' /\ FillsBounded'
  BY WithdrawType DEF VenueCancel
<1>2. nq # <<>>
  BY DEF VenueCancel
<1>3. Len(cs) \in Nat
  BY <1>2, RequestType DEF Jobs
<1>4. \A i : entry(i) \in Answers
  BY Constants DEF Ans, Answers, Outcomes
<1>5. reply' = [i \in 1..Len(cs) |-> entry(i)]
  BY DEF VenueCancel
<1>6. reply' \in Seq(Answers)
  <2> HIDE DEF entry, cs
  <2>1. reply' \in [1..Len(cs) -> Answers]
    BY <1>4, <1>5
  <2> QED
    BY <2>1, <1>3, SeqDef
<1> QED
  BY <1>1, <1>6 DEF VenueCancel, VenueTyped, TypeOK

LEMMA VenueStrayType ==
  ASSUME TypeOK, FillsBounded, NEW r \in strays, VenueStray(r)
  PROVE  TypeOK' /\ FillsBounded'
<1>1. VenueTyped' /\ FillsBounded'
  <2>1. CASE \E answer \in Answers : Arrive(r.cs[1], answer)
    BY <2>1, ArriveType
  <2>2. CASE Withdraw(r.cs)
    BY <2>2, WithdrawType
  <2>3. CASE UNCHANGED venueVars
    BY <2>3 DEF VenueTyped, TypeOK, FillsBounded
  <2> QED
    BY <2>1, <2>2, <2>3 DEF VenueStray
<1>2. strays' \subseteq Requests
  BY DEF VenueStray, TypeOK
<1> QED
  BY <1>1, <1>2 DEF VenueStray, VenueTyped, TypeOK

LEMMA VenueFillType ==
  ASSUME TypeOK, FillsBounded, NEW c \in Cloids, VenueFill(c)
  PROVE  TypeOK' /\ FillsBounded'
<1>1. /\ xfill[c] \in 0..Size /\ evFill[c] \in 0..Size /\ xfill[c] < Size
      /\ evFill[c] <= xfill[c]
  BY DEF VenueFill, FillsBounded, TypeOK, Lots
<1>2. xfill[c] + 1 \in Lots /\ evFill[c] + 1 \in Lots
  BY <1>1, Constants DEF Lots
<1>3. xfill' \in [Cloids -> Lots] /\ evFill' \in [Cloids -> Lots]
  BY <1>2 DEF VenueFill, TypeOK
<1>4. /\ ex' \in [Cloids -> {"absent", "live", "filled", "cancelled", "rejected"}]
      /\ evOrder' \in [Cloids -> SUBSET {"Acknowledged", "Filled", "Cancelled", "Rejected"}]
  <2>1. CASE UNCHANGED <<ex, evOrder>>
    BY <2>1 DEF TypeOK
  <2>2. CASE ex' = [ex EXCEPT ![c] = "filled"] /\ Emit(c, "Filled")
    BY <2>2 DEF TypeOK, Emit
  <2> QED
    BY <2>1, <2>2 DEF VenueFill
<1>5. \A d \in Cloids :
        ex'[d] = "live" => ex[d] = "live" /\ (d = c => xfill[c] + 1 # Size)
  <2>1. CASE xfill[c] + 1 = Size
    <3>1. ex' = [ex EXCEPT ![c] = "filled"]
      BY <2>1 DEF VenueFill
    <3> QED
      BY <3>1 DEF TypeOK
  <2>2. CASE xfill[c] + 1 # Size
    <3>1. UNCHANGED ex
      BY <2>2 DEF VenueFill
    <3> QED
      BY <3>1, <2>2
  <2> QED
    BY <2>1, <2>2
<1>6. /\ xfill' = [xfill EXCEPT ![c] = xfill[c] + 1]
      /\ evFill' = [evFill EXCEPT ![c] = evFill[c] + 1]
  BY DEF VenueFill
<1>7. ASSUME NEW d \in Cloids
      PROVE  evFill'[d] <= xfill'[d] /\ (ex'[d] = "live" => xfill'[d] < Size)
  <2>1. CASE d = c
    BY <2>1, <1>1, <1>5, <1>6, Constants DEF TypeOK
  <2>2. CASE d # c
    BY <2>2, <1>5, <1>6 DEF TypeOK, FillsBounded
  <2> QED
    BY <2>1, <2>2
<1> QED
  BY <1>3, <1>4, <1>7 DEF VenueFill, TypeOK, FillsBounded

LEMMA MergeVenueType ==
  ASSUME NEW s \in Statuses, NEW e \in Statuses
  PROVE  /\ MergeVenue(s, e) \in Statuses
         /\ s \in Terminal => MergeVenue(s, e) \in Terminal
BY DEF MergeVenue, Terminal

LEMMA IngestOrderType ==
  ASSUME TypeOK, NEW c \in Cloids, NEW s \in Terminal \cup {"Acknowledged"}, IngestOrder(c, s)
  PROVE  TypeOK'
<1>1. status[c] \in Statuses /\ s \in Statuses
  BY DEF IngestOrder, TypeOK, Terminal, Statuses
<1>2. MergeVenue(status[c], s) \in Statuses
  BY <1>1, MergeVenueType
<1>3. /\ status' \in [Cloids -> Statuses \cup {NoStatus}]
      /\ reserved' \in [Cloids -> Lots]
      /\ evOrder' \in [Cloids -> SUBSET {"Acknowledged", "Filled", "Cancelled", "Rejected"}]
  BY <1>2, Constants DEF IngestOrder, TypeOK
<1> QED
  BY <1>3 DEF IngestOrder, TypeOK

LEMMA IngestFillType ==
  ASSUME TypeOK, FillsBounded, NEW c \in Cloids, IngestFill(c)
  PROVE  TypeOK' /\ FillsBounded'
<1> DEFINE st == MergeFill(status[c], FillTotal(c), Size)
<1>1. /\ filled[c] \in 0..Size /\ evFill[c] \in 0..Size /\ reserved[c] \in 0..Size
      /\ evFill[c] > 0 /\ evFill[c] <= xfill[c] /\ xfill[c] \in 0..Size
  BY DEF IngestFill, FillsBounded, TypeOK, Lots
<1>2. FillTotal(c) \in Lots /\ evFill[c] - 1 \in Lots
  BY <1>1, Constants DEF FillTotal, Lots
<1>3. st \in Statuses
  BY DEF MergeFill, Statuses, Terminal
<1>4. (IF reserved[c] = 0 \/ st = "Filled" THEN 0 ELSE reserved[c] - 1) \in Lots
  BY <1>1, Constants DEF Lots
<1>5. /\ status' \in [Cloids -> Statuses \cup {NoStatus}] /\ filled' \in [Cloids -> Lots]
      /\ reserved' \in [Cloids -> Lots] /\ evFill' \in [Cloids -> Lots]
  BY <1>2, <1>3, <1>4 DEF IngestFill, TypeOK
<1>6. \A d \in Cloids : evFill'[d] <= xfill'[d]
  BY <1>1 DEF IngestFill, TypeOK, FillsBounded
<1>7. TypeOK'
  BY <1>5 DEF IngestFill, TypeOK
<1>8. FillsBounded'
  BY <1>6 DEF IngestFill, FillsBounded
<1> QED
  BY <1>7, <1>8

LEMMA CrashType ==
  ASSUME TypeOK, Crash
  PROVE  TypeOK'
<1>1. strays' \subseteq Requests
  BY RequestType DEF Crash, TypeOK
<1>2. /\ mem' \in [Cloids -> Statuses \cup {NoStatus}] /\ caller' \in [Callers -> CallerStates]
      /\ worker' \in WorkerStates /\ canceller' \in CancellerStates /\ sweeper' \in SweeperStates
  BY DEF Crash, CallerStates, WorkerStates, CancellerStates, SweeperStates
<1>3. /\ nq' \in Seq(Jobs) /\ reply' \in Seq(Answers) /\ stage' = "queued"
      /\ swept' = FALSE /\ excused' \subseteq Cloids
  BY DEF Crash, TypeOK
<1>4. killed' \in BOOLEAN
  BY Zenon DEF Crash, TypeOK
<1> QED
  BY <1>1, <1>2, <1>3, <1>4, FaultType DEF Crash, TypeOK

-----------------------------------------------------------------------------
(* Frames: what a step must leave alone for each conjunct to survive it *)

Others == OwnersWait /\ QueueSane /\ RowBeforeCommand /\ OneSender

LEMMA OwnersFrame ==
  ASSUME OwnersWait, UNCHANGED nq,
         worker' = worker \/ worker.pc # "wait",
         canceller' = canceller \/ canceller.pc # "wait",
         sweeper' = sweeper \/ sweeper.pc # "wait"
  PROVE  OwnersWait'
BY DEF OwnersWait

LEMMA QueueFrame ==
  ASSUME QueueSane, UNCHANGED <<nq, stage>>
  PROVE  QueueSane'
BY DEF QueueSane

LEMMA RowsFrame ==
  ASSUME TypeOK, RowBeforeCommand,
         \A c \in Cloids :
           status'[c] = NoStatus => /\ status[c] = NoStatus
                                    /\ cmd'["place"][c] = cmd["place"][c],
         \/ worker'.pc = "idle" \/ worker' = worker
         \/ worker.pc # "idle" /\ worker'.kind = worker.kind /\ worker'.c = worker.c
  PROVE  RowBeforeCommand'
BY BusyWorker DEF RowBeforeCommand

LEMMA SenderFrame ==
  ASSUME OneSender, UNCHANGED <<nq, stage, sends>>,
         \A c \in Cloids : (Fresh(c)' => Fresh(c)) /\ (MaySend(c)' => MaySend(c))
  PROVE  OneSender'
<1>1. \A i : Unsent(i)' = Unsent(i)
  BY DEF Unsent
<1>2. \A c : Queued(c)' = Queued(c)
  BY <1>1 DEF Queued
<1> QED
  BY <1>1, <1>2 DEF OneSender

\* A step of the environment that leaves tasks, queue and commands alone.
LEMMA QuietFrame ==
  ASSUME TypeOK, Others,
         UNCHANGED <<nq, stage, cmd, sends, worker, canceller, sweeper>>,
         \A c \in Cloids : status'[c] = NoStatus => status[c] = NoStatus
  PROVE  Others'
<1>1. OwnersWait' /\ QueueSane'
  BY OwnersFrame, QueueFrame DEF Others
<1>2. RowBeforeCommand'
  BY RowsFrame DEF Others
<1>3. OneSender'
  BY SenderFrame DEF Others, Fresh, MaySend
<1> QED
  BY <1>1, <1>2, <1>3 DEF Others

\* A row that exists goes on existing.
LEMMA PersistKeepsRows ==
  ASSUME TypeOK, NEW c \in Cloids, NEW to \in Statuses, NEW amt \in Lots,
         PersistTransition(c, to, amt)
  PROVE  \A d \in Cloids : status'[d] = NoStatus => status[d] = NoStatus /\ d # c
<1>1. MergeTransport(status[c], to) \in Statuses
  BY MergeTransportType DEF TypeOK
<1> QED
  BY <1>1 DEF PersistTransition, TypeOK, Statuses, NoStatus

LEMMA SubmitOthers ==
  ASSUME TypeOK, Others, NEW a \in Callers,
         (\E c \in Cloids : SubmitCheck(a, c)) \/ SubmitPersist(a) \/ SubmitExpose(a)
  PROVE  Others'
<1>1. CASE \E c \in Cloids : SubmitCheck(a, c)
  BY <1>1, QuietFrame DEF SubmitCheck
<1>2. CASE SubmitExpose(a)
  BY <1>2, QuietFrame DEF SubmitExpose
<1>3. CASE SubmitPersist(a)
  <2> DEFINE c == caller[a].c
  <2>1. c \in Cloids
    BY <1>3 DEF SubmitPersist, TypeOK, CallerStates, Idle
  <2>2. CASE UNCHANGED rowVars
    BY <2>2, <1>3, QuietFrame DEF SubmitPersist
  <2>3. ASSUME NEW st \in {"Submitted", "Rejected"}, NEW command \in {"pending", "failed"},
               status[c] = NoStatus, status' = [status EXCEPT ![c] = st],
               SetCommand("place", c, command)
        PROVE  Others'
    <3>1. /\ \A d \in Cloids : d # c => cmd'["place"][d] = cmd["place"][d]
      BY <2>1, <2>3, SetCommandType DEF Kinds, Commands, Done
    <3>2. Fresh(c)
      BY <2>1, <2>3 DEF Others, RowBeforeCommand, Fresh
    <3>3. \A d \in Cloids : (Fresh(d)' => Fresh(d)) /\ (MaySend(d)' => MaySend(d))
      BY <3>1, <3>2, <1>3 DEF Fresh, MaySend, SubmitPersist
    <3>4. OneSender'
      BY <3>3, <1>3, SenderFrame DEF SubmitPersist, Others
    <3>5. RowBeforeCommand'
      BY <3>1, <2>1, <2>3, <1>3, RowsFrame DEF SubmitPersist, Others, TypeOK, NoStatus
    <3> QED
      BY <3>4, <3>5, <1>3, OwnersFrame, QueueFrame DEF SubmitPersist, Others
  <2> QED
    BY <2>2, <2>3, <1>3 DEF SubmitPersist
<1> QED
  BY <1>1, <1>2, <1>3

LEMMA ClaimOthers ==
  ASSUME TypeOK, Others, NEW k \in Kinds, NEW c \in Cloids, Claim(k, c)
  PROVE  Others'
<1>1. /\ worker.pc = "idle" /\ worker'.pc = "load" /\ worker'.kind = k /\ worker'.c = c
      /\ UNCHANGED <<nq, stage, sends, status, canceller, sweeper>>
  BY DEF Claim, Idle
<1>2. /\ cmd[k][c] \notin Done \cup {"none"}
      /\ \A d \in Cloids :
           cmd'["place"][d] = cmd["place"][d] \/ cmd'["place"][d] \in {"processing", "unknown"}
      /\ \A d \in Cloids : cmd["place"][d] = "none" => cmd'["place"][d] = "none" \/ (k = "place" /\ d = c)
      /\ k = "place" => cmd'["place"][c] = "processing"
      /\ ~worker'.resolve => cmd[k][c] = "pending"
  <2> DEFINE was(e) == IF <<k, c>> \in e THEN "unknown" ELSE cmd[k][c]
  <2>1. PICK e \in SUBSET Expirable :
          /\ was(e) \in {"pending", "unknown"}
          /\ cmd' = [q \in Kinds |-> [d \in Cloids |->
                       IF q = k /\ d = c THEN "processing"
                       ELSE IF <<q, d>> \in e THEN "unknown" ELSE cmd[q][d]]]
          /\ worker'.resolve = Resolves(was(e))
    BY DEF Claim
  <2>2. \A q \in Kinds, d \in Cloids : <<q, d>> \in e => cmd[q][d] = "processing"
    BY DEF Expirable
  <2>3. "place" \in Kinds
    BY DEF Kinds
  <2>4. \A d \in Cloids :
          cmd'["place"][d] = IF "place" = k /\ d = c THEN "processing"
                             ELSE IF <<"place", d>> \in e THEN "unknown" ELSE cmd["place"][d]
    BY <2>1, <2>3
  <2>5. cmd[k][c] \in {"pending", "unknown", "processing"}
    BY <2>1, <2>2
  <2>6. ~worker'.resolve => cmd[k][c] = "pending"
    BY <2>1 DEF Resolves
  <2> QED
    BY <2>2, <2>3, <2>4, <2>5, <2>6 DEF Done
<1>3. OwnersWait' /\ QueueSane'
  BY <1>1, OwnersFrame, QueueFrame DEF Others
<1>4. RowBeforeCommand'
  BY <1>1, <1>2 DEF Others, RowBeforeCommand
<1>5. \A d \in Cloids : Fresh(d)' => Fresh(d) /\ (k = "place" => d # c)
  BY <1>2 DEF Fresh
<1>6. \A d \in Cloids : ~MaySend(d) /\ (MaySend(d)' => k = "place" /\ d = c /\ Fresh(c))
  BY <1>1, <1>2 DEF MaySend, Fresh
<1>7. \A i : Unsent(i)' = Unsent(i)
  BY <1>1 DEF Unsent
<1>8. \A d : Queued(d)' = Queued(d)
  BY <1>1, <1>7 DEF Queued
<1>9. OneSender'
  BY <1>1, <1>5, <1>6, <1>7, <1>8 DEF Others, OneSender
<1> QED
  BY <1>3, <1>4, <1>9 DEF Others

\* A step of the worker that neither touches the queue nor gains a right.
LEMMA WorkerFrame ==
  ASSUME TypeOK, Others, worker.pc \notin {"idle", "wait"},
         UNCHANGED <<nq, stage, sends, canceller, sweeper>>,
         \/ worker' = Idle
         \/ worker'.kind = worker.kind /\ worker'.c = worker.c,
         \A d \in Cloids : (Fresh(d)' => Fresh(d)) /\ (MaySend(d)' => MaySend(d)),
         \A d \in Cloids :
           status'[d] = NoStatus => /\ status[d] = NoStatus
                                    /\ cmd'["place"][d] = cmd["place"][d]
  PROVE  Others'
<1>1. OwnersWait' /\ QueueSane'
  BY OwnersFrame, QueueFrame DEF Others
<1>2. RowBeforeCommand'
  BY RowsFrame DEF Others, Idle
<1>3. OneSender'
  BY SenderFrame DEF Others
<1> QED
  BY <1>1, <1>2, <1>3 DEF Others

LEMMA WorkerLoadOthers ==
  ASSUME TypeOK, Others, WorkerLoad
  PROVE  Others'
<1> DEFINE c == worker.c
<1>1. worker.pc = "load" /\ c \in Cloids /\ "cancel" \in Kinds
      /\ UNCHANGED <<nq, stage, sends, canceller, sweeper, status>>
  BY BusyWorker DEF WorkerLoad, Kinds
<1>2. \/ worker' = Idle
      \/ worker' = WorkerAt(AfterLoad, worker.resolve, status[c], worker.ans)
  BY DEF WorkerLoad
<1>3. \A d \in Cloids : MaySend(d)' => MaySend(d)
  BY <1>1, <1>2 DEF MaySend, WorkerAt, AfterLoad, Idle
<1>4. UNCHANGED cmd \/ \E to \in {"succeeded", "failed"} : SetCommand("cancel", c, to)
  BY DEF WorkerLoad
<1>5. \A d \in Cloids : cmd'["place"][d] = cmd["place"][d]
  BY <1>1, <1>4, SetCommandType DEF Commands, Done, Kinds
<1> QED
  BY <1>1, <1>2, <1>3, <1>5, WorkerFrame DEF WorkerAt, Fresh

LEMMA WorkerGateOthers ==
  ASSUME TypeOK, Others, WorkerGate \/ WorkerLookup \/ WorkerQuery
  PROVE  Others'
<1>1. /\ worker.pc \in {"gate", "lookup", "query"}
      /\ UNCHANGED <<nq, stage, sends, canceller, sweeper, status, cmd>>
  BY DEF WorkerGate, WorkerLookup, WorkerQuery
<1>2. worker'.kind = worker.kind /\ worker'.c = worker.c
  BY DEF WorkerGate, WorkerLookup, WorkerQuery, WorkerSends, WorkerApplies, WorkerAt
<1>3. \A d \in Cloids : MaySend(d)' => MaySend(d)
  BY <1>1 DEF WorkerGate, WorkerLookup, WorkerQuery, WorkerSends, WorkerApplies, WorkerAt, MaySend
<1> QED
  BY <1>1, <1>2, <1>3, WorkerFrame DEF Fresh

LEMMA WorkerApplyOthers ==
  ASSUME TypeOK, Others, WorkerApplyPlace \/ WorkerApplyCancel
  PROVE  Others'
<1> DEFINE c == worker.c
           k == worker.kind
           out == worker.ans.out
           to == IF k = "place" THEN SubmitTarget(out) ELSE CancelTarget(worker.snap, out)
           command == IF k = "place" THEN SubmitCommand(out) ELSE CancelCommand(out)
<1>1. /\ worker.pc = "apply" /\ k \in Kinds /\ c \in Cloids /\ worker.ans.amt \in Lots
      /\ command \in Commands \ {"none", "pending"} /\ to \in Statuses \cup {NoStatus}
      /\ UNCHANGED <<nq, stage, sends, canceller, sweeper>>
  <2>1. SubmitCommand(out) \notin {"none", "pending"} /\ CancelCommand(out) \notin {"none", "pending"}
    BY DEF SubmitCommand, CancelCommand
  <2> QED
    BY <2>1, BusyWorker, OutcomeTypes DEF WorkerApplyPlace, WorkerApplyCancel
<1>2. worker' = Idle \/ worker' = Deferred
  BY DEF WorkerApplyPlace, WorkerApplyCancel
<1>3. \/ UNCHANGED rowVars
      \/ /\ to # NoStatus /\ PersistTransition(c, to, worker.ans.amt)
         /\ SetCommand(k, c, command)
  <2>1. SubmitTarget(out) # NoStatus
    BY DEF SubmitTarget, NoStatus
  <2> QED
    BY <2>1 DEF WorkerApplyPlace, WorkerApplyCancel
<1>4. /\ worker' = Idle \/ (worker'.kind = k /\ worker'.c = c)
      /\ \A d \in Cloids : ~MaySend(d)'
  BY <1>2 DEF Deferred, WorkerAt, MaySend, Idle
<1>5. CASE UNCHANGED rowVars
  BY <1>1, <1>4, <1>5, WorkerFrame DEF Fresh
<1>6. CASE /\ to # NoStatus /\ PersistTransition(c, to, worker.ans.amt)
           /\ SetCommand(k, c, command)
  <2>1. \A d \in Cloids : /\ Fresh(d)' => Fresh(d)
                          /\ d # c => cmd'["place"][d] = cmd["place"][d]
    <3> HIDE DEF command, k, c
    <3>1. /\ \A d \in Cloids : cmd'["place"][d] =
               IF "place" = k /\ d = c THEN command ELSE cmd["place"][d]
      BY <1>1, <1>6, SetCommandType DEF Kinds
    <3> QED
      BY <3>1, <1>1 DEF Fresh
  <2>2. \A d \in Cloids : status'[d] = NoStatus => status[d] = NoStatus /\ d # c
    <3> HIDE DEF to
    <3> QED
      BY <1>1, <1>6, PersistKeepsRows
  <2> QED
    <3> HIDE DEF to, command
    <3> QED
      BY <2>1, <2>2, <1>1, <1>4, WorkerFrame
<1> QED
  BY <1>3, <1>5, <1>6

LEMMA WorkerDeferOthers ==
  ASSUME TypeOK, Others, WorkerDefer
  PROVE  Others'
<1>1. /\ worker.pc = "defer" /\ worker.kind \in Kinds /\ worker.c \in Cloids
      /\ SetCommand(worker.kind, worker.c, "unknown") /\ worker' = Idle
      /\ UNCHANGED <<nq, stage, sends, canceller, sweeper, status>>
  BY BusyWorker DEF WorkerDefer
<1>2. \A d \in Cloids : cmd'["place"][d] =
        IF worker.kind = "place" /\ d = worker.c THEN "unknown" ELSE cmd["place"][d]
  BY <1>1, SetCommandType DEF Kinds, Commands
<1>3. worker.kind = "place" => status[worker.c] # NoStatus
  BY <1>1 DEF Others, RowBeforeCommand
<1> QED
  BY <1>1, <1>2, <1>3, WorkerFrame DEF Fresh, MaySend, Idle

LEMMA WorkerErrorOthers ==
  ASSUME TypeOK, Others, WorkerError
  PROVE  Others'
BY WorkerFrame DEF WorkerError, Fresh, MaySend, Idle

\* A job is appended by a task that did not wait before.
LEMMA EnqueueOthers ==
  ASSUME TypeOK, Others, NEW kind \in Kinds, NEW cs \in Seq(Cloids),
         NEW o \in {"worker", "canceller", "sweeper"}, Enqueue(kind, cs, o),
         UNCHANGED <<stage, sends, status, cmd>>,
         IF o = "worker" THEN worker.pc # "wait" /\ worker'.pc = "wait" ELSE worker' = worker,
         IF o = "canceller" THEN canceller.pc # "wait" /\ canceller'.pc = "wait"
         ELSE canceller' = canceller,
         IF o = "sweeper" THEN sweeper.pc # "wait" /\ sweeper'.pc = "wait"
         ELSE sweeper' = sweeper,
         kind = "place" => /\ o = "worker" /\ worker.pc = "send" /\ worker.kind = "place"
                           /\ cs = <<worker.c>>,
         o = "worker" => worker.pc # "idle" /\ worker'.kind = worker.kind /\ worker'.c = worker.c
  PROVE  Others'
<1>0. PICK n \in Nat : n = Len(nq) + 1
  BY DEF TypeOK
<1>1. /\ nq' \in Seq(Jobs) /\ nq \in Seq(Jobs) /\ Len(nq) \in Nat
      /\ DOMAIN nq' = DOMAIN nq \cup {n} /\ n \notin DOMAIN nq
      /\ nq # <<>> => 1 \in DOMAIN nq
      /\ nq' # <<>>
      /\ \A i \in DOMAIN nq : nq'[i] = nq[i]
      /\ nq'[n] = [kind |-> kind, cs |-> cs, owner |-> o]
  <2>1. o \in Owners
    BY DEF Owners
  <2>2. nq \in Seq(Jobs) /\ Len(nq) \in Nat /\ DOMAIN nq = 1..Len(nq)
    BY DEF TypeOK
  <2>3. /\ nq' \in Seq(Jobs) /\ DOMAIN nq' = 1..(Len(nq) + 1) /\ Len(nq') = Len(nq) + 1
        /\ \A i \in DOMAIN nq : nq'[i] = nq[i]
        /\ nq'[n] = [kind |-> kind, cs |-> cs, owner |-> o]
    BY <2>1, <1>0, EnqueueType
  <2>4. DOMAIN nq' = DOMAIN nq \cup {n} /\ n \notin DOMAIN nq
    BY <2>2, <2>3, <1>0
  <2>5. nq # <<>> => 1 \in DOMAIN nq
    BY <2>2
  <2>6. nq' # <<>>
    BY <2>2, <2>3
  <2> QED
    BY <2>2, <2>3, <2>4, <2>5, <2>6
<1>2. OwnersWait'
  <2>1. \A i \in DOMAIN nq : nq[i].owner # o
    BY DEF Others, OwnersWait
  <2>2. \A i \in DOMAIN nq' : i \in DOMAIN nq \/ i = n
    BY <1>1
  <2> QED
    BY <1>1, <2>1, <2>2 DEF Others, OwnersWait
<1>3. QueueSane'
  <2>1. \A i \in DOMAIN nq' : nq'[i].kind = "place" => Len(nq'[i].cs) = 1
    <3>1. kind = "place" => Len(cs) = 1
      OBVIOUS
    <3>2. ASSUME NEW i \in DOMAIN nq', nq'[i].kind = "place" PROVE Len(nq'[i].cs) = 1
      <4>1. CASE i = n
        BY <4>1, <3>1, <3>2, <1>1
      <4>2. CASE i \in DOMAIN nq
        BY <4>2, <3>2, <1>1 DEF Others, QueueSane
      <4> QED
        BY <4>1, <4>2, <1>1
    <3> QED
      BY <3>2
  <2>2. nq' # <<>>
    BY <1>1
  <2>3. stage = "cleared" => nq'[1].kind = "place"
    <3>1. stage = "cleared" => nq # <<>> /\ nq[1].kind = "place"
      BY DEF Others, QueueSane
    <3>2. nq # <<>> => 1 \in DOMAIN nq
      BY <1>1
    <3> QED
      BY <3>1, <3>2, <1>1
  <2> QED
    BY <2>1, <2>2, <2>3 DEF QueueSane
<1>4. RowBeforeCommand'
  BY RowsFrame DEF Others
<1>5. \A i \in DOMAIN nq : Unsent(i)' = Unsent(i)
  BY <1>1 DEF Unsent
<1>6. kind = "place" => MaySend(worker.c) /\ worker.c \in Cloids /\ cs[1] = worker.c
  BY BusyWorker DEF MaySend
<1>7. \A d \in Cloids : /\ Fresh(d)' = Fresh(d)
                        /\ MaySend(d)' => MaySend(d)
                        /\ kind = "place" => ~MaySend(d)'
  BY DEF Fresh, MaySend
<1>8. ASSUME NEW d \in Cloids, Queued(d)'
      PROVE  Queued(d) \/ (kind = "place" /\ d = worker.c)
  <2>1. PICK i \in DOMAIN nq' : Unsent(i)' /\ nq'[i].cs[1] = d
    BY <1>8 DEF Queued
  <2>2. CASE i \in DOMAIN nq
    BY <2>1, <2>2, <1>1, <1>5 DEF Queued
  <2>3. CASE i = n
    BY <2>1, <2>3, <1>1, <1>6 DEF Unsent
  <2> QED
    BY <2>2, <2>3, <1>1
<1>9. OneSender'
  <2>1. \A i, j \in DOMAIN nq' :
          Unsent(i)' /\ Unsent(j)' /\ nq'[i].cs[1] = nq'[j].cs[1] => i = j
    <3>1. \A i \in DOMAIN nq : Unsent(i) /\ Unsent(n)' => nq[i].cs[1] # nq'[n].cs[1]
      <4>1. Unsent(n)' => kind = "place" /\ nq'[n].cs[1] = worker.c
        <5>1. nq'[n].kind = kind /\ nq'[n].cs = cs
          BY <1>1
        <5> QED
          BY <5>1, <1>6 DEF Unsent
      <4>2. kind = "place" => ~Queued(worker.c)
        BY <1>6 DEF Others, OneSender
      <4> QED
        BY <4>1, <4>2 DEF Queued
    <3>2. \A i \in DOMAIN nq' : i \in DOMAIN nq \/ i = n
      BY <1>1
    <3>3. ASSUME NEW i \in DOMAIN nq', NEW j \in DOMAIN nq',
                 Unsent(i)', Unsent(j)', nq'[i].cs[1] = nq'[j].cs[1]
          PROVE  i = j
      <4>1. CASE i \in DOMAIN nq /\ j \in DOMAIN nq
        BY <4>1, <3>3, <1>1, <1>5 DEF Others, OneSender
      <4>2. CASE i \in DOMAIN nq /\ j = n
        BY <4>2, <3>1, <3>3, <1>1, <1>5
      <4>3. CASE i = n /\ j \in DOMAIN nq
        BY <4>3, <3>1, <3>3, <1>1, <1>5
      <4> QED
        BY <4>1, <4>2, <4>3, <3>2
    <3> QED
      BY <3>3
  <2> QED
    BY <2>1, <1>6, <1>7, <1>8 DEF Others, OneSender
<1> QED
  BY <1>2, <1>3, <1>4, <1>9 DEF Others

LEMMA SendOthers ==
  ASSUME TypeOK, Others, WorkerSend \/ CancelSend \/ SweepSend
  PROVE  Others'
<1>1. CASE WorkerSend
  <2>1. /\ worker.pc = "send" /\ worker.kind \in Kinds /\ <<worker.c>> \in Seq(Cloids)
        /\ Enqueue(worker.kind, <<worker.c>>, "worker")
        /\ UNCHANGED <<stage, sends, status, cmd, canceller, sweeper>>
        /\ worker' = WorkerAt("wait", FALSE, worker.snap, worker.ans)
    BY <1>1, BusyWorker DEF WorkerSend
  <2>2. worker'.pc = "wait" /\ worker'.kind = worker.kind /\ worker'.c = worker.c
    BY <2>1 DEF WorkerAt
  <2> QED
    BY <2>1, <2>2, EnqueueOthers
<1>2. CASE CancelSend
  <2>1. /\ canceller.pc = "send" /\ "cancel" \in Kinds /\ <<canceller.c>> \in Seq(Cloids)
        /\ Enqueue("cancel", <<canceller.c>>, "canceller")
        /\ UNCHANGED <<stage, sends, status, cmd, worker, sweeper>>
        /\ canceller'.pc = "wait"
    BY <1>2, BusyCanceller DEF CancelSend, CancellerAt, Kinds
  <2> QED
    BY <2>1, EnqueueOthers
<1>3. CASE SweepSend
  <2>1. /\ sweeper.pc = "send" /\ "cancel" \in Kinds /\ sweeper.wires \in Seq(Cloids)
        /\ Enqueue("cancel", sweeper.wires, "sweeper")
        /\ UNCHANGED <<stage, sends, status, cmd, worker, canceller>>
        /\ sweeper'.pc = "wait"
    BY <1>3, BusySweeper DEF SweepSend, SweeperAt, Kinds
  <2> QED
    BY <2>1, EnqueueOthers
<1> QED
  BY <1>1, <1>2, <1>3

\* A task stops waiting: its job stays, unowned.
LEMMA DisownOthers ==
  ASSUME TypeOK, Others, NEW o \in {"worker", "canceller", "sweeper"}, nq' = Disown(o),
         UNCHANGED <<stage, sends, status, cmd>>,
         o = "worker" \/ worker' = worker,
         o = "canceller" \/ canceller' = canceller,
         o = "sweeper" \/ sweeper' = sweeper,
         worker' = worker \/ (/\ worker.pc # "idle" /\ worker'.kind = worker.kind
                              /\ worker'.c = worker.c /\ worker'.pc \in {"lookup", "apply"})
  PROVE  Others'
<1>0. o \in Owners /\ o # "nobody"
  BY DEF Owners
<1>1. /\ DOMAIN nq' = DOMAIN nq
      /\ \A i \in DOMAIN nq :
           /\ nq'[i].kind = nq[i].kind /\ nq'[i].cs = nq[i].cs
           /\ nq'[i].owner = IF nq[i].owner = o THEN "nobody" ELSE nq[i].owner
      /\ nq # <<>> => nq' # <<>> /\ 1 \in DOMAIN nq
  <2>1. nq \in Seq(Jobs) /\ nq' \in Seq(Jobs) /\ Len(nq') = Len(nq)
    BY <1>0, DisownType DEF TypeOK
  <2> QED
    BY <2>1, <1>0, DisownType
<1>2. OwnersWait'
  BY <1>0, <1>1 DEF Others, OwnersWait
<1>3. QueueSane'
  BY <1>1 DEF Others, QueueSane
<1>4. RowBeforeCommand'
  BY RowsFrame DEF Others
<1>5. \A i \in DOMAIN nq : Unsent(i)' = Unsent(i)
  BY <1>1 DEF Unsent
<1>6. \A d \in Cloids : Queued(d)' = Queued(d)
  BY <1>1, <1>5 DEF Queued
<1>7. \A d \in Cloids : Fresh(d)' = Fresh(d) /\ (MaySend(d)' => MaySend(d))
  BY DEF Fresh, MaySend
<1>8. OneSender'
  BY <1>1, <1>5, <1>6, <1>7 DEF Others, OneSender
<1> QED
  BY <1>2, <1>3, <1>4, <1>8 DEF Others

LEMMA GiveUpOthers ==
  ASSUME TypeOK, Others, WorkerGiveUp \/ CancelGiveUp \/ SweepGiveUp
  PROVE  Others'
<1>1. CASE WorkerGiveUp
  BY <1>1, DisownOthers DEF WorkerGiveUp, WorkerAt
<1>2. CASE CancelGiveUp
  BY <1>2, DisownOthers DEF CancelGiveUp
<1>3. CASE SweepGiveUp
  BY <1>3, DisownOthers DEF SweepGiveUp
<1> QED
  BY <1>1, <1>2, <1>3

\* A step of the canceller or the sweeper beside the queue.
LEMMA OtherTaskFrame ==
  ASSUME TypeOK, Others, UNCHANGED <<nq, stage, sends, worker>>,
         canceller' = canceller \/ canceller.pc # "wait",
         sweeper' = sweeper \/ sweeper.pc # "wait",
         \A d \in Cloids : cmd'["place"][d] = cmd["place"][d],
         \A d \in Cloids : status'[d] = NoStatus => status[d] = NoStatus
  PROVE  Others'
<1>1. OwnersWait' /\ QueueSane'
  BY OwnersFrame, QueueFrame DEF Others
<1>2. RowBeforeCommand'
  BY RowsFrame DEF Others
<1>3. OneSender'
  BY SenderFrame DEF Others, Fresh, MaySend
<1> QED
  BY <1>1, <1>2, <1>3 DEF Others

LEMMA CancelOthers ==
  ASSUME TypeOK, Others, (\E c \in Cloids : CancelRequest(c)) \/ CancelLookup \/ CancelApply
  PROVE  Others'
<1>1. CASE \E c \in Cloids : CancelRequest(c)
  <2>1. PICK c \in Cloids : CancelRequest(c)
    BY <1>1
  <2>2. UNCHANGED cmd \/ SetCommand("cancel", c, "pending")
    BY <2>1 DEF CancelRequest
  <2>3. \A d \in Cloids : cmd'["place"][d] = cmd["place"][d]
    BY <2>2, SetCommandType DEF Kinds, Commands
  <2> QED
    BY <2>1, <2>3, OtherTaskFrame DEF CancelRequest, Idle
<1>2. CASE CancelLookup
  BY <1>2, OtherTaskFrame DEF CancelLookup
<1>3. CASE CancelApply
  <2> DEFINE c == canceller.c
             out == canceller.ans.out
             to == CancelTarget(canceller.snap, out)
  <2>1. /\ canceller.pc = "apply" /\ c \in Cloids /\ canceller.ans.amt \in Lots
        /\ to \in Statuses \cup {NoStatus} /\ CancelCommand(out) \in Commands
        /\ UNCHANGED <<nq, stage, sends, worker, sweeper>>
    BY <1>3, BusyCanceller, OutcomeTypes DEF CancelApply
  <2>2. \/ UNCHANGED rowVars
        \/ /\ to # NoStatus /\ PersistTransition(c, to, canceller.ans.amt)
           /\ UNCHANGED cmd \/ SetCommand("cancel", c, CancelCommand(out))
    BY <1>3 DEF CancelApply
  <2> HIDE DEF to
  <2>3. \A d \in Cloids : cmd'["place"][d] = cmd["place"][d]
    BY <2>1, <2>2, SetCommandType DEF Kinds
  <2>4. \A d \in Cloids : status'[d] = NoStatus => status[d] = NoStatus
    BY <2>1, <2>2, PersistKeepsRows
  <2> QED
    BY <2>1, <2>3, <2>4, OtherTaskFrame
<1> QED
  BY <1>1, <1>2, <1>3

LEMMA SweepOthers ==
  ASSUME TypeOK, Others, KillLatch \/ KillReset \/ SweepStart \/ SweepApply \/ SweepFinish
  PROVE  Others'
<1>1. CASE KillLatch \/ KillReset \/ SweepStart \/ SweepFinish
  <2>1. /\ UNCHANGED <<nq, stage, sends, worker, canceller, cmd, status>>
        /\ sweeper' = sweeper \/ sweeper.pc # "wait"
    <3>1. CASE KillLatch
      BY <3>1 DEF KillLatch, Idle
    <3>2. CASE KillReset
      BY <3>2 DEF KillReset
    <3>3. CASE SweepStart
      BY <3>3 DEF SweepStart
    <3>4. CASE SweepFinish
      BY <3>4 DEF SweepFinish
    <3> QED
      BY <1>1, <3>1, <3>2, <3>3, <3>4
  <2> QED
    BY <2>1, OtherTaskFrame
<1>2. CASE SweepApply
  <2> DEFINE t == Head(sweeper.chunk)
             a == IF sweeper.outs = <<>> THEN NoAnswer ELSE Head(sweeper.outs)
             to == CancelTarget(t.snap, a.out)
  <2>1. sweeper.chunk \in Seq(Targets) /\ sweeper.chunk # <<>> /\ sweeper.outs \in Seq(Answers)
    BY <1>2, BusySweeper DEF SweepApply
  <2>2. t \in Targets /\ a \in Answers
    BY <2>1, Constants
  <2>3. t.c \in Cloids /\ t.snap \in Statuses /\ a.out \in Outcomes /\ a.amt \in Lots
    BY <2>2 DEF Targets, Answers
  <2>4. to \in Statuses \cup {NoStatus}
    BY <2>3, OutcomeTypes
  <2>5. \/ UNCHANGED status
        \/ to # NoStatus /\ PersistTransition(t.c, to, a.amt)
    BY <1>2 DEF SweepApply
  <2> HIDE DEF t, a, to
  <2>6. \A d \in Cloids : status'[d] = NoStatus => status[d] = NoStatus
    BY <2>3, <2>4, <2>5, PersistKeepsRows
  <2> QED
    BY <2>6, <1>2, OtherTaskFrame DEF SweepApply
<1> QED
  BY <1>1, <1>2

LEMMA FinishOthers ==
  ASSUME TypeOK, Others, nq # <<>>, NEW outs, NEW failed \in BOOLEAN, Finish(outs, failed),
         UNCHANGED <<sends, status, cmd>>
  PROVE  Others'
<1>1. /\ nq \in Seq(Jobs) /\ Head(nq) = nq[1] /\ 1 \in DOMAIN nq
      /\ nq' = Tail(nq) /\ stage' = "queued"
      /\ \A i \in DOMAIN nq' : i + 1 \in DOMAIN nq /\ i + 1 # 1 /\ nq'[i] = nq[i + 1]
      /\ DOMAIN nq' \subseteq Nat
  BY DEF TypeOK, Finish
<1>2. /\ nq[1].owner # "worker" => worker' = worker
      /\ nq[1].owner # "canceller" => canceller' = canceller
      /\ nq[1].owner # "sweeper" => sweeper' = sweeper
      /\ nq[1].owner = "worker" => /\ worker.pc = "wait" /\ worker'.pc \in {"lookup", "apply"}
                                   /\ worker'.kind = worker.kind /\ worker'.c = worker.c
  BY <1>1 DEF Finish, WorkerAt, Others, OwnersWait
<1>3. OwnersWait'
  <2>1. \A i \in DOMAIN nq' : nq'[i].owner # "nobody" => nq'[i].owner # nq[1].owner
    BY <1>1 DEF Others, OwnersWait
  <2>2. \A i \in DOMAIN nq' :
       /\ nq'[i].owner = "worker"    => worker'.pc = "wait"
       /\ nq'[i].owner = "canceller" => canceller'.pc = "wait"
       /\ nq'[i].owner = "sweeper"   => sweeper'.pc = "wait"
    BY <2>1, <1>1, <1>2 DEF Others, OwnersWait
  <2>3. \A i, j \in DOMAIN nq' :
          nq'[i].owner = nq'[j].owner /\ nq'[i].owner # "nobody" => i + 1 = j + 1
    BY <1>1 DEF Others, OwnersWait
  <2> QED
    BY <2>2, <2>3, <1>1 DEF OwnersWait
<1>4. QueueSane'
  BY <1>1 DEF Others, QueueSane
<1>5. RowBeforeCommand'
  BY <1>2, RowsFrame DEF Others
<1>6. \A i \in DOMAIN nq' : Unsent(i)' => Unsent(i + 1) /\ nq'[i].cs[1] = nq[i + 1].cs[1]
  BY <1>1 DEF Unsent
<1>7. \A d \in Cloids : /\ Queued(d)' => Queued(d)
                        /\ Fresh(d)' = Fresh(d)
                        /\ MaySend(d)' => MaySend(d)
  <2>1. \A d \in Cloids : Queued(d)' => Queued(d)
    BY <1>1, <1>6 DEF Queued
  <2>2. \A d \in Cloids : Fresh(d)' = Fresh(d)
    BY DEF Fresh
  <2>3. \A d \in Cloids : MaySend(d)' => MaySend(d)
    BY <1>2 DEF MaySend
  <2> QED
    BY <2>1, <2>2, <2>3
<1>8. \A i, j \in DOMAIN nq' :
        Unsent(i)' /\ Unsent(j)' /\ nq'[i].cs[1] = nq'[j].cs[1] => i = j
  <2>1. \A i, j \in DOMAIN nq' :
          Unsent(i)' /\ Unsent(j)' /\ nq'[i].cs[1] = nq'[j].cs[1] => i + 1 = j + 1
    BY <1>1, <1>6 DEF Others, OneSender
  <2> QED
    BY <2>1, <1>1
<1>9. OneSender'
  BY <1>7, <1>8 DEF Others, OneSender
<1> QED
  BY <1>3, <1>4, <1>5, <1>9 DEF Others

\* The stage of the head moves on; the head sent is no longer unsent.
LEMMA StageOthers ==
  ASSUME TypeOK, Others, nq # <<>>, UNCHANGED <<nq, status, cmd, worker, canceller, sweeper>>,
         stage' \in {"sent", "answered"} \/ (stage' = "cleared" /\ stage = "queued"),
         stage' = "cleared" => nq[1].kind = "place",
         \/ UNCHANGED sends
         \/ /\ stage = "cleared" /\ stage' = "sent"
            /\ sends' = [sends EXCEPT ![nq[1].cs[1]] = sends[nq[1].cs[1]] + 1]
  PROVE  Others'
<1>1. OwnersWait' /\ QueueSane' /\ RowBeforeCommand'
  <2>1. OwnersWait'
    BY OwnersFrame DEF Others
  <2>2. QueueSane'
    BY DEF Others, QueueSane
  <2>3. RowBeforeCommand'
    BY RowsFrame DEF Others
  <2> QED
    BY <2>1, <2>2, <2>3
<1>2. \A i \in DOMAIN nq : Unsent(i)' => Unsent(i)
  <2>1. stage \in {"queued", "cleared", "sent", "answered"}
    BY DEF TypeOK
  <2> QED
    BY <2>1 DEF Unsent
<1>3. \A d \in Cloids : /\ Fresh(d)' = Fresh(d) /\ MaySend(d)' = MaySend(d)
                        /\ Queued(d)' => Queued(d)
  <2>1. \A d \in Cloids : Queued(d)' => Queued(d)
    BY <1>2 DEF Queued
  <2> QED
    BY <2>1 DEF Fresh, MaySend
<1>4. CASE UNCHANGED sends
  BY <1>1, <1>2, <1>3, <1>4 DEF Others, OneSender
<1>5. CASE /\ stage = "cleared" /\ stage' = "sent"
           /\ sends' = [sends EXCEPT ![nq[1].cs[1]] = sends[nq[1].cs[1]] + 1]
  <2>1. nq \in Seq(Jobs) /\ 1 \in DOMAIN nq /\ nq[1].kind = "place"
    BY <1>5 DEF TypeOK, Others, QueueSane
  <2>2. PICK x \in Cloids : x = nq[1].cs[1]
    <3>1. nq[1] \in Jobs /\ Len(nq[1].cs) = 1
      BY <2>1 DEF Others, QueueSane
    <3>2. nq[1].cs \in Seq(Cloids)
      BY <3>1 DEF Jobs
    <3> QED
      BY <3>1, <3>2
  <2>3. Unsent(1) /\ ~Unsent(1)'
    BY <2>1, <1>5 DEF Unsent
  <2>4. Queued(x) /\ ~Queued(x)'
    <3>1. Queued(x)
      BY <2>1, <2>2, <2>3 DEF Queued
    <3>2. ASSUME NEW i \in DOMAIN nq, Unsent(i)', nq[i].cs[1] = x PROVE FALSE
      BY <3>2, <2>1, <2>2, <2>3, <1>2 DEF Others, OneSender
    <3> QED
      BY <3>1, <3>2 DEF Queued
  <2>5. sends[x] = 0 /\ ~Fresh(x) /\ ~MaySend(x)
    BY <2>2, <2>4 DEF Others, OneSender
  <2>6. \A d \in Cloids : sends'[d] = IF d = x THEN 1 ELSE sends[d]
    BY <2>2, <2>5, <1>5 DEF TypeOK
  <2>7. ASSUME NEW d \in Cloids, Fresh(d)' \/ MaySend(d)' \/ Queued(d)'
        PROVE  sends'[d] = 0
    <3>1. d # x /\ (Fresh(d) \/ MaySend(d) \/ Queued(d))
      BY <2>7, <2>4, <2>5, <1>3
    <3> QED
      BY <3>1, <2>6 DEF Others, OneSender
  <2>8. \A d \in Cloids : sends'[d] <= 1
    BY <2>6 DEF Others, OneSender
  <2> QED
    BY <2>7, <2>8, <1>1, <1>2, <1>3 DEF Others, OneSender
<1> QED
  BY <1>4, <1>5

LEMMA NonceOthers ==
  ASSUME TypeOK, Others,
         NoncePreflight \/ NonceSendPlace \/ NonceSendCancel \/ NonceReply \/ NonceLose
  PROVE  Others'
<1>1. CASE NoncePreflight
  <2>1. nq # <<>> /\ Head(nq) = nq[1] /\ nq[1].kind = "place" /\ stage = "queued"
    BY <1>1 DEF NoncePreflight, TypeOK
  <2>2. CASE Finish(<<Ans("aborted", 0)>>, FALSE)
    BY <1>1, <2>1, <2>2, FinishOthers DEF NoncePreflight
  <2>3. CASE stage' = "cleared" /\ UNCHANGED <<nq, reply, worker, canceller, sweeper>>
    BY <1>1, <2>1, <2>3, StageOthers DEF NoncePreflight
  <2> QED
    BY <1>1, <2>2, <2>3 DEF NoncePreflight
<1>2. CASE NonceSendPlace
  <2>1. /\ nq # <<>> /\ Head(nq) = nq[1] /\ stage = "cleared" /\ stage' = "sent"
        /\ UNCHANGED <<nq, status, cmd, worker, canceller, sweeper>>
    BY <1>2 DEF NonceSendPlace, TypeOK
  <2>2. sends' = [sends EXCEPT ![nq[1].cs[1]] = sends[nq[1].cs[1]] + 1]
    BY <1>2, <2>1 DEF NonceSendPlace
  <2> QED
    BY <2>1, <2>2, StageOthers
<1>3. CASE NonceSendCancel
  BY <1>3, StageOthers DEF NonceSendCancel
<1>4. CASE NonceReply
  BY <1>4, FinishOthers DEF NonceReply
<1>5. CASE NonceLose
  BY <1>5, FinishOthers DEF NonceLose
<1> QED
  BY <1>1, <1>2, <1>3, <1>4, <1>5

LEMMA VenueOthers ==
  ASSUME TypeOK, Others, VenuePlace \/ VenueCancel \/ \E r \in strays : VenueStray(r)
  PROVE  Others'
<1>1. CASE VenuePlace
  BY <1>1, StageOthers DEF VenuePlace
<1>2. CASE VenueCancel
  BY <1>2, StageOthers DEF VenueCancel
<1>3. CASE \E r \in strays : VenueStray(r)
  BY <1>3, QuietFrame DEF VenueStray
<1> QED
  BY <1>1, <1>2, <1>3

LEMMA EventOthers ==
  ASSUME TypeOK, Others, NEW c \in Cloids,
         \/ VenueFill(c) \/ IngestFill(c)
         \/ \E s \in Terminal \cup {"Acknowledged"} : IngestOrder(c, s)
  PROVE  Others'
<1>1. CASE VenueFill(c)
  BY <1>1, QuietFrame DEF VenueFill
<1>2. CASE IngestFill(c)
  <2>1. \A d \in Cloids : status'[d] = NoStatus => status[d] = NoStatus
    <3>1. MergeFill(status[c], FillTotal(c), Size) # NoStatus
      BY DEF MergeFill, Terminal, NoStatus
    <3> QED
      BY <3>1, <1>2 DEF IngestFill, TypeOK
  <2> QED
    BY <1>2, <2>1, QuietFrame DEF IngestFill
<1>3. CASE \E s \in Terminal \cup {"Acknowledged"} : IngestOrder(c, s)
  <2>1. PICK s \in Terminal \cup {"Acknowledged"} : IngestOrder(c, s)
    BY <1>3
  <2>2. \A d \in Cloids : status'[d] = NoStatus => status[d] = NoStatus
    <3>1. MergeVenue(status[c], s) # NoStatus
      BY <2>1 DEF MergeVenue, IngestOrder, Terminal, NoStatus
    <3> QED
      BY <3>1, <2>1 DEF IngestOrder, TypeOK
  <2> QED
    BY <2>1, <2>2, QuietFrame DEF IngestOrder
<1> QED
  BY <1>1, <1>2, <1>3

LEMMA CrashOthers ==
  ASSUME TypeOK, Others, Crash
  PROVE  Others'
<1>1. nq' = <<>> /\ stage' = "queued" /\ worker'.pc = "idle" /\ UNCHANGED <<status, cmd, sends>>
  BY DEF Crash, Idle
<1>2. DOMAIN nq' = {}
  BY <1>1
<1>3. OwnersWait' /\ QueueSane'
  BY <1>1, <1>2 DEF OwnersWait, QueueSane
<1>4. RowBeforeCommand'
  BY <1>1 DEF Others, RowBeforeCommand
<1>5. \A d \in Cloids : Fresh(d)' = Fresh(d) /\ ~MaySend(d)' /\ ~Queued(d)'
  BY <1>1, <1>2 DEF Fresh, MaySend, Queued
<1>6. OneSender'
  BY <1>1, <1>2, <1>5 DEF Others, OneSender
<1> QED
  BY <1>3, <1>4, <1>6 DEF Others

-----------------------------------------------------------------------------
(* The inductive invariant *)

LEMMA InitIInv == Init => IInv
<1> SUFFICES ASSUME Init PROVE IInv
  OBVIOUS
<1>1. TypeOK
  <2>1. /\ Idle \in CallerStates /\ Idle \in WorkerStates /\ Idle \in CancellerStates
        /\ Idle \in SweeperStates
    BY DEF CallerStates, WorkerStates, CancellerStates, SweeperStates
  <2>2. "none" \in Commands
    BY DEF Commands
  <2>3. /\ status \in [Cloids -> Statuses \cup {NoStatus}] /\ filled \in [Cloids -> Lots]
        /\ reserved \in [Cloids -> Lots] /\ cmd \in [Kinds -> [Cloids -> Commands]]
        /\ mem \in [Cloids -> Statuses \cup {NoStatus}] /\ caller \in [Callers -> CallerStates]
    BY <2>1, <2>2, Constants DEF Init
  <2>4. /\ ex \in [Cloids -> {"absent", "live", "filled", "cancelled", "rejected"}]
        /\ xfill \in [Cloids -> Lots] /\ evFill \in [Cloids -> Lots]
        /\ evOrder \in [Cloids -> SUBSET {"Acknowledged", "Filled", "Cancelled", "Rejected"}]
        /\ sends \in [Cloids -> Nat]
    BY Constants DEF Init
  <2>5. /\ nq \in Seq(Jobs) /\ reply \in Seq(Answers) /\ strays \subseteq Requests
        /\ excused \subseteq Cloids
    BY DEF Init
  <2>6. faults \in 0..MaxFaults /\ cancels \in 0..MaxCancels /\ kills \in 0..MaxKills
    BY Constants DEF Init
  <2> QED
    BY <2>1, <2>3, <2>4, <2>5, <2>6 DEF Init, TypeOK
<1>2. DOMAIN nq = {}
  BY DEF Init
<1>3. OwnersWait /\ QueueSane
  BY <1>2 DEF Init, OwnersWait, QueueSane
<1>4. FillsBounded
  BY DEF Init, FillsBounded
<1>5. RowBeforeCommand
  BY DEF Init, RowBeforeCommand, Kinds, Idle
<1>6. OneSender
  <2>1. \A d \in Cloids : ~MaySend(d) /\ ~Queued(d)
    BY <1>2 DEF Init, MaySend, Queued, Idle
  <2> QED
    BY <1>2, <2>1 DEF Init, OneSender
<1> QED
  BY <1>1, <1>3, <1>4, <1>5, <1>6 DEF IInv

LEMMA StutterIInv == IInv /\ UNCHANGED vars => IInv'
<1> SUFFICES ASSUME IInv, UNCHANGED vars PROVE IInv'
  OBVIOUS
<1>1. TypeOK' /\ FillsBounded'
  BY DEF IInv, vars, TypeOK, FillsBounded
<1>2. Others'
  BY QuietFrame DEF IInv, vars, Others
<1> QED
  BY <1>1, <1>2 DEF IInv, Others

LEMMA NextIInv == IInv /\ Next => IInv'
<1> SUFFICES ASSUME IInv, Next PROVE IInv'
  OBVIOUS
<1>0. TypeOK /\ Others /\ FillsBounded /\ OwnersWait /\ QueueSane
  BY DEF IInv, Others
<1>a. ASSUME UNCHANGED venueVars PROVE FillsBounded'
  BY <1>0, <1>a DEF FillsBounded
<1>1. ASSUME NEW a \in Callers,
             (\E c \in Cloids : SubmitCheck(a, c)) \/ SubmitPersist(a) \/ SubmitExpose(a)
      PROVE  TypeOK' /\ FillsBounded' /\ Others'
  <2>1. Others'
    BY <1>0, <1>1, SubmitOthers
  <2>2. TypeOK'
    BY <1>0, <1>1, SubmitCheckType, SubmitPersistType, SubmitExposeType
  <2>3. UNCHANGED venueVars
    BY <1>1 DEF SubmitCheck, SubmitPersist, SubmitExpose
  <2> QED
    BY <2>1, <2>2, <2>3, <1>a
<1>2. ASSUME NEW k \in Kinds, NEW c \in Cloids, Claim(k, c)
      PROVE  TypeOK' /\ FillsBounded' /\ Others'
  <2>1. UNCHANGED venueVars
    BY <1>2 DEF Claim
  <2> QED
    BY <2>1, <1>0, <1>2, <1>a, ClaimType, ClaimOthers
<1>3. CASE WorkerStep \/ WorkerGiveUp \/ WorkerError
  <2>1. UNCHANGED venueVars
    BY <1>3 DEF WorkerStep, WorkerGiveUp, WorkerError, WorkerLoad, WorkerGate, WorkerSend,
                WorkerLookup, WorkerQuery, WorkerApplyPlace, WorkerApplyCancel, WorkerDefer
  <2>2. TypeOK'
    BY <1>0, <1>3, WorkerLoadType, WorkerGateType, WorkerSendType, WorkerLookupType,
       WorkerQueryType, WorkerApplyPlaceType, WorkerApplyCancelType, WorkerDeferType,
       WorkerGiveUpType, WorkerErrorType DEF WorkerStep
  <2>3. Others'
    BY <1>0, <1>3, WorkerLoadOthers, WorkerGateOthers, SendOthers, WorkerApplyOthers,
       WorkerDeferOthers, GiveUpOthers, WorkerErrorOthers DEF WorkerStep
  <2> QED
    BY <2>1, <2>2, <2>3, <1>a DEF IInv, Others
<1>4. CASE \/ \E c \in Cloids : CancelRequest(c)
           \/ CancelSend \/ CancelGiveUp \/ CancelLookup \/ CancelApply
  <2>1. UNCHANGED venueVars
    BY <1>4 DEF CancelRequest, CancelSend, CancelGiveUp, CancelLookup, CancelApply
  <2>2. TypeOK'
    BY <1>0, <1>4, CancelRequestType, CancelSendType, CancelGiveUpType, CancelLookupType,
       CancelApplyType
  <2>3. Others'
    BY <1>0, <1>4, CancelOthers, SendOthers, GiveUpOthers
  <2> QED
    BY <2>1, <2>2, <2>3, <1>a DEF IInv, Others
<1>5. CASE \/ KillLatch \/ KillReset
           \/ SweepStart \/ SweepSend \/ SweepGiveUp \/ SweepApply \/ SweepFinish
  <2>1. UNCHANGED venueVars
    BY <1>5 DEF KillLatch, KillReset, SweepStart, SweepSend, SweepGiveUp, SweepApply, SweepFinish
  <2>2. TypeOK'
    BY <1>0, <1>5, KillType, SweepStartType, SweepSendType, SweepGiveUpType, SweepApplyType,
       SweepFinishType
  <2>3. Others'
    BY <1>0, <1>5, SweepOthers, SendOthers, GiveUpOthers
  <2> QED
    BY <2>1, <2>2, <2>3, <1>a DEF IInv, Others
<1>6. CASE QueueStep \/ NonceLose
  <2>1. UNCHANGED venueVars
    BY <1>6 DEF QueueStep, NoncePreflight, NonceSendPlace, NonceSendCancel, NonceReply, NonceLose
  <2>2. TypeOK'
    BY <1>0, <1>6, NoncePreflightType, NonceSendType, NonceReplyType, NonceLoseType DEF QueueStep
  <2>3. Others'
    BY <1>0, <1>6, NonceOthers DEF QueueStep
  <2> QED
    BY <2>1, <2>2, <2>3, <1>a DEF IInv, Others
<1>7. CASE VenueStep \/ \E r \in strays : VenueStray(r)
  <2>1. TypeOK' /\ FillsBounded'
    BY <1>0, <1>7, VenuePlaceType, VenueCancelType, VenueStrayType DEF VenueStep
  <2>2. Others'
    BY <1>0, <1>7, VenueOthers DEF VenueStep
  <2> QED
    BY <2>1, <2>2 DEF IInv, Others
<1>8. ASSUME NEW c \in Cloids, VenueFill(c) \/ IngestFill(c)
      PROVE  TypeOK' /\ FillsBounded' /\ Others'
  BY <1>0, <1>8, VenueFillType, IngestFillType, EventOthers
<1>9. ASSUME NEW c \in Cloids, NEW s \in Terminal \cup {"Acknowledged"}, IngestOrder(c, s)
      PROVE  TypeOK' /\ FillsBounded' /\ Others'
  <2>1. FillsBounded'
    <3>1. UNCHANGED xfill /\ UNCHANGED evFill /\ UNCHANGED ex
      BY <1>9 DEF IngestOrder
    <3> QED
      BY <3>1, <1>0 DEF FillsBounded
  <2> QED
    BY <2>1, <1>0, <1>9, IngestOrderType, EventOthers
<1>10. CASE Crash
  <2>1. UNCHANGED venueVars
    BY <1>10 DEF Crash
  <2> QED
    BY <2>1, <1>0, <1>10, <1>a, CrashType, CrashOthers DEF IInv, Others
<1>11. TypeOK' /\ FillsBounded' /\ Others'
  BY <1>1, <1>2, <1>3, <1>4, <1>5, <1>6, <1>7, <1>8, <1>9, <1>10 DEF Next, IInv, Others
<1> QED
  BY <1>11 DEF IInv, Others

LEMMA InductiveInvariant == Spec => []IInv
<1>1. Init => IInv
  BY InitIInv
<1>2. IInv /\ [Next]_vars => IInv'
  BY NextIInv, StutterIInv
<1> QED
  BY <1>1, <1>2, PTL DEF Spec

\* The model is type-correct for every order set, size and bound: no step of
\* submit_order, the worker, cancel_order, the sweep, the nonce queue, the venue
\* or the ingestor leaves the states the code can be in.
THEOREM TypeCorrect == Spec => []TypeOK
<1>1. IInv => TypeOK
  BY DEF IInv
<1> QED
  BY <1>1, InductiveInvariant, PTL

\* execute_durable_command never sends an order twice, however many leases
\* expire, answers are lost, calls time out or processes die.
THEOREM NoDoublePlacement == Spec => []AtMostOnePlacement
<1>1. IInv => AtMostOnePlacement
  BY DEF IInv, OneSender, AtMostOnePlacement
<1> QED
  BY <1>1, InductiveInvariant, PTL

-----------------------------------------------------------------------------
(* Closed rows stay closed *)

StaysClosed == \A c \in Cloids : status[c] \in Terminal \ {"Filled"} => status'[c] \in Terminal

LEMMA PersistStaysClosed ==
  ASSUME TypeOK, NEW c \in Cloids, NEW to \in Statuses, NEW amt, PersistTransition(c, to, amt)
  PROVE  StaysClosed
<1>1. status[c] \in Terminal => MergeTransport(status[c], to) = status[c]
  BY MergeTransportType DEF TypeOK
<1> QED
  BY <1>1 DEF PersistTransition, TypeOK, StaysClosed

LEMMA UnchangedStaysClosed ==
  ASSUME UNCHANGED status PROVE StaysClosed
BY DEF StaysClosed

LEMMA WorkerStaysClosed ==
  ASSUME TypeOK, WorkerStep \/ WorkerGiveUp \/ WorkerError
  PROVE  StaysClosed
<1>1. CASE WorkerApplyPlace
  <2>1. /\ worker.c \in Cloids /\ SubmitTarget(worker.ans.out) \in Statuses
    BY <1>1, BusyWorker, OutcomeTypes DEF WorkerApplyPlace
  <2>2. \/ UNCHANGED status
        \/ PersistTransition(worker.c, SubmitTarget(worker.ans.out), worker.ans.amt)
    BY <1>1 DEF WorkerApplyPlace
  <2> QED
    BY <2>1, <2>2, PersistStaysClosed, UnchangedStaysClosed
<1>2. CASE WorkerApplyCancel
  <2> DEFINE to == CancelTarget(worker.snap, worker.ans.out)
  <2>1. worker.c \in Cloids /\ to \in Statuses \cup {NoStatus}
    BY <1>2, BusyWorker, OutcomeTypes DEF WorkerApplyCancel
  <2>2. \/ UNCHANGED status
        \/ to # NoStatus /\ PersistTransition(worker.c, to, worker.ans.amt)
    BY <1>2 DEF WorkerApplyCancel
  <2> HIDE DEF to
  <2> QED
    BY <2>1, <2>2, PersistStaysClosed, UnchangedStaysClosed
<1>3. CASE ~WorkerApplyPlace /\ ~WorkerApplyCancel
  <2>1. UNCHANGED status
    BY <1>3 DEF WorkerStep, WorkerGiveUp, WorkerError, WorkerLoad, WorkerGate, WorkerSend,
                WorkerLookup, WorkerQuery, WorkerDefer
  <2> QED
    BY <2>1, UnchangedStaysClosed
<1> QED
  BY <1>1, <1>2, <1>3

LEMMA CancelStaysClosed ==
  ASSUME TypeOK, \/ \E c \in Cloids : CancelRequest(c)
                 \/ CancelSend \/ CancelGiveUp \/ CancelLookup \/ CancelApply
  PROVE  StaysClosed
<1>1. CASE CancelApply
  <2> DEFINE to == CancelTarget(canceller.snap, canceller.ans.out)
  <2>1. canceller.c \in Cloids /\ to \in Statuses \cup {NoStatus}
    BY <1>1, BusyCanceller, OutcomeTypes DEF CancelApply
  <2>2. \/ UNCHANGED status
        \/ to # NoStatus /\ PersistTransition(canceller.c, to, canceller.ans.amt)
    BY <1>1 DEF CancelApply
  <2> HIDE DEF to
  <2> QED
    BY <2>1, <2>2, PersistStaysClosed, UnchangedStaysClosed
<1>2. CASE ~CancelApply
  <2>1. UNCHANGED status
    BY <1>2 DEF CancelRequest, CancelSend, CancelGiveUp, CancelLookup
  <2> QED
    BY <2>1, UnchangedStaysClosed
<1> QED
  BY <1>1, <1>2

LEMMA SweepStaysClosed ==
  ASSUME TypeOK, \/ KillLatch \/ KillReset
                 \/ SweepStart \/ SweepSend \/ SweepGiveUp \/ SweepApply \/ SweepFinish
  PROVE  StaysClosed
<1>1. CASE SweepApply
  <2> DEFINE t == Head(sweeper.chunk)
             a == IF sweeper.outs = <<>> THEN NoAnswer ELSE Head(sweeper.outs)
             to == CancelTarget(t.snap, a.out)
  <2>1. sweeper.chunk \in Seq(Targets) /\ sweeper.chunk # <<>> /\ sweeper.outs \in Seq(Answers)
    BY <1>1, BusySweeper DEF SweepApply
  <2>2. t \in Targets /\ a \in Answers
    BY <2>1, Constants
  <2>3. t.c \in Cloids /\ t.snap \in Statuses /\ a.out \in Outcomes
    BY <2>2 DEF Targets, Answers
  <2>4. to \in Statuses \cup {NoStatus}
    BY <2>3, OutcomeTypes
  <2>5. UNCHANGED status \/ (to # NoStatus /\ PersistTransition(t.c, to, a.amt))
    BY <1>1 DEF SweepApply
  <2> HIDE DEF t, a, to
  <2> QED
    BY <2>3, <2>4, <2>5, PersistStaysClosed, UnchangedStaysClosed
<1>2. CASE ~SweepApply
  <2>1. UNCHANGED status
    BY <1>2 DEF KillLatch, KillReset, SweepStart, SweepSend, SweepGiveUp, SweepFinish
  <2> QED
    BY <2>1, UnchangedStaysClosed
<1> QED
  BY <1>1, <1>2

LEMMA IngestStaysClosed ==
  ASSUME TypeOK, NEW c \in Cloids,
         IngestFill(c) \/ \E s \in Terminal \cup {"Acknowledged"} : IngestOrder(c, s)
  PROVE  StaysClosed
<1>1. CASE IngestFill(c)
  <2>1. status[c] \in Terminal \ {"Filled"} => MergeFill(status[c], FillTotal(c), Size) \in Terminal
    BY DEF MergeFill, Terminal
  <2> QED
    BY <2>1, <1>1 DEF IngestFill, TypeOK, StaysClosed
<1>2. CASE \E s \in Terminal \cup {"Acknowledged"} : IngestOrder(c, s)
  <2>1. PICK s \in Terminal \cup {"Acknowledged"} : IngestOrder(c, s)
    BY <1>2
  <2>2. status[c] \in Terminal => MergeVenue(status[c], s) \in Terminal
    BY DEF MergeVenue, Terminal
  <2> QED
    BY <2>1, <2>2 DEF IngestOrder, TypeOK, StaysClosed
<1> QED
  BY <1>1, <1>2

\* persist_transition, the ingestor's order updates and its fills, in whatever
\* order they reach a row, never make a cancelled, rejected or expired row open.
THEOREM ClosedForGood == Spec => NeverReopened
<1>1. TypeOK /\ [Next]_vars => StaysClosed \/ UNCHANGED vars
  <2> SUFFICES ASSUME TypeOK, Next PROVE StaysClosed
    OBVIOUS
  <2>1. ASSUME NEW a \in Callers,
               (\E c \in Cloids : SubmitCheck(a, c)) \/ SubmitPersist(a) \/ SubmitExpose(a)
        PROVE  StaysClosed
    BY <2>1 DEF SubmitCheck, SubmitPersist, SubmitExpose, StaysClosed, TypeOK, Terminal, NoStatus
  <2>2. ASSUME NEW k \in Kinds, NEW c \in Cloids, Claim(k, c) PROVE StaysClosed
    BY <2>2, UnchangedStaysClosed DEF Claim
  <2>3. CASE QueueStep \/ NonceLose \/ VenueStep \/ \E r \in strays : VenueStray(r)
    <3>1. UNCHANGED status
      BY <2>3 DEF QueueStep, VenueStep, NoncePreflight, NonceSendPlace, NonceSendCancel,
                  NonceReply, NonceLose, VenuePlace, VenueCancel, VenueStray
    <3> QED
      BY <3>1, UnchangedStaysClosed
  <2>4. ASSUME NEW c \in Cloids, VenueFill(c) PROVE StaysClosed
    BY <2>4, UnchangedStaysClosed DEF VenueFill
  <2>5. CASE Crash
    BY <2>5, UnchangedStaysClosed DEF Crash
  <2> QED
    BY <2>1, <2>2, <2>3, <2>4, <2>5, WorkerStaysClosed, CancelStaysClosed, SweepStaysClosed,
       IngestStaysClosed DEF Next
<1>2. StaysClosed \/ UNCHANGED vars
        => [\A c \in Cloids : status[c] \in Terminal \ {"Filled"} => status'[c] \in Terminal]_vars
  BY DEF StaysClosed
<1> QED
  BY <1>1, <1>2, TypeCorrect, PTL DEF Spec, NeverReopened

(***************************************************************************)
(* The rows and the venue                                                  *)
(***************************************************************************)

\* The two conditions the code relies on and does not establish.
Aligned == ~AckCarriesFill /\ ~AssetGaps

\* The orders of which nothing works at the venue and nothing can be sent.
Over == {c \in Cloids : ~Exposed(c) /\ ~Fresh(c) /\ ~MaySend(c) /\ ~Queued(c)}

\* The one placement request of an order is at the head of the queue or astray,
\* and has not arrived; before it, the venue knows nothing of the order.
HeadSent(c) == nq # <<>> /\ stage = "sent" /\ nq[1].kind = "place" /\ nq[1].cs[1] = c
Astray(c) == \E r \in strays : r.kind = "place" /\ r.cs[1] = c

OnTheWire ==
  /\ \A c \in Cloids : HeadSent(c) => ~Astray(c) /\ ex[c] = "absent" /\ sends[c] = 1
  /\ \A c \in Cloids : Astray(c) => ex[c] = "absent" /\ sends[c] = 1
  /\ \A r \in strays : r.kind = "place" => Len(r.cs) = 1
  /\ \A c \in Cloids : sends[c] = 0 => ex[c] = "absent"
  /\ \A c \in Cloids :
       ex[c] = "absent" => xfill[c] = 0 /\ evFill[c] = 0 /\ evOrder[c] = {}
  /\ \A c \in Cloids : evOrder[c] \cap Terminal # {} => ex[c] # "live"
  /\ \A c \in Cloids : ex[c] = "filled" => xfill[c] = Size

\* A queued job is the one its owner waits for.
SweptOrders(cs) ==
  Len(cs) = Len(sweeper.chunk) /\ \A i \in DOMAIN cs : cs[i] = sweeper.chunk[i].c

JobsMatch ==
  /\ \A i \in DOMAIN nq :
       /\ nq[i].owner = "worker" => nq[i].kind = worker.kind /\ nq[i].cs = <<worker.c>>
       /\ nq[i].owner = "canceller" => nq[i].kind = "cancel" /\ nq[i].cs = <<canceller.c>>
       /\ nq[i].owner = "sweeper" => nq[i].kind = "cancel" /\ SweptOrders(nq[i].cs)
  /\ sweeper.pc = "send" => SweptOrders(sweeper.wires)

\* An outcome that ends an order is said of an order that is over, and an amount
\* of one the venue has closed, filled whole unless it is immediate-or-cancel.
Ends == {"filled", "rejected", "cancelled", "aborted"}
Truth(c, a) ==
  /\ a.out \in Ends => c \in Over
  /\ a.amt > 0 => ex[c] \in {"filled", "cancelled"} /\ (c \in Ioc \/ xfill[c] = Size)

ReplyTrue ==
  nq # <<>> /\ stage = "answered" =>
    /\ nq[1].kind = "place" => \A i \in DOMAIN reply : Truth(nq[1].cs[1], reply[i])
    /\ nq[1].kind = "cancel" =>
         /\ Len(reply) = Len(nq[1].cs)
         /\ \A i \in DOMAIN reply : Truth(nq[1].cs[i], reply[i])

WorkerTrue ==
  worker.pc # "idle" =>
    /\ worker.snap \in Open /\ Truth(worker.c, worker.ans)
    /\ worker.pc # "load" => status[worker.c] # NoStatus
    /\ worker.pc = "gate" => worker.kind = "place"

CancellerTrue ==
  canceller.pc # "idle" =>
    /\ canceller.snap \in Open /\ Truth(canceller.c, canceller.ans)
    /\ status[canceller.c] # NoStatus

SweeperTrue ==
  sweeper.pc \in {"send", "wait", "apply"} =>
    /\ \A i \in DOMAIN sweeper.chunk :
         sweeper.chunk[i].snap \in Open /\ status[sweeper.chunk[i].c] # NoStatus
    /\ \A i \in DOMAIN sweeper.outs :
         i \in DOMAIN sweeper.chunk /\ Truth(sweeper.chunk[i].c, sweeper.outs[i])
    /\ sweeper.pc # "apply" => sweeper.outs = <<>>

Told == ReplyTrue /\ WorkerTrue /\ CancellerTrue /\ SweeperTrue

\* Memory holds recorded orders only.
Recorded ==
  /\ \A c \in Cloids : mem[c] # NoStatus => status[c] # NoStatus
  /\ \A a \in Callers : caller[a].pc = "expose" => status[caller[a].c] # NoStatus

\* Closed rows and finished commands belong to orders that are over; the others
\* are reserved but for the lots whose fills were ingested.
RowTrue(c) ==
  /\ status[c] \in Terminal => c \in Over
  /\ cmd["cancel"][c] = "succeeded" \/ cmd["place"][c] \in {"failed", "cancelled"} => c \in Over
  /\ ex[c] = "live" \/ (c \notin Ioc /\ xfill[c] < Size) => filled[c] + evFill[c] <= xfill[c]
  /\ status[c] # NoStatus => c \in Over \/ reserved[c] + xfill[c] >= Size + evFill[c]

RowsTrue == \A c \in Cloids : RowTrue(c)

VInv == OnTheWire /\ JobsMatch /\ Told /\ Recorded /\ RowsTrue

-----------------------------------------------------------------------------
(* Frames *)

\* What every step leaves: orders that are over, that the venue closed, and rows.
Lasting ==
  /\ Over \subseteq Over'
  /\ \A c \in Cloids :
       /\ ex[c] \in {"filled", "cancelled"} => ex'[c] = ex[c] /\ xfill'[c] = xfill[c]
       /\ status[c] # NoStatus => status'[c] # NoStatus

LEMMA OverDef ==
  ASSUME NEW c \in Cloids
  PROVE  c \in Over <=> ~Exposed(c) /\ ~Fresh(c) /\ ~MaySend(c) /\ ~Queued(c)
BY DEF Over

LEMMA TruthLasts ==
  ASSUME Lasting, NEW c \in Cloids, NEW a, Truth(c, a)
  PROVE  Truth(c, a)'
BY DEF Lasting, Truth

LEMMA NoAnswerTrue ==
  ASSUME NEW c
  PROVE  /\ NoAnswer.out \notin Ends /\ NoAnswer.amt = 0
         /\ \A n : Ans("aborted", n).amt = n /\ Ans("rejected", n).amt = n
BY DEF NoAnswer, Ans, Ends

\* What the queue's head is about stays the same.
SameHead ==
  /\ nq = <<>> => stage = "queued"
  /\ nq # <<>> => nq' # <<>> /\ nq'[1].kind = nq[1].kind /\ nq'[1].cs = nq[1].cs

LEMMA HeadFacts ==
  ASSUME IInv
  PROVE  /\ nq \in Seq(Jobs)
         /\ nq # <<>> => Head(nq) = nq[1] /\ nq[1] \in Jobs /\ 1 \in DOMAIN nq
         /\ nq = <<>> => stage = "queued"
BY DEF IInv, TypeOK, QueueSane

LEMMA InFlightDef ==
  ASSUME nq \in Seq(Jobs), NEW c
  PROVE  InFlight(c) <=> HeadSent(c) \/ Astray(c)
BY DEF InFlight, HeadSent, Astray

LEMMA InFlightNow ==
  ASSUME IInv, NEW c
  PROVE  /\ InFlight(c) <=> HeadSent(c) \/ Astray(c)
         /\ Exposed(c) <=> ex[c] = "live" \/ HeadSent(c) \/ Astray(c)
BY InFlightDef, HeadFacts DEF Exposed

LEMMA InFlightNext ==
  ASSUME IInv', NEW c
  PROVE  /\ InFlight(c)' <=> HeadSent(c)' \/ Astray(c)'
         /\ Exposed(c)' <=> ex'[c] = "live" \/ HeadSent(c)' \/ Astray(c)'
<1>1. nq' \in Seq(Jobs)
  BY DEF IInv, TypeOK
<1>2. InFlight(c)' <=> HeadSent(c)' \/ Astray(c)'
  BY <1>1 DEF InFlight, HeadSent, Astray
<1> QED
  BY <1>2 DEF Exposed

\* A step that leaves the head's progress and its answer alone.
LEMMA ReplyKept ==
  ASSUME VInv, SameHead, UNCHANGED <<stage, reply>>, IInv, Lasting
  PROVE  ReplyTrue'
<1> SUFFICES ASSUME nq' # <<>>, stage' = "answered" PROVE ReplyTrue'
  BY DEF ReplyTrue
<1>1. /\ nq # <<>> /\ stage = "answered" /\ reply' = reply
      /\ nq'[1].kind = nq[1].kind /\ nq'[1].cs = nq[1].cs
  BY DEF SameHead
<1>2. nq[1] \in Jobs
  BY <1>1, HeadFacts
<1>3. ASSUME nq[1].kind = "place", NEW i \in DOMAIN reply
      PROVE  Truth(nq[1].cs[1], reply[i])'
  <2>1. Len(nq[1].cs) = 1 /\ nq[1].cs \in Seq(Cloids)
    BY <1>1, <1>2, <1>3, HeadFacts DEF IInv, QueueSane, Jobs
  <2>2. PICK x \in Cloids : x = nq[1].cs[1]
    BY <2>1
  <2>3. PICK a : a = reply[i]
    OBVIOUS
  <2>4. Truth(x, a)
    BY <1>1, <1>3, <2>2, <2>3 DEF VInv, Told, ReplyTrue
  <2>5. Truth(x, a)'
    BY <2>2, <2>4, TruthLasts
  <2> QED
    BY <1>1, <2>2, <2>3, <2>5 DEF Truth
<1>4. ASSUME nq[1].kind = "cancel"
      PROVE  /\ Len(reply) = Len(nq[1].cs)
             /\ \A i \in DOMAIN reply : Truth(nq[1].cs[i], reply[i])'
  <2>1. nq[1].cs \in Seq(Cloids) /\ reply \in Seq(Answers)
    BY <1>2 DEF Jobs, IInv, TypeOK
  <2>2. Len(reply) = Len(nq[1].cs)
    BY <1>1, <1>4 DEF VInv, Told, ReplyTrue
  <2>3. ASSUME NEW i \in DOMAIN reply PROVE Truth(nq[1].cs[i], reply[i])'
    <3>1. PICK x \in Cloids : x = nq[1].cs[i]
      BY <2>1, <2>2
    <3>2. PICK a : a = reply[i]
      OBVIOUS
    <3>3. Truth(x, a)
      BY <1>1, <1>4, <3>1, <3>2 DEF VInv, Told, ReplyTrue
    <3>4. Truth(x, a)'
      BY <3>1, <3>3, TruthLasts
    <3> QED
      BY <1>1, <3>1, <3>2, <3>4 DEF Truth
  <2> QED
    BY <2>2, <2>3
<1> QED
  BY <1>1, <1>3, <1>4 DEF ReplyTrue, Truth

\* A step that leaves head, strays, venue and sent orders alone.
LEMMA HeadKept ==
  ASSUME VInv, SameHead, UNCHANGED <<stage, reply, strays, venueVars, sends>>, IInv, Lasting
  PROVE  OnTheWire' /\ ReplyTrue'
<1>1. \A c \in Cloids : HeadSent(c)' => HeadSent(c)
  BY DEF SameHead, HeadSent
<1>2. \A c \in Cloids : Astray(c)' <=> Astray(c)
  BY DEF Astray
<1>3. OnTheWire'
  BY <1>1, <1>2 DEF OnTheWire, VInv
<1> QED
  BY <1>3, ReplyKept

\* A step that writes no row and moves nothing at the venue.
LEMMA RowsKept ==
  ASSUME VInv, Lasting, UNCHANGED <<rowVars, ex, xfill, evFill>>
  PROVE  RowsTrue'
BY DEF VInv, RowsTrue, RowTrue, Lasting

LEMMA WorkerKept ==
  ASSUME VInv, Lasting, IInv, worker' = worker
  PROVE  WorkerTrue'
<1> SUFFICES ASSUME worker.pc # "idle" PROVE WorkerTrue'
  BY DEF WorkerTrue
<1>1. worker.c \in Cloids
  BY BusyWorker DEF IInv
<1> QED
  BY <1>1 DEF VInv, Told, WorkerTrue, Truth, Lasting

LEMMA CancellerKept ==
  ASSUME VInv, Lasting, IInv, canceller' = canceller
  PROVE  CancellerTrue'
<1> SUFFICES ASSUME canceller.pc # "idle" PROVE CancellerTrue'
  BY DEF CancellerTrue
<1>1. canceller.c \in Cloids
  BY BusyCanceller DEF IInv
<1> QED
  BY <1>1 DEF VInv, Told, CancellerTrue, Truth, Lasting

LEMMA SweepTypes ==
  ASSUME TypeOK, sweeper.pc \in {"send", "wait", "apply"}
  PROVE  /\ sweeper.chunk \in Seq(Targets) /\ sweeper.wires \in Seq(Cloids)
         /\ sweeper.outs \in Seq(Answers)
         /\ \A i \in DOMAIN sweeper.chunk :
              sweeper.chunk[i].c \in Cloids /\ sweeper.chunk[i].snap \in Statuses
<1>1. /\ sweeper.chunk \in Seq(Targets) /\ sweeper.wires \in Seq(Cloids)
      /\ sweeper.outs \in Seq(Answers)
  BY BusySweeper
<1>2. ASSUME NEW i \in DOMAIN sweeper.chunk PROVE sweeper.chunk[i] \in Targets
  BY <1>1
<1> QED
  BY <1>1, <1>2 DEF Targets

LEMMA SweeperKept ==
  ASSUME VInv, Lasting, IInv, sweeper' = sweeper
  PROVE  SweeperTrue'
<1> SUFFICES ASSUME sweeper.pc \in {"send", "wait", "apply"} PROVE SweeperTrue'
  BY DEF SweeperTrue
<1>1. \A i \in DOMAIN sweeper.chunk : sweeper.chunk[i].c \in Cloids
  BY SweepTypes DEF IInv
<1> QED
  BY <1>1 DEF VInv, Told, SweeperTrue, Truth, Lasting

\* Jobs stay with owners that do not change what they wait for.
LEMMA JobsKept ==
  ASSUME VInv, IInv, nq' = nq,
         worker' = worker \/ worker.pc # "wait",
         canceller' = canceller \/ canceller.pc # "wait",
         sweeper' = sweeper \/ (sweeper.pc # "wait" /\ sweeper'.pc # "send")
  PROVE  JobsMatch'
BY DEF VInv, JobsMatch, SweptOrders, IInv, OwnersWait

LEMMA RecordedKept ==
  ASSUME VInv, Lasting, IInv, UNCHANGED <<mem, caller>>
  PROVE  Recorded'
<1>1. ASSUME NEW a \in Callers, caller[a].pc = "expose" PROVE caller[a].c \in Cloids
  <2>1. PICK s \in CallerStates : s = caller[a]
    BY DEF IInv, TypeOK
  <2> QED
    BY <1>1, <2>1 DEF CallerStates, Idle
<1> QED
  BY <1>1 DEF VInv, Recorded, Lasting

\* A row that takes a caller's copy, and what its command becomes.
LEMMA PersistTrue ==
  ASSUME VInv, Lasting, IInv, NEW c \in Cloids, NEW to \in Statuses, NEW amt \in Lots,
         PersistTransition(c, to, amt), UNCHANGED <<ex, xfill, evFill>>,
         status[c] # NoStatus,
         to \in Terminal => c \in Over,
         amt > 0 => ex[c] # "live" /\ (c \in Ioc \/ xfill[c] = Size),
         \A d \in Cloids :
           /\ cmd'["cancel"][d] = "succeeded" => cmd["cancel"][d] = "succeeded" \/ d \in Over
           /\ cmd'["place"][d] \in {"failed", "cancelled"} =>
                cmd["place"][d] \in {"failed", "cancelled"} \/ d \in Over
  PROVE  RowsTrue'
<1>1. /\ status \in [Cloids -> Statuses \cup {NoStatus}] /\ filled \in [Cloids -> Lots]
      /\ reserved \in [Cloids -> Lots]
  BY DEF IInv, TypeOK
<1> SUFFICES ASSUME NEW d \in Cloids PROVE RowTrue(d)'
  BY DEF RowsTrue
<1>2. RowTrue(d) /\ (d \in Over => d \in Over')
  BY DEF VInv, RowsTrue, Lasting
<1>3. CASE d # c
  <2>1. UNCHANGED <<status[d], filled[d], reserved[d], ex[d], xfill[d], evFill[d]>>
    BY <1>1, <1>3 DEF PersistTransition
  <2> QED
    BY <1>2, <2>1 DEF RowTrue
<1>4. CASE d = c
  <2>1. /\ status'[c] = MergeTransport(status[c], to)
        /\ filled'[c] = IF amt > filled[c] THEN amt ELSE filled[c]
        /\ reserved'[c] = IF MergeTransport(status[c], to) \in Terminal THEN 0 ELSE reserved[c]
    BY <1>1 DEF PersistTransition
  <2>2. status'[c] \in Terminal => c \in Over
    BY <1>2, <1>4, <2>1 DEF MergeTransport, RowTrue
  <2>3. ex'[c] = "live" \/ (c \notin Ioc /\ xfill'[c] < Size) => filled'[c] = filled[c]
    <3>1. amt \in Nat /\ filled[c] \in Nat /\ xfill[c] \in Nat /\ Size \in Nat
      BY Constants DEF IInv, TypeOK, Lots
    <3> QED
      BY <2>1, <3>1
  <2>4. c \in Over' \/ reserved'[c] + xfill'[c] >= Size + evFill'[c]
    BY <1>2, <1>4, <2>1, <2>2 DEF RowTrue
  <2>5. ex'[c] = "live" \/ (c \notin Ioc /\ xfill'[c] < Size) => filled'[c] + evFill'[c] <= xfill'[c]
    BY <1>2, <1>4, <2>3 DEF RowTrue
  <2> QED
    BY <1>2, <1>4, <2>2, <2>4, <2>5 DEF RowTrue
<1> QED
  BY <1>3, <1>4

\* What a step must keep for the orders that are over to stay over.
LEMMA OverStays ==
  ASSUME IInv, IInv', UNCHANGED <<nq, stage, strays, ex>>,
         \A d \in Cloids : Fresh(d)' => Fresh(d),
         \A d \in Cloids : MaySend(d)' => MaySend(d) \/ Fresh(d)
  PROVE  Over \subseteq Over'
<1>1. \A d \in Cloids : Queued(d)' <=> Queued(d)
  BY DEF Queued, Unsent
<1>2. \A d \in Cloids : Exposed(d)' <=> Exposed(d)
  <2> SUFFICES ASSUME NEW d \in Cloids PROVE Exposed(d)' <=> Exposed(d)
    OBVIOUS
  <2>1. HeadSent(d)' <=> HeadSent(d)
    BY DEF HeadSent
  <2>2. Astray(d)' <=> Astray(d)
    BY DEF Astray
  <2> QED
    BY <2>1, <2>2, InFlightNow, InFlightNext
<1> QED
  BY <1>1, <1>2 DEF Over

\* What the venue has ended is over: the one placement has arrived.
LEMMA VenueEnded ==
  ASSUME IInv, VInv, NEW c \in Cloids, ex[c] \notin {"absent", "live"}
  PROVE  c \in Over
<1>1. ~HeadSent(c) /\ ~Astray(c) /\ sends[c] # 0
  BY DEF VInv, OnTheWire
<1>2. ~Exposed(c)
  BY <1>1, InFlightNow
<1>3. ~Fresh(c) /\ ~MaySend(c) /\ ~Queued(c)
  BY <1>1 DEF IInv, OneSender
<1> QED
  BY <1>2, <1>3 DEF Over

LEMMA LookupTrue ==
  ASSUME IInv, VInv, NEW c \in Cloids, NEW a \in Lookup(c)
  PROVE  Truth(c, a)
<1>1. ex[c] \in {"absent", "live", "filled", "cancelled", "rejected"}
  BY DEF IInv, TypeOK
<1>2. CASE ex[c] \in {"absent", "live"}
  BY <1>2 DEF Lookup, Ans, Truth, Ends
<1>3. CASE ex[c] = "filled"
  <2>1. xfill[c] = Size
    BY <1>3 DEF VInv, OnTheWire
  <2> QED
    BY <1>3, <2>1, VenueEnded DEF Lookup, Ans, Truth
<1>4. CASE ex[c] \in {"cancelled", "rejected"}
  BY <1>4, VenueEnded DEF Lookup, Ans, Truth
<1> QED
  BY <1>1, <1>2, <1>3, <1>4

-----------------------------------------------------------------------------
(* Steps of callers and of the worker that leave queue and venue alone *)

\* A step that leaves rows, queue, venue and sent orders alone.
LEMMA CalmFrame ==
  ASSUME IInv, IInv', VInv, UNCHANGED <<rowVars, queueVars, venueVars, sends>>,
         \A d \in Cloids : MaySend(d)' => MaySend(d)
  PROVE  Lasting /\ OnTheWire' /\ ReplyTrue' /\ RowsTrue'
<1>1. Over \subseteq Over'
  BY OverStays DEF Fresh
<1>2. Lasting
  BY <1>1 DEF Lasting
<1>3. SameHead
  BY HeadFacts DEF SameHead
<1> QED
  BY <1>2, <1>3, HeadKept, RowsKept

LEMMA SubmitCheckRows ==
  ASSUME IInv, IInv', VInv, NEW a \in Callers, NEW c \in Cloids, SubmitCheck(a, c)
  PROVE  VInv' /\ Lasting
<1>1. Lasting /\ OnTheWire' /\ ReplyTrue' /\ RowsTrue'
  BY CalmFrame DEF SubmitCheck, MaySend
<1>2. WorkerTrue' /\ CancellerTrue' /\ SweeperTrue' /\ JobsMatch'
  BY <1>1, WorkerKept, CancellerKept, SweeperKept, JobsKept DEF SubmitCheck
<1>3. Recorded'
  <2>1. \A b \in Callers : caller'[b].pc = "expose" => caller'[b] = caller[b]
    BY DEF SubmitCheck, IInv, TypeOK
  <2> QED
    BY <2>1 DEF SubmitCheck, VInv, Recorded
<1> QED
  BY <1>1, <1>2, <1>3 DEF VInv, Told

LEMMA ExposeOf ==
  ASSUME IInv, NEW a \in Callers, caller[a].pc = "expose"
  PROVE  caller[a].c \in Cloids /\ caller[a].st \in {"Submitted", "Rejected"}
<1>1. PICK s \in CallerStates : s = caller[a]
  BY DEF IInv, TypeOK
<1> QED
  BY <1>1 DEF CallerStates, Idle

LEMMA SubmitExposeRows ==
  ASSUME IInv, IInv', VInv, NEW a \in Callers, SubmitExpose(a)
  PROVE  VInv' /\ Lasting
<1>1. Lasting /\ OnTheWire' /\ ReplyTrue' /\ RowsTrue'
  BY CalmFrame DEF SubmitExpose, MaySend
<1>2. WorkerTrue' /\ CancellerTrue' /\ SweeperTrue' /\ JobsMatch'
  BY <1>1, WorkerKept, CancellerKept, SweeperKept, JobsKept DEF SubmitExpose
<1>3. Recorded'
  <2>1. \A b \in Callers : caller'[b].pc = "expose" => caller'[b] = caller[b]
    BY DEF SubmitExpose, IInv, TypeOK, Idle
  <2>2. \A d \in Cloids : mem'[d] = mem[d] \/ d = caller[a].c
    BY DEF SubmitExpose, IInv, TypeOK
  <2>3. status[caller[a].c] # NoStatus
    BY DEF SubmitExpose, VInv, Recorded
  <2> QED
    BY <2>1, <2>2, <2>3 DEF SubmitExpose, VInv, Recorded
<1> QED
  BY <1>1, <1>2, <1>3 DEF VInv, Told

\* An order without a row is unknown to queue, wire and venue.
LEMMA Unknown ==
  ASSUME IInv, VInv, NEW c \in Cloids, status[c] = NoStatus
  PROVE  /\ Fresh(c) /\ ~MaySend(c) /\ ~Queued(c) /\ ~Exposed(c) /\ ex[c] = "absent"
         /\ xfill[c] = 0 /\ evFill[c] = 0
<1>1. Fresh(c) /\ sends[c] = 0 /\ ~MaySend(c) /\ ~Queued(c)
  BY DEF IInv, RowBeforeCommand, OneSender, Fresh
<1>2. ex[c] = "absent" /\ ~HeadSent(c) /\ ~Astray(c)
  BY <1>1 DEF VInv, OnTheWire
<1>3. ~Exposed(c)
  BY <1>2, InFlightNow
<1> QED
  BY <1>1, <1>2, <1>3 DEF VInv, OnTheWire

\* The inserted row: open, fully reserved and fresh, or closed and never sent.
LEMMA InsertRows ==
  ASSUME IInv, IInv', VInv, NEW c \in Cloids, status[c] = NoStatus,
         UNCHANGED <<filled, worker, queueVars, venueVars, sends>>,
         \/ /\ status' = [status EXCEPT ![c] = "Submitted"]
            /\ SetCommand("place", c, "pending") /\ reserved' = [reserved EXCEPT ![c] = Size]
         \/ /\ status' = [status EXCEPT ![c] = "Rejected"]
            /\ SetCommand("place", c, "failed") /\ reserved' = [reserved EXCEPT ![c] = 0]
  PROVE  Lasting /\ RowsTrue'
<1>0. /\ status \in [Cloids -> Statuses \cup {NoStatus}] /\ reserved \in [Cloids -> Lots]
      /\ "place" \in Kinds /\ "cancel" \in Kinds /\ {"pending", "failed"} \subseteq Commands
      /\ TypeOK
  BY DEF IInv, TypeOK, Kinds, Commands, Done
<1>1. /\ \A k \in Kinds, d \in Cloids : k # "place" \/ d # c => cmd'[k][d] = cmd[k][d]
      /\ cmd'["place"][c] = IF status'[c] = "Submitted" THEN "pending" ELSE "failed"
      /\ status'[c] \in {"Submitted", "Rejected"}
      /\ reserved'[c] = IF status'[c] = "Submitted" THEN Size ELSE 0
      /\ \A d \in Cloids \ {c} : status'[d] = status[d] /\ reserved'[d] = reserved[d]
  BY <1>0, SetCommandType
<1>2. Over \subseteq Over'
  <2>1. \A d \in Cloids : Fresh(d)' => Fresh(d)
    BY <1>0, <1>1, Unknown DEF Fresh
  <2> QED
    BY <2>1, OverStays DEF MaySend
<1>3. Lasting
  BY <1>0, <1>1, <1>2 DEF Lasting, NoStatus
<1>4. status'[c] = "Rejected" => c \in Over'
  <2> SUFFICES ASSUME status'[c] = "Rejected" PROVE c \in Over'
    OBVIOUS
  <2>1. ~Fresh(c)'
    BY <1>1 DEF Fresh
  <2>2. ~MaySend(c)' /\ ~Queued(c)'
    BY Unknown DEF MaySend, Queued, Unsent
  <2>3. ~HeadSent(c)' /\ ~Astray(c)' /\ ex'[c] # "live"
    BY Unknown, InFlightNow DEF HeadSent, Astray
  <2>4. ~Exposed(c)'
    BY <2>3, InFlightNext
  <2> QED
    BY <2>1, <2>2, <2>4 DEF Over
<1>5. ASSUME NEW d \in Cloids PROVE RowTrue(d)'
  <2>1. RowTrue(d) /\ (d \in Over => d \in Over')
    BY <1>2 DEF VInv, RowsTrue
  <2>2. CASE d # c
    BY <1>0, <1>1, <2>1, <2>2 DEF RowTrue
  <2>3. CASE d = c
    <3>1. /\ xfill'[c] = 0 /\ evFill'[c] = 0 /\ ex'[c] = "absent" /\ filled'[c] = filled[c]
          /\ xfill[c] = 0 /\ evFill[c] = 0 /\ Size \in Nat /\ Size > 0
      BY Unknown, Constants
    <3>2. c \in Over' \/ reserved'[c] + xfill'[c] >= Size + evFill'[c]
      BY <1>1, <1>4, <3>1
    <3>3. ex'[c] = "live" \/ (c \notin Ioc /\ xfill'[c] < Size) =>
            filled'[c] + evFill'[c] <= xfill'[c]
      BY <2>1, <2>3, <3>1 DEF RowTrue
    <3>4. /\ status'[c] \in Terminal => c \in Over'
          /\ cmd'["cancel"][c] = "succeeded" \/ cmd'["place"][c] \in {"failed", "cancelled"}
               => c \in Over'
      BY <1>0, <1>1, <1>4, <2>1, <2>3 DEF RowTrue, Terminal
    <3> QED
      BY <2>3, <3>2, <3>3, <3>4 DEF RowTrue
  <2> QED
    BY <2>2, <2>3
<1> QED
  BY <1>3, <1>5 DEF RowsTrue

LEMMA SubmitPersistRows ==
  ASSUME IInv, IInv', VInv, NEW a \in Callers, SubmitPersist(a)
  PROVE  VInv' /\ Lasting
<1> DEFINE c == caller[a].c
<1>0. c \in Cloids /\ caller[a].admitted \in BOOLEAN
  <2>1. PICK s \in CallerStates : s = caller[a]
    BY DEF IInv, TypeOK
  <2> QED
    BY <2>1 DEF CallerStates, Idle, SubmitPersist
<1>1. Lasting /\ RowsTrue'
  <2>1. CASE UNCHANGED rowVars
    BY <2>1, CalmFrame DEF SubmitPersist, MaySend
  <2>2. CASE ~UNCHANGED rowVars
    <3> HIDE DEF c
    <3>1. /\ status[c] = NoStatus
          /\ UNCHANGED <<filled, worker, queueVars, venueVars, sends>>
          /\ \/ /\ status' = [status EXCEPT ![c] = "Submitted"]
                /\ SetCommand("place", c, "pending")
                /\ reserved' = [reserved EXCEPT ![c] = Size]
             \/ /\ status' = [status EXCEPT ![c] = "Rejected"]
                /\ SetCommand("place", c, "failed")
                /\ reserved' = [reserved EXCEPT ![c] = 0]
      BY <2>2 DEF SubmitPersist, c
    <3> QED
      BY <1>0, <3>1, InsertRows
  <2> QED
    BY <2>1, <2>2
<1>2. OnTheWire' /\ ReplyTrue'
  BY <1>1, HeadKept, HeadFacts DEF SubmitPersist, SameHead
<1>3. WorkerTrue' /\ CancellerTrue' /\ SweeperTrue' /\ JobsMatch'
  BY <1>1, WorkerKept, CancellerKept, SweeperKept, JobsKept DEF SubmitPersist
<1>4. status'[c] # NoStatus
  BY <1>0 DEF SubmitPersist, IInv, TypeOK, NoStatus
<1>5. Recorded'
  <2>1. ASSUME NEW b \in Callers, caller'[b].pc = "expose"
        PROVE  caller'[b] = caller[b] \/ caller'[b].c = c
    <3>1. PICK st : caller' = [caller EXCEPT ![a] = IF caller[a].admitted
                                 THEN [pc |-> "expose", c |-> c, st |-> st] ELSE Idle]
      BY DEF SubmitPersist
    <3>2. CASE b = a
      BY <2>1, <3>1, <3>2 DEF IInv, TypeOK, Idle
    <3>3. CASE b # a
      BY <3>1, <3>3 DEF IInv, TypeOK
    <3> QED
      BY <3>2, <3>3
  <2>2. ASSUME NEW b \in Callers, caller'[b].pc = "expose" PROVE status'[caller'[b].c] # NoStatus
    BY <1>1, <1>4, <2>1, <2>2, ExposeOf DEF VInv, Recorded, Lasting
  <2> QED
    BY <1>1, <2>2 DEF SubmitPersist, VInv, Recorded, Lasting
<1> QED
  BY <1>1, <1>2, <1>3, <1>5 DEF VInv, Told

LEMMA ClaimRows ==
  ASSUME IInv, IInv', VInv, NEW k \in Kinds, NEW c \in Cloids, Claim(k, c)
  PROVE  VInv' /\ Lasting
<1>0. TypeOK /\ cmd \in [Kinds -> [Cloids -> Commands]]
  BY DEF IInv, TypeOK
<1>1. PICK expired \in SUBSET Expirable :
        LET was == IF <<k, c>> \in expired THEN "unknown" ELSE cmd[k][c]
        IN /\ was \in {"pending", "unknown"}
           /\ cmd' = [q \in Kinds |-> [d \in Cloids |->
                        IF q = k /\ d = c THEN "processing"
                        ELSE IF <<q, d>> \in expired THEN "unknown" ELSE cmd[q][d]]]
           /\ worker' = [pc |-> "load", kind |-> k, c |-> c, resolve |-> Resolves(was),
                         snap |-> "Pending", ans |-> NoAnswer]
  BY DEF Claim
<1>2. \A q \in Kinds, d \in Cloids :
        \/ cmd'[q][d] \in {"processing", "unknown"}
        \/ cmd'[q][d] = cmd[q][d]
  BY <1>1
<1>3. \A d \in Cloids : Fresh(d)' => Fresh(d)
  BY <1>2 DEF Fresh, Kinds
<1>4. \A d \in Cloids : MaySend(d)' => Fresh(d)
  <2> SUFFICES ASSUME NEW d \in Cloids, MaySend(d)' PROVE Fresh(d)
    OBVIOUS
  <2>1. k = "place" /\ d = c
    BY <1>1 DEF MaySend
  <2>2. cmd[k][c] = "pending"
    BY <1>1 DEF MaySend, Resolves
  <2> QED
    BY <2>1, <2>2 DEF Fresh
<1>5. Lasting
  BY <1>3, <1>4, OverStays DEF Claim, Lasting
<1>6. OnTheWire' /\ ReplyTrue'
  BY <1>5, HeadKept, HeadFacts DEF Claim, SameHead
<1>7. CancellerTrue' /\ SweeperTrue' /\ JobsMatch' /\ Recorded'
  BY <1>5, CancellerKept, SweeperKept, JobsKept, RecordedKept DEF Claim, Idle
<1>8. WorkerTrue'
  BY <1>1, NoAnswerTrue DEF WorkerTrue, Truth, Open, Statuses, Terminal
<1>9. RowsTrue'
  <2> SUFFICES ASSUME NEW d \in Cloids PROVE RowTrue(d)'
    BY DEF RowsTrue
  <2>1. RowTrue(d) /\ (d \in Over => d \in Over')
    BY <1>5 DEF VInv, RowsTrue, Lasting
  <2>2. /\ cmd'["cancel"][d] = "succeeded" => cmd["cancel"][d] = "succeeded"
        /\ cmd'["place"][d] \in {"failed", "cancelled"} => cmd'["place"][d] = cmd["place"][d]
    BY <1>2 DEF Kinds
  <2> QED
    BY <2>1, <2>2 DEF Claim, RowTrue
<1> QED
  BY <1>5, <1>6, <1>7, <1>8, <1>9 DEF VInv, Told

LEMMA WorkerLoadRows ==
  ASSUME IInv, IInv', VInv, WorkerLoad
  PROVE  VInv' /\ Lasting
<1>0. /\ worker.c \in Cloids /\ worker.kind \in Kinds /\ worker.pc = "load"
      /\ status \in [Cloids -> Statuses \cup {NoStatus}] /\ mem \in [Cloids -> Statuses \cup {NoStatus}]
      /\ TypeOK
  BY BusyWorker DEF IInv, TypeOK, WorkerLoad
<1>1. status[worker.c] \in Terminal \cup Open /\ status[worker.c] # NoStatus
  BY DEF WorkerLoad, Terminal, Open, NoStatus, Statuses
<1>2. \/ UNCHANGED cmd
      \/ /\ SetCommand("cancel", worker.c,
                       IF status[worker.c] = "Cancelled" THEN "succeeded" ELSE "failed")
         /\ status[worker.c] \in Terminal
  BY DEF WorkerLoad
<1>3. \A d \in Cloids :
        /\ cmd'["place"][d] = cmd["place"][d]
        /\ cmd'["cancel"][d] = "succeeded" => cmd["cancel"][d] = "succeeded" \/ d \in Over
  <2>1. CASE UNCHANGED cmd
    BY <2>1
  <2>2. CASE status[worker.c] \in Terminal /\ ~UNCHANGED cmd
    <3>1. worker.c \in Over
      BY <1>0, <2>2 DEF VInv, RowsTrue, RowTrue
    <3> QED
      BY <1>0, <1>2, <2>2, <3>1, SetCommandType DEF Kinds, Commands, Done
  <2> QED
    BY <1>2, <2>1, <2>2
<1>4. worker' = Idle \/ worker' = WorkerAt(AfterLoad, worker.resolve, status[worker.c], worker.ans)
  BY DEF WorkerLoad
<1>5. \A d \in Cloids : MaySend(d)' => MaySend(d)
  BY <1>0, <1>4 DEF MaySend, WorkerAt, AfterLoad, Idle
<1>6. Lasting
  BY <1>3, <1>5, OverStays DEF WorkerLoad, Lasting, Fresh
<1>7. OnTheWire' /\ ReplyTrue'
  BY <1>6, HeadKept, HeadFacts DEF WorkerLoad, SameHead
<1>8. CancellerTrue' /\ SweeperTrue' /\ JobsMatch'
  BY <1>6, CancellerKept, SweeperKept, JobsKept DEF WorkerLoad
<1>9. WorkerTrue'
  <2> SUFFICES ASSUME worker' # Idle PROVE WorkerTrue'
    BY DEF WorkerTrue, Idle
  <2>1. /\ worker'.snap = status[worker.c] /\ worker'.c = worker.c /\ worker'.ans = worker.ans
        /\ worker'.pc = AfterLoad /\ worker'.kind = worker.kind
    BY <1>4 DEF WorkerAt
  <2>2. status[worker.c] \in Open
    BY <1>1 DEF WorkerLoad
  <2>3. PICK x \in Answers : x = worker.ans
    BY <1>0, BusyWorker
  <2>4. PICK d \in Cloids : d = worker.c
    BY <1>0
  <2>5. Truth(d, x)'
    BY <1>0, <1>6, <2>3, <2>4, TruthLasts DEF VInv, Told, WorkerTrue
  <2> QED
    BY <1>1, <2>1, <2>2, <2>3, <2>4, <2>5 DEF WorkerTrue, WorkerLoad, Truth, AfterLoad
<1>10. Recorded'
  BY <1>0, <1>1 DEF WorkerLoad, VInv, Recorded
<1>11. RowsTrue'
  <2> SUFFICES ASSUME NEW d \in Cloids PROVE RowTrue(d)'
    BY DEF RowsTrue
  <2>1. RowTrue(d) /\ (d \in Over => d \in Over')
    BY <1>6 DEF VInv, RowsTrue, Lasting
  <2> QED
    BY <1>3, <2>1 DEF WorkerLoad, RowTrue
<1> QED
  BY <1>6, <1>7, <1>8, <1>9, <1>10, <1>11 DEF VInv, Told

\* A worker step that only changes what the worker knows.
LEMMA WorkerCalm ==
  ASSUME IInv, IInv', VInv,
         UNCHANGED <<rowVars, mem, caller, canceller, sweeper, queueVars, venueVars, sends>>,
         worker.pc # "wait", \A d \in Cloids : MaySend(d)' => MaySend(d), WorkerTrue'
  PROVE  VInv' /\ Lasting
<1>1. Lasting /\ OnTheWire' /\ ReplyTrue' /\ RowsTrue'
  BY CalmFrame
<1>2. CancellerTrue' /\ SweeperTrue' /\ JobsMatch' /\ Recorded'
  BY <1>1, CancellerKept, SweeperKept, JobsKept, RecordedKept
<1> QED
  BY <1>1, <1>2 DEF VInv, Told

\* What the worker learns at its next step.
LEMMA WorkerLearns ==
  ASSUME IInv, VInv, worker.pc # "idle", worker.pc # "load", UNCHANGED status,
         NEW pc \in {"query", "send", "wait", "lookup", "apply", "defer"},
         NEW b, NEW s \in Open, NEW x, worker' = WorkerAt(pc, b, s, x),
         NEW d \in Cloids, d = worker.c, Truth(d, x)'
  PROVE  WorkerTrue'
BY DEF VInv, Told, WorkerTrue, WorkerAt, Truth

LEMMA WorkerGateRows ==
  ASSUME IInv, IInv', VInv, WorkerGate
  PROVE  VInv' /\ Lasting
<1>0. worker.pc = "gate" /\ worker.kind = "place" /\ worker.c \in Cloids /\ worker.snap \in Open
  BY BusyWorker DEF WorkerGate, VInv, Told, WorkerTrue, IInv
<1>1. \A d \in Cloids : MaySend(d)' => MaySend(d)
  BY <1>0 DEF WorkerGate, MaySend, WorkerApplies, WorkerSends, WorkerAt
<1>2. CASE worker' = WorkerSends
  <2>1. Lasting
    BY <1>1, CalmFrame DEF WorkerGate
  <2>2. PICK x \in Answers : x = worker.ans
    BY <1>0, BusyWorker DEF IInv
  <2>3. PICK d \in Cloids : d = worker.c
    BY <1>0
  <2>4. Truth(d, x)'
    BY <1>0, <2>1, <2>2, <2>3, TruthLasts DEF VInv, Told, WorkerTrue
  <2>5. WorkerTrue'
    BY <1>0, <1>2, <2>2, <2>3, <2>4, WorkerLearns DEF WorkerGate, WorkerSends
  <2> QED
    BY <1>0, <1>1, <2>5, WorkerCalm DEF WorkerGate
<1>3. CASE worker' \in {WorkerApplies(Ans("aborted", 0)), WorkerApplies(Ans("rejected", 0))}
  <2>1. MaySend(worker.c)
    BY <1>0 DEF MaySend
  <2>2. /\ ~Fresh(worker.c) /\ ~Queued(worker.c) /\ sends[worker.c] = 0
    BY <1>0, <2>1 DEF IInv, OneSender
  <2>3. ex[worker.c] = "absent" /\ ~HeadSent(worker.c) /\ ~Astray(worker.c)
    BY <1>0, <2>2 DEF VInv, OnTheWire
  <2>4. PICK d \in Cloids : d = worker.c
    BY <1>0
  <2>5. ~Fresh(d)' /\ ~Queued(d)' /\ ~MaySend(d)'
    BY <1>3, <2>2, <2>4 DEF WorkerGate, Fresh, Queued, Unsent, MaySend, WorkerApplies, WorkerAt
  <2>6. ~HeadSent(d)' /\ ~Astray(d)' /\ ex'[d] # "live"
    BY <2>3, <2>4 DEF WorkerGate, HeadSent, Astray
  <2>7. ~Exposed(d)'
    BY <2>6, InFlightNext
  <2>8. d \in Over'
    BY <2>5, <2>7 DEF Over
  <2>9. PICK x : x \in {Ans("aborted", 0), Ans("rejected", 0)} /\ worker' = WorkerApplies(x)
    BY <1>3
  <2>10. Truth(d, x)'
    BY <2>8, <2>9 DEF Truth, Ans
  <2>11. WorkerTrue'
    BY <1>0, <2>4, <2>9, <2>10, WorkerLearns DEF WorkerGate, WorkerApplies
  <2> QED
    BY <1>0, <1>1, <2>11, WorkerCalm DEF WorkerGate
<1> QED
  BY <1>2, <1>3 DEF WorkerGate

LEMMA WorkerLookRows ==
  ASSUME IInv, IInv', VInv, WorkerLookup \/ WorkerQuery
  PROVE  VInv' /\ Lasting
<1>0. /\ worker.pc \in {"lookup", "query"} /\ worker.c \in Cloids /\ worker.snap \in Open
      /\ worker.ans \in Answers
  BY BusyWorker DEF WorkerLookup, WorkerQuery, VInv, Told, WorkerTrue, IInv
<1>1. PICK a \in Lookup(worker.c) :
        worker' \in {WorkerApplies(a), WorkerApplies(NoAnswer),
                     IF worker.kind = "cancel" THEN WorkerSends ELSE WorkerApplies(a)}
  BY DEF WorkerLookup, WorkerQuery
<1>2. \A d \in Cloids : MaySend(d)' => MaySend(d)
  BY <1>0, <1>1 DEF MaySend, WorkerApplies, WorkerSends, WorkerAt
<1>3. Lasting
  BY <1>2, CalmFrame DEF WorkerLookup, WorkerQuery
<1>4. PICK d \in Cloids : d = worker.c
  BY <1>0
<1>n. PICK n : n = NoAnswer
  OBVIOUS
<1>5. Truth(d, a)' /\ Truth(d, n)'
  <2>1. Truth(d, a) /\ Truth(d, n)
    BY <1>4, <1>n, LookupTrue, NoAnswerTrue DEF Truth
  <2> QED
    BY <1>3, <2>1, TruthLasts
<1>6. PICK x \in Answers : x = worker.ans
  BY <1>0
<1>7. Truth(d, x)'
  BY <1>0, <1>3, <1>4, <1>6, TruthLasts DEF VInv, Told, WorkerTrue
<1>8. WorkerTrue'
  <2>1. UNCHANGED status /\ worker.pc # "idle" /\ worker.pc # "load"
    BY <1>0 DEF WorkerLookup, WorkerQuery
  <2>2. CASE worker' = WorkerApplies(a)
    BY <1>0, <1>4, <1>5, <2>1, <2>2, WorkerLearns DEF WorkerApplies
  <2>3. CASE worker' = WorkerApplies(NoAnswer)
    BY <1>0, <1>4, <1>n, <1>5, <2>1, <2>3, WorkerLearns DEF WorkerApplies
  <2>4. CASE worker' = WorkerSends
    BY <1>0, <1>4, <1>6, <1>7, <2>1, <2>4, WorkerLearns DEF WorkerSends
  <2> QED
    BY <1>1, <2>2, <2>3, <2>4
<1> QED
  BY <1>0, <1>2, <1>8, WorkerCalm DEF WorkerLookup, WorkerQuery

LEMMA WorkerErrorRows ==
  ASSUME IInv, IInv', VInv, WorkerError
  PROVE  VInv' /\ Lasting
<1>1. WorkerTrue' /\ worker.pc # "wait" /\ \A d \in Cloids : MaySend(d)' => MaySend(d)
  BY DEF WorkerError, WorkerTrue, MaySend, Idle
<1> QED
  BY <1>1, WorkerCalm DEF WorkerError

-----------------------------------------------------------------------------
(* Steps that write what a task learned *)

\* What an outcome that does not end an order makes of a copy of it.
LEMMA OutcomeEnds ==
  ASSUME NEW out \in Outcomes, NEW snap \in Open
  PROVE  /\ SubmitTarget(out) \in Terminal => out \in Ends
         /\ CancelTarget(snap, out) \in Terminal => out \in Ends
         /\ SubmitCommand(out) \in {"failed", "cancelled"} => out \in Ends
         /\ SubmitCommand(out) \notin {"none", "pending"}
         /\ CancelCommand(out) = "succeeded" => out \in Ends
<1>1. SubmitTarget(out) \in Terminal => out \in Ends
  BY DEF SubmitTarget, Ends, Terminal, Outcomes
<1>2. CancelTarget(snap, out) \in Terminal => out \in Ends
  BY DEF CancelTarget, Ends, Terminal, Outcomes, NoStatus, Open
<1>3. SubmitCommand(out) \in {"failed", "cancelled"} => out \in Ends
  BY DEF SubmitCommand, Ends, Outcomes
<1>4. SubmitCommand(out) \notin {"none", "pending"}
  BY DEF SubmitCommand, Outcomes
<1>5. CancelCommand(out) = "succeeded" => out \in Ends
  BY DEF CancelCommand, Ends, Outcomes
<1> QED
  BY <1>1, <1>2, <1>3, <1>4, <1>5

\* A step that ends or keeps the right to send, and leaves queue and venue alone.
LEMMA StillFrame ==
  ASSUME IInv, IInv', VInv, UNCHANGED <<queueVars, venueVars, sends>>,
         \A d \in Cloids : status[d] # NoStatus => status'[d] # NoStatus,
         \A d \in Cloids : MaySend(d)' => MaySend(d),
         \A d \in Cloids : Fresh(d)' => Fresh(d)
  PROVE  Lasting /\ OnTheWire' /\ ReplyTrue'
<1>1. Lasting
  BY OverStays DEF Lasting
<1>2. SameHead
  BY HeadFacts DEF SameHead
<1> QED
  BY <1>1, <1>2, HeadKept

LEMMA PersistRecorded ==
  ASSUME TypeOK, NEW c \in Cloids, NEW to \in Statuses, NEW amt, PersistTransition(c, to, amt)
  PROVE  \A d \in Cloids : status[d] # NoStatus => status'[d] # NoStatus
<1>1. /\ status \in [Cloids -> Statuses \cup {NoStatus}]
      /\ MergeTransport(status[c], to) \in Statuses /\ NoStatus \notin Statuses
  BY MergeTransportType DEF TypeOK, NoStatus, Statuses
<1> QED
  BY <1>1 DEF PersistTransition

LEMMA PersistFrame ==
  ASSUME IInv, IInv', VInv, UNCHANGED <<queueVars, venueVars, sends>>,
         NEW c \in Cloids, NEW to \in Statuses, NEW a \in Answers,
         PersistTransition(c, to, a.amt), status[c] # NoStatus,
         Truth(c, a), to \in Terminal => a.out \in Ends,
         \A d \in Cloids : MaySend(d)' => MaySend(d),
         \A d \in Cloids : Fresh(d)' => Fresh(d),
         \A d \in Cloids :
           /\ cmd'["cancel"][d] = "succeeded" => cmd["cancel"][d] = "succeeded" \/ d \in Over
           /\ cmd'["place"][d] \in {"failed", "cancelled"} =>
                cmd["place"][d] \in {"failed", "cancelled"} \/ d \in Over
  PROVE  Lasting /\ OnTheWire' /\ ReplyTrue' /\ RowsTrue'
<1>1. a.amt \in Lots
  BY DEF Answers
<1>2. \A d \in Cloids : status[d] # NoStatus => status'[d] # NoStatus
  BY PersistRecorded DEF IInv
<1>3. Lasting /\ OnTheWire' /\ ReplyTrue'
  BY <1>2, StillFrame
<1>4. /\ to \in Terminal => c \in Over
      /\ a.amt > 0 => ex[c] # "live" /\ (c \in Ioc \/ xfill[c] = Size)
  BY DEF Truth
<1>5. RowsTrue'
  BY <1>1, <1>3, <1>4, PersistTrue
<1> QED
  BY <1>3, <1>5

LEMMA IdleWorkerTrue ==
  ASSUME IInv, VInv, worker.pc # "idle", worker.pc # "load",
         worker' = Idle \/ worker' = Deferred,
         \A d \in Cloids : status[d] # NoStatus => status'[d] # NoStatus
  PROVE  WorkerTrue' /\ \A d \in Cloids : MaySend(d)' => MaySend(d)
<1>1. worker.c \in Cloids
  BY BusyWorker DEF IInv
<1>2. WorkerTrue'
  BY <1>1, NoAnswerTrue DEF VInv, Told, WorkerTrue, Idle, Deferred, WorkerAt, Truth,
     Open, Statuses, Terminal
<1>3. \A d \in Cloids : MaySend(d)' => MaySend(d)
  BY DEF MaySend, Idle, Deferred, WorkerAt
<1> QED
  BY <1>2, <1>3

LEMMA WorkerApplyPlaceRows ==
  ASSUME IInv, IInv', VInv, WorkerApplyPlace
  PROVE  VInv' /\ Lasting
<1>0. /\ worker.pc = "apply" /\ worker.c \in Cloids /\ worker.snap \in Open
      /\ worker.ans \in Answers /\ worker.ans.out \in Outcomes
      /\ Truth(worker.c, worker.ans) /\ status[worker.c] # NoStatus /\ TypeOK
      /\ worker.snap \in Statuses
  BY BusyWorker DEF WorkerApplyPlace, VInv, Told, WorkerTrue, IInv
<1> DEFINE to == SubmitTarget(worker.ans.out)
<1>1. worker' = Idle \/ worker' = Deferred
  BY DEF WorkerApplyPlace
<1>2. \A d \in Cloids : status[d] # NoStatus => status'[d] # NoStatus
  BY <1>0, OutcomeTypes, PersistRecorded DEF WorkerApplyPlace
<1>3. WorkerTrue' /\ \A d \in Cloids : MaySend(d)' => MaySend(d)
  BY <1>0, <1>1, <1>2, IdleWorkerTrue
<1>4. Lasting /\ OnTheWire' /\ ReplyTrue' /\ RowsTrue'
  <2>1. CASE UNCHANGED rowVars
    BY <1>3, <2>1, CalmFrame DEF WorkerApplyPlace
  <2>2. CASE /\ PersistTransition(worker.c, to, worker.ans.amt)
             /\ SetCommand("place", worker.c, SubmitCommand(worker.ans.out))
    <3>1. PICK c \in Cloids, a \in Answers, t \in Statuses :
            c = worker.c /\ a = worker.ans /\ t = to
      BY <1>0, OutcomeTypes
    <3>2. a.out \in Outcomes /\ PersistTransition(c, t, a.amt)
      BY <1>0, <2>2, <3>1
    <3>3. Truth(c, a)
      BY <1>0, <3>1
    <3>4. /\ t \in Terminal => a.out \in Ends
          /\ SubmitCommand(a.out) \in {"failed", "cancelled"} => c \in Over
          /\ SubmitCommand(a.out) \notin {"none", "pending"}
      BY <1>0, <3>1, <3>3, OutcomeEnds DEF Truth
    <3>5. \A q \in Kinds, d \in Cloids :
            cmd'[q][d] = IF q = "place" /\ d = c THEN SubmitCommand(a.out) ELSE cmd[q][d]
      BY <1>0, <2>2, <3>1, OutcomeTypes, SetCommandType DEF Kinds
    <3>6. \A d \in Cloids :
            /\ cmd'["cancel"][d] = "succeeded" => cmd["cancel"][d] = "succeeded" \/ d \in Over
            /\ cmd'["place"][d] \in {"failed", "cancelled"} =>
                 cmd["place"][d] \in {"failed", "cancelled"} \/ d \in Over
            /\ Fresh(d)' => Fresh(d)
      BY <3>4, <3>5 DEF Fresh, Kinds
    <3> HIDE DEF to
    <3> QED
      BY <1>0, <1>3, <3>1, <3>2, <3>3, <3>4, <3>6, PersistFrame DEF WorkerApplyPlace
  <2> QED
    BY <2>1, <2>2 DEF WorkerApplyPlace
<1>5. CancellerTrue' /\ SweeperTrue' /\ JobsMatch' /\ Recorded'
  BY <1>0, <1>4, CancellerKept, SweeperKept, JobsKept, RecordedKept DEF WorkerApplyPlace
<1> QED
  BY <1>3, <1>4, <1>5 DEF VInv, Told

LEMMA WorkerApplyCancelRows ==
  ASSUME IInv, IInv', VInv, WorkerApplyCancel
  PROVE  VInv' /\ Lasting
<1>0. /\ worker.pc = "apply" /\ worker.c \in Cloids /\ worker.snap \in Open
      /\ worker.ans \in Answers /\ worker.ans.out \in Outcomes /\ worker.snap \in Statuses
      /\ Truth(worker.c, worker.ans) /\ status[worker.c] # NoStatus /\ TypeOK
  BY BusyWorker DEF WorkerApplyCancel, VInv, Told, WorkerTrue, IInv
<1> DEFINE to == CancelTarget(worker.snap, worker.ans.out)
<1>1. worker' = Idle \/ worker' = Deferred
  BY DEF WorkerApplyCancel
<1>2. to \in Statuses \cup {NoStatus}
  BY <1>0, OutcomeTypes
<1>3. \A d \in Cloids : status[d] # NoStatus => status'[d] # NoStatus
  BY <1>0, <1>2, PersistRecorded DEF WorkerApplyCancel
<1>4. WorkerTrue' /\ \A d \in Cloids : MaySend(d)' => MaySend(d)
  BY <1>0, <1>1, <1>3, IdleWorkerTrue
<1>5. Lasting /\ OnTheWire' /\ ReplyTrue' /\ RowsTrue'
  <2>1. CASE UNCHANGED rowVars
    BY <1>4, <2>1, CalmFrame DEF WorkerApplyCancel
  <2>2. CASE /\ to # NoStatus
             /\ PersistTransition(worker.c, to, worker.ans.amt)
             /\ SetCommand("cancel", worker.c, CancelCommand(worker.ans.out))
    <3>1. PICK c \in Cloids, a \in Answers, t \in Statuses :
            c = worker.c /\ a = worker.ans /\ t = to
      BY <1>0, <1>2, <2>2
    <3>2. a.out \in Outcomes /\ PersistTransition(c, t, a.amt)
      BY <1>0, <2>2, <3>1
    <3>3. Truth(c, a)
      BY <1>0, <3>1
    <3>4. /\ t \in Terminal => a.out \in Ends
          /\ CancelCommand(a.out) = "succeeded" => c \in Over
      BY <1>0, <3>1, <3>3, OutcomeEnds DEF Truth
    <3>5. \A q \in Kinds, d \in Cloids :
            cmd'[q][d] = IF q = "cancel" /\ d = c THEN CancelCommand(a.out) ELSE cmd[q][d]
      BY <1>0, <2>2, <3>1, OutcomeTypes, SetCommandType DEF Kinds
    <3>6. \A d \in Cloids :
            /\ cmd'["cancel"][d] = "succeeded" => cmd["cancel"][d] = "succeeded" \/ d \in Over
            /\ cmd'["place"][d] \in {"failed", "cancelled"} =>
                 cmd["place"][d] \in {"failed", "cancelled"} \/ d \in Over
            /\ Fresh(d)' => Fresh(d)
      BY <3>4, <3>5 DEF Fresh, Kinds
    <3> HIDE DEF to
    <3> QED
      BY <1>0, <1>4, <3>1, <3>2, <3>3, <3>4, <3>6, PersistFrame DEF WorkerApplyCancel
  <2> QED
    BY <2>1, <2>2 DEF WorkerApplyCancel
<1>6. CancellerTrue' /\ SweeperTrue' /\ JobsMatch' /\ Recorded'
  BY <1>0, <1>5, CancellerKept, SweeperKept, JobsKept, RecordedKept DEF WorkerApplyCancel
<1> QED
  BY <1>4, <1>5, <1>6 DEF VInv, Told

LEMMA WorkerDeferRows ==
  ASSUME IInv, IInv', VInv, WorkerDefer
  PROVE  VInv' /\ Lasting
<1>0. /\ worker.pc = "defer" /\ worker.c \in Cloids /\ worker.kind \in Kinds /\ TypeOK
      /\ "unknown" \in Commands
  BY BusyWorker DEF WorkerDefer, IInv, Commands
<1>1. WorkerTrue' /\ \A d \in Cloids : MaySend(d)' => MaySend(d)
  BY <1>0, IdleWorkerTrue DEF WorkerDefer
<1>2. \A q \in Kinds, d \in Cloids : cmd'[q][d] \in {"unknown", cmd[q][d]}
  BY <1>0, SetCommandType DEF WorkerDefer
<1>3. \A d \in Cloids : Fresh(d)' => Fresh(d)
  BY <1>2 DEF Fresh, Kinds
<1>4. Lasting /\ OnTheWire' /\ ReplyTrue'
  BY <1>1, <1>3, StillFrame DEF WorkerDefer
<1>5. RowsTrue'
  <2> SUFFICES ASSUME NEW d \in Cloids PROVE RowTrue(d)'
    BY DEF RowsTrue
  <2>1. RowTrue(d) /\ (d \in Over => d \in Over')
    BY <1>4 DEF VInv, RowsTrue, Lasting
  <2>2. cmd'["place"][d] \in {"unknown", cmd["place"][d]} /\ cmd'["cancel"][d] \in {"unknown", cmd["cancel"][d]}
    BY <1>2 DEF Kinds
  <2> QED
    BY <2>1, <2>2 DEF WorkerDefer, RowTrue
<1>6. CancellerTrue' /\ SweeperTrue' /\ JobsMatch' /\ Recorded'
  BY <1>0, <1>4, CancellerKept, SweeperKept, JobsKept, RecordedKept DEF WorkerDefer
<1> QED
  BY <1>1, <1>4, <1>5, <1>6 DEF VInv, Told

LEMMA CancelRequestRows ==
  ASSUME IInv, IInv', VInv, NEW c \in Cloids, CancelRequest(c)
  PROVE  VInv' /\ Lasting
<1>0. TypeOK /\ {"cancel"} \subseteq Kinds /\ "pending" \in Commands
  BY DEF IInv, Kinds, Commands
<1>1. \A q \in Kinds, d \in Cloids : cmd'[q][d] = cmd[q][d] \/ (q = "cancel" /\ cmd'[q][d] = "pending")
  BY <1>0, SetCommandType DEF CancelRequest
<1>2. \A d \in Cloids : Fresh(d)' => Fresh(d)
  BY <1>1 DEF Fresh, Kinds
<1>3. Lasting /\ OnTheWire' /\ ReplyTrue'
  BY <1>2, StillFrame DEF CancelRequest, MaySend
<1>4. RowsTrue'
  <2> SUFFICES ASSUME NEW d \in Cloids PROVE RowTrue(d)'
    BY DEF RowsTrue
  <2>1. RowTrue(d) /\ (d \in Over => d \in Over')
    BY <1>3 DEF VInv, RowsTrue, Lasting
  <2>2. cmd'["place"][d] = cmd["place"][d] /\ cmd'["cancel"][d] \in {"pending", cmd["cancel"][d]}
    BY <1>1 DEF Kinds
  <2> QED
    BY <2>1, <2>2 DEF CancelRequest, RowTrue
<1>5. CancellerTrue'
  BY NoAnswerTrue DEF CancelRequest, CancellerTrue, Truth
<1>6. WorkerTrue' /\ SweeperTrue' /\ Recorded'
  BY <1>3, WorkerKept, SweeperKept, RecordedKept DEF CancelRequest
<1>7. JobsMatch'
  BY JobsKept DEF CancelRequest, Idle
<1> QED
  BY <1>3, <1>4, <1>5, <1>6, <1>7 DEF VInv, Told

LEMMA CancelLookupRows ==
  ASSUME IInv, IInv', VInv, CancelLookup
  PROVE  VInv' /\ Lasting
<1>0. /\ canceller.pc = "lookup" /\ canceller.c \in Cloids /\ canceller.snap \in Open
      /\ status[canceller.c] # NoStatus
  BY BusyCanceller DEF CancelLookup, VInv, Told, CancellerTrue, IInv
<1>1. Lasting /\ OnTheWire' /\ ReplyTrue' /\ RowsTrue'
  BY CalmFrame DEF CancelLookup, MaySend
<1>2. PICK a \in Lookup(canceller.c) :
        canceller' = CancellerAt("apply", IF a.out = "missing" THEN NoAnswer ELSE a)
  BY DEF CancelLookup
<1>3. PICK d, n : d \in Cloids /\ d = canceller.c /\ n = IF a.out = "missing" THEN NoAnswer ELSE a
  BY <1>0
<1>4. Truth(d, n)'
  <2>1. Truth(d, n)
    BY <1>3, LookupTrue, NoAnswerTrue DEF Truth
  <2> QED
    BY <1>1, <1>3, <2>1, TruthLasts
<1>5. CancellerTrue'
  BY <1>0, <1>2, <1>3, <1>4 DEF CancelLookup, CancellerTrue, CancellerAt, Truth
<1>6. WorkerTrue' /\ SweeperTrue' /\ JobsMatch' /\ Recorded'
  BY <1>0, <1>1, WorkerKept, SweeperKept, JobsKept, RecordedKept DEF CancelLookup
<1> QED
  BY <1>1, <1>5, <1>6 DEF VInv, Told

LEMMA CancelApplyRows ==
  ASSUME IInv, IInv', VInv, CancelApply
  PROVE  VInv' /\ Lasting
<1>0. /\ canceller.pc = "apply" /\ canceller.c \in Cloids /\ canceller.snap \in Open
      /\ canceller.snap \in Statuses
      /\ canceller.ans \in Answers /\ canceller.ans.out \in Outcomes
      /\ Truth(canceller.c, canceller.ans) /\ status[canceller.c] # NoStatus /\ TypeOK
      /\ mem \in [Cloids -> Statuses \cup {NoStatus}]
  BY BusyCanceller DEF CancelApply, VInv, Told, CancellerTrue, IInv, TypeOK
<1> DEFINE to == CancelTarget(canceller.snap, canceller.ans.out)
<1>1. to \in Statuses \cup {NoStatus}
  BY <1>0, OutcomeTypes
<1>2. Lasting /\ OnTheWire' /\ ReplyTrue' /\ RowsTrue'
  <2>1. CASE UNCHANGED rowVars
    BY <2>1, CalmFrame DEF CancelApply, MaySend
  <2>2. CASE /\ to # NoStatus
             /\ PersistTransition(canceller.c, to, canceller.ans.amt)
             /\ \/ SetCommand("cancel", canceller.c, CancelCommand(canceller.ans.out))
                \/ UNCHANGED cmd
    <3>1. PICK c \in Cloids, a \in Answers, t \in Statuses :
            c = canceller.c /\ a = canceller.ans /\ t = to
      BY <1>0, <1>1, <2>2
    <3>2. a.out \in Outcomes /\ PersistTransition(c, t, a.amt)
      BY <1>0, <2>2, <3>1
    <3>3. Truth(c, a)
      BY <1>0, <3>1
    <3>4. /\ t \in Terminal => a.out \in Ends
          /\ CancelCommand(a.out) = "succeeded" => c \in Over
      BY <1>0, <3>1, <3>3, OutcomeEnds DEF Truth
    <3>5. \A q \in Kinds, d \in Cloids :
            \/ cmd'[q][d] = cmd[q][d]
            \/ q = "cancel" /\ d = c /\ cmd'[q][d] = CancelCommand(a.out)
      BY <1>0, <2>2, <3>1, OutcomeTypes, SetCommandType DEF Kinds
    <3>6. \A d \in Cloids :
            /\ cmd'["cancel"][d] = "succeeded" => cmd["cancel"][d] = "succeeded" \/ d \in Over
            /\ cmd'["place"][d] \in {"failed", "cancelled"} =>
                 cmd["place"][d] \in {"failed", "cancelled"} \/ d \in Over
            /\ Fresh(d)' => Fresh(d)
      BY <3>4, <3>5 DEF Fresh, Kinds
    <3>7. \A d \in Cloids : MaySend(d)' => MaySend(d)
      BY DEF CancelApply, MaySend
    <3> HIDE DEF to
    <3> QED
      BY <1>0, <3>1, <3>2, <3>3, <3>4, <3>6, <3>7, PersistFrame DEF CancelApply
  <2> QED
    BY <2>1, <2>2 DEF CancelApply
<1>3. WorkerTrue' /\ SweeperTrue' /\ JobsMatch'
  BY <1>0, <1>2, WorkerKept, SweeperKept, JobsKept DEF CancelApply
<1>4. CancellerTrue'
  BY DEF CancelApply, CancellerTrue, Idle
<1>5. Recorded'
  <2>1. \A d \in Cloids : mem'[d] = mem[d] \/ d = canceller.c
    BY <1>0 DEF CancelApply
  <2>2. \A d \in Cloids : status[d] # NoStatus => status'[d] # NoStatus
    BY <1>2 DEF Lasting
  <2>3. \A a \in Callers : caller'[a].pc = "expose" => status'[caller'[a].c] # NoStatus
    BY <2>2, ExposeOf DEF CancelApply, VInv, Recorded
  <2> QED
    BY <1>0, <2>1, <2>2, <2>3 DEF VInv, Recorded
<1> QED
  BY <1>2, <1>3, <1>4, <1>5 DEF VInv, Told

LEMMA KillRows ==
  ASSUME IInv, IInv', VInv, KillLatch \/ KillReset
  PROVE  VInv' /\ Lasting
<1>1. Lasting /\ OnTheWire' /\ ReplyTrue' /\ RowsTrue'
  BY CalmFrame DEF KillLatch, KillReset, MaySend
<1>2. WorkerTrue' /\ CancellerTrue' /\ JobsMatch' /\ Recorded'
  BY <1>1, WorkerKept, CancellerKept, JobsKept, RecordedKept DEF KillLatch, KillReset, Idle
<1>3. SweeperTrue'
  BY <1>1, SweeperKept DEF KillLatch, KillReset, SweeperTrue
<1> QED
  BY <1>1, <1>2, <1>3 DEF VInv, Told

\* Every asset has its index: the batch names the whole snapshot.
LEMMA SweepStartRows ==
  ASSUME IInv, IInv', VInv, Aligned, SweepStart
  PROVE  VInv' /\ Lasting
<1>1. Lasting /\ OnTheWire' /\ ReplyTrue' /\ RowsTrue'
  BY CalmFrame DEF SweepStart, MaySend
<1>2. PICK chunk \in Orderings({c \in Cloids : mem[c] \in Open}) :
        \/ sweeper' = Idle
        \/ sweeper' = SweeperAt("send", [i \in 1..Len(chunk) |->
                        [c |-> chunk[i], snap |-> mem[chunk[i]]]], chunk, <<>>, FALSE)
  BY DEF SweepStart, Aligned
<1>3. PICK m \in Nat : /\ chunk \in [1..m -> {c \in Cloids : mem[c] \in Open}]
                       /\ m = Cardinality({c \in Cloids : mem[c] \in Open})
  <2>1. IsFiniteSet({c \in Cloids : mem[c] \in Open})
    BY Constants, FS_Subset
  <2>2. Cardinality({c \in Cloids : mem[c] \in Open}) \in Nat
    BY <2>1, FS_CardinalityType
  <2> QED
    BY <2>2 DEF Orderings
<1>4. chunk \in Seq(Cloids) /\ Len(chunk) = m /\ DOMAIN chunk = 1..m
  <2>1. chunk \in [1..m -> Cloids]
    BY <1>3
  <2> QED
    BY <2>1
<1>5. CASE sweeper' = Idle
  <2>1. SweeperTrue' /\ JobsMatch'
    BY <1>5, JobsKept DEF SweeperTrue, SweepStart, Idle
  <2> QED
    BY <1>1, <2>1, WorkerKept, CancellerKept, RecordedKept DEF SweepStart, VInv, Told
<1>6. CASE sweeper' # Idle
  <2>1. /\ sweeper'.pc = "send" /\ sweeper'.wires = chunk /\ sweeper'.outs = <<>>
        /\ sweeper'.chunk = [i \in 1..m |-> [c |-> chunk[i], snap |-> mem[chunk[i]]]]
    BY <1>2, <1>4, <1>6 DEF SweeperAt
  <2>2. SweptOrders(sweeper.wires)'
    BY <1>4, <2>1 DEF SweptOrders
  <2>3. \A i \in 1..m : chunk[i] \in Cloids /\ mem[chunk[i]] \in Open
    BY <1>3
  <2>4. NoStatus \notin Open
    BY DEF Open, Statuses, NoStatus
  <2>5. \A i \in 1..m : status[chunk[i]] # NoStatus
    BY <2>3, <2>4 DEF VInv, Recorded
  <2>6. SweeperTrue'
    BY <2>1, <2>3, <2>5 DEF SweeperTrue, SweepStart
  <2>7. JobsMatch'
    <3>1. \A i \in DOMAIN nq : nq[i].owner # "sweeper"
      BY DEF SweepStart, IInv, OwnersWait
    <3> QED
      BY <2>2, <3>1 DEF SweepStart, VInv, JobsMatch
  <2> QED
    BY <1>1, <2>6, <2>7, WorkerKept, CancellerKept, RecordedKept DEF SweepStart, VInv, Told
<1> QED
  BY <1>5, <1>6

LEMMA SweepApplyRows ==
  ASSUME IInv, IInv', VInv, SweepApply
  PROVE  VInv' /\ Lasting
<1>0. /\ sweeper.pc = "apply" /\ sweeper.chunk # <<>>
      /\ sweeper.chunk \in Seq(Targets) /\ sweeper.outs \in Seq(Answers)
      /\ TypeOK /\ mem \in [Cloids -> Statuses \cup {NoStatus}]
  BY SweepTypes DEF SweepApply, IInv, TypeOK
<1>1. PICK c \in Cloids, s \in Open :
        /\ c = Head(sweeper.chunk).c /\ s = Head(sweeper.chunk).snap
        /\ status[c] # NoStatus /\ s \in Statuses
  <2>1. 1 \in DOMAIN sweeper.chunk /\ Head(sweeper.chunk) = sweeper.chunk[1]
    BY <1>0
  <2> QED
    BY <1>0, <2>1, SweepTypes DEF VInv, Told, SweeperTrue
<1>2. PICK a \in Answers : a = IF sweeper.outs = <<>> THEN NoAnswer ELSE Head(sweeper.outs)
  BY <1>0, Constants
<1>3. Truth(c, a) /\ a.out \in Outcomes
  <2>1. CASE sweeper.outs = <<>>
    BY <1>2, <2>1, NoAnswerTrue DEF Truth, Answers
  <2>2. CASE sweeper.outs # <<>>
    <3>1. 1 \in DOMAIN sweeper.outs /\ a = sweeper.outs[1] /\ c = sweeper.chunk[1].c
      BY <1>0, <1>1, <1>2, <2>2
    <3> QED
      BY <1>0, <3>1 DEF VInv, Told, SweeperTrue, Answers, Truth
  <2> QED
    BY <2>1, <2>2
<1>4. PICK t \in Statuses \cup {NoStatus} : t = CancelTarget(s, a.out)
  BY <1>1, <1>3, OutcomeTypes
<1>5. /\ IF t = NoStatus THEN UNCHANGED <<status, filled, reserved>>
         ELSE PersistTransition(c, t, a.amt)
      /\ mem' = [mem EXCEPT ![c] = IF t = NoStatus THEN s ELSE t]
  BY <1>1, <1>2, <1>4 DEF SweepApply
<1>6. \A d \in Cloids : (MaySend(d)' => MaySend(d)) /\ (Fresh(d)' => Fresh(d))
  BY DEF SweepApply, MaySend, Fresh
<1>7. Lasting /\ OnTheWire' /\ ReplyTrue' /\ RowsTrue'
  <2>1. CASE t = NoStatus
    BY <1>5, <1>6, <2>1, CalmFrame DEF SweepApply
  <2>2. CASE t # NoStatus
    <3>1. t \in Terminal => a.out \in Ends
      BY <1>3, <1>4, OutcomeEnds
    <3>2. t \in Statuses /\ PersistTransition(c, t, a.amt)
      BY <1>5, <2>2
    <3> QED
      BY <1>1, <1>3, <1>6, <3>1, <3>2, PersistFrame DEF SweepApply
  <2> QED
    BY <2>1, <2>2
<1>8. WorkerTrue' /\ CancellerTrue'
  BY <1>7, WorkerKept, CancellerKept DEF SweepApply
<1>9. /\ sweeper'.pc = "apply" /\ sweeper'.chunk = Tail(sweeper.chunk)
      /\ sweeper'.outs = IF sweeper.outs = <<>> THEN <<>> ELSE Tail(sweeper.outs)
  BY DEF SweepApply, SweeperAt
<1>10. JobsMatch'
  BY <1>0, <1>9, JobsKept DEF SweepApply
<1>11. SweeperTrue'
  <2>1. ASSUME NEW i \in DOMAIN sweeper'.chunk
        PROVE  i + 1 \in DOMAIN sweeper.chunk /\ sweeper'.chunk[i] = sweeper.chunk[i + 1]
    BY <1>0, <1>9
  <2>2. ASSUME NEW i \in DOMAIN sweeper'.chunk
        PROVE  sweeper'.chunk[i].snap \in Open /\ status'[sweeper'.chunk[i].c] # NoStatus
    <3>1. /\ sweeper.chunk[i + 1].snap \in Open /\ sweeper.chunk[i + 1].c \in Cloids
          /\ status[sweeper.chunk[i + 1].c] # NoStatus
      BY <1>0, <2>1, SweepTypes DEF VInv, Told, SweeperTrue
    <3> QED
      BY <1>7, <2>1, <3>1 DEF Lasting
  <2>3. ASSUME NEW i \in DOMAIN sweeper'.outs
        PROVE  i \in DOMAIN sweeper'.chunk /\ Truth(sweeper.chunk[i].c, sweeper.outs[i])'
    <3>1. i + 1 \in DOMAIN sweeper.outs /\ sweeper'.outs[i] = sweeper.outs[i + 1]
      BY <1>0, <1>9
    <3>2. i + 1 \in DOMAIN sweeper.chunk
      BY <1>0, <3>1 DEF VInv, Told, SweeperTrue
    <3>3. i \in DOMAIN sweeper'.chunk
      BY <1>0, <1>9, <3>1, <3>2
    <3>4. PICK d, x : d \in Cloids /\ d = sweeper.chunk[i + 1].c /\ x = sweeper.outs[i + 1]
      BY <1>0, <3>2, SweepTypes
    <3>5. Truth(d, x)
      BY <1>0, <3>1, <3>4 DEF VInv, Told, SweeperTrue
    <3>6. Truth(d, x)'
      BY <1>7, <3>4, <3>5, TruthLasts
    <3> QED
      BY <2>1, <3>1, <3>3, <3>4, <3>6 DEF Truth
  <2> QED
    BY <1>9, <2>2, <2>3 DEF SweeperTrue
<1>12. Recorded'
  <2>1. \A d \in Cloids : mem'[d] = mem[d] \/ d = c
    BY <1>0, <1>5
  <2>2. \A d \in Cloids : status[d] # NoStatus => status'[d] # NoStatus
    BY <1>7 DEF Lasting
  <2>3. \A b \in Callers : caller'[b].pc = "expose" => status'[caller'[b].c] # NoStatus
    BY <2>2, ExposeOf DEF SweepApply, VInv, Recorded
  <2> QED
    BY <1>1, <2>1, <2>2, <2>3 DEF VInv, Recorded
<1> QED
  BY <1>7, <1>8, <1>10, <1>11, <1>12 DEF VInv, Told

LEMMA SweepFinishRows ==
  ASSUME IInv, IInv', VInv, SweepFinish
  PROVE  VInv' /\ Lasting
<1>1. Lasting /\ OnTheWire' /\ ReplyTrue' /\ RowsTrue'
  BY CalmFrame DEF SweepFinish, MaySend
<1>2. WorkerTrue' /\ CancellerTrue' /\ JobsMatch' /\ Recorded'
  BY <1>1, WorkerKept, CancellerKept, JobsKept, RecordedKept DEF SweepFinish, Idle
<1>3. SweeperTrue'
  BY DEF SweepFinish, SweeperTrue, Idle
<1> QED
  BY <1>1, <1>2, <1>3 DEF VInv, Told

-----------------------------------------------------------------------------
(* The queue: joining it, leaving a job in it, its head's end *)

\* A job joins: only a placement whose owner may send it.
LEMMA JoinFrame ==
  ASSUME IInv, IInv', VInv, NEW kind \in Kinds, NEW cs \in Seq(Cloids), NEW o \in Owners,
         Enqueue(kind, cs, o),
         UNCHANGED <<rowVars, stage, reply, strays, venueVars, sends>>,
         kind = "place" => \E d \in Cloids : cs[1] = d /\ MaySend(d),
         \A d \in Cloids : MaySend(d)' => MaySend(d)
  PROVE  Lasting /\ OnTheWire' /\ ReplyTrue' /\ RowsTrue'
<1>1. /\ nq' \in Seq(Jobs) /\ nq \in Seq(Jobs)
      /\ Len(nq') = Len(nq) + 1 /\ DOMAIN nq' = 1..(Len(nq) + 1)
      /\ \A i \in DOMAIN nq : nq'[i] = nq[i]
      /\ nq'[Len(nq) + 1] = [kind |-> kind, cs |-> cs, owner |-> o]
  BY EnqueueType DEF IInv
<1>2. SameHead
  BY <1>1, HeadFacts DEF SameHead
<1>3. \A d \in Cloids : Queued(d)' => Queued(d) \/ MaySend(d)
  <2> SUFFICES ASSUME NEW d \in Cloids, NEW i \in DOMAIN nq', Unsent(i)', nq'[i].cs[1] = d
               PROVE  Queued(d) \/ MaySend(d)
    BY DEF Queued
  <2>1. CASE i \in DOMAIN nq
    BY <1>1, <2>1 DEF Queued, Unsent
  <2>2. CASE i \notin DOMAIN nq
    <3>1. i = Len(nq) + 1
      BY <1>1, <2>2
    <3> QED
      BY <1>1, <3>1 DEF Unsent
  <2> QED
    BY <2>1, <2>2
<1>4. \A d \in Cloids : Exposed(d)' => Exposed(d)
  <2> SUFFICES ASSUME NEW d \in Cloids PROVE Exposed(d)' => Exposed(d)
    OBVIOUS
  <2>1. HeadSent(d)' => HeadSent(d)
    BY <1>2 DEF SameHead, HeadSent
  <2>2. Astray(d)' <=> Astray(d)
    BY DEF Astray
  <2> QED
    BY <2>1, <2>2, InFlightNow, InFlightNext
<1>5. Over \subseteq Over'
  BY <1>3, <1>4 DEF Over, Fresh
<1>6. Lasting
  BY <1>5 DEF Lasting
<1> QED
  BY <1>2, <1>6, HeadKept, RowsKept

\* The joined job matches its owner if that owner owned none before.
LEMMA JoinJobs ==
  ASSUME IInv, VInv, NEW kind \in Kinds, NEW cs \in Seq(Cloids), NEW o \in Owners,
         Enqueue(kind, cs, o)
  PROVE  \A i \in DOMAIN nq' :
           nq'[i] = [kind |-> kind, cs |-> cs, owner |-> o] \/ (i \in DOMAIN nq /\ nq'[i] = nq[i])
<1>1. /\ DOMAIN nq' = 1..(Len(nq) + 1) /\ nq \in Seq(Jobs)
      /\ \A i \in DOMAIN nq : nq'[i] = nq[i]
      /\ nq'[Len(nq) + 1] = [kind |-> kind, cs |-> cs, owner |-> o]
  BY EnqueueType DEF IInv
<1> QED
  BY <1>1

LEMMA WorkerSendRows ==
  ASSUME IInv, IInv', VInv, WorkerSend
  PROVE  VInv' /\ Lasting
<1>0. /\ worker.pc = "send" /\ worker.c \in Cloids /\ worker.kind \in Kinds
      /\ worker.snap \in Open /\ worker.ans \in Answers /\ <<worker.c>> \in Seq(Cloids)
      /\ "worker" \in Owners
  BY BusyWorker DEF WorkerSend, VInv, Told, WorkerTrue, IInv, Owners
<1>1. worker' = WorkerAt("wait", FALSE, worker.snap, worker.ans)
  BY DEF WorkerSend
<1>2. \A d \in Cloids : MaySend(d)' => MaySend(d)
  BY <1>1 DEF MaySend, WorkerAt
<1>3. worker.kind = "place" => \E d \in Cloids : <<worker.c>>[1] = d /\ MaySend(d)
  BY <1>0 DEF MaySend
<1>4. Lasting /\ OnTheWire' /\ ReplyTrue' /\ RowsTrue'
  BY <1>0, <1>2, <1>3, JoinFrame DEF WorkerSend
<1>5. PICK d \in Cloids, x \in Answers : d = worker.c /\ x = worker.ans
  BY <1>0
<1>6. Truth(d, x)'
  BY <1>0, <1>4, <1>5, TruthLasts DEF VInv, Told, WorkerTrue
<1>7. WorkerTrue'
  BY <1>0, <1>1, <1>5, <1>6, WorkerLearns DEF WorkerSend
<1>8. CancellerTrue' /\ SweeperTrue' /\ Recorded'
  BY <1>4, CancellerKept, SweeperKept, RecordedKept DEF WorkerSend
<1>9. JobsMatch'
  <2>1. worker'.kind = worker.kind /\ worker'.c = worker.c
    BY <1>1 DEF WorkerAt
  <2>2. \A i \in DOMAIN nq : nq[i].owner # "worker"
    BY <1>0 DEF IInv, OwnersWait
  <2>3. \A i \in DOMAIN nq' :
          \/ nq'[i] = [kind |-> worker.kind, cs |-> <<worker.c>>, owner |-> "worker"]
          \/ i \in DOMAIN nq /\ nq'[i] = nq[i]
    BY <1>0, JoinJobs DEF WorkerSend
  <2>4. ASSUME NEW i \in DOMAIN nq'
        PROVE  /\ nq'[i].owner = "worker" => nq'[i].kind = worker.kind /\ nq'[i].cs = <<worker.c>>
               /\ nq'[i].owner = "canceller" => nq'[i].kind = "cancel" /\ nq'[i].cs = <<canceller.c>>
               /\ nq'[i].owner = "sweeper" => nq'[i].kind = "cancel" /\ SweptOrders(nq'[i].cs)
    BY <2>2, <2>3 DEF VInv, JobsMatch
  <2>5. sweeper.pc = "send" => SweptOrders(sweeper.wires)
    BY DEF VInv, JobsMatch
  <2> QED
    BY <2>1, <2>4, <2>5 DEF WorkerSend, JobsMatch, SweptOrders
<1> QED
  BY <1>4, <1>7, <1>8, <1>9 DEF VInv, Told

LEMMA CancelSendRows ==
  ASSUME IInv, IInv', VInv, CancelSend
  PROVE  VInv' /\ Lasting
<1>0. /\ canceller.pc = "send" /\ canceller.c \in Cloids /\ canceller.snap \in Open
      /\ <<canceller.c>> \in Seq(Cloids) /\ "canceller" \in Owners /\ "cancel" \in Kinds
      /\ status[canceller.c] # NoStatus
  BY BusyCanceller DEF CancelSend, VInv, Told, CancellerTrue, IInv, Owners, Kinds
<1>1. Lasting /\ OnTheWire' /\ ReplyTrue' /\ RowsTrue'
  BY <1>0, JoinFrame DEF CancelSend, MaySend
<1>2. CancellerTrue'
  BY <1>0, NoAnswerTrue DEF CancelSend, CancellerTrue, CancellerAt, Truth
<1>3. WorkerTrue' /\ SweeperTrue' /\ Recorded'
  BY <1>1, WorkerKept, SweeperKept, RecordedKept DEF CancelSend
<1>4. JobsMatch'
  <2>1. canceller'.c = canceller.c
    BY DEF CancelSend, CancellerAt
  <2>2. \A i \in DOMAIN nq : nq[i].owner # "canceller"
    BY <1>0 DEF IInv, OwnersWait
  <2>3. \A i \in DOMAIN nq' :
          \/ nq'[i] = [kind |-> "cancel", cs |-> <<canceller.c>>, owner |-> "canceller"]
          \/ i \in DOMAIN nq /\ nq'[i] = nq[i]
    BY <1>0, JoinJobs DEF CancelSend
  <2> QED
    BY <2>1, <2>2, <2>3 DEF CancelSend, VInv, JobsMatch, SweptOrders
<1> QED
  BY <1>1, <1>2, <1>3, <1>4 DEF VInv, Told

\* The sweep's snapshot and answers at another step.
LEMMA SweeperMoves ==
  ASSUME IInv, VInv, Lasting, sweeper.pc \in {"send", "wait"},
         sweeper'.pc \in {"wait", "apply"}, sweeper'.chunk = sweeper.chunk,
         sweeper'.outs = sweeper.outs
  PROVE  SweeperTrue'
<1>1. \A i \in DOMAIN sweeper.chunk :
        /\ sweeper.chunk[i].snap \in Open /\ sweeper.chunk[i].c \in Cloids
        /\ status'[sweeper.chunk[i].c] # NoStatus
  BY SweepTypes DEF IInv, VInv, Told, SweeperTrue, Lasting
<1>2. sweeper.outs = <<>>
  BY DEF VInv, Told, SweeperTrue
<1> QED
  BY <1>1, <1>2 DEF SweeperTrue

LEMMA SweepSendRows ==
  ASSUME IInv, IInv', VInv, SweepSend
  PROVE  VInv' /\ Lasting
<1>0. /\ sweeper.pc = "send" /\ sweeper.wires \in Seq(Cloids)
      /\ "sweeper" \in Owners /\ "cancel" \in Kinds
  BY SweepTypes DEF SweepSend, IInv, Owners, Kinds
<1>1. Lasting /\ OnTheWire' /\ ReplyTrue' /\ RowsTrue'
  BY <1>0, JoinFrame DEF SweepSend, MaySend
<1>2. /\ sweeper'.pc = "wait" /\ sweeper'.chunk = sweeper.chunk /\ sweeper'.outs = sweeper.outs
  BY DEF SweepSend, SweeperAt
<1>3. SweeperTrue'
  BY <1>0, <1>1, <1>2, SweeperMoves
<1>4. WorkerTrue' /\ CancellerTrue' /\ Recorded'
  BY <1>1, WorkerKept, CancellerKept, RecordedKept DEF SweepSend
<1>5. JobsMatch'
  <2>1. SweptOrders(sweeper.wires)
    BY <1>0 DEF VInv, JobsMatch
  <2>2. \A i \in DOMAIN nq : nq[i].owner # "sweeper"
    BY <1>0 DEF IInv, OwnersWait
  <2>3. \A i \in DOMAIN nq' :
          \/ nq'[i] = [kind |-> "cancel", cs |-> sweeper.wires, owner |-> "sweeper"]
          \/ i \in DOMAIN nq /\ nq'[i] = nq[i]
    BY <1>0, JoinJobs DEF SweepSend
  <2>4. ASSUME NEW i \in DOMAIN nq'
        PROVE  /\ nq'[i].owner = "worker" => nq'[i].kind = worker.kind /\ nq'[i].cs = <<worker.c>>
               /\ nq'[i].owner = "canceller" => nq'[i].kind = "cancel" /\ nq'[i].cs = <<canceller.c>>
               /\ nq'[i].owner = "sweeper" => nq'[i].kind = "cancel" /\ SweptOrders(nq'[i].cs)
    BY <2>1, <2>2, <2>3 DEF VInv, JobsMatch
  <2> QED
    BY <1>2, <2>4 DEF SweepSend, JobsMatch, SweptOrders
<1> QED
  BY <1>1, <1>3, <1>4, <1>5 DEF VInv, Told

\* A task that gives up leaves its job in the queue, or there is none.
LEMMA LeaveFrame ==
  ASSUME IInv, IInv', VInv, NEW o \in Owners, nq' = Disown(o),
         UNCHANGED <<rowVars, stage, reply, strays, venueVars, sends>>,
         \A d \in Cloids : MaySend(d)' => MaySend(d)
  PROVE  Lasting /\ OnTheWire' /\ ReplyTrue' /\ RowsTrue'
<1>1. /\ nq' \in Seq(Jobs) /\ nq \in Seq(Jobs) /\ Len(nq') = Len(nq) /\ DOMAIN nq' = DOMAIN nq
      /\ \A i \in DOMAIN nq : nq'[i].kind = nq[i].kind /\ nq'[i].cs = nq[i].cs
  BY DisownType DEF IInv, TypeOK
<1>2. SameHead
  BY <1>1, HeadFacts DEF SameHead
<1>3. \A d \in Cloids : Queued(d)' => Queued(d)
  BY <1>1 DEF Queued, Unsent
<1>4. \A d \in Cloids : Exposed(d)' => Exposed(d)
  <2> SUFFICES ASSUME NEW d \in Cloids PROVE Exposed(d)' => Exposed(d)
    OBVIOUS
  <2>1. HeadSent(d)' => HeadSent(d)
    BY <1>2 DEF SameHead, HeadSent
  <2>2. Astray(d)' <=> Astray(d)
    BY DEF Astray
  <2> QED
    BY <2>1, <2>2, InFlightNow, InFlightNext
<1>5. Over \subseteq Over'
  BY <1>3, <1>4 DEF Over, Fresh
<1>6. Lasting
  BY <1>5 DEF Lasting
<1> QED
  BY <1>2, <1>6, HeadKept, RowsKept

LEMMA GiveUpRows ==
  ASSUME IInv, IInv', VInv, WorkerGiveUp \/ CancelGiveUp \/ SweepGiveUp
  PROVE  VInv' /\ Lasting
<1>1. PICK o \in {"worker", "canceller", "sweeper"} :
        /\ nq' = Disown(o)
        /\ o # "worker" => worker' = worker
        /\ o # "canceller" => canceller' = canceller
        /\ o # "sweeper" => sweeper' = sweeper
        /\ o = "worker" => WorkerGiveUp
        /\ o = "canceller" => CancelGiveUp
        /\ o = "sweeper" => SweepGiveUp
  BY DEF WorkerGiveUp, CancelGiveUp, SweepGiveUp
<1>2. \A d \in Cloids : MaySend(d)' => MaySend(d)
  BY <1>1 DEF WorkerGiveUp, MaySend, WorkerAt
<1>3. UNCHANGED <<rowVars, mem, caller, stage, reply, strays, venueVars, sends>>
  BY DEF WorkerGiveUp, CancelGiveUp, SweepGiveUp
<1>4. o \in Owners
  BY DEF Owners
<1>5. Lasting /\ OnTheWire' /\ ReplyTrue' /\ RowsTrue'
  BY <1>1, <1>2, <1>3, <1>4, LeaveFrame
<1>6. WorkerTrue'
  <2>1. CASE o = "worker"
    <3>1. PICK d, n : d \in Cloids /\ d = worker.c /\ n = NoAnswer
      BY <1>1, <2>1, BusyWorker DEF WorkerGiveUp, IInv
    <3>2. Truth(d, n)'
      BY <3>1, NoAnswerTrue DEF Truth
    <3>3. worker.pc \in {"send", "wait"} /\ worker.snap \in Open
      BY <1>1, <2>1 DEF WorkerGiveUp, VInv, Told, WorkerTrue
    <3> QED
      BY <1>1, <1>3, <2>1, <3>1, <3>2, <3>3, WorkerLearns DEF WorkerGiveUp
  <2>2. CASE o # "worker"
    BY <1>1, <1>5, <2>2, WorkerKept
  <2> QED
    BY <2>1, <2>2
<1>7. CancellerTrue'
  <2>1. CASE o = "canceller"
    BY <1>1, <2>1, NoAnswerTrue DEF CancelGiveUp, CancellerAt, CancellerTrue, Truth, VInv, Told
  <2>2. CASE o # "canceller"
    BY <1>1, <1>5, <2>2, CancellerKept
  <2> QED
    BY <2>1, <2>2
<1>8. SweeperTrue'
  <2>1. CASE o = "sweeper"
    BY <1>1, <1>5, <2>1, SweeperMoves DEF SweepGiveUp, SweeperAt
  <2>2. CASE o # "sweeper"
    BY <1>1, <1>5, <2>2, SweeperKept
  <2> QED
    BY <2>1, <2>2
<1>9. JobsMatch'
  <2>1. /\ DOMAIN nq' = DOMAIN nq
        /\ \A i \in DOMAIN nq :
             /\ nq'[i].kind = nq[i].kind /\ nq'[i].cs = nq[i].cs
             /\ nq'[i].owner = IF nq[i].owner = o THEN "nobody" ELSE nq[i].owner
    BY <1>1, <1>4, DisownType DEF IInv
  <2>2. o = "sweeper" => sweeper'.pc # "send"
    BY <1>1 DEF SweepGiveUp, SweeperAt
  <2> QED
    BY <1>1, <2>1, <2>2 DEF VInv, JobsMatch, SweptOrders
<1> QED
  BY <1>3, <1>5, <1>6, <1>7, <1>8, <1>9, RecordedKept DEF VInv, Told

\* The head's job ends unsent, answered or unanswered: its request may go astray.
LEMMA EndFrame ==
  ASSUME IInv, IInv', VInv, nq # <<>>, nq' = Tail(nq), stage' = "queued", reply' = <<>>,
         strays' = strays \/ (stage = "sent" /\ strays' = strays \cup {Request(Head(nq))}),
         UNCHANGED <<rowVars, mem, caller, venueVars, sends>>,
         \A d \in Cloids : MaySend(d)' => MaySend(d)
  PROVE  /\ Lasting /\ OnTheWire' /\ ReplyTrue' /\ RowsTrue' /\ Recorded'
         /\ \A d \in Cloids : Queued(d)' => Queued(d)
<1>1. /\ nq \in Seq(Jobs) /\ Head(nq) = nq[1] /\ nq[1] \in Jobs
      /\ \A i \in DOMAIN nq' : i + 1 \in DOMAIN nq /\ i + 1 > 1 /\ nq'[i] = nq[i + 1]
  BY HeadFacts
<1>2. \A d \in Cloids : Queued(d)' => Queued(d)
  <2> SUFFICES ASSUME NEW d \in Cloids, NEW i \in DOMAIN nq', Unsent(i)', nq'[i].cs[1] = d
               PROVE  Queued(d)
    BY DEF Queued
  <2>1. Unsent(i + 1)
    BY <1>1 DEF Unsent
  <2> QED
    BY <1>1, <2>1 DEF Queued
<1>3. \A d \in Cloids : ~HeadSent(d)'
  BY DEF HeadSent
<1>4. Request(Head(nq)) = [kind |-> nq[1].kind, cs |-> nq[1].cs]
  BY <1>1 DEF Request
<1>5. \A d \in Cloids : Astray(d)' => Astray(d) \/ HeadSent(d)
  BY <1>1, <1>4 DEF Astray, HeadSent
<1>6. \A d \in Cloids : Exposed(d)' => Exposed(d)
  BY <1>3, <1>5, InFlightNow, InFlightNext
<1>7. Over \subseteq Over'
  BY <1>2, <1>6 DEF Over, Fresh
<1>8. Lasting
  BY <1>7 DEF Lasting
<1>9. \A r \in strays' : r.kind = "place" => Len(r.cs) = 1
  BY <1>1, <1>4 DEF VInv, OnTheWire, IInv, QueueSane
<1>10. OnTheWire'
  BY <1>3, <1>5, <1>9 DEF VInv, OnTheWire
<1>11. ReplyTrue'
  BY DEF ReplyTrue
<1> QED
  BY <1>2, <1>8, <1>10, <1>11, RowsKept, RecordedKept

\* Who waits for the head: its job is the head's.
LEMMA HeadOwner ==
  ASSUME IInv, VInv, nq # <<>>
  PROVE  /\ Head(nq).owner = "worker" =>
              worker.pc = "wait" /\ nq[1].kind = worker.kind /\ nq[1].cs = <<worker.c>>
         /\ Head(nq).owner = "canceller" =>
              canceller.pc = "wait" /\ nq[1].kind = "cancel" /\ nq[1].cs = <<canceller.c>>
         /\ Head(nq).owner = "sweeper" =>
              sweeper.pc = "wait" /\ nq[1].kind = "cancel" /\ SweptOrders(nq[1].cs)
         /\ Head(nq).owner = nq[1].owner /\ nq[1] \in Jobs
<1>1. Head(nq) = nq[1] /\ 1 \in DOMAIN nq /\ nq[1] \in Jobs
  BY HeadFacts
<1> QED
  BY <1>1 DEF VInv, JobsMatch, IInv, OwnersWait

\* What a busy worker and canceller learn when the head ends.
LEMMA FinishSteps ==
  ASSUME IInv, VInv, nq # <<>>, NEW outs \in Seq(Answers), NEW failed \in BOOLEAN,
         Finish(outs, failed)
  PROVE  /\ nq' = Tail(nq) /\ stage' = "queued" /\ reply' = <<>>
         /\ Head(nq).owner # "worker" => worker' = worker
         /\ Head(nq).owner # "canceller" => canceller' = canceller
         /\ Head(nq).owner # "sweeper" => sweeper' = sweeper
         /\ Head(nq).owner = "worker" =>
              \E pc \in {"lookup", "apply"} :
                worker' = WorkerAt(pc, worker.resolve, worker.snap,
                                   IF outs = <<>> THEN NoAnswer ELSE outs[1])
         /\ Head(nq).owner = "canceller" =>
              canceller' = CancellerAt("apply", IF outs = <<>> THEN NoAnswer ELSE outs[1])
         /\ Head(nq).owner = "sweeper" =>
              sweeper' = SweeperAt("apply", sweeper.chunk, <<>>, outs, ~failed)
         /\ \A d \in Cloids : MaySend(d)' => MaySend(d)
<1>0. outs # <<>> => Head(outs) = outs[1]
  OBVIOUS
<1>1. Head(nq).owner = "worker" =>
        \E pc \in {"lookup", "apply"} :
          worker' = WorkerAt(pc, worker.resolve, worker.snap,
                             IF outs = <<>> THEN NoAnswer ELSE outs[1])
  BY <1>0 DEF Finish
<1>2. /\ Head(nq).owner # "worker" => worker' = worker
      /\ Head(nq).owner = "canceller" =>
           canceller' = CancellerAt("apply", IF outs = <<>> THEN NoAnswer ELSE outs[1])
      /\ Head(nq).owner = "sweeper" =>
           sweeper' = SweeperAt("apply", sweeper.chunk, <<>>, outs, ~failed)
  BY <1>0 DEF Finish
<1>3. \A d \in Cloids : MaySend(d)' => MaySend(d)
  BY <1>1, <1>2 DEF MaySend, WorkerAt
<1> QED
  BY <1>1, <1>2, <1>3 DEF Finish

\* The head ends with outcomes that are true of its orders.
LEMMA FinishRows ==
  ASSUME IInv, IInv', VInv, nq # <<>>, NEW outs \in Seq(Answers), NEW failed \in BOOLEAN,
         Finish(outs, failed), UNCHANGED status, Lasting,
         OnTheWire', ReplyTrue', RowsTrue', Recorded',
         NEW job \in Jobs, job = nq[1],
         job.owner # "sweeper" /\ outs # <<>> => Truth(job.cs[1], outs[1])',
         job.owner = "sweeper" =>
           \A i \in DOMAIN outs : i \in DOMAIN job.cs /\ Truth(job.cs[i], outs[i])'
  PROVE  VInv' /\ Lasting
<1>1. job.owner \in Owners /\ job.cs \in Seq(Cloids) /\ Head(nq).owner = job.owner
  BY HeadOwner DEF Jobs
<1>2. PICK first : first = IF outs = <<>> THEN NoAnswer ELSE outs[1]
  OBVIOUS
<1>3. ASSUME NEW d \in Cloids, job.cs = <<d>>, job.owner # "sweeper" PROVE Truth(d, first)'
  <2>1. CASE outs = <<>>
    BY <1>2, <2>1, NoAnswerTrue DEF Truth
  <2>2. CASE outs # <<>>
    BY <1>2, <1>3, <2>2
  <2> QED
    BY <2>1, <2>2
<1>4. WorkerTrue'
  <2>1. CASE job.owner = "worker"
    <3>1. worker.pc = "wait" /\ job.cs = <<worker.c>> /\ worker.snap \in Open
      BY <1>1, <2>1, HeadOwner DEF VInv, Told, WorkerTrue
    <3>2. PICK d \in Cloids : d = worker.c
      BY <3>1, BusyWorker DEF IInv
    <3>3. Truth(d, first)'
      BY <1>3, <2>1, <3>1, <3>2
    <3>4. PICK pc \in {"lookup", "apply"} :
            worker' = WorkerAt(pc, worker.resolve, worker.snap, first)
      BY <1>1, <1>2, <2>1, FinishSteps
    <3> QED
      BY <3>1, <3>2, <3>3, <3>4, WorkerLearns
  <2>2. CASE job.owner # "worker"
    BY <1>1, <2>2, FinishSteps, WorkerKept
  <2> QED
    BY <2>1, <2>2
<1>5. CancellerTrue'
  <2>1. CASE job.owner = "canceller"
    <3>1. /\ canceller.pc = "wait" /\ job.cs = <<canceller.c>> /\ canceller.snap \in Open
          /\ status[canceller.c] # NoStatus
      BY <1>1, <2>1, HeadOwner DEF VInv, Told, CancellerTrue
    <3>2. PICK d \in Cloids : d = canceller.c
      BY <3>1, BusyCanceller DEF IInv
    <3>3. Truth(d, first)'
      BY <1>3, <2>1, <3>1, <3>2
    <3>4. canceller' = CancellerAt("apply", first)
      BY <1>1, <1>2, <2>1, FinishSteps
    <3> QED
      BY <3>1, <3>2, <3>3, <3>4 DEF CancellerTrue, CancellerAt, Truth
  <2>2. CASE job.owner # "canceller"
    BY <1>1, <2>2, FinishSteps, CancellerKept
  <2> QED
    BY <2>1, <2>2
<1>6. SweeperTrue'
  <2>1. CASE job.owner = "sweeper"
    <3>1. /\ sweeper.pc = "wait" /\ DOMAIN job.cs = DOMAIN sweeper.chunk
          /\ \A i \in DOMAIN job.cs : job.cs[i] = sweeper.chunk[i].c
      BY <1>1, <2>1, HeadOwner, SweepTypes DEF SweptOrders, IInv
    <3>2. /\ sweeper'.pc = "apply" /\ sweeper'.chunk = sweeper.chunk /\ sweeper'.outs = outs
      BY <1>1, <2>1, FinishSteps DEF SweeperAt
    <3>3. \A i \in DOMAIN sweeper.chunk :
            sweeper.chunk[i].snap \in Open /\ status'[sweeper.chunk[i].c] # NoStatus
      BY <3>1, SweepTypes DEF IInv, VInv, Told, SweeperTrue, Lasting
    <3>4. \A i \in DOMAIN outs :
            i \in DOMAIN sweeper.chunk /\ job.cs[i] = sweeper.chunk[i].c
              /\ Truth(job.cs[i], outs[i])'
      BY <2>1, <3>1
    <3> QED
      BY <3>2, <3>3, <3>4 DEF SweeperTrue, Truth
  <2>2. CASE job.owner # "sweeper"
    BY <1>1, <2>2, FinishSteps, SweeperKept
  <2> QED
    BY <2>1, <2>2
<1>7. JobsMatch'
  <2>1. \A i \in DOMAIN nq' : i + 1 \in DOMAIN nq /\ i + 1 # 1 /\ nq'[i] = nq[i + 1]
    BY FinishSteps, HeadFacts
  <2>2. ASSUME NEW i \in DOMAIN nq'
        PROVE  /\ nq'[i].owner = "worker" => worker' = worker
               /\ nq'[i].owner = "canceller" => canceller' = canceller
               /\ nq'[i].owner = "sweeper" => sweeper' = sweeper
    <3>1. nq[i + 1].owner = nq[1].owner => nq[1].owner = "nobody"
      BY <2>1, HeadFacts DEF IInv, OwnersWait
    <3> QED
      BY <1>1, <2>1, <3>1, FinishSteps
  <2>3. sweeper'.pc = "send" => sweeper' = sweeper
    BY FinishSteps DEF SweeperAt
  <2>4. ASSUME NEW i \in DOMAIN nq'
        PROVE  /\ nq'[i].owner = "worker" => nq'[i].kind = worker.kind /\ nq'[i].cs = <<worker.c>>
               /\ nq'[i].owner = "canceller" => nq'[i].kind = "cancel" /\ nq'[i].cs = <<canceller.c>>
               /\ nq'[i].owner = "sweeper" => nq'[i].kind = "cancel" /\ SweptOrders(nq'[i].cs)
    BY <2>1 DEF VInv, JobsMatch
  <2>5. sweeper.pc = "send" => SweptOrders(sweeper.wires)
    BY DEF VInv, JobsMatch
  <2> QED
    BY <2>2, <2>3, <2>4, <2>5 DEF JobsMatch, SweptOrders
<1> QED
  BY <1>4, <1>5, <1>6, <1>7 DEF VInv, Told

LEMMA NoncePreflightRows ==
  ASSUME IInv, IInv', VInv, NoncePreflight
  PROVE  VInv' /\ Lasting
<1>0. /\ nq # <<>> /\ stage = "queued" /\ nq[1].kind = "place" /\ nq[1] \in Jobs
      /\ Head(nq) = nq[1] /\ 1 \in DOMAIN nq /\ nq \in Seq(Jobs)
  BY HeadFacts DEF NoncePreflight
<1>1. CASE /\ stage' = "cleared" /\ UNCHANGED <<nq, reply, worker, canceller, sweeper>>
  <2>1. \A d \in Cloids : HeadSent(d)' <=> HeadSent(d)
    BY <1>0, <1>1 DEF HeadSent
  <2>2. \A d \in Cloids : Astray(d)' <=> Astray(d)
    BY DEF NoncePreflight, Astray
  <2>3. \A d \in Cloids : Queued(d)' <=> Queued(d)
    BY <1>0, <1>1 DEF Queued, Unsent
  <2>4. Over \subseteq Over'
    BY <1>1, <2>1, <2>2, <2>3, InFlightNow, InFlightNext
    DEF NoncePreflight, Over, Fresh, MaySend
  <2>5. Lasting
    BY <2>4 DEF NoncePreflight, Lasting
  <2>6. OnTheWire'
    BY <2>1, <2>2 DEF NoncePreflight, VInv, OnTheWire
  <2>7. ReplyTrue'
    BY <1>1 DEF ReplyTrue
  <2>8. RowsTrue' /\ WorkerTrue' /\ CancellerTrue' /\ SweeperTrue' /\ JobsMatch' /\ Recorded'
    BY <1>1, <2>5, RowsKept, WorkerKept, CancellerKept, SweeperKept, JobsKept, RecordedKept
    DEF NoncePreflight
  <2> QED
    BY <2>5, <2>6, <2>7, <2>8 DEF VInv, Told
<1>2. CASE Finish(<<Ans("aborted", 0)>>, FALSE)
  <2>a. PICK x \in Answers : x = Ans("aborted", 0)
    BY Constants DEF Ans, Answers, Outcomes
  <2>1. PICK outs \in Seq(Answers) : outs = <<Ans("aborted", 0)>>
    <3>1. <<x>> \in Seq(Answers)
      OBVIOUS
    <3> QED
      BY <2>a, <3>1
  <2>2. Finish(outs, FALSE)
    BY <1>2, <2>1
  <2>3. /\ nq' = Tail(nq) /\ stage' = "queued" /\ reply' = <<>>
        /\ \A d \in Cloids : MaySend(d)' => MaySend(d)
    BY <1>0, <2>2, FinishSteps
  <2>4. /\ Lasting /\ OnTheWire' /\ ReplyTrue' /\ RowsTrue' /\ Recorded'
        /\ \A d \in Cloids : Queued(d)' => Queued(d)
    BY <1>0, <2>3, EndFrame DEF NoncePreflight
  <2>5. PICK job \in Jobs : job = nq[1]
    BY <1>0
  <2>6. PICK d \in Cloids : job.cs = <<d>>
    <3>1. job.cs \in Seq(Cloids) /\ Len(job.cs) = 1
      BY <1>0, <2>5 DEF IInv, QueueSane, Jobs
    <3>2. job.cs[1] \in Cloids /\ job.cs = <<job.cs[1]>>
      BY <3>1
    <3> QED
      BY <3>2
  <2>7. Unsent(1) /\ Queued(d)
    BY <1>0, <2>5, <2>6 DEF Queued, Unsent
  <2>8. ~Queued(d)'
    <3> SUFFICES ASSUME NEW i \in DOMAIN nq', Unsent(i)', nq'[i].cs[1] = d PROVE FALSE
      BY DEF Queued
    <3>1. i + 1 \in DOMAIN nq /\ i + 1 # 1 /\ nq'[i] = nq[i + 1]
      BY <1>0, <2>3
    <3>2. Unsent(i + 1) /\ nq[i + 1].cs[1] = nq[1].cs[1]
      BY <2>5, <2>6, <3>1 DEF Unsent
    <3> QED
      BY <1>0, <2>7, <3>1, <3>2 DEF IInv, OneSender
  <2>9. ~Fresh(d) /\ ~MaySend(d) /\ sends[d] = 0
    BY <2>7 DEF IInv, OneSender
  <2>10. ex[d] = "absent" /\ ~Astray(d)
    BY <2>9 DEF VInv, OnTheWire
  <2>11. ~HeadSent(d)' /\ ~Astray(d)' /\ ex'[d] # "live"
    BY <2>3, <2>10 DEF NoncePreflight, HeadSent, Astray
  <2>12. d \in Over'
    BY <2>3, <2>8, <2>9, <2>11, InFlightNext DEF Over, NoncePreflight, Fresh
  <2>13. Truth(job.cs[1], outs[1])'
    BY <2>1, <2>6, <2>12 DEF Truth, Ans
  <2>14. job.owner # "sweeper"
    BY <1>0, <2>5, HeadOwner
  <2> QED
    BY <1>0, <2>2, <2>4, <2>5, <2>13, <2>14, FinishRows DEF NoncePreflight
<1> QED
  BY <1>1, <1>2 DEF NoncePreflight

LEMMA NonceReplyRows ==
  ASSUME IInv, IInv', VInv, NonceReply
  PROVE  VInv' /\ Lasting
<1>0. /\ nq # <<>> /\ stage = "answered" /\ nq[1] \in Jobs
      /\ Head(nq) = nq[1] /\ 1 \in DOMAIN nq /\ nq \in Seq(Jobs) /\ reply \in Seq(Answers)
  BY HeadFacts DEF NonceReply, IInv, TypeOK
<1>1. PICK job \in Jobs : job = nq[1]
  BY <1>0
<1>2. PICK outs \in Seq(Answers) :
        /\ Finish(outs, FALSE)
        /\ \/ outs = reply
           \/ outs = <<>>
           \/ job.owner # "sweeper" /\ \E out \in {"garbled", "opaque"} : outs = <<Ans(out, 0)>>
  <2>1. \A out \in {"garbled", "opaque"} : <<Ans(out, 0)>> \in Seq(Answers)
    BY Constants DEF Ans, Answers, Outcomes
  <2>2. CASE Finish(reply, FALSE)
    BY <1>0, <2>2
  <2>3. CASE Finish(IF Head(nq).owner = "sweeper" THEN <<>> ELSE <<Ans("garbled", 0)>>, FALSE)
    <3>1. CASE job.owner = "sweeper"
      <4>1. Finish(<<>>, FALSE)
        BY <1>0, <1>1, <2>3, <3>1
      <4>2. <<>> \in Seq(Answers)
        OBVIOUS
      <4> QED
        BY <4>1, <4>2
    <3>2. CASE job.owner # "sweeper"
      <4>1. Finish(<<Ans("garbled", 0)>>, FALSE)
        BY <1>0, <1>1, <2>3, <3>2
      <4> QED
        BY <2>1, <3>2, <4>1
    <3> QED
      BY <3>1, <3>2
  <2>4. CASE Head(nq).kind = "place" /\ Finish(<<Ans("opaque", 0)>>, FALSE)
    BY <1>0, <1>1, <2>1, <2>4, HeadOwner
  <2> QED
    BY <2>2, <2>3, <2>4 DEF NonceReply
<1>3. /\ nq' = Tail(nq) /\ stage' = "queued" /\ reply' = <<>>
      /\ \A d \in Cloids : MaySend(d)' => MaySend(d)
  BY <1>0, <1>2, FinishSteps
<1>4. Lasting /\ OnTheWire' /\ ReplyTrue' /\ RowsTrue' /\ Recorded'
  BY <1>0, <1>3, EndFrame DEF NonceReply
<1>5. ASSUME outs = reply, NEW i \in DOMAIN outs, job.kind = "place" \/ i \in DOMAIN job.cs
      PROVE  Truth(IF job.kind = "place" THEN job.cs[1] ELSE job.cs[i], outs[i])'
  <2>1. job.cs \in Seq(Cloids) /\ (job.kind = "place" => Len(job.cs) = 1)
    BY <1>0, <1>1 DEF Jobs, IInv, QueueSane
  <2>2. PICK d, x :
          /\ d \in Cloids
          /\ d = IF job.kind = "place" THEN job.cs[1] ELSE job.cs[i]
          /\ x = outs[i]
    BY <1>5, <2>1
  <2>3. job.kind \in {"place", "cancel"}
    BY DEF Jobs, Kinds
  <2>4. Truth(d, x)
    BY <1>0, <1>1, <1>5, <2>2, <2>3 DEF VInv, Told, ReplyTrue
  <2>5. Truth(d, x)'
    BY <1>4, <2>2, <2>4, TruthLasts
  <2> QED
    BY <2>2, <2>5
<1>6. job.kind = "cancel" /\ outs = reply => DOMAIN outs = DOMAIN job.cs
  BY <1>0, <1>1 DEF VInv, Told, ReplyTrue, Jobs
<1>7. job.owner # "sweeper" /\ outs # <<>> => Truth(job.cs[1], outs[1])'
  <2> SUFFICES ASSUME job.owner # "sweeper", outs # <<>> PROVE Truth(job.cs[1], outs[1])'
    OBVIOUS
  <2>1. CASE outs = reply
    <3>1. 1 \in DOMAIN outs /\ job.kind \in {"place", "cancel"}
      BY DEF Jobs, Kinds
    <3> QED
      BY <1>5, <1>6, <2>1, <3>1
  <2>2. CASE \E out \in {"garbled", "opaque"} : outs = <<Ans(out, 0)>>
    BY <2>2 DEF Truth, Ans, Ends
  <2> QED
    BY <1>2, <2>1, <2>2
<1>8. job.owner = "sweeper" =>
        \A i \in DOMAIN outs : i \in DOMAIN job.cs /\ Truth(job.cs[i], outs[i])'
  <2> SUFFICES ASSUME job.owner = "sweeper", NEW i \in DOMAIN outs
               PROVE  i \in DOMAIN job.cs /\ Truth(job.cs[i], outs[i])'
    OBVIOUS
  <2>1. outs # <<>>
    OBVIOUS
  <2>2. outs = reply
    BY <1>2, <2>1
  <2>3. job.kind = "cancel"
    BY <1>0, <1>1, HeadOwner
  <2> QED
    BY <1>5, <1>6, <2>2, <2>3
<1> QED
  BY <1>0, <1>1, <1>2, <1>4, <1>7, <1>8, FinishRows DEF NonceReply

LEMMA NonceLoseRows ==
  ASSUME IInv, IInv', VInv, NonceLose
  PROVE  VInv' /\ Lasting
<1>0. nq # <<>> /\ nq[1] \in Jobs /\ Finish(<<>>, TRUE)
  BY HeadFacts DEF NonceLose
<1>e. <<>> \in Seq(Answers)
  OBVIOUS
<1>1. PICK job \in Jobs : job = nq[1]
  BY <1>0
<1>2. PICK outs \in Seq(Answers) : outs = <<>> /\ Finish(outs, TRUE)
  BY <1>0, <1>e
<1>3. /\ nq' = Tail(nq) /\ stage' = "queued" /\ reply' = <<>>
      /\ \A d \in Cloids : MaySend(d)' => MaySend(d)
  BY <1>0, <1>2, FinishSteps
<1>4. Lasting /\ OnTheWire' /\ ReplyTrue' /\ RowsTrue' /\ Recorded'
  BY <1>0, <1>3, EndFrame DEF NonceLose
<1>5. DOMAIN outs = {}
  BY <1>2
<1> QED
  BY <1>0, <1>1, <1>2, <1>4, <1>5, FinishRows DEF NonceLose

\* The head is put on the wire: a placement whose order nothing else may send.
LEMMA NonceSendRows ==
  ASSUME IInv, IInv', VInv, NonceSendPlace \/ NonceSendCancel
  PROVE  VInv' /\ Lasting
<1>0. /\ nq # <<>> /\ nq[1] \in Jobs /\ Head(nq) = nq[1] /\ 1 \in DOMAIN nq
      /\ stage \notin {"sent", "answered"} /\ stage' = "sent" /\ nq' = nq
      /\ UNCHANGED <<rowVars, mem, caller, worker, canceller, sweeper, reply, strays, venueVars>>
  BY HeadFacts DEF NonceSendPlace, NonceSendCancel
<1>1. \A d \in Cloids : Astray(d)' <=> Astray(d)
  BY <1>0 DEF Astray
<1>2. \A d \in Cloids : ~HeadSent(d)
  BY <1>0 DEF HeadSent
<1>3. \A d \in Cloids : HeadSent(d)' => /\ Queued(d) /\ sends'[d] = 1
  <2> SUFFICES ASSUME NEW d \in Cloids, HeadSent(d)' PROVE Queued(d) /\ sends'[d] = 1
    OBVIOUS
  <2>1. nq[1].kind = "place" /\ nq[1].cs[1] = d
    BY <1>0 DEF HeadSent
  <2>2. Queued(d)
    BY <1>0, <2>1 DEF Queued, Unsent
  <2>3. sends[d] = 0 /\ sends \in [Cloids -> Nat]
    BY <2>2 DEF IInv, OneSender, TypeOK
  <2>4. sends' = [sends EXCEPT ![d] = @ + 1]
    BY <1>0, <2>1 DEF NonceSendPlace, NonceSendCancel
  <2> QED
    BY <2>2, <2>3, <2>4
<1>4. \A d \in Cloids : ~HeadSent(d)' => sends'[d] = sends[d]
  <2> SUFFICES ASSUME NEW d \in Cloids, ~HeadSent(d)' PROVE sends'[d] = sends[d]
    OBVIOUS
  <2>1. CASE NonceSendCancel
    BY <2>1 DEF NonceSendCancel
  <2>2. CASE NonceSendPlace
    <3>1. nq[1].kind = "place"
      BY <2>2 DEF NonceSendPlace, IInv, QueueSane
    <3>2. nq[1].cs[1] # d
      BY <1>0, <3>1 DEF HeadSent
    <3> QED
      BY <1>0, <2>2, <3>2 DEF NonceSendPlace, IInv, TypeOK
  <2> QED
    BY <2>1, <2>2
<1>5. \A d \in Cloids : Queued(d)' => Queued(d)
  BY <1>0 DEF Queued, Unsent
<1>6. Over \subseteq Over'
  BY <1>0, <1>1, <1>3, <1>5, InFlightNow, InFlightNext DEF Over, Fresh, MaySend
<1>7. Lasting
  BY <1>0, <1>6 DEF Lasting
<1>8. OnTheWire'
  <2>1. ASSUME NEW d \in Cloids
        PROVE  /\ HeadSent(d)' => ~Astray(d)' /\ ex'[d] = "absent" /\ sends'[d] = 1
               /\ Astray(d)' => ex'[d] = "absent" /\ sends'[d] = 1
               /\ sends'[d] = 0 => ex'[d] = "absent"
    <3>1. HeadSent(d)' => sends[d] = 0
      BY <1>3 DEF IInv, OneSender
    <3> QED
      BY <1>0, <1>1, <1>3, <1>4, <3>1 DEF VInv, OnTheWire
  <2> QED
    BY <1>0, <2>1 DEF VInv, OnTheWire
<1>9. ReplyTrue'
  BY <1>0 DEF ReplyTrue
<1>10. RowsTrue' /\ WorkerTrue' /\ CancellerTrue' /\ SweeperTrue' /\ JobsMatch' /\ Recorded'
  BY <1>0, <1>7, RowsKept, WorkerKept, CancellerKept, SweeperKept, JobsKept, RecordedKept
<1> QED
  BY <1>7, <1>8, <1>9, <1>10 DEF VInv, Told

-----------------------------------------------------------------------------
(* The venue *)

LEMMA VenueEndedNext ==
  ASSUME IInv', OnTheWire', NEW c \in Cloids, ex'[c] \notin {"absent", "live"}
  PROVE  c \in Over'
<1>1. ~HeadSent(c)' /\ ~Astray(c)' /\ sends'[c] # 0
  BY DEF OnTheWire
<1>2. ~Exposed(c)'
  BY <1>1, InFlightNext
<1>3. ~Fresh(c)' /\ ~MaySend(c)' /\ ~Queued(c)'
  BY <1>1 DEF IInv, OneSender
<1> QED
  BY <1>2, <1>3 DEF Over

\* What a step of the venue leaves to the tasks and the rows.
Outside == UNCHANGED <<rowVars, mem, caller, worker, canceller, sweeper, nq, sends>>

\* Requests only arrive: none is sent, and the venue does not begin on its own.
Receding ==
  /\ \A d \in Cloids : (HeadSent(d)' => HeadSent(d)) /\ (Astray(d)' => Astray(d))
  /\ strays' \subseteq strays
  /\ stage \in {"sent", "answered"} <=> stage' \in {"sent", "answered"}

LEMMA RecedingLasts ==
  ASSUME IInv, IInv', Outside, Receding,
         \A d \in Cloids : ex'[d] = "live" => Exposed(d),
         \A d \in Cloids :
           ex[d] \in {"filled", "cancelled"} => ex'[d] = ex[d] /\ xfill'[d] = xfill[d]
  PROVE  Lasting
<1>1. \A d \in Cloids : Exposed(d)' => Exposed(d)
  BY InFlightNow, InFlightNext DEF Receding
<1>2. \A d \in Cloids : Queued(d)' <=> Queued(d)
  BY DEF Queued, Unsent, Outside, Receding
<1>3. \A d \in Cloids : (MaySend(d)' <=> MaySend(d)) /\ (Fresh(d)' <=> Fresh(d))
  BY DEF MaySend, Fresh, Outside
<1> QED
  BY <1>1, <1>2, <1>3 DEF Over, Lasting, Outside

LEMMA TasksKept ==
  ASSUME IInv, VInv, Lasting, Outside
  PROVE  WorkerTrue' /\ CancellerTrue' /\ SweeperTrue' /\ JobsMatch' /\ Recorded'
BY WorkerKept, CancellerKept, SweeperKept, JobsKept, RecordedKept DEF Outside

\* The one placement of an order arrives.
LEMMA ArriveRows ==
  ASSUME IInv, IInv', VInv, Aligned, Outside, Receding, NEW c \in Cloids,
         NEW answer \in Answers, Arrive(c, answer),
         HeadSent(c) \/ Astray(c), ~HeadSent(c)', ~Astray(c)'
  PROVE  Lasting /\ OnTheWire' /\ RowsTrue' /\ Truth(c, answer)'
<1>1. /\ ex[c] = "absent" /\ sends[c] = 1 /\ xfill[c] = 0 /\ evFill[c] = 0 /\ evOrder[c] = {}
  BY DEF VInv, OnTheWire
<1>2. Exposed(c) /\ c \notin Over
  BY InFlightNow DEF Over
<1>3. /\ ex \in [Cloids -> {"absent", "live", "filled", "cancelled", "rejected"}]
      /\ xfill \in [Cloids -> Lots] /\ evFill \in [Cloids -> Lots]
      /\ evOrder \in [Cloids -> SUBSET {"Acknowledged", "Filled", "Cancelled", "Rejected"}]
  BY DEF IInv, TypeOK
<1>4. PICK k \in Lots :
        /\ xfill'[c] = k /\ evFill'[c] = k
        /\ \/ k = 0 /\ ex'[c] = "rejected" /\ evOrder'[c] = {"Rejected"}
              /\ answer = Ans("rejected", 0)
           \/ /\ ex'[c] = IF k = Size THEN "filled" ELSE IF c \in Ioc THEN "cancelled" ELSE "live"
              /\ ex'[c] = "live" => evOrder'[c] = {"Acknowledged"}
              /\ answer = IF k = Size \/ c \in Ioc THEN Ans("filled", k) ELSE Ans("resting", 0)
              /\ c \in Ioc => k > 0
  <2>1. CASE ex'[c] = "rejected"
    BY <1>1, <1>3, <2>1, Constants DEF Arrive, Emit
  <2>2. CASE ex'[c] # "rejected"
    BY <1>1, <1>3, <2>2, Constants DEF Arrive, Emit, Aligned
  <2> QED
    BY <2>1, <2>2
<1>5. \A d \in Cloids \ {c} :
        ex'[d] = ex[d] /\ xfill'[d] = xfill[d] /\ evFill'[d] = evFill[d] /\ evOrder'[d] = evOrder[d]
  BY <1>1, <1>3 DEF Arrive, Emit
<1>6. Lasting
  <2>1. \A d \in Cloids : ex'[d] = "live" => Exposed(d)
    BY <1>2, <1>5, InFlightNow
  <2>2. \A d \in Cloids :
          ex[d] \in {"filled", "cancelled"} => ex'[d] = ex[d] /\ xfill'[d] = xfill[d]
    BY <1>1, <1>5
  <2> QED
    BY <2>1, <2>2, RecedingLasts
<1>7. OnTheWire'
  <2>1. /\ ex'[c] # "absent"
        /\ evOrder'[c] \cap Terminal # {} => ex'[c] # "live"
        /\ ex'[c] = "filled" => xfill'[c] = Size
    BY <1>4, Constants DEF Terminal
  <2>2. \A d \in Cloids \ {c} :
          /\ HeadSent(d)' => ~Astray(d)' /\ ex'[d] = "absent" /\ sends'[d] = 1
          /\ Astray(d)' => ex'[d] = "absent" /\ sends'[d] = 1
          /\ sends'[d] = 0 => ex'[d] = "absent"
          /\ ex'[d] = "absent" => xfill'[d] = 0 /\ evFill'[d] = 0 /\ evOrder'[d] = {}
          /\ evOrder'[d] \cap Terminal # {} => ex'[d] # "live"
          /\ ex'[d] = "filled" => xfill'[d] = Size
    BY <1>5 DEF VInv, OnTheWire, Outside, Receding
  <2>3. sends'[c] = 1
    BY <1>1 DEF Outside
  <2>4. \A r \in strays' : r.kind = "place" => Len(r.cs) = 1
    BY DEF VInv, OnTheWire, Receding
  <2> QED
    BY <2>1, <2>2, <2>3, <2>4 DEF OnTheWire
<1>8. ex'[c] # "live" => c \in Over'
  BY <1>4, <1>7, VenueEndedNext
<1>9. ASSUME NEW d \in Cloids PROVE RowTrue(d)'
  <2>1. RowTrue(d) /\ (d \in Over => d \in Over')
    BY <1>6 DEF VInv, RowsTrue, Lasting
  <2>2. CASE d # c
    BY <1>5, <2>1, <2>2 DEF RowTrue, Outside
  <2>3. CASE d = c
    <3>1. /\ status'[c] \notin Terminal /\ cmd'["cancel"][c] # "succeeded"
          /\ cmd'["place"][c] \notin {"failed", "cancelled"}
          /\ reserved'[c] = reserved[c] /\ filled'[c] = filled[c] /\ status'[c] = status[c]
      BY <1>2, <2>1, <2>3 DEF RowTrue, Outside
    <3>2. /\ k \in Nat /\ Size \in Nat /\ Size > 0 /\ filled[c] \in Nat /\ reserved[c] \in Nat
      BY Constants DEF IInv, TypeOK, Lots
    <3>3. ex'[c] = "live" \/ (c \notin Ioc /\ xfill'[c] < Size) => filled'[c] + evFill'[c] <= xfill'[c]
      BY <1>1, <1>4, <2>1, <2>3, <3>1, <3>2 DEF RowTrue
    <3>4. status'[c] # NoStatus => reserved'[c] + xfill'[c] >= Size + evFill'[c]
      BY <1>1, <1>2, <1>4, <2>1, <2>3, <3>1, <3>2 DEF RowTrue
    <3> QED
      BY <2>3, <3>1, <3>3, <3>4 DEF RowTrue
  <2> QED
    BY <2>2, <2>3
<1>10. Truth(c, answer)'
  BY <1>4, <1>8, Constants DEF Truth, Ans, Ends
<1> QED
  BY <1>6, <1>7, <1>9, <1>10 DEF RowsTrue

LEMMA VenuePlaceRows ==
  ASSUME IInv, IInv', VInv, Aligned, VenuePlace
  PROVE  VInv' /\ Lasting
<1>0. /\ nq # <<>> /\ nq[1] \in Jobs /\ Head(nq) = nq[1] /\ nq[1].kind = "place"
      /\ stage = "sent" /\ stage' = "answered" /\ Outside /\ strays' = strays
  BY HeadFacts DEF VenuePlace, Outside
<1>1. PICK c \in Cloids : nq[1].cs[1] = c /\ nq'[1].cs[1] = c
  BY <1>0, HeadFacts DEF IInv, QueueSane, Jobs, Outside
<1>2. PICK answer \in Answers : Arrive(c, answer) /\ reply' = <<answer>>
  BY <1>0, <1>1 DEF VenuePlace
<1>3. HeadSent(c) /\ ~Astray(c)
  BY <1>0, <1>1 DEF HeadSent, VInv, OnTheWire
<1>4. \A d \in Cloids : ~HeadSent(d)' /\ (Astray(d)' <=> Astray(d))
  BY <1>0 DEF HeadSent, Astray
<1>5. Receding
  BY <1>0, <1>4 DEF Receding
<1>6. Lasting /\ OnTheWire' /\ RowsTrue' /\ Truth(c, answer)'
  BY <1>0, <1>2, <1>3, <1>4, <1>5, ArriveRows
<1>7. ReplyTrue'
  BY <1>0, <1>1, <1>2, <1>6 DEF ReplyTrue, Truth, Outside
<1> QED
  BY <1>0, <1>6, <1>7, TasksKept DEF VInv, Told

\* A cancel batch arrives: what it closes is over.
LEMMA WithdrawRows ==
  ASSUME IInv, IInv', VInv, Outside, Receding, NEW cs, Withdraw(cs)
  PROVE  /\ Lasting /\ OnTheWire' /\ RowsTrue'
         /\ \A i \in DOMAIN cs : cs[i] \in Cloids /\ ex[cs[i]] = "live" => cs[i] \in Over'
<1>1. \A d \in Cloids :
        \/ /\ ex'[d] = ex[d] /\ evOrder'[d] = evOrder[d]
           /\ ex[d] = "live" => \A i \in DOMAIN cs : cs[i] # d
        \/ ex[d] = "live" /\ ex'[d] = "cancelled"
  BY DEF Withdraw
<1>2. UNCHANGED <<xfill, evFill>>
  BY DEF Withdraw
<1>3. Lasting
  <2>1. \A d \in Cloids : ex'[d] = "live" => Exposed(d)
    BY <1>1, InFlightNow
  <2> QED
    BY <1>1, <1>2, <2>1, RecedingLasts
<1>4. OnTheWire'
  <2>1. \A d \in Cloids :
          /\ HeadSent(d)' => ~Astray(d)' /\ ex'[d] = "absent" /\ sends'[d] = 1
          /\ Astray(d)' => ex'[d] = "absent" /\ sends'[d] = 1
          /\ sends'[d] = 0 => ex'[d] = "absent"
          /\ ex'[d] = "absent" => xfill'[d] = 0 /\ evFill'[d] = 0 /\ evOrder'[d] = {}
          /\ evOrder'[d] \cap Terminal # {} => ex'[d] # "live"
          /\ ex'[d] = "filled" => xfill'[d] = Size
    BY <1>1, <1>2 DEF VInv, OnTheWire, Outside, Receding
  <2>2. \A r \in strays' : r.kind = "place" => Len(r.cs) = 1
    BY DEF VInv, OnTheWire, Receding
  <2> QED
    BY <2>1, <2>2 DEF OnTheWire
<1>5. RowsTrue'
  <2> SUFFICES ASSUME NEW d \in Cloids PROVE RowTrue(d)'
    BY DEF RowsTrue
  <2>1. RowTrue(d) /\ (d \in Over => d \in Over')
    BY <1>3 DEF VInv, RowsTrue, Lasting
  <2> QED
    BY <1>1, <1>2, <2>1 DEF RowTrue, Outside
<1>6. ASSUME NEW i \in DOMAIN cs, cs[i] \in Cloids, ex[cs[i]] = "live" PROVE cs[i] \in Over'
  <2>1. ex'[cs[i]] = "cancelled"
    BY <1>1, <1>6
  <2> QED
    BY <1>4, <1>6, <2>1, VenueEndedNext
<1> QED
  BY <1>3, <1>4, <1>5, <1>6

LEMMA VenueCancelRows ==
  ASSUME IInv, IInv', VInv, VenueCancel
  PROVE  VInv' /\ Lasting
<1>0. /\ nq # <<>> /\ nq[1] \in Jobs /\ Head(nq) = nq[1] /\ nq[1].kind = "cancel"
      /\ stage = "sent" /\ stage' = "answered" /\ Outside /\ strays' = strays
  BY HeadFacts DEF VenueCancel, Outside
<1>1. PICK cs \in Seq(Cloids) : nq[1].cs = cs /\ nq'[1].cs = cs
  BY <1>0 DEF Jobs, Outside
<1>2. /\ Withdraw(cs)
      /\ reply' = [i \in 1..Len(cs) |->
                     Ans(IF ex[cs[i]] = "live" THEN "cancelled" ELSE "refused", 0)]
  BY <1>0, <1>1 DEF VenueCancel
<1>3. \A d \in Cloids : ~HeadSent(d)' /\ (Astray(d)' <=> Astray(d))
  BY <1>0 DEF HeadSent, Astray
<1>4. Receding
  BY <1>0, <1>3 DEF Receding
<1>5. /\ Lasting /\ OnTheWire' /\ RowsTrue'
      /\ \A i \in DOMAIN cs : cs[i] \in Cloids /\ ex[cs[i]] = "live" => cs[i] \in Over'
  BY <1>0, <1>2, <1>4, WithdrawRows
<1>6. ReplyTrue'
  <2>1. Len(reply') = Len(cs) /\ DOMAIN reply' = DOMAIN cs
    BY <1>1, <1>2
  <2>2. ASSUME NEW i \in DOMAIN cs PROVE Truth(cs[i], reply[i])'
    <3>1. cs[i] \in Cloids /\ reply'[i] = Ans(IF ex[cs[i]] = "live" THEN "cancelled" ELSE "refused", 0)
      BY <1>1, <1>2
    <3> QED
      BY <1>5, <3>1 DEF Truth, Ans, Ends
  <2> QED
    BY <1>0, <1>1, <2>1, <2>2 DEF ReplyTrue, Truth, Outside
<1> QED
  BY <1>0, <1>5, <1>6, TasksKept DEF VInv, Told

LEMMA VenueStrayRows ==
  ASSUME IInv, IInv', VInv, Aligned, NEW r \in strays, VenueStray(r)
  PROVE  VInv' /\ Lasting
<1>0. /\ strays' = strays \ {r} /\ nq' = nq /\ stage' = stage /\ reply' = reply /\ Outside
      /\ strays \subseteq Requests /\ r \in Requests /\ r.cs \in Seq(Cloids)
      /\ r = [kind |-> r.kind, cs |-> r.cs]
  BY DEF VenueStray, Outside, IInv, TypeOK, Requests
<1>1. \A d \in Cloids : (HeadSent(d)' <=> HeadSent(d)) /\ (Astray(d)' => Astray(d))
  BY <1>0 DEF HeadSent, Astray
<1>2. Receding
  BY <1>0, <1>1 DEF Receding
<1>3. Lasting /\ OnTheWire' /\ RowsTrue'
  <2>1. CASE r.kind = "place" /\ \E answer \in Answers : Arrive(r.cs[1], answer)
    <3>1. Len(r.cs) = 1
      BY <2>1 DEF VInv, OnTheWire
    <3>2. PICK c \in Cloids : c = r.cs[1] /\ r.cs = <<c>>
      <4>1. r.cs[1] \in Cloids /\ r.cs = <<r.cs[1]>>
        BY <1>0, <3>1
      <4> QED
        BY <4>1
    <3>3. PICK answer \in Answers : Arrive(c, answer)
      BY <2>1, <3>2
    <3>4. Astray(c)
      BY <2>1, <3>2 DEF Astray
    <3>5. ~HeadSent(c)'
      BY <1>1, <3>4 DEF VInv, OnTheWire
    <3>6. ~Astray(c)'
      <4> SUFFICES ASSUME NEW q \in strays', q.kind = "place", q.cs[1] = c PROVE FALSE
        BY DEF Astray
      <4>1. q \in Requests /\ q # r /\ Len(q.cs) = 1
        BY <1>0 DEF VInv, OnTheWire
      <4>2. q.cs \in Seq(Cloids) /\ q = [kind |-> q.kind, cs |-> q.cs]
        BY <4>1 DEF Requests
      <4>3. q.cs = <<c>>
        BY <4>1, <4>2
      <4> QED
        BY <1>0, <2>1, <3>2, <4>1, <4>2, <4>3
    <3> QED
      BY <1>0, <1>2, <3>3, <3>4, <3>5, <3>6, ArriveRows
  <2>2. CASE Withdraw(r.cs)
    BY <1>0, <1>2, <2>2, WithdrawRows
  <2>3. CASE UNCHANGED venueVars
    <3>1. Lasting
      BY <1>0, <1>2, <2>3, InFlightNow, RecedingLasts
    <3>2. OnTheWire'
      BY <1>0, <1>1, <2>3 DEF VInv, OnTheWire, Outside
    <3> QED
      BY <1>0, <2>3, <3>1, <3>2, RowsKept DEF Outside
  <2> QED
    BY <2>1, <2>2, <2>3 DEF VenueStray
<1>4. ReplyTrue'
  BY <1>0, <1>3, HeadFacts, ReplyKept DEF SameHead
<1> QED
  BY <1>0, <1>3, <1>4, TasksKept DEF VInv, Told

LEMMA VenueFillRows ==
  ASSUME IInv, IInv', VInv, NEW c \in Cloids, VenueFill(c)
  PROVE  VInv' /\ Lasting
<1>0. /\ nq' = nq /\ stage' = stage /\ reply' = reply /\ strays' = strays /\ Outside
      /\ xfill \in [Cloids -> Lots] /\ evFill \in [Cloids -> Lots]
      /\ ex \in [Cloids -> {"absent", "live", "filled", "cancelled", "rejected"}]
      /\ evOrder \in [Cloids -> SUBSET {"Acknowledged", "Filled", "Cancelled", "Rejected"}]
  BY DEF VenueFill, Outside, IInv, TypeOK
<1>1. \A d \in Cloids : (HeadSent(d)' <=> HeadSent(d)) /\ (Astray(d)' <=> Astray(d))
  BY <1>0 DEF HeadSent, Astray
<1>2. Receding
  BY <1>0, <1>1 DEF Receding
<1>3. /\ ex[c] = "live" /\ ex'[c] \in {"live", "filled"}
      /\ xfill'[c] = xfill[c] + 1 /\ evFill'[c] = evFill[c] + 1
      /\ ex'[c] = "filled" => xfill'[c] = Size
      /\ ex'[c] = "live" => evOrder'[c] = evOrder[c]
  BY <1>0 DEF VenueFill, Emit
<1>4. \A d \in Cloids \ {c} :
        ex'[d] = ex[d] /\ xfill'[d] = xfill[d] /\ evFill'[d] = evFill[d] /\ evOrder'[d] = evOrder[d]
  BY <1>0 DEF VenueFill, Emit
<1>5. Lasting
  <2>1. \A d \in Cloids : ex'[d] = "live" => Exposed(d)
    BY <1>3, <1>4, InFlightNow
  <2> QED
    BY <1>0, <1>2, <1>3, <1>4, <2>1, RecedingLasts
<1>6. OnTheWire'
  <2>1. ASSUME NEW d \in Cloids
        PROVE  /\ HeadSent(d)' => ~Astray(d)' /\ ex'[d] = "absent" /\ sends'[d] = 1
               /\ Astray(d)' => ex'[d] = "absent" /\ sends'[d] = 1
               /\ sends'[d] = 0 => ex'[d] = "absent"
               /\ ex'[d] = "absent" => xfill'[d] = 0 /\ evFill'[d] = 0 /\ evOrder'[d] = {}
               /\ evOrder'[d] \cap Terminal # {} => ex'[d] # "live"
               /\ ex'[d] = "filled" => xfill'[d] = Size
    BY <1>0, <1>1, <1>3, <1>4 DEF VInv, OnTheWire, Outside
  <2> QED
    BY <1>0, <2>1 DEF VInv, OnTheWire
<1>7. RowsTrue'
  <2> SUFFICES ASSUME NEW d \in Cloids PROVE RowTrue(d)'
    BY DEF RowsTrue
  <2>1. RowTrue(d) /\ (d \in Over => d \in Over')
    BY <1>5 DEF VInv, RowsTrue, Lasting
  <2>2. CASE d # c
    BY <1>0, <1>4, <2>1, <2>2 DEF RowTrue, Outside
  <2>3. CASE d = c
    <3>1. /\ xfill[c] \in Nat /\ evFill[c] \in Nat /\ Size \in Nat
          /\ filled[c] \in Nat /\ reserved[c] \in Nat
      BY <1>0, Constants DEF IInv, TypeOK, Lots
    <3> QED
      BY <1>0, <1>3, <2>1, <2>3, <3>1 DEF RowTrue, Outside
  <2> QED
    BY <2>2, <2>3
<1>8. ReplyTrue'
  BY <1>0, <1>5, HeadFacts, ReplyKept DEF SameHead
<1> QED
  BY <1>0, <1>5, <1>6, <1>7, <1>8, TasksKept DEF VInv, Told

-----------------------------------------------------------------------------
(* The ingestor, and a crash *)

\* A venue event reaches the row: the venue's orders stay as they are.
LEMMA IngestFrame ==
  ASSUME IInv, IInv', VInv, UNCHANGED <<cmd, mem, caller, worker, canceller, sweeper,
                                        queueVars, ex, xfill, sends>>,
         \A d \in Cloids : status[d] # NoStatus => status'[d] # NoStatus,
         \A d \in Cloids : evFill[d] = 0 => evFill'[d] = 0,
         \A d \in Cloids : evOrder'[d] \subseteq evOrder[d]
  PROVE  /\ Lasting /\ OnTheWire' /\ Told' /\ JobsMatch' /\ Recorded'
<1>1. Over \subseteq Over'
  BY OverStays DEF Fresh, MaySend
<1>2. Lasting
  BY <1>1 DEF Lasting
<1>3. \A d \in Cloids : (HeadSent(d)' <=> HeadSent(d)) /\ (Astray(d)' <=> Astray(d))
  BY DEF HeadSent, Astray
<1>4. OnTheWire'
  <2>1. ASSUME NEW d \in Cloids
        PROVE  /\ HeadSent(d)' => ~Astray(d)' /\ ex'[d] = "absent" /\ sends'[d] = 1
               /\ Astray(d)' => ex'[d] = "absent" /\ sends'[d] = 1
               /\ sends'[d] = 0 => ex'[d] = "absent"
               /\ ex'[d] = "absent" => xfill'[d] = 0 /\ evFill'[d] = 0 /\ evOrder'[d] = {}
               /\ evOrder'[d] \cap Terminal # {} => ex'[d] # "live"
               /\ ex'[d] = "filled" => xfill'[d] = Size
    BY <1>3 DEF VInv, OnTheWire
  <2> QED
    BY <2>1 DEF VInv, OnTheWire
<1>5. ReplyTrue'
  BY <1>2, HeadFacts, ReplyKept DEF SameHead
<1> QED
  BY <1>2, <1>4, <1>5, WorkerKept, CancellerKept, SweeperKept, JobsKept, RecordedKept DEF Told

LEMMA IngestOrderRows ==
  ASSUME IInv, IInv', VInv, NEW c \in Cloids, NEW s \in Terminal \cup {"Acknowledged"},
         IngestOrder(c, s)
  PROVE  VInv' /\ Lasting
<1>0. /\ status \in [Cloids -> Statuses \cup {NoStatus}] /\ reserved \in [Cloids -> Lots]
      /\ evOrder \in [Cloids -> SUBSET {"Acknowledged", "Filled", "Cancelled", "Rejected"}]
  BY DEF IInv, TypeOK
<1>1. /\ status'[c] = MergeVenue(status[c], s) /\ status[c] # NoStatus
      /\ reserved'[c] = IF s \in Terminal THEN 0 ELSE reserved[c]
      /\ \A d \in Cloids \ {c} : status'[d] = status[d] /\ reserved'[d] = reserved[d]
      /\ \A d \in Cloids : evOrder'[d] \subseteq evOrder[d]
  BY <1>0 DEF IngestOrder
<1>2. /\ status'[c] \in {s, status[c]} /\ s # NoStatus
      /\ status'[c] \in Terminal => status[c] \in Terminal \/ s \in Terminal
  BY <1>1 DEF MergeVenue, Terminal, NoStatus
<1>3. /\ Lasting /\ OnTheWire' /\ Told' /\ JobsMatch' /\ Recorded'
  BY <1>1, <1>2, IngestFrame DEF IngestOrder
<1>4. s \in Terminal => c \in Over
  BY VenueEnded DEF IngestOrder, VInv, OnTheWire
<1>5. RowsTrue'
  <2> SUFFICES ASSUME NEW d \in Cloids PROVE RowTrue(d)'
    BY DEF RowsTrue
  <2>1. RowTrue(d) /\ (d \in Over => d \in Over')
    BY <1>3 DEF VInv, RowsTrue, Lasting
  <2>2. CASE d # c
    BY <1>1, <2>1, <2>2 DEF RowTrue, IngestOrder
  <2>3. CASE d = c
    BY <1>1, <1>2, <1>4, <2>1, <2>3 DEF RowTrue, IngestOrder
  <2> QED
    BY <2>2, <2>3
<1> QED
  BY <1>3, <1>5 DEF VInv

LEMMA IngestFillRows ==
  ASSUME IInv, IInv', VInv, NEW c \in Cloids, IngestFill(c)
  PROVE  VInv' /\ Lasting
<1>0. /\ status \in [Cloids -> Statuses \cup {NoStatus}] /\ reserved \in [Cloids -> Lots]
      /\ filled \in [Cloids -> Lots] /\ evFill \in [Cloids -> Lots] /\ xfill \in [Cloids -> Lots]
  BY DEF IInv, TypeOK
<1>1. /\ status'[c] = MergeFill(status[c], FillTotal(c), Size) /\ status[c] # NoStatus
      /\ filled'[c] = FillTotal(c) /\ evFill[c] > 0 /\ evFill'[c] = evFill[c] - 1
      /\ reserved'[c] = IF reserved[c] = 0 \/ status'[c] = "Filled" THEN 0 ELSE reserved[c] - 1
      /\ \A d \in Cloids \ {c} :
           /\ status'[d] = status[d] /\ reserved'[d] = reserved[d]
           /\ filled'[d] = filled[d] /\ evFill'[d] = evFill[d]
  BY <1>0 DEF IngestFill
<1>2. /\ xfill[c] \in Nat /\ evFill[c] \in Nat /\ Size \in Nat /\ Size > 0
      /\ filled[c] \in Nat /\ reserved[c] \in Nat /\ xfill[c] <= Size /\ filled[c] <= Size
      /\ evFill[c] <= xfill[c]
  BY <1>0, Constants DEF Lots, IInv, FillsBounded
<1>3. /\ Lasting /\ OnTheWire' /\ Told' /\ JobsMatch' /\ Recorded'
  <2>1. status'[c] # NoStatus
    BY <1>1 DEF MergeFill, Terminal, NoStatus
  <2>2. \A d \in Cloids : evFill[d] = 0 => evFill'[d] = 0
    BY <1>1, <1>2
  <2> QED
    BY <1>1, <2>1, <2>2, IngestFrame DEF IngestFill
<1>4. ex[c] # "live" => c \in Over
  <2>1. ex[c] # "absent"
    BY <1>1, <1>2 DEF VInv, OnTheWire
  <2> QED
    BY <2>1, VenueEnded
<1>5. RowTrue(c) /\ (c \in Over => c \in Over')
  BY <1>3 DEF VInv, RowsTrue, Lasting
<1>6. ex[c] = "live" \/ (c \notin Ioc /\ xfill[c] < Size) =>
        /\ filled[c] + evFill[c] <= xfill[c] /\ FillTotal(c) = filled[c] + 1
  BY <1>1, <1>2, <1>5 DEF RowTrue, FillTotal
<1>7. status'[c] \in Terminal => status[c] \in Terminal \/ FillTotal(c) >= Size
  BY <1>1 DEF MergeFill, Terminal
<1>8. status'[c] \in Terminal => c \in Over
  <2> SUFFICES ASSUME ex[c] = "live", status[c] \notin Terminal, FillTotal(c) >= Size PROVE FALSE
    BY <1>4, <1>5, <1>7 DEF RowTrue
  <2>1. xfill[c] < Size
    BY DEF IInv, FillsBounded
  <2> QED
    BY <1>1, <1>2, <1>6, <2>1
<1>9. c \in Over \/ reserved'[c] + xfill'[c] >= Size + evFill'[c]
  <2> SUFFICES ASSUME c \notin Over PROVE reserved'[c] + xfill'[c] >= Size + evFill'[c]
    OBVIOUS
  <2>1. reserved[c] + xfill[c] >= Size + evFill[c]
    BY <1>1, <1>5 DEF RowTrue
  <2>2. status'[c] # "Filled"
    BY <1>8 DEF Terminal
  <2>3. reserved[c] > 0
    BY <1>1, <1>2, <2>1
  <2> QED
    BY <1>1, <1>2, <2>1, <2>2, <2>3 DEF IngestFill
<1>10. ASSUME NEW d \in Cloids PROVE RowTrue(d)'
  <2>1. CASE d # c
    <3>1. RowTrue(d) /\ (d \in Over => d \in Over')
      BY <1>3 DEF VInv, RowsTrue, Lasting
    <3> QED
      BY <1>1, <2>1, <3>1 DEF RowTrue, IngestFill
  <2>2. CASE d = c
    <3>1. /\ status'[c] \in Terminal => c \in Over'
          /\ cmd'["cancel"][c] = "succeeded" \/ cmd'["place"][c] \in {"failed", "cancelled"}
               => c \in Over'
          /\ c \in Over' \/ reserved'[c] + xfill'[c] >= Size + evFill'[c]
      BY <1>5, <1>8, <1>9 DEF RowTrue, IngestFill
    <3>2. ex'[c] = "live" \/ (c \notin Ioc /\ xfill'[c] < Size) =>
            filled'[c] + evFill'[c] <= xfill'[c]
      BY <1>1, <1>2, <1>6 DEF IngestFill
    <3> QED
      BY <2>2, <3>1, <3>2 DEF RowTrue
  <2> QED
    BY <2>1, <2>2
<1> QED
  BY <1>3, <1>10 DEF VInv, RowsTrue

LEMMA CrashRows ==
  ASSUME IInv, IInv', VInv, Crash
  PROVE  VInv' /\ Lasting
<1>0. /\ nq' = <<>> /\ stage' = "queued" /\ reply' = <<>>
      /\ strays' = strays \/ /\ nq # <<>> /\ stage = "sent"
                             /\ strays' = strays \cup {Request(Head(nq))}
      /\ UNCHANGED <<rowVars, venueVars, sends>>
  BY DEF Crash
<1>1. nq # <<>> => Request(Head(nq)) = [kind |-> nq[1].kind, cs |-> nq[1].cs]
  BY HeadFacts DEF Request
<1>2. \A d \in Cloids : ~HeadSent(d)' /\ ~Queued(d)' /\ ~MaySend(d)'
  BY <1>0 DEF HeadSent, Queued, MaySend, Crash, Idle
<1>3. \A d \in Cloids : Astray(d)' => Astray(d) \/ HeadSent(d)
  BY <1>0, <1>1 DEF Astray, HeadSent
<1>4. Over \subseteq Over'
  BY <1>0, <1>2, <1>3, InFlightNow, InFlightNext DEF Over, Fresh
<1>5. Lasting
  BY <1>0, <1>4 DEF Lasting
<1>6. \A r \in strays' : r.kind = "place" => Len(r.cs) = 1
  BY <1>0, <1>1, HeadFacts DEF VInv, OnTheWire, IInv, QueueSane
<1>7. OnTheWire'
  BY <1>0, <1>2, <1>3, <1>6 DEF VInv, OnTheWire
<1>8. Told' /\ JobsMatch' /\ Recorded'
  BY <1>0 DEF Crash, Told, ReplyTrue, WorkerTrue, CancellerTrue, SweeperTrue, JobsMatch,
     Recorded, Idle
<1> QED
  BY <1>0, <1>5, <1>7, <1>8, RowsKept DEF VInv

-----------------------------------------------------------------------------
(* The inductive invariant *)

LEMMA InitVInv == Init => VInv
<1> SUFFICES ASSUME Init PROVE VInv
  OBVIOUS
<1>1. \A c \in Cloids : ~HeadSent(c) /\ ~Astray(c)
  BY DEF Init, HeadSent, Astray
<1>2. OnTheWire
  BY <1>1, Constants DEF Init, OnTheWire
<1>3. Told /\ JobsMatch /\ Recorded
  BY DEF Init, Told, ReplyTrue, WorkerTrue, CancellerTrue, SweeperTrue, JobsMatch, Recorded, Idle
<1>4. RowsTrue
  BY Constants DEF Init, RowsTrue, RowTrue, Kinds, Terminal, NoStatus
<1> QED
  BY <1>2, <1>3, <1>4 DEF VInv

LEMMA StutterVInv == IInv /\ IInv' /\ VInv /\ UNCHANGED vars => VInv' /\ Lasting
<1> SUFFICES ASSUME IInv, IInv', VInv, UNCHANGED vars PROVE VInv' /\ Lasting
  OBVIOUS
<1>1. Lasting /\ OnTheWire' /\ ReplyTrue' /\ RowsTrue'
  BY CalmFrame DEF vars, MaySend
<1>2. Outside
  BY DEF vars, Outside
<1> QED
  BY <1>1, <1>2, TasksKept DEF VInv, Told

LEMMA NextVInv ==
  ASSUME Aligned
  PROVE  IInv /\ IInv' /\ VInv /\ Next => VInv' /\ Lasting
<1> SUFFICES ASSUME IInv, IInv', VInv, Next PROVE VInv' /\ Lasting
  OBVIOUS
<1>1. ASSUME NEW a \in Callers,
             (\E c \in Cloids : SubmitCheck(a, c)) \/ SubmitPersist(a) \/ SubmitExpose(a)
      PROVE  VInv' /\ Lasting
  BY <1>1, SubmitCheckRows, SubmitPersistRows, SubmitExposeRows
<1>2. CASE \/ \E k \in Kinds, c \in Cloids : Claim(k, c)
           \/ WorkerStep \/ WorkerGiveUp \/ WorkerError
  BY <1>2, ClaimRows, WorkerLoadRows, WorkerGateRows, WorkerSendRows, WorkerLookRows,
     WorkerApplyPlaceRows, WorkerApplyCancelRows, WorkerDeferRows, GiveUpRows,
     WorkerErrorRows DEF WorkerStep
<1>3. CASE \/ \E c \in Cloids : CancelRequest(c)
           \/ CancelSend \/ CancelGiveUp \/ CancelLookup \/ CancelApply
  BY <1>3, CancelRequestRows, CancelSendRows, GiveUpRows, CancelLookupRows, CancelApplyRows
<1>4. CASE \/ KillLatch \/ KillReset
           \/ SweepStart \/ SweepSend \/ SweepGiveUp \/ SweepApply \/ SweepFinish
  BY <1>4, KillRows, SweepStartRows, SweepSendRows, GiveUpRows, SweepApplyRows, SweepFinishRows
<1>5. CASE QueueStep \/ NonceLose
  BY <1>5, NoncePreflightRows, NonceSendRows, NonceReplyRows, NonceLoseRows DEF QueueStep
<1>6. CASE VenueStep \/ \E r \in strays : VenueStray(r)
  BY <1>6, VenuePlaceRows, VenueCancelRows, VenueStrayRows DEF VenueStep
<1>7. ASSUME NEW c \in Cloids, VenueFill(c) \/ IngestFill(c) PROVE VInv' /\ Lasting
  BY <1>7, VenueFillRows, IngestFillRows
<1>8. ASSUME NEW c \in Cloids, NEW s \in Terminal \cup {"Acknowledged"}, IngestOrder(c, s)
      PROVE  VInv' /\ Lasting
  BY <1>8, IngestOrderRows
<1> QED
  BY <1>1, <1>2, <1>3, <1>4, <1>5, <1>6, <1>7, <1>8, CrashRows DEF Next

LEMMA TrueRows ==
  ASSUME Aligned
  PROVE  Spec => [](IInv /\ VInv)
<1>1. Init => IInv /\ VInv
  BY InitIInv, InitVInv
<1>2. IInv /\ VInv /\ [Next]_vars => (IInv /\ VInv)'
  BY NextIInv, StutterIInv, NextVInv, StutterVInv
<1> QED
  BY <1>1, <1>2, PTL DEF Spec

-----------------------------------------------------------------------------
(* What the rows and the commands say of the venue *)

\* persist_transition and the ingestor close a row only when its order is over:
\* where resting answers carry no fill (handle_submit_response reads one as
\* a partial fill) and every swept order has its asset index, a terminal row
\* is never an order that the venue works or may still be sent.
THEOREM ClosedRows ==
  ASSUME Aligned
  PROVE  Spec => []ClosedRowsAreClosed
<1>1. IInv /\ VInv => ClosedRowsAreClosed
  BY DEF VInv, RowsTrue, RowTrue, Over, ClosedRowsAreClosed
<1> QED
  BY <1>1, TrueRows, PTL

\* Under the same conditions a cancel command that succeeded and a placement
\* command that failed or was aborted (complete_command) leave nothing working.
THEOREM CommandsAreTrue ==
  ASSUME Aligned
  PROVE  Spec => []CommandsTellTheTruth
<1>1. IInv /\ VInv => CommandsTellTheTruth
  BY DEF VInv, RowsTrue, RowTrue, Over, CommandsTellTheTruth
<1> QED
  BY <1>1, TrueRows, PTL

\* Under the same conditions the active reservation of an order that is live, on
\* the wire or astray covers all that the venue may still fill of it, so the
\* account-scope check of persist_placement counts it.
THEOREM LiveOrdersCovered ==
  ASSUME Aligned
  PROVE  Spec => []LiveCovered
<1>1. IInv /\ VInv => LiveCovered
  <2> SUFFICES ASSUME IInv, VInv, NEW c \in Cloids, Exposed(c)
               PROVE  reserved[c] >= Size - xfill[c]
    BY DEF LiveCovered
  <2>1. c \notin Over
    BY DEF Over
  <2>2. sends[c] # 0
    BY InFlightNow DEF VInv, OnTheWire
  <2>3. status[c] # NoStatus
    BY <2>2, Unknown DEF IInv, OneSender
  <2>4. /\ reserved[c] \in Nat /\ xfill[c] \in Nat /\ evFill[c] \in Nat /\ Size \in Nat
    BY Constants DEF IInv, TypeOK, Lots
  <2> QED
    BY <2>1, <2>3, <2>4 DEF VInv, RowsTrue, RowTrue
<1> QED
  BY <1>1, TrueRows, PTL

\* Where moreover no order is immediate-or-cancel (the amount its answer carries
\* is already in the row when update_fill adds its fill events to it), a row never
\* counts a lot the venue did not fill.
THEOREM NothingInvented ==
  ASSUME Aligned, Ioc = {}
  PROVE  Spec => []FillsNeverInvented
<1>1. IInv /\ VInv => FillsNeverInvented
  <2> SUFFICES ASSUME IInv, VInv, NEW c \in Cloids PROVE filled[c] <= xfill[c]
    BY DEF FillsNeverInvented
  <2>1. /\ filled[c] \in Nat /\ xfill[c] \in Nat /\ evFill[c] \in Nat /\ Size \in Nat
        /\ filled[c] <= Size /\ xfill[c] <= Size
    BY Constants DEF IInv, TypeOK, Lots
  <2>2. xfill[c] < Size => filled[c] + evFill[c] <= xfill[c]
    BY DEF VInv, RowsTrue, RowTrue
  <2> QED
    BY <2>1, <2>2
<1> QED
  BY <1>1, TrueRows, PTL

-----------------------------------------------------------------------------
(* No lot is lost, whatever the venue's answers carry *)

LEMMA PersistKeepsFills ==
  ASSUME TypeOK, NEW c \in Cloids, NEW to, NEW amt \in Lots, PersistTransition(c, to, amt)
  PROVE  \A d \in Cloids : filled'[d] >= filled[d]
<1>1. filled \in [Cloids -> Lots] /\ \A d \in Cloids : filled[d] \in Nat
  BY Constants DEF TypeOK, Lots
<1>2. amt \in Nat
  BY Constants DEF Lots
<1> QED
  BY <1>1, <1>2 DEF PersistTransition

\* No step but the venue's and the ingestor's moves a fill, and no copy a task
\* persists takes lots back.
LEMMA TasksKeepFills ==
  ASSUME TypeOK, Next,
         \A c \in Cloids : ~VenueFill(c) /\ ~IngestFill(c),
         ~VenueStep, \A r \in strays : ~VenueStray(r)
  PROVE  UNCHANGED <<xfill, evFill>> /\ \A d \in Cloids : filled'[d] >= filled[d]
<1>0. \A d \in Cloids : filled[d] \in Nat
  BY Constants DEF TypeOK, Lots
<1>1. CASE UNCHANGED filled
  <2>1. UNCHANGED <<xfill, evFill>>
    BY DEF Next, SubmitCheck, SubmitPersist, SubmitExpose, Claim, WorkerStep, WorkerGiveUp,
       WorkerError, WorkerLoad, WorkerGate, WorkerSend, WorkerLookup, WorkerQuery,
       WorkerApplyPlace, WorkerApplyCancel, WorkerDefer, CancelRequest, CancelSend,
       CancelGiveUp, CancelLookup, CancelApply, KillLatch, KillReset, SweepStart, SweepSend,
       SweepGiveUp, SweepApply, SweepFinish, QueueStep, NoncePreflight, NonceSendPlace,
       NonceSendCancel, NonceReply, NonceLose, IngestOrder, Crash
  <2> QED
    BY <1>0, <1>1, <2>1
<1>2. CASE ~UNCHANGED filled
  <2>1. WorkerApplyPlace \/ WorkerApplyCancel \/ CancelApply \/ SweepApply
    BY <1>2 DEF Next, SubmitCheck, SubmitPersist, SubmitExpose, Claim, WorkerStep, WorkerGiveUp,
       WorkerError, WorkerLoad, WorkerGate, WorkerSend, WorkerLookup, WorkerQuery,
       WorkerDefer, CancelRequest, CancelSend,
       CancelGiveUp, CancelLookup, KillLatch, KillReset, SweepStart, SweepSend,
       SweepGiveUp, SweepFinish, QueueStep, NoncePreflight, NonceSendPlace,
       NonceSendCancel, NonceReply, NonceLose, IngestOrder, Crash
  <2>2. UNCHANGED <<xfill, evFill>>
    BY <2>1 DEF WorkerApplyPlace, WorkerApplyCancel, CancelApply, SweepApply
  <2>3. CASE WorkerApplyPlace \/ WorkerApplyCancel
    <3>1. worker.c \in Cloids /\ worker.ans.amt \in Lots
      BY <2>3, BusyWorker DEF WorkerApplyPlace, WorkerApplyCancel
    <3>2. \E to : PersistTransition(worker.c, to, worker.ans.amt)
      BY <1>2, <2>3 DEF WorkerApplyPlace, WorkerApplyCancel
    <3> QED
      BY <2>2, <3>1, <3>2, PersistKeepsFills
  <2>4. CASE CancelApply
    <3>1. canceller.c \in Cloids /\ canceller.ans.amt \in Lots
      BY <2>4, BusyCanceller DEF CancelApply, Answers
    <3>2. \E to : PersistTransition(canceller.c, to, canceller.ans.amt)
      BY <1>2, <2>4 DEF CancelApply
    <3> QED
      BY <2>2, <3>1, <3>2, PersistKeepsFills
  <2>5. CASE SweepApply
    <3>1. /\ sweeper.chunk \in Seq(Targets) /\ sweeper.chunk # <<>>
          /\ sweeper.outs \in Seq(Answers)
      BY <2>5, SweepTypes DEF SweepApply
    <3>2. PICK c \in Cloids : c = Head(sweeper.chunk).c
      <4>1. Head(sweeper.chunk) \in Targets
        BY <3>1
      <4> QED
        BY <4>1 DEF Targets
    <3>3. PICK amt \in Lots : amt = (IF sweeper.outs = <<>> THEN NoAnswer ELSE Head(sweeper.outs)).amt
      <4>1. (IF sweeper.outs = <<>> THEN NoAnswer ELSE Head(sweeper.outs)) \in Answers
        BY <3>1, Constants
      <4> QED
        BY <4>1 DEF Answers
    <3>4. \E to : PersistTransition(c, to, amt)
      BY <1>2, <2>5, <3>2, <3>3 DEF SweepApply
    <3> QED
      BY <2>2, <3>4, PersistKeepsFills
  <2> QED
    BY <2>1, <2>3, <2>4, <2>5
<1> QED
  BY <1>1, <1>2

\* update_fill, the answers' amounts and the lookups', applied in any order and
\* across crashes: a lot the venue filled is in the row or still to be ingested.
THEOREM NoFillLost == Spec => []FillsNeverLost
<1>1. Init => TypeOK /\ FillsNeverLost
  BY InitIInv, Constants DEF IInv, Init, FillsNeverLost
<1>2. TypeOK /\ TypeOK' /\ FillsNeverLost /\ [Next]_vars => FillsNeverLost'
  <2> SUFFICES ASSUME TypeOK, TypeOK', FillsNeverLost, [Next]_vars, NEW c \in Cloids
               PROVE  filled'[c] + evFill'[c] >= xfill'[c]
    BY DEF FillsNeverLost
  <2>1. /\ filled[c] \in Nat /\ evFill[c] \in Nat /\ xfill[c] \in Nat /\ Size \in Nat
        /\ filled'[c] \in Nat /\ evFill'[c] \in Nat /\ xfill'[c] \in Nat
        /\ filled[c] <= Size /\ xfill[c] <= Size
        /\ filled[c] + evFill[c] >= xfill[c]
    BY Constants DEF TypeOK, Lots, FillsNeverLost
  <2>2. CASE UNCHANGED vars
    BY <2>1, <2>2 DEF vars
  <2>3. CASE VenueStep \/ \E r \in strays : VenueStray(r)
    <3>1. UNCHANGED filled
      BY <2>3 DEF VenueStep, VenuePlace, VenueCancel, VenueStray
    <3>2. \/ UNCHANGED <<xfill, evFill>>
          \/ \E d, answer : Arrive(d, answer)
      BY <2>3 DEF VenueStep, VenuePlace, VenueCancel, VenueStray, Withdraw
    <3>3. ASSUME NEW d, NEW answer, Arrive(d, answer)
          PROVE  filled'[c] + evFill'[c] >= xfill'[c]
      <4>1. CASE UNCHANGED <<xfill, evFill>>
        BY <2>1, <3>1, <4>1
      <4>2. CASE \E k \in Lots : /\ xfill' = [xfill EXCEPT ![d] = k]
                                 /\ evFill' = [evFill EXCEPT ![d] = k]
        BY <2>1, <3>1, <4>2, Constants DEF TypeOK, Lots
      <4> QED
        BY <3>3, <4>1, <4>2 DEF Arrive
    <3> QED
      BY <2>1, <3>1, <3>2, <3>3
  <2>4. ASSUME NEW d \in Cloids, VenueFill(d) PROVE filled'[c] + evFill'[c] >= xfill'[c]
    BY <2>1, <2>4 DEF VenueFill, TypeOK
  <2>5. ASSUME NEW d \in Cloids, IngestFill(d) PROVE filled'[c] + evFill'[c] >= xfill'[c]
    <3>1. CASE d # c
      BY <2>1, <2>5, <3>1 DEF IngestFill, TypeOK
    <3>2. CASE d = c
      <4>1. /\ filled'[c] = FillTotal(c) /\ evFill'[c] = evFill[c] - 1 /\ xfill'[c] = xfill[c]
            /\ evFill[c] > 0
        BY <2>5, <3>2 DEF IngestFill, TypeOK
      <4> QED
        BY <2>1, <4>1 DEF FillTotal
    <3> QED
      BY <3>1, <3>2
  <2>6. CASE /\ Next /\ ~VenueStep
             /\ \A d \in Cloids : ~VenueFill(d) /\ ~IngestFill(d)
             /\ \A r \in strays : ~VenueStray(r)
    <3>1. UNCHANGED <<xfill, evFill>> /\ filled'[c] >= filled[c]
      BY <2>6, TasksKeepFills
    <3> QED
      BY <2>1, <3>1
  <2> QED
    BY <2>2, <2>3, <2>4, <2>5, <2>6
<1> QED
  BY <1>1, <1>2, TypeCorrect, PTL DEF Spec

-----------------------------------------------------------------------------
(* The pipeline keeps its promise *)

\* What no step may do to a promise: the wire takes recorded orders only, the
\* rows move for one order at a time, and no unsent order's row reopens.
PromiseOf(c) ==
  IF sends[c] > 0 THEN "sent"
  ELSE IF status[c] \in Terminal THEN "aborted"
  ELSE IF status[c] # NoStatus THEN "recorded" ELSE "none"

LEMMA PromiseIs ==
  /\ Promise = [c \in Cloids |-> PromiseOf(c)]
  /\ Promise' = [c \in Cloids |-> PromiseOf(c)']
  /\ \A c \in Cloids : Promise[c] = PromiseOf(c)
BY DEF Promise, PromiseOf

\* A step that writes the row of at most one order, and sends none.
LEMMA RowStepKeeps ==
  ASSUME IInv, VInv, UNCHANGED sends, NEW c \in Cloids,
         \A d \in Cloids \ {c} : status'[d] = status[d],
         sends[c] = 0 /\ status[c] \in Terminal => status'[c] \in Terminal,
         status[c] # NoStatus => status'[c] # NoStatus
  PROVE  P!PNext \/ UNCHANGED <<Promise, sends>>
<1>0. \A d \in Cloids : sends[d] \in Nat
  BY DEF IInv, TypeOK
<1>1. \A d \in Cloids \ {c} : PromiseOf(d)' = PromiseOf(d)
  BY DEF PromiseOf
<1>2. CASE PromiseOf(c)' = PromiseOf(c)
  BY <1>1, <1>2, PromiseIs
<1>3. CASE PromiseOf(c)' # PromiseOf(c)
  <2>1. \/ PromiseOf(c) = "none" /\ PromiseOf(c)' = "recorded"
        \/ PromiseOf(c) \in {"none", "recorded"} /\ PromiseOf(c)' = "aborted"
    BY <1>0, <1>3 DEF PromiseOf
  <2>2. Promise' = [Promise EXCEPT ![c] = PromiseOf(c)']
    BY <1>1, PromiseIs
  <2>3. Promise[c] = PromiseOf(c)
    BY PromiseIs
  <2>4. P!Record(c) \/ P!Abort(c)
    BY <2>1, <2>2, <2>3 DEF P!Record, P!Abort, P!Become
  <2> QED
    BY <2>4 DEF P!PNext
<1> QED
  BY <1>2, <1>3

\* The placement goes on the wire: its order is recorded, not closed, unsent.
LEMMA SendKeeps ==
  ASSUME IInv, VInv, NonceSendPlace
  PROVE  P!PNext
<1>0. /\ nq # <<>> /\ nq[1] \in Jobs /\ Head(nq) = nq[1] /\ 1 \in DOMAIN nq
      /\ nq[1].kind = "place" /\ Len(nq[1].cs) = 1 /\ stage = "cleared"
  BY HeadFacts DEF NonceSendPlace, IInv, QueueSane
<1>1. PICK c \in Cloids : c = nq[1].cs[1]
  BY <1>0 DEF Jobs
<1>2. Queued(c)
  BY <1>0, <1>1 DEF Queued, Unsent
<1>3. sends[c] = 0 /\ sends \in [Cloids -> Nat] /\ sends' = [sends EXCEPT ![c] = @ + 1]
  BY <1>0, <1>1, <1>2 DEF IInv, OneSender, TypeOK, NonceSendPlace
<1>4. status[c] # NoStatus
  BY <1>2, Unknown
<1>5. status[c] \notin Terminal
  BY <1>2 DEF VInv, RowsTrue, RowTrue, Over
<1>6. UNCHANGED status
  BY DEF NonceSendPlace
<1>7. PromiseOf(c) = "recorded" /\ PromiseOf(c)' = "sent"
  BY <1>3, <1>4, <1>5 DEF PromiseOf
<1>8. \A d \in Cloids \ {c} : PromiseOf(d)' = PromiseOf(d)
  BY <1>3, <1>6 DEF PromiseOf
<1>9. Promise' = [Promise EXCEPT ![c] = "sent"] /\ Promise[c] = "recorded"
  BY <1>7, <1>8, PromiseIs
<1>10. P!Put(c)
  BY <1>3, <1>9 DEF P!Put, P!Become
<1> QED
  BY <1>10 DEF P!PNext

\* A copy of an order that a task persists.
LEMMA PersistKeeps ==
  ASSUME IInv, VInv, UNCHANGED sends, NEW c \in Cloids, NEW to \in Statuses, NEW amt,
         PersistTransition(c, to, amt)
  PROVE  P!PNext \/ UNCHANGED <<Promise, sends>>
<1>0. TypeOK /\ status \in [Cloids -> Statuses \cup {NoStatus}]
  BY DEF IInv, TypeOK
<1>1. /\ status \in [Cloids -> Statuses \cup {NoStatus}]
      /\ MergeTransport(status[c], to) \in Statuses /\ NoStatus \notin Statuses
      /\ status[c] \in Terminal => MergeTransport(status[c], to) = status[c]
  BY <1>0, MergeTransportType, Zenon DEF NoStatus, Statuses
<1> QED
  BY <1>1, RowStepKeeps DEF PersistTransition

LEMMA StillKeeps ==
  ASSUME UNCHANGED <<status, sends>>
  PROVE  UNCHANGED <<Promise, sends>>
BY DEF Promise

LEMMA SubmitKeeps ==
  ASSUME IInv, VInv, NEW a \in Callers, SubmitPersist(a)
  PROVE  P!PNext \/ UNCHANGED <<Promise, sends>>
<1>1. PICK c \in Cloids : c = caller[a].c
  <2>1. PICK s \in CallerStates : s = caller[a]
    BY DEF IInv, TypeOK
  <2> QED
    BY <2>1 DEF CallerStates, Idle, SubmitPersist
<1>2. CASE UNCHANGED status
  BY <1>2, StillKeeps DEF SubmitPersist
<1>3. CASE ~UNCHANGED status
  <2>1. PICK st \in {"Submitted", "Rejected"} : status' = [status EXCEPT ![c] = st]
    BY <1>1, <1>3 DEF SubmitPersist
  <2>2. status[c] = NoStatus
    BY <1>1, <1>3 DEF SubmitPersist
  <2>3. /\ \A d \in Cloids \ {c} : status'[d] = status[d]
        /\ status[c] \notin Terminal /\ UNCHANGED sends
    BY <2>1, <2>2 DEF IInv, TypeOK, NoStatus, Terminal, SubmitPersist
  <2> QED
    BY <2>2, <2>3, RowStepKeeps
<1> QED
  BY <1>2, <1>3

LEMMA TaskKeeps ==
  ASSUME IInv, VInv, WorkerApplyPlace \/ WorkerApplyCancel \/ CancelApply \/ SweepApply
  PROVE  P!PNext \/ UNCHANGED <<Promise, sends>>
<1>0. UNCHANGED sends /\ TypeOK
  BY DEF WorkerApplyPlace, WorkerApplyCancel, CancelApply, SweepApply, IInv
<1>1. CASE UNCHANGED status
  BY <1>0, <1>1, StillKeeps
<1>2. CASE ~UNCHANGED status
  <2>1. CASE WorkerApplyPlace
    <3>1. worker.c \in Cloids /\ SubmitTarget(worker.ans.out) \in Statuses
      BY <1>0, <2>1, BusyWorker, OutcomeTypes DEF WorkerApplyPlace
    <3>2. \E amt : PersistTransition(worker.c, SubmitTarget(worker.ans.out), amt)
      BY <1>2, <2>1 DEF WorkerApplyPlace
    <3> QED
      BY <1>0, <3>1, <3>2, PersistKeeps
  <2>2. CASE WorkerApplyCancel
    <3>1. worker.c \in Cloids /\ CancelTarget(worker.snap, worker.ans.out) \in Statuses \cup {NoStatus}
      BY <1>0, <2>2, BusyWorker, OutcomeTypes DEF WorkerApplyCancel
    <3>2. /\ CancelTarget(worker.snap, worker.ans.out) # NoStatus
          /\ \E amt : PersistTransition(worker.c, CancelTarget(worker.snap, worker.ans.out), amt)
      BY <1>2, <2>2 DEF WorkerApplyCancel
    <3> QED
      BY <1>0, <3>1, <3>2, PersistKeeps
  <2>3. CASE CancelApply
    <3>1. /\ canceller.c \in Cloids
          /\ CancelTarget(canceller.snap, canceller.ans.out) \in Statuses \cup {NoStatus}
      BY <1>0, <2>3, BusyCanceller, OutcomeTypes DEF CancelApply, Answers
    <3>2. /\ CancelTarget(canceller.snap, canceller.ans.out) # NoStatus
          /\ \E amt : PersistTransition(canceller.c,
                        CancelTarget(canceller.snap, canceller.ans.out), amt)
      BY <1>2, <2>3 DEF CancelApply
    <3> QED
      BY <1>0, <3>1, <3>2, PersistKeeps
  <2>4. CASE SweepApply
    <3>1. /\ sweeper.chunk \in Seq(Targets) /\ sweeper.chunk # <<>> /\ sweeper.outs \in Seq(Answers)
      BY <1>0, <2>4, SweepTypes DEF SweepApply
    <3>2. PICK t \in Targets : t = Head(sweeper.chunk)
      BY <3>1
    <3>3. PICK a \in Answers : a = IF sweeper.outs = <<>> THEN NoAnswer ELSE Head(sweeper.outs)
      BY <3>1, Constants
    <3>4. /\ t.c \in Cloids /\ t.snap \in Statuses /\ a.out \in Outcomes
          /\ CancelTarget(t.snap, a.out) \in Statuses \cup {NoStatus}
      BY OutcomeTypes DEF Targets, Answers
    <3>5. /\ CancelTarget(t.snap, a.out) # NoStatus
          /\ PersistTransition(t.c, CancelTarget(t.snap, a.out), a.amt)
      BY <1>2, <2>4, <3>2, <3>3 DEF SweepApply
    <3> QED
      BY <1>0, <3>4, <3>5, PersistKeeps
  <2> QED
    BY <2>1, <2>2, <2>3, <2>4
<1> QED
  BY <1>1, <1>2

\* An event's row: one the venue sent reports of an order that was sent.
LEMMA IngestKeeps ==
  ASSUME IInv, VInv, NEW c \in Cloids,
         IngestFill(c) \/ \E s \in Terminal \cup {"Acknowledged"} : IngestOrder(c, s)
  PROVE  P!PNext \/ UNCHANGED <<Promise, sends>>
<1>1. /\ UNCHANGED sends /\ \A d \in Cloids \ {c} : status'[d] = status[d]
  BY DEF IngestFill, IngestOrder, IInv, TypeOK
<1>2. sends[c] # 0
  BY DEF IngestFill, IngestOrder, VInv, OnTheWire
<1>3. status'[c] # NoStatus
  BY DEF IngestFill, IngestOrder, IInv, TypeOK, MergeFill, MergeVenue, Terminal, NoStatus
<1> QED
  BY <1>1, <1>2, <1>3, RowStepKeeps

LEMMA StepKeeps == IInv /\ VInv /\ [Next]_vars => P!PNext \/ UNCHANGED <<Promise, sends>>
<1> SUFFICES ASSUME IInv, VInv, [Next]_vars PROVE P!PNext \/ UNCHANGED <<Promise, sends>>
  OBVIOUS
<1>1. CASE UNCHANGED vars
  BY <1>1, StillKeeps DEF vars
<1>2. ASSUME NEW a \in Callers, SubmitPersist(a) PROVE P!PNext \/ UNCHANGED <<Promise, sends>>
  BY <1>2, SubmitKeeps
<1>3. CASE UNCHANGED <<status, sends>>
  BY <1>3, StillKeeps, Zenon
<1>4. CASE Next /\ ~UNCHANGED <<status, sends>> /\ ~\E a \in Callers : SubmitPersist(a)
  <2>1. \/ WorkerApplyPlace \/ WorkerApplyCancel \/ CancelApply \/ SweepApply \/ NonceSendPlace
        \/ \E c \in Cloids :
             IngestFill(c) \/ \E s \in Terminal \cup {"Acknowledged"} : IngestOrder(c, s)
    BY <1>4 DEF Next, SubmitCheck, SubmitExpose, Claim, WorkerStep, WorkerGiveUp,
       WorkerError, WorkerLoad, WorkerGate, WorkerSend, WorkerLookup, WorkerQuery,
       WorkerDefer, CancelRequest, CancelSend, CancelGiveUp, CancelLookup, KillLatch,
       KillReset, SweepStart, SweepSend, SweepGiveUp, SweepFinish, QueueStep, NoncePreflight,
       NonceSendCancel, NonceReply, NonceLose, VenueStep, VenuePlace, VenueCancel, VenueStray,
       VenueFill, Crash
  <2>2. CASE WorkerApplyPlace \/ WorkerApplyCancel \/ CancelApply \/ SweepApply
    BY <2>2, TaskKeeps
  <2>3. ASSUME NEW c \in Cloids,
               IngestFill(c) \/ \E s \in Terminal \cup {"Acknowledged"} : IngestOrder(c, s)
        PROVE  P!PNext \/ UNCHANGED <<Promise, sends>>
    BY <2>3, IngestKeeps
  <2> QED
    BY <2>1, <2>2, <2>3, SendKeeps
<1> QED
  BY <1>1, <1>2, <1>3, <1>4

\* DurableExecution implements PlacementPromise: submit_order records an order
\* before anything is sent, the queue sends it once, and what the rows closed
\* unsent stays off the wire, across lease expiries, lost answers and crashes.
THEOREM PromiseKept ==
  ASSUME Aligned
  PROVE  Spec => KeepsPromise
<1>1. Init => P!PInit
  BY PromiseIs DEF Init, P!PInit, PromiseOf, NoStatus, Terminal
<1>2. IInv /\ VInv /\ [Next]_vars => [P!PNext]_(P!pvars)
  BY StepKeeps DEF P!pvars
<1> QED
  BY <1>1, <1>2, TrueRows, PTL DEF Spec, KeepsPromise, P!PSpec

-----------------------------------------------------------------------------
(***************************************************************************)
(* The kill sweep.  Where both conditions hold, the venue works no order   *)
(* once an answered sweep ended with the latch still set, except one whose *)
(* request outlived its sender.                                            *)
(***************************************************************************)

\* The head is a placement that has passed the last gate of the queue.
Cleared(c) == nq # <<>> /\ stage = "cleared" /\ nq[1].cs[1] = c

\* Something the latch does not stop works the order or puts it to work.
Working(c) == Exposed(c) \/ Cleared(c)

\* The worker or the queue of this process took the order up.
TakenUp(c) == sends[c] > 0 \/ Queued(c) \/ (MaySend(c) /\ worker.pc # "load")

\* What the process took up it remembers, as open unless the order is over, so
\* that the sweep's snapshot names it; a stray was sent and then abandoned.
Remembered ==
  /\ \A c \in Cloids : TakenUp(c) => mem[c] # NoStatus \/ c \in excused
  /\ \A c \in Cloids : mem[c] \in Terminal => c \in Over
  /\ \A a \in Callers :
       caller[a].pc = "expose" /\ caller[a].st = "Rejected" => caller[a].c \in Over
  /\ \A c \in Cloids : Astray(c) => c \in excused

\* The orders the sweep names.
Named(c) == \E i \in DOMAIN sweeper.chunk : sweeper.chunk[i].c = c

\* The venue has the sweep's batch behind it.
SweepAnswered ==
  \/ swept
  \/ sweeper.pc = "apply" /\ sweeper.answered
  \/ nq # <<>> /\ stage = "answered" /\ nq[1].owner = "sweeper"

\* While the latch is set the sweep names all that works, and nothing works
\* once it was answered.
Swept ==
  killed =>
    /\ sweeper.pc \in {"send", "wait"} =>
         \A c \in Cloids : Working(c) => c \in excused \/ Named(c)
    /\ SweepAnswered => \A c \in Cloids : Working(c) => c \in excused

KInv == Remembered /\ Swept

-----------------------------------------------------------------------------
(* What works, and what a step may add to it *)

\* What every step leaves of the orders taken up and at work.
Guarded ==
  /\ excused \subseteq excused'
  /\ \A c \in Cloids : TakenUp(c)' => TakenUp(c) \/ mem'[c] # NoStatus \/ c \in excused'
  /\ \A c \in Cloids : Astray(c)' => Astray(c) \/ c \in excused'
  /\ killed => \A c \in Cloids : Working(c)' => Working(c) \/ c \in excused'

LEMMA WorkingNow ==
  ASSUME IInv, NEW c
  PROVE  Working(c) <=> ex[c] = "live" \/ HeadSent(c) \/ Astray(c) \/ Cleared(c)
BY InFlightNow DEF Working

LEMMA WorkingNext ==
  ASSUME IInv', NEW c
  PROVE  Working(c)' <=> ex'[c] = "live" \/ HeadSent(c)' \/ Astray(c)' \/ Cleared(c)'
<1>1. Exposed(c)' <=> ex'[c] = "live" \/ HeadSent(c)' \/ Astray(c)'
  BY InFlightNext
<1> QED
  BY <1>1 DEF Working

\* A placement cleared to go is queued and not yet sent.
LEMMA ClearedQueued ==
  ASSUME IInv, NEW c \in Cloids, Cleared(c)
  PROVE  Queued(c)
<1>1. 1 \in DOMAIN nq /\ nq[1].kind = "place" /\ nq[1].cs[1] = c
  BY HeadFacts DEF Cleared, IInv, QueueSane
<1> QED
  BY <1>1 DEF Queued, Unsent, Cleared

LEMMA OverIdle ==
  ASSUME IInv, NEW c \in Over
  PROVE  ~Working(c)
BY ClearedQueued DEF Over, Working

\* The snapshot of memory's open orders names all that works.
LEMMA WorkingIsOpen ==
  ASSUME IInv, VInv, Remembered, NEW c \in Cloids, Working(c)
  PROVE  c \in excused \/ mem[c] \in Open
<1>1. TakenUp(c)
  <2>1. sends[c] \in Nat
    BY DEF IInv, TypeOK
  <2>2. CASE Cleared(c)
    BY <2>2, ClearedQueued DEF TakenUp
  <2>3. CASE ex[c] = "live" \/ HeadSent(c) \/ Astray(c)
    <3>1. sends[c] # 0
      BY <2>3 DEF VInv, OnTheWire
    <3> QED
      BY <2>1, <3>1 DEF TakenUp
  <2> QED
    BY <2>2, <2>3, WorkingNow
<1>2. mem[c] \notin Terminal
  BY OverIdle DEF Remembered
<1>3. mem[c] \in Statuses \cup {NoStatus}
  BY DEF IInv, TypeOK
<1> QED
  BY <1>1, <1>2, <1>3 DEF Remembered, Open

\* A step that leaves queue, wire and venue alone.
LEMMA StillGuarded ==
  ASSUME IInv, IInv', UNCHANGED <<nq, stage, strays, ex, sends, excused>>,
         \A d \in Cloids :
           MaySend(d)' /\ worker'.pc # "load" => MaySend(d) /\ worker.pc # "load"
  PROVE  Guarded
<1>1. \A d \in Cloids : Queued(d)' <=> Queued(d)
  BY DEF Queued, Unsent
<1>2. \A d \in Cloids :
        /\ (HeadSent(d)' <=> HeadSent(d)) /\ (Astray(d)' <=> Astray(d))
        /\ (Cleared(d)' <=> Cleared(d))
  BY DEF HeadSent, Astray, Cleared
<1>3. \A d \in Cloids : Working(d)' <=> Working(d)
  BY <1>2, WorkingNow, WorkingNext
<1> QED
  BY <1>1, <1>2, <1>3 DEF Guarded, TakenUp

LEMMA SubmitGuarded ==
  ASSUME IInv, IInv', NEW a \in Callers,
         (\E c \in Cloids : SubmitCheck(a, c)) \/ SubmitPersist(a) \/ SubmitExpose(a)
  PROVE  Guarded
BY StillGuarded DEF SubmitCheck, SubmitPersist, SubmitExpose, MaySend

LEMMA ClaimGuarded ==
  ASSUME IInv, IInv', NEW k \in Kinds, NEW c \in Cloids, Claim(k, c)
  PROVE  Guarded
<1>1. worker'.pc = "load"
  BY DEF Claim
<1> QED
  BY <1>1, StillGuarded DEF Claim

\* Where the worker takes an order up it has stored its row in memory.
LEMMA WorkerLoadGuarded ==
  ASSUME IInv, IInv', WorkerLoad
  PROVE  Guarded
<1>1. /\ worker.c \in Cloids /\ mem \in [Cloids -> Statuses \cup {NoStatus}]
      /\ UNCHANGED <<nq, stage, strays, ex, sends, excused>>
  BY BusyWorker DEF IInv, TypeOK, WorkerLoad
<1>2. \A d \in Cloids : MaySend(d)' => mem'[d] # NoStatus
  <2> SUFFICES ASSUME NEW d \in Cloids, MaySend(d)' PROVE mem'[d] # NoStatus
    OBVIOUS
  <2>1. d = worker.c /\ status[worker.c] \in Open
    BY DEF WorkerLoad, MaySend, WorkerAt, Idle
  <2> QED
    BY <1>1, <2>1 DEF WorkerLoad, Open, Statuses, NoStatus
<1>3. \A d \in Cloids : Queued(d)' <=> Queued(d)
  BY <1>1 DEF Queued, Unsent
<1>4. \A d \in Cloids :
        /\ (HeadSent(d)' <=> HeadSent(d)) /\ (Astray(d)' <=> Astray(d))
        /\ (Cleared(d)' <=> Cleared(d))
  BY <1>1 DEF HeadSent, Astray, Cleared
<1>5. \A d \in Cloids : Working(d)' <=> Working(d)
  BY <1>1, <1>4, WorkingNow, WorkingNext
<1> QED
  BY <1>1, <1>2, <1>3, <1>4, <1>5 DEF Guarded, TakenUp

LEMMA WorkerGuarded ==
  ASSUME IInv, IInv', VInv,
         \/ WorkerGate \/ WorkerLookup \/ WorkerQuery \/ WorkerApplyPlace
         \/ WorkerApplyCancel \/ WorkerDefer \/ WorkerError
  PROVE  Guarded
<1>1. UNCHANGED <<nq, stage, strays, ex, sends, excused>>
  BY DEF WorkerGate, WorkerLookup, WorkerQuery, WorkerApplyPlace, WorkerApplyCancel,
     WorkerDefer, WorkerError
<1>2. \A d \in Cloids : MaySend(d)' => MaySend(d) /\ worker.pc # "load"
  <2>1. CASE WorkerGate
    BY <2>1 DEF WorkerGate, VInv, Told, WorkerTrue, MaySend, WorkerApplies, WorkerSends, WorkerAt
  <2>2. CASE WorkerLookup \/ WorkerQuery
    BY <2>2 DEF WorkerLookup, WorkerQuery, MaySend, WorkerApplies, WorkerSends, WorkerAt
  <2>3. CASE WorkerApplyPlace \/ WorkerApplyCancel \/ WorkerDefer \/ WorkerError
    <3>1. worker'.pc \in {"idle", "defer"}
      BY <2>3 DEF WorkerApplyPlace, WorkerApplyCancel, WorkerDefer, WorkerError, Deferred,
         WorkerAt, Idle
    <3> QED
      BY <3>1 DEF MaySend
  <2> QED
    BY <2>1, <2>2, <2>3
<1> QED
  BY <1>1, <1>2, StillGuarded

LEMMA OtherTaskGuarded ==
  ASSUME IInv, IInv',
         \/ \E c \in Cloids : CancelRequest(c)
         \/ CancelLookup \/ CancelApply \/ KillLatch \/ KillReset
         \/ SweepStart \/ SweepApply \/ SweepFinish
  PROVE  Guarded
<1>1. UNCHANGED <<nq, stage, strays, ex, sends, excused, worker>>
  BY DEF CancelRequest, CancelLookup, CancelApply, KillLatch, KillReset, SweepStart,
     SweepApply, SweepFinish
<1> QED
  BY <1>1, StillGuarded DEF MaySend

LEMMA IngestGuarded ==
  ASSUME IInv, IInv', NEW c \in Cloids, IngestFill(c) \/ \E s : IngestOrder(c, s)
  PROVE  Guarded
BY StillGuarded DEF IngestFill, IngestOrder, MaySend

\* A job joins the queue: only a placement the worker has taken up.
LEMMA JoinGuarded ==
  ASSUME IInv, IInv', NEW kind \in Kinds, NEW cs \in Seq(Cloids), NEW o \in Owners,
         Enqueue(kind, cs, o), UNCHANGED <<stage, strays, ex, sends, excused>>,
         kind = "place" => MaySend(cs[1]) /\ worker.pc # "load",
         \A d \in Cloids :
           MaySend(d)' /\ worker'.pc # "load" => MaySend(d) /\ worker.pc # "load"
  PROVE  Guarded
<1>1. /\ nq' \in Seq(Jobs) /\ nq \in Seq(Jobs) /\ DOMAIN nq' = 1..(Len(nq) + 1)
      /\ \A i \in DOMAIN nq : nq'[i] = nq[i]
      /\ nq'[Len(nq) + 1] = [kind |-> kind, cs |-> cs, owner |-> o]
  BY EnqueueType DEF IInv
<1>2. \A d \in Cloids : Queued(d)' => TakenUp(d)
  <2> SUFFICES ASSUME NEW d \in Cloids, NEW i \in DOMAIN nq', Unsent(i)', nq'[i].cs[1] = d
               PROVE  TakenUp(d)
    BY DEF Queued
  <2>1. CASE i \in DOMAIN nq
    BY <1>1, <2>1 DEF Queued, Unsent, TakenUp
  <2>2. CASE i \notin DOMAIN nq
    <3>1. i = Len(nq) + 1
      BY <1>1, <2>2
    <3> QED
      BY <1>1, <3>1 DEF Unsent, TakenUp
  <2> QED
    BY <2>1, <2>2
<1>3. /\ nq = <<>> => stage = "queued"
      /\ nq # <<>> => 1 \in DOMAIN nq
  BY HeadFacts
<1>4. \A d \in Cloids :
        /\ (HeadSent(d)' => HeadSent(d)) /\ (Astray(d)' <=> Astray(d))
        /\ (Cleared(d)' => Cleared(d))
  BY <1>1, <1>3 DEF HeadSent, Astray, Cleared
<1>5. \A d \in Cloids : Working(d)' => Working(d)
  BY <1>4, WorkingNow, WorkingNext
<1> QED
  BY <1>2, <1>4, <1>5 DEF Guarded, TakenUp

\* A cancel joins, and the worker stays where it is.
LEMMA OtherJoinGuarded ==
  ASSUME IInv, IInv', NEW cs \in Seq(Cloids), NEW o \in Owners, Enqueue("cancel", cs, o),
         UNCHANGED <<stage, strays, ex, sends, excused, worker>>
  PROVE  Guarded
<1>1. "cancel" \in Kinds
  BY DEF Kinds
<1> QED
  BY <1>1, JoinGuarded DEF MaySend

LEMMA SendGuarded ==
  ASSUME IInv, IInv', VInv, WorkerSend \/ CancelSend \/ SweepSend
  PROVE  Guarded
<1>1. CASE WorkerSend
  <2>1. worker.pc = "send" /\ worker.c \in Cloids /\ worker.kind \in Kinds /\ worker'.pc = "wait"
    BY <1>1, BusyWorker DEF WorkerSend, IInv, WorkerAt
  <2>2. PICK kind \in Kinds, cs \in Seq(Cloids) : kind = worker.kind /\ cs = <<worker.c>>
    <3>1. <<worker.c>> \in Seq(Cloids)
      BY <2>1
    <3> QED
      BY <2>1, <3>1
  <2>3. Enqueue(kind, cs, "worker") /\ "worker" \in Owners
    BY <1>1, <2>2 DEF WorkerSend, Owners
  <2>4. kind = "place" => MaySend(cs[1])
    BY <2>1, <2>2 DEF MaySend
  <2>5. \A d \in Cloids : ~MaySend(d)'
    BY <2>1 DEF MaySend
  <2> QED
    BY <1>1, <2>1, <2>3, <2>4, <2>5, JoinGuarded DEF WorkerSend
<1>2. CASE CancelSend
  <2>1. canceller.c \in Cloids
    BY <1>2, BusyCanceller DEF CancelSend, IInv
  <2>2. PICK cs \in Seq(Cloids) : cs = <<canceller.c>>
    <3>1. <<canceller.c>> \in Seq(Cloids)
      BY <2>1
    <3> QED
      BY <3>1
  <2>3. Enqueue("cancel", cs, "canceller") /\ "canceller" \in Owners /\ "cancel" \in Kinds
    BY <1>2, <2>2 DEF CancelSend, Owners, Kinds
  <2> QED
    BY <1>2, <2>3, OtherJoinGuarded DEF CancelSend
<1>3. CASE SweepSend
  <2>1. PICK cs \in Seq(Cloids) : cs = sweeper.wires
    BY <1>3, SweepTypes DEF SweepSend, IInv
  <2>2. Enqueue("cancel", cs, "sweeper") /\ "sweeper" \in Owners /\ "cancel" \in Kinds
    BY <1>3, <2>1 DEF SweepSend, Owners, Kinds
  <2> QED
    BY <1>3, <2>2, OtherJoinGuarded DEF SweepSend
<1> QED
  BY <1>1, <1>2, <1>3

LEMMA LeaveGuarded ==
  ASSUME IInv, IInv', VInv, WorkerGiveUp \/ CancelGiveUp \/ SweepGiveUp
  PROVE  Guarded
<1>1. PICK o \in Owners : nq' = Disown(o)
  BY DEF WorkerGiveUp, CancelGiveUp, SweepGiveUp, Owners
<1>2. /\ nq' \in Seq(Jobs) /\ nq \in Seq(Jobs) /\ Len(nq') = Len(nq) /\ DOMAIN nq' = DOMAIN nq
      /\ \A i \in DOMAIN nq : nq'[i].kind = nq[i].kind /\ nq'[i].cs = nq[i].cs
  BY <1>1, DisownType DEF IInv, TypeOK
<1>3. UNCHANGED <<stage, strays, ex, sends, excused>>
  BY DEF WorkerGiveUp, CancelGiveUp, SweepGiveUp
<1>4. \A d \in Cloids : Queued(d)' => Queued(d)
  BY <1>2, <1>3 DEF Queued, Unsent
<1>5. \A d \in Cloids : MaySend(d)' /\ worker'.pc # "load" => MaySend(d) /\ worker.pc # "load"
  <2>1. CASE WorkerGiveUp
    <3>1. worker'.pc \in {"lookup", "apply"}
      BY <2>1 DEF WorkerGiveUp, WorkerAt
    <3> QED
      BY <3>1 DEF MaySend
  <2>2. CASE CancelGiveUp \/ SweepGiveUp
    BY <2>2 DEF CancelGiveUp, SweepGiveUp, MaySend
  <2> QED
    BY <2>1, <2>2
<1>6. \A d \in Cloids :
        /\ (HeadSent(d)' => HeadSent(d)) /\ (Astray(d)' <=> Astray(d))
        /\ (Cleared(d)' => Cleared(d))
  <2>1. nq' # <<>> => nq # <<>> /\ nq'[1].kind = nq[1].kind /\ nq'[1].cs = nq[1].cs
    BY <1>2
  <2> QED
    BY <1>3, <2>1 DEF HeadSent, Astray, Cleared
<1>7. \A d \in Cloids : Working(d)' => Working(d)
  BY <1>3, <1>6, WorkingNow, WorkingNext
<1> QED
  BY <1>3, <1>4, <1>5, <1>6, <1>7 DEF Guarded, TakenUp

\* The head ends: a placement lost on the wire is excused.
LEMMA EndGuarded ==
  ASSUME IInv, IInv', VInv, nq # <<>>, NEW outs \in Seq(Answers), NEW failed \in BOOLEAN,
         Finish(outs, failed), UNCHANGED <<ex, sends>>, excused \subseteq excused',
         \A d \in Cloids : Astray(d)' => Astray(d) \/ d \in excused'
  PROVE  Guarded
<1>1. nq' = Tail(nq) /\ stage' = "queued" /\ nq \in Seq(Jobs)
  BY HeadFacts, FinishSteps
<1>2. \A d \in Cloids : Queued(d)' => Queued(d)
  <2> SUFFICES ASSUME NEW d \in Cloids, NEW i \in DOMAIN nq', Unsent(i)', nq'[i].cs[1] = d
               PROVE  Queued(d)
    BY DEF Queued
  <2>1. i + 1 \in DOMAIN nq /\ i + 1 > 1 /\ nq'[i] = nq[i + 1]
    BY <1>1
  <2>2. Unsent(i + 1)
    BY <2>1 DEF Unsent
  <2> QED
    BY <2>1, <2>2 DEF Queued
<1>3. \A d \in Cloids : MaySend(d)' /\ worker'.pc # "load" => MaySend(d) /\ worker.pc # "load"
  <2>1. CASE Head(nq).owner = "worker"
    <3>1. worker'.pc \in {"lookup", "apply"}
      BY <2>1, FinishSteps DEF WorkerAt
    <3> QED
      BY <3>1 DEF MaySend
  <2>2. CASE Head(nq).owner # "worker"
    BY <2>2, FinishSteps DEF MaySend
  <2> QED
    BY <2>1, <2>2
<1>4. \A d \in Cloids : ~HeadSent(d)' /\ ~Cleared(d)'
  BY <1>1 DEF HeadSent, Cleared
<1>5. \A d \in Cloids : Working(d)' => Working(d) \/ d \in excused'
  BY <1>4, WorkingNow, WorkingNext
<1> QED
  BY <1>2, <1>3, <1>5 DEF Guarded, TakenUp

LEMMA PreflightGuarded ==
  ASSUME IInv, IInv', VInv, NoncePreflight
  PROVE  Guarded
<1>1. CASE ~killed /\ stage' = "cleared" /\ UNCHANGED <<nq, reply, worker, canceller, sweeper>>
  <2>1. \A d \in Cloids : Queued(d)' <=> Queued(d)
    BY <1>1 DEF NoncePreflight, Queued, Unsent
  <2>2. \A d \in Cloids : Astray(d)' <=> Astray(d)
    BY DEF NoncePreflight, Astray
  <2> QED
    BY <1>1, <2>1, <2>2 DEF NoncePreflight, Guarded, TakenUp, MaySend
<1>2. CASE Finish(<<Ans("aborted", 0)>>, FALSE)
  <2>1. PICK x \in Answers : x = Ans("aborted", 0)
    BY Constants DEF Ans, Answers, Outcomes
  <2>2. PICK outs \in Seq(Answers) : outs = <<x>>
    <3>1. <<x>> \in Seq(Answers)
      OBVIOUS
    <3> QED
      BY <3>1
  <2>3. Finish(outs, FALSE)
    BY <1>2, <2>1, <2>2
  <2>4. \A d \in Cloids : Astray(d)' => Astray(d)
    BY DEF NoncePreflight, Astray
  <2> QED
    BY <2>3, <2>4, EndGuarded DEF NoncePreflight
<1> QED
  BY <1>1, <1>2 DEF NoncePreflight

\* The answer of the head reaches who waits for it, or cannot be read.
LEMMA ReplyOuts ==
  ASSUME IInv, NonceReply
  PROVE  \E outs \in Seq(Answers) : Finish(outs, FALSE)
<1>1. \A out \in {"garbled", "opaque"} : <<Ans(out, 0)>> \in Seq(Answers)
  BY Constants DEF Ans, Answers, Outcomes
<1>2. reply \in Seq(Answers) /\ <<>> \in Seq(Answers)
  BY DEF IInv, TypeOK
<1>3. CASE Finish(IF Head(nq).owner = "sweeper" THEN <<>> ELSE <<Ans("garbled", 0)>>, FALSE)
  <2>1. CASE Head(nq).owner = "sweeper"
    <3>1. Finish(<<>>, FALSE)
      BY <1>3, <2>1
    <3> QED
      BY <1>2, <3>1
  <2>2. CASE Head(nq).owner # "sweeper"
    <3>1. Finish(<<Ans("garbled", 0)>>, FALSE)
      BY <1>3, <2>2
    <3> QED
      BY <1>1, <3>1
  <2> QED
    BY <2>1, <2>2
<1>4. CASE Finish(reply, FALSE)
  BY <1>2, <1>4
<1>5. CASE Finish(<<Ans("opaque", 0)>>, FALSE)
  BY <1>1, <1>5
<1> QED
  BY <1>3, <1>4, <1>5 DEF NonceReply

LEMMA ReplyGuarded ==
  ASSUME IInv, IInv', VInv, NonceReply
  PROVE  Guarded
<1>1. PICK outs \in Seq(Answers) : Finish(outs, FALSE)
  BY ReplyOuts
<1>2. \A d \in Cloids : Astray(d)' => Astray(d)
  BY DEF NonceReply, Astray
<1> QED
  BY <1>1, <1>2, EndGuarded DEF NonceReply

LEMMA LoseGuarded ==
  ASSUME IInv, IInv', VInv, NonceLose
  PROVE  Guarded
<1>0. nq # <<>> /\ Head(nq) = nq[1] /\ Finish(<<>>, TRUE)
  BY HeadFacts DEF NonceLose
<1>1. PICK outs \in Seq(Answers) : outs = <<>>
  <2>1. <<>> \in Seq(Answers)
    OBVIOUS
  <2> QED
    BY <2>1
<1>2. Finish(outs, TRUE)
  BY <1>0, <1>1
<1>3. excused \subseteq excused'
  BY DEF NonceLose
<1>4. \A d \in Cloids : Astray(d)' => Astray(d) \/ d \in excused'
  <2> SUFFICES ASSUME NEW d \in Cloids, NEW r \in strays', r.kind = "place", r.cs[1] = d,
                      r \notin strays
               PROVE  d \in excused'
    BY DEF Astray
  <2>1. stage = "sent" /\ r = Request(nq[1])
    BY <1>0 DEF NonceLose
  <2>2. nq[1].kind = "place" /\ nq[1].cs[1] = d
    BY <2>1 DEF Request
  <2> QED
    BY <1>0, <2>1, <2>2 DEF NonceLose
<1> QED
  BY <1>0, <1>2, <1>3, <1>4, EndGuarded DEF NonceLose

LEMMA NonceSendGuarded ==
  ASSUME IInv, IInv', VInv, NonceSendPlace \/ NonceSendCancel
  PROVE  Guarded
<1>0. /\ nq # <<>> /\ Head(nq) = nq[1] /\ 1 \in DOMAIN nq /\ nq' = nq /\ stage' = "sent"
      /\ stage \notin {"sent", "answered"} /\ UNCHANGED <<strays, ex, excused, worker>>
  BY HeadFacts DEF NonceSendPlace, NonceSendCancel
<1>1. CASE NonceSendPlace
  <2>1. nq[1].kind = "place" /\ stage = "cleared" /\ sends' = [sends EXCEPT ![nq[1].cs[1]] = @ + 1]
    BY <1>0, <1>1 DEF NonceSendPlace, IInv, QueueSane
  <2>2. \A d \in Cloids : TakenUp(d)' => TakenUp(d)
    <3> SUFFICES ASSUME NEW d \in Cloids, TakenUp(d)' PROVE TakenUp(d)
      OBVIOUS
    <3>1. CASE nq[1].cs[1] = d
      BY <1>0, <2>1, <3>1 DEF TakenUp, Queued, Unsent
    <3>2. CASE nq[1].cs[1] # d
      BY <1>0, <2>1, <3>2 DEF TakenUp, Queued, Unsent, MaySend, IInv, TypeOK
    <3> QED
      BY <3>1, <3>2
  <2>3. \A d \in Cloids :
          /\ (HeadSent(d)' => Cleared(d)) /\ (Astray(d)' <=> Astray(d)) /\ ~Cleared(d)'
    BY <1>0, <2>1 DEF HeadSent, Astray, Cleared
  <2>4. \A d \in Cloids : Working(d)' => Working(d)
    BY <1>0, <2>3, WorkingNow, WorkingNext
  <2> QED
    BY <1>0, <2>2, <2>3, <2>4 DEF Guarded
<1>2. CASE NonceSendCancel
  <2>1. nq[1].kind = "cancel" /\ sends' = sends
    BY <1>0, <1>2 DEF NonceSendCancel
  <2>2. \A d \in Cloids : Queued(d)' => Queued(d)
    BY <1>0 DEF Queued, Unsent
  <2>3. \A d \in Cloids : ~HeadSent(d)' /\ (Astray(d)' <=> Astray(d)) /\ ~Cleared(d)'
    BY <1>0, <2>1 DEF HeadSent, Astray, Cleared
  <2>4. \A d \in Cloids : Working(d)' => Working(d)
    BY <1>0, <2>3, WorkingNow, WorkingNext
  <2> QED
    BY <1>0, <2>1, <2>2, <2>3, <2>4 DEF Guarded, TakenUp, MaySend
<1> QED
  BY <1>1, <1>2

\* The venue takes, closes or fills what was on its way or at work.
LEMMA RecedingGuarded ==
  ASSUME IInv, IInv', Outside, Receding, stage' # "cleared" \/ stage' = stage,
         excused' = excused,
         \A d \in Cloids : ex'[d] = "live" => ex[d] = "live" \/ HeadSent(d) \/ Astray(d)
  PROVE  Guarded
<1>1. \A d \in Cloids : Queued(d)' <=> Queued(d)
  BY DEF Queued, Unsent, Outside, Receding
<1>2. \A d \in Cloids : Cleared(d)' => Cleared(d)
  BY DEF Cleared, Outside
<1>3. \A d \in Cloids : Working(d)' => Working(d)
  BY <1>2, WorkingNow, WorkingNext DEF Receding
<1> QED
  BY <1>1, <1>3 DEF Guarded, TakenUp, MaySend, Outside, Receding

LEMMA ArriveLive ==
  ASSUME IInv, NEW c \in Cloids, NEW answer, Arrive(c, answer)
  PROVE  \A d \in Cloids : ex'[d] = "live" => ex[d] = "live" \/ d = c
BY DEF Arrive, IInv, TypeOK

LEMMA VenueGuarded ==
  ASSUME IInv, IInv', VInv, VenuePlace \/ VenueCancel
  PROVE  Guarded
<1>0. /\ nq # <<>> /\ Head(nq) = nq[1] /\ nq[1] \in Jobs /\ stage = "sent" /\ stage' = "answered"
      /\ Outside /\ strays' = strays /\ excused' = excused
  BY HeadFacts DEF VenuePlace, VenueCancel, Outside
<1>1. \A d \in Cloids : ~HeadSent(d)' /\ (Astray(d)' <=> Astray(d))
  BY <1>0 DEF HeadSent, Astray
<1>2. Receding
  BY <1>0, <1>1 DEF Receding
<1>3. \A d \in Cloids : ex'[d] = "live" => ex[d] = "live" \/ HeadSent(d)
  <2>1. CASE VenuePlace
    <3>1. PICK c \in Cloids : nq[1].cs[1] = c
      BY <1>0, <2>1 DEF VenuePlace, IInv, QueueSane, Jobs
    <3>2. HeadSent(c) /\ \E answer \in Answers : Arrive(c, answer)
      BY <1>0, <2>1, <3>1 DEF VenuePlace, HeadSent
    <3> QED
      BY <3>2, ArriveLive
  <2>2. CASE VenueCancel
    BY <2>2 DEF VenueCancel, Withdraw
  <2> QED
    BY <2>1, <2>2
<1> QED
  BY <1>0, <1>2, <1>3, RecedingGuarded

LEMMA StrayGuarded ==
  ASSUME IInv, IInv', VInv, NEW r \in strays, VenueStray(r)
  PROVE  Guarded
<1>0. /\ strays' = strays \ {r} /\ nq' = nq /\ stage' = stage /\ Outside /\ excused' = excused
      /\ r \in Requests /\ r.cs \in Seq(Cloids)
  BY DEF VenueStray, Outside, IInv, TypeOK, Requests
<1>1. \A d \in Cloids : (HeadSent(d)' <=> HeadSent(d)) /\ (Astray(d)' => Astray(d))
  BY <1>0 DEF HeadSent, Astray
<1>2. Receding
  BY <1>0, <1>1 DEF Receding
<1>3. \A d \in Cloids : ex'[d] = "live" => ex[d] = "live" \/ Astray(d)
  <2>1. CASE r.kind = "place" /\ \E answer \in Answers : Arrive(r.cs[1], answer)
    <3>1. PICK c \in Cloids : c = r.cs[1]
      BY <1>0, <2>1 DEF VInv, OnTheWire
    <3>2. Astray(c) /\ \E answer \in Answers : Arrive(c, answer)
      BY <2>1, <3>1 DEF Astray
    <3> QED
      BY <3>2, ArriveLive
  <2>2. CASE Withdraw(r.cs)
    BY <2>2 DEF Withdraw
  <2>3. CASE UNCHANGED venueVars
    BY <2>3
  <2> QED
    BY <2>1, <2>2, <2>3 DEF VenueStray
<1> QED
  BY <1>0, <1>2, <1>3, RecedingGuarded

LEMMA FillGuarded ==
  ASSUME IInv, IInv', NEW c \in Cloids, VenueFill(c)
  PROVE  Guarded
<1>0. nq' = nq /\ stage' = stage /\ strays' = strays /\ Outside /\ excused' = excused
  BY DEF VenueFill, Outside
<1>1. \A d \in Cloids : (HeadSent(d)' <=> HeadSent(d)) /\ (Astray(d)' <=> Astray(d))
  BY <1>0 DEF HeadSent, Astray
<1>2. Receding
  BY <1>0, <1>1 DEF Receding
<1>3. \A d \in Cloids : ex'[d] = "live" => ex[d] = "live"
  BY DEF VenueFill, IInv, TypeOK
<1> QED
  BY <1>0, <1>2, <1>3, RecedingGuarded

\* After a crash every order that was ever sent is excused.
LEMMA CrashGuarded ==
  ASSUME IInv, IInv', VInv, Crash
  PROVE  Guarded
<1>0. /\ nq' = <<>> /\ stage' = "queued" /\ UNCHANGED <<ex, sends>>
      /\ sends \in [Cloids -> Nat] /\ excused \subseteq excused'
  BY DEF Crash, IInv, TypeOK
<1>1. \A d \in Cloids : ~HeadSent(d)' /\ ~Cleared(d)' /\ ~Queued(d)' /\ ~MaySend(d)'
  BY <1>0 DEF HeadSent, Cleared, Queued, MaySend, Crash, Idle
<1>2. \A d \in Cloids : sends[d] > 0 => d \in excused'
  BY DEF Crash
<1>3. \A d \in Cloids : Astray(d)' => d \in excused'
  <2> SUFFICES ASSUME NEW d \in Cloids, Astray(d)' PROVE d \in excused'
    OBVIOUS
  <2>1. Astray(d) \/ HeadSent(d)
    <3>1. nq # <<>> => Request(Head(nq)) = [kind |-> nq[1].kind, cs |-> nq[1].cs]
      BY HeadFacts DEF Request
    <3> QED
      BY <3>1 DEF Crash, Astray, HeadSent
  <2>2. sends[d] = 1
    BY <2>1 DEF VInv, OnTheWire
  <2> QED
    BY <1>2, <2>2
<1>4. \A d \in Cloids : Working(d)' => Working(d) \/ d \in excused'
  BY <1>0, <1>1, <1>3, WorkingNow, WorkingNext
<1> QED
  BY <1>0, <1>1, <1>2, <1>3, <1>4 DEF Guarded, TakenUp

LEMMA NextGuarded ==
  ASSUME IInv, IInv', VInv, Next
  PROVE  Guarded
<1>1. ASSUME NEW a \in Callers,
             (\E c \in Cloids : SubmitCheck(a, c)) \/ SubmitPersist(a) \/ SubmitExpose(a)
      PROVE  Guarded
  BY <1>1, SubmitGuarded
<1>2. CASE \/ \E k \in Kinds, c \in Cloids : Claim(k, c)
           \/ WorkerStep \/ WorkerGiveUp \/ WorkerError
  BY <1>2, ClaimGuarded, WorkerLoadGuarded, WorkerGuarded, SendGuarded, LeaveGuarded
  DEF WorkerStep
<1>3. CASE \/ \E c \in Cloids : CancelRequest(c)
           \/ CancelSend \/ CancelGiveUp \/ CancelLookup \/ CancelApply
  BY <1>3, OtherTaskGuarded, SendGuarded, LeaveGuarded
<1>4. CASE \/ KillLatch \/ KillReset
           \/ SweepStart \/ SweepSend \/ SweepGiveUp \/ SweepApply \/ SweepFinish
  BY <1>4, OtherTaskGuarded, SendGuarded, LeaveGuarded
<1>5. CASE QueueStep \/ NonceLose
  BY <1>5, PreflightGuarded, NonceSendGuarded, ReplyGuarded, LoseGuarded DEF QueueStep
<1>6. CASE VenueStep \/ \E r \in strays : VenueStray(r)
  BY <1>6, VenueGuarded, StrayGuarded DEF VenueStep
<1>7. ASSUME NEW c \in Cloids, VenueFill(c) \/ IngestFill(c) PROVE Guarded
  BY <1>7, FillGuarded, IngestGuarded
<1>8. ASSUME NEW c \in Cloids, NEW s \in Terminal \cup {"Acknowledged"}, IngestOrder(c, s)
      PROVE  Guarded
  BY <1>8, IngestGuarded
<1> QED
  BY <1>1, <1>2, <1>3, <1>4, <1>5, <1>6, <1>7, <1>8, CrashGuarded DEF Next

-----------------------------------------------------------------------------
(* What memory remembers *)

LEMMA RememberedKept ==
  ASSUME Remembered, Guarded, Lasting, UNCHANGED <<mem, caller>>
  PROVE  Remembered'
BY DEF Remembered, Guarded, Lasting

\* A step that stores an order in memory: a terminal copy is of one that is over.
LEMMA StoreRemembered ==
  ASSUME IInv, Remembered, Guarded, Lasting, NEW c \in Cloids, NEW st \in Statuses,
         mem' = [mem EXCEPT ![c] = st], st \in Terminal => c \in Over,
         \A a \in Callers : caller'[a].pc = "expose" => caller'[a] = caller[a]
  PROVE  Remembered'
<1>1. \A d \in Cloids : mem'[d] = IF d = c THEN st ELSE mem[d]
  BY DEF IInv, TypeOK
<1>2. st # NoStatus
  BY DEF Statuses, NoStatus
<1>3. \A d \in Cloids : TakenUp(d)' => mem'[d] # NoStatus \/ d \in excused'
  BY <1>1, <1>2 DEF Remembered, Guarded
<1>4. \A d \in Cloids : mem'[d] \in Terminal => d \in Over'
  BY <1>1 DEF Remembered, Lasting
<1> QED
  BY <1>3, <1>4 DEF Remembered, Guarded, Lasting

LEMMA SubmitRemembered ==
  ASSUME IInv, IInv', VInv, VInv', Remembered, Guarded, Lasting, NEW a \in Callers,
         (\E c \in Cloids : SubmitCheck(a, c)) \/ SubmitPersist(a) \/ SubmitExpose(a)
  PROVE  Remembered'
<1>1. CASE \E c \in Cloids : SubmitCheck(a, c)
  <2>1. mem' = mem /\ \A b \in Callers : caller'[b].pc = "expose" => caller'[b] = caller[b]
    BY <1>1 DEF SubmitCheck, IInv, TypeOK
  <2> QED
    BY <2>1 DEF Remembered, Guarded, Lasting
<1>2. CASE SubmitPersist(a)
  <2>1. PICK c : c = caller[a].c
    OBVIOUS
  <2>2. c \in Cloids
    <3>1. PICK s \in CallerStates : s = caller[a]
      BY DEF IInv, TypeOK
    <3> QED
      BY <1>2, <2>1, <3>1 DEF CallerStates, Idle, SubmitPersist
  <2>3. \/ \E st : /\ caller' = [caller EXCEPT ![a] = [pc |-> "expose", c |-> c, st |-> st]]
                   /\ st = "Rejected" => status'[c] = "Rejected"
        \/ caller' = [caller EXCEPT ![a] = Idle]
    BY <1>2, <2>1, <2>2 DEF SubmitPersist, IInv, TypeOK, NoStatus
  <2>4. status'[c] = "Rejected" => c \in Over'
    BY <2>2 DEF VInv, RowsTrue, RowTrue, Terminal
  <2>5. ASSUME NEW b \in Callers, caller'[b].pc = "expose", caller'[b].st = "Rejected"
        PROVE  caller'[b].c \in Over'
    <3>1. CASE b = a
      BY <2>3, <2>4, <2>5, <3>1 DEF IInv, TypeOK, Idle
    <3>2. CASE b # a
      <4>1. caller'[b] = caller[b]
        BY <2>3, <3>2 DEF IInv, TypeOK
      <4> QED
        BY <2>5, <4>1 DEF Remembered, Lasting
    <3> QED
      BY <3>1, <3>2
  <2> QED
    BY <1>2, <2>5 DEF SubmitPersist, Remembered, Guarded, Lasting
<1>3. CASE SubmitExpose(a)
  <2>1. PICK c \in Cloids, st \in {"Submitted", "Rejected"} : c = caller[a].c /\ st = caller[a].st
    BY <1>3, ExposeOf DEF SubmitExpose
  <2>2. mem' = [mem EXCEPT ![c] = st] /\ (st = "Rejected" => c \in Over)
    BY <1>3, <2>1 DEF SubmitExpose, Remembered
  <2>3. \A b \in Callers : caller'[b].pc = "expose" => caller'[b] = caller[b]
    BY <1>3 DEF SubmitExpose, IInv, TypeOK, Idle
  <2>4. st \in Statuses /\ (st \in Terminal => c \in Over)
    BY <2>2 DEF Statuses, Terminal
  <2> QED
    BY <2>2, <2>3, <2>4, StoreRemembered
<1> QED
  BY <1>1, <1>2, <1>3

LEMMA WorkerLoadRemembered ==
  ASSUME IInv, VInv, Remembered, Guarded, Lasting, WorkerLoad
  PROVE  Remembered'
<1>1. PICK c \in Cloids : c = worker.c
  BY BusyWorker DEF IInv, WorkerLoad
<1>2. PICK st \in Statuses : st = status[c]
  BY <1>1 DEF WorkerLoad, Open, Terminal, Statuses
<1>3. mem' = [mem EXCEPT ![c] = st] /\ caller' = caller
  BY <1>1, <1>2 DEF WorkerLoad
<1>4. st \in Terminal => c \in Over
  BY <1>2 DEF VInv, RowsTrue, RowTrue
<1> QED
  BY <1>3, <1>4, StoreRemembered

LEMMA CancelApplyRemembered ==
  ASSUME IInv, VInv, Remembered, Guarded, Lasting, CancelApply
  PROVE  Remembered'
<1>0. /\ canceller.c \in Cloids /\ canceller.snap \in Open
      /\ canceller.ans \in Answers /\ canceller.ans.out \in Outcomes
      /\ Truth(canceller.c, canceller.ans) /\ caller' = caller
  BY BusyCanceller DEF CancelApply, VInv, Told, CancellerTrue, IInv, TypeOK, Answers
<1>c. PICK c \in Cloids : c = canceller.c
  BY <1>0
<1>1. PICK t : t = CancelTarget(canceller.snap, canceller.ans.out)
  OBVIOUS
<1>2. t \in Statuses \cup {NoStatus} /\ (t \in Terminal => c \in Over)
  BY <1>0, <1>c, <1>1, OutcomeTypes, OutcomeEnds DEF Truth, Open
<1>3. CASE t # NoStatus /\ mem' = [mem EXCEPT ![c] = t]
  BY <1>0, <1>2, <1>3, StoreRemembered
<1>4. CASE mem' = mem
  BY <1>0, <1>4, RememberedKept
<1> QED
  BY <1>c, <1>1, <1>3, <1>4 DEF CancelApply

LEMMA SweepApplyRemembered ==
  ASSUME IInv, VInv, Remembered, Guarded, Lasting, SweepApply
  PROVE  Remembered'
<1>0. /\ sweeper.pc = "apply" /\ sweeper.chunk # <<>> /\ caller' = caller
      /\ sweeper.chunk \in Seq(Targets) /\ sweeper.outs \in Seq(Answers)
  BY SweepTypes DEF SweepApply, IInv
<1>1. PICK c \in Cloids, s \in Open : c = Head(sweeper.chunk).c /\ s = Head(sweeper.chunk).snap
  <2>1. 1 \in DOMAIN sweeper.chunk /\ Head(sweeper.chunk) = sweeper.chunk[1]
    BY <1>0
  <2> QED
    BY <1>0, <2>1, SweepTypes DEF VInv, Told, SweeperTrue, IInv
<1>2. PICK a \in Answers : a = IF sweeper.outs = <<>> THEN NoAnswer ELSE Head(sweeper.outs)
  BY <1>0, Constants
<1>3. Truth(c, a) /\ a.out \in Outcomes
  <2>1. CASE sweeper.outs = <<>>
    BY <1>2, <2>1, NoAnswerTrue DEF Truth, Answers
  <2>2. CASE sweeper.outs # <<>>
    <3>1. 1 \in DOMAIN sweeper.outs /\ a = sweeper.outs[1] /\ c = sweeper.chunk[1].c
      BY <1>0, <1>1, <1>2, <2>2
    <3> QED
      BY <1>0, <3>1 DEF VInv, Told, SweeperTrue, Answers, Truth
  <2> QED
    BY <2>1, <2>2
<1>4. PICK t : t = CancelTarget(s, a.out)
  OBVIOUS
<1>5. /\ t \in Statuses \cup {NoStatus} /\ (t \in Terminal => c \in Over)
      /\ s \in Statuses /\ s \notin Terminal
  BY <1>1, <1>3, <1>4, OutcomeTypes, OutcomeEnds DEF Truth, Open
<1>6. mem' = [mem EXCEPT ![c] = IF t = NoStatus THEN s ELSE t]
  BY <1>1, <1>2, <1>4 DEF SweepApply
<1>7. CASE t = NoStatus
  BY <1>0, <1>5, <1>6, <1>7, StoreRemembered
<1>8. CASE t # NoStatus
  BY <1>0, <1>5, <1>6, <1>8, StoreRemembered
<1> QED
  BY <1>7, <1>8

LEMMA CrashRemembered ==
  ASSUME IInv, Guarded, Remembered, Crash
  PROVE  Remembered'
<1>1. \A d \in Cloids : mem'[d] = NoStatus /\ (sends[d] > 0 => d \in excused') /\ sends' = sends
  BY DEF Crash
<1>2. \A d \in Cloids : ~Queued(d)' /\ ~MaySend(d)'
  BY DEF Crash, Queued, MaySend, Idle
<1>3. \A a \in Callers : caller'[a].pc # "expose"
  BY DEF Crash, Idle
<1>4. NoStatus \notin Terminal
  BY DEF NoStatus, Terminal
<1> QED
  BY <1>1, <1>2, <1>3, <1>4 DEF Remembered, Guarded, TakenUp

LEMMA NextRemembered ==
  ASSUME IInv, IInv', VInv, VInv', Remembered, Guarded, Lasting, Next
  PROVE  Remembered'
<1>1. ASSUME NEW a \in Callers,
             (\E c \in Cloids : SubmitCheck(a, c)) \/ SubmitPersist(a) \/ SubmitExpose(a)
      PROVE  Remembered'
  BY <1>1, SubmitRemembered
<1>2. CASE WorkerLoad \/ CancelApply \/ SweepApply \/ Crash
  BY <1>2, WorkerLoadRemembered, CancelApplyRemembered, SweepApplyRemembered, CrashRemembered
<1>3. CASE \/ \E k \in Kinds, c \in Cloids : Claim(k, c)
           \/ WorkerGate \/ WorkerSend \/ WorkerLookup \/ WorkerQuery
           \/ WorkerApplyPlace \/ WorkerApplyCancel \/ WorkerDefer \/ WorkerGiveUp \/ WorkerError
  <2>1. UNCHANGED <<mem, caller>>
    BY <1>3 DEF Claim, WorkerGate, WorkerSend, WorkerLookup, WorkerQuery, WorkerApplyPlace,
       WorkerApplyCancel, WorkerDefer, WorkerGiveUp, WorkerError
  <2> QED
    BY <2>1, RememberedKept
<1>4. CASE \/ \E c \in Cloids : CancelRequest(c)
           \/ CancelSend \/ CancelGiveUp \/ CancelLookup
           \/ KillLatch \/ KillReset \/ SweepStart \/ SweepSend \/ SweepGiveUp \/ SweepFinish
  <2>1. UNCHANGED <<mem, caller>>
    BY <1>4 DEF CancelRequest, CancelSend, CancelGiveUp, CancelLookup, KillLatch, KillReset,
       SweepStart, SweepSend, SweepGiveUp, SweepFinish
  <2> QED
    BY <2>1, RememberedKept
<1>5. CASE \/ QueueStep \/ NonceLose \/ VenueStep \/ \E r \in strays : VenueStray(r)
           \/ \E c \in Cloids : VenueFill(c) \/ IngestFill(c)
           \/ \E c \in Cloids, s \in Terminal \cup {"Acknowledged"} : IngestOrder(c, s)
  <2>1. UNCHANGED <<mem, caller>>
    BY <1>5 DEF QueueStep, NoncePreflight, NonceSendPlace, NonceSendCancel, NonceReply,
       NonceLose, VenueStep, VenuePlace, VenueCancel, VenueStray, VenueFill, IngestFill,
       IngestOrder
  <2> QED
    BY <2>1, RememberedKept
<1> QED
  BY <1>1, <1>2, <1>3, <1>4, <1>5 DEF Next, WorkerStep

-----------------------------------------------------------------------------
(* What the sweep names and leaves *)

\* The head is the sweep's batch, and the venue has answered it.
BatchAnswered == nq # <<>> /\ stage = "answered" /\ nq[1].owner = "sweeper"

LEMMA SweptKept ==
  ASSUME IInv, Swept, Guarded, killed' => killed,
         sweeper' = sweeper, swept' => swept, BatchAnswered' => BatchAnswered
  PROVE  Swept'
BY DEF Swept, Guarded, SweepAnswered, BatchAnswered, Named

LEMMA SameBatch ==
  ASSUME UNCHANGED <<nq, stage>>
  PROVE  BatchAnswered' => BatchAnswered
BY DEF BatchAnswered

LEMMA JoinBatch ==
  ASSUME IInv, VInv, WorkerSend \/ CancelSend \/ SweepSend
  PROVE  BatchAnswered' => BatchAnswered
<1>1. PICK job : nq' = Append(nq, job)
  BY DEF WorkerSend, CancelSend, SweepSend, Enqueue
<1>2. stage' = stage
  BY DEF WorkerSend, CancelSend, SweepSend
<1>3. nq # <<>> => nq'[1] = nq[1]
  BY <1>1, HeadFacts
<1>4. nq = <<>> => stage = "queued"
  BY HeadFacts
<1> QED
  BY <1>2, <1>3, <1>4 DEF BatchAnswered

LEMMA LeaveBatch ==
  ASSUME IInv, WorkerGiveUp \/ CancelGiveUp \/ SweepGiveUp
  PROVE  BatchAnswered' => BatchAnswered
<1>1. PICK o \in Owners : nq' = Disown(o)
  BY DEF WorkerGiveUp, CancelGiveUp, SweepGiveUp, Owners
<1>2. /\ nq' \in Seq(Jobs) /\ nq \in Seq(Jobs) /\ Len(nq') = Len(nq) /\ DOMAIN nq' = DOMAIN nq
      /\ \A i \in DOMAIN nq : nq'[i].owner = IF nq[i].owner = o THEN "nobody" ELSE nq[i].owner
  BY <1>1, DisownType DEF IInv, TypeOK
<1>3. nq' # <<>> => nq # <<>> /\ 1 \in DOMAIN nq
  BY <1>2
<1>4. stage' = stage
  BY DEF WorkerGiveUp, CancelGiveUp, SweepGiveUp
<1> QED
  BY <1>2, <1>3, <1>4 DEF BatchAnswered

LEMMA SubmitSwept ==
  ASSUME IInv, Swept, Guarded, NEW a \in Callers,
         (\E c \in Cloids : SubmitCheck(a, c)) \/ SubmitPersist(a) \/ SubmitExpose(a)
  PROVE  Swept'
<1>1. UNCHANGED <<killed, sweeper, swept, nq, stage>>
  BY DEF SubmitCheck, SubmitPersist, SubmitExpose
<1> QED
  BY <1>1, SweptKept, SameBatch

LEMMA WorkerSwept ==
  ASSUME IInv, VInv, Swept, Guarded,
         \/ \E k \in Kinds, c \in Cloids : Claim(k, c)
         \/ WorkerStep \/ WorkerGiveUp \/ WorkerError
  PROVE  Swept'
<1>1. killed' = killed /\ sweeper' = sweeper /\ swept' = swept
  BY DEF Claim, WorkerStep, WorkerLoad, WorkerGate, WorkerSend, WorkerLookup, WorkerQuery,
     WorkerApplyPlace, WorkerApplyCancel, WorkerDefer, WorkerGiveUp, WorkerError
<1>2. CASE WorkerSend \/ WorkerGiveUp
  BY <1>1, <1>2, JoinBatch, LeaveBatch, SweptKept
<1>3. CASE ~(WorkerSend \/ WorkerGiveUp)
  <2>1. UNCHANGED <<nq, stage>>
    BY <1>3 DEF Claim, WorkerStep, WorkerLoad, WorkerGate, WorkerLookup, WorkerQuery,
       WorkerApplyPlace, WorkerApplyCancel, WorkerDefer, WorkerError
  <2> QED
    BY <1>1, <2>1, SameBatch, SweptKept
<1> QED
  BY <1>2, <1>3

LEMMA CancelSwept ==
  ASSUME IInv, VInv, Swept, Guarded,
         \/ \E c \in Cloids : CancelRequest(c)
         \/ CancelSend \/ CancelGiveUp \/ CancelLookup \/ CancelApply
  PROVE  Swept'
<1>1. killed' = killed /\ sweeper' = sweeper /\ swept' = swept
  BY DEF CancelRequest, CancelSend, CancelGiveUp, CancelLookup, CancelApply
<1>2. CASE CancelSend \/ CancelGiveUp
  BY <1>1, <1>2, JoinBatch, LeaveBatch, SweptKept
<1>3. CASE ~(CancelSend \/ CancelGiveUp)
  <2>1. UNCHANGED <<nq, stage>>
    BY <1>3 DEF CancelRequest, CancelLookup, CancelApply
  <2> QED
    BY <1>1, <2>1, SameBatch, SweptKept
<1> QED
  BY <1>2, <1>3

\* The latch is set with no sweep under way and none answered yet.
LEMMA KillSwept ==
  ASSUME IInv, KillLatch \/ KillReset
  PROVE  Swept'
<1>1. CASE KillLatch
  <2>1. sweeper'.pc = "due" /\ swept' = FALSE /\ UNCHANGED <<nq, stage>> /\ sweeper = Idle
    BY <1>1 DEF KillLatch
  <2>2. ~SweepAnswered'
    <3>1. nq # <<>> => nq[1].owner # "sweeper"
      BY <2>1, HeadFacts DEF IInv, OwnersWait, Idle
    <3> QED
      BY <2>1, <3>1 DEF SweepAnswered
  <2> QED
    BY <2>1, <2>2 DEF Swept
<1>2. CASE KillReset
  BY <1>2 DEF KillReset, Swept
<1> QED
  BY <1>1, <1>2

\* An ordering of a finite set lists all of it.
LEMMA OrderingsList ==
  ASSUME NEW S, IsFiniteSet(S), NEW s \in Orderings(S)
  PROVE  /\ DOMAIN s = 1..Cardinality(S) /\ Cardinality(S) \in Nat
         /\ \A x \in S : \E i \in DOMAIN s : s[i] = x
<1>1. Cardinality(S) \in Nat
  BY FS_CardinalityType
<1>2. s \in [1..Cardinality(S) -> S]
  BY DEF Orderings
<1>3. s \in Injection(1..Cardinality(S), S)
  BY <1>2 DEF Orderings, Injection, IsInjective
<1>4. Cardinality(1..Cardinality(S)) = Cardinality(S)
  BY <1>1, FS_Interval
<1>5. s \in Surjection(1..Cardinality(S), S)
  BY <1>3, <1>4, FS_Injection
<1> QED
  BY <1>1, <1>2, <1>5 DEF Surjection

LEMMA SweepStartSwept ==
  ASSUME IInv, VInv, Remembered, Swept, Guarded, Aligned, SweepStart
  PROVE  Swept'
<1> DEFINE S == {c \in Cloids : mem[c] \in Open}
<1>1. PICK chunk \in Orderings(S) :
        IF chunk = <<>> THEN sweeper' = Idle
        ELSE /\ sweeper' = SweeperAt("send", [i \in 1..Len(chunk) |->
                             [c |-> chunk[i], snap |-> mem[chunk[i]]]], chunk, <<>>, FALSE)
             /\ swept' = swept
  BY DEF SweepStart, Aligned
<1>2. IsFiniteSet(S)
  BY Constants, FS_Subset
<1>3. /\ DOMAIN chunk = 1..Cardinality(S) /\ Cardinality(S) \in Nat
      /\ \A x \in S : \E i \in DOMAIN chunk : chunk[i] = x
  BY <1>2, OrderingsList
<1>4. Len(chunk) = Cardinality(S)
  <2>1. chunk \in [1..Cardinality(S) -> S]
    BY DEF Orderings
  <2> QED
    BY <1>3, <2>1
<1>5. /\ UNCHANGED <<nq, stage, killed>> /\ sweeper.pc = "due"
      /\ \A d \in Cloids : Working(d)' /\ killed => Working(d) \/ d \in excused'
      /\ excused' = excused
  BY DEF SweepStart, Guarded
<1>6. ~BatchAnswered'
  BY <1>5, HeadFacts DEF BatchAnswered, IInv, OwnersWait
<1>7. CASE chunk = <<>>
  <2>1. S = {}
    BY <1>3, <1>7
  <2>2. \A d \in Cloids : Working(d) => d \in excused
    BY <2>1, WorkingIsOpen
  <2>3. sweeper'.pc = "idle"
    BY <1>1, <1>7 DEF Idle
  <2> QED
    BY <1>5, <2>2, <2>3 DEF Swept
<1>8. CASE chunk # <<>>
  <2>1. /\ sweeper'.pc = "send" /\ swept' = swept
        /\ sweeper'.chunk = [i \in 1..Cardinality(S) |-> [c |-> chunk[i], snap |-> mem[chunk[i]]]]
    BY <1>1, <1>4, <1>8 DEF SweeperAt
  <2>2. \A d \in Cloids : mem[d] \in Open => Named(d)'
    BY <1>3, <2>1 DEF Named
  <2>3. \A d \in Cloids : Working(d) => d \in excused \/ Named(d)'
    BY <2>2, WorkingIsOpen
  <2>4. SweepAnswered' => SweepAnswered
    BY <1>6, <2>1 DEF SweepAnswered, BatchAnswered
  <2> QED
    BY <1>5, <2>3, <2>4 DEF Swept
<1> QED
  BY <1>7, <1>8

LEMMA SweepSwept ==
  ASSUME IInv, VInv, Swept, Guarded,
         SweepSend \/ SweepGiveUp \/ SweepApply \/ SweepFinish
  PROVE  Swept'
<1>1. /\ killed' = killed
      /\ BatchAnswered' => BatchAnswered
  BY JoinBatch, LeaveBatch, SameBatch DEF SweepSend, SweepGiveUp, SweepApply, SweepFinish
<1>2. CASE SweepSend
  <2>1. /\ sweeper.pc = "send" /\ sweeper'.pc = "wait" /\ sweeper'.chunk = sweeper.chunk
        /\ swept' = swept
    BY <1>2 DEF SweepSend, SweeperAt
  <2>2. SweepAnswered' => SweepAnswered
    BY <1>1, <2>1 DEF SweepAnswered, BatchAnswered
  <2> QED
    BY <1>1, <2>1, <2>2 DEF Swept, Guarded, Named
<1>3. CASE SweepGiveUp
  <2>1. sweeper'.pc = "apply" /\ sweeper'.answered = FALSE /\ swept' = swept
    BY <1>3 DEF SweepGiveUp, SweeperAt
  <2>2. SweepAnswered' => SweepAnswered
    BY <1>1, <2>1 DEF SweepAnswered, BatchAnswered
  <2> QED
    BY <1>1, <2>1, <2>2 DEF Swept, Guarded
<1>4. CASE SweepApply
  <2>1. /\ sweeper.pc = "apply" /\ sweeper'.pc = "apply" /\ sweeper'.answered = sweeper.answered
        /\ swept' = swept
    BY <1>4 DEF SweepApply, SweeperAt
  <2>2. SweepAnswered' => SweepAnswered
    BY <1>1, <2>1 DEF SweepAnswered, BatchAnswered
  <2> QED
    BY <1>1, <2>1, <2>2 DEF Swept, Guarded
<1>5. CASE SweepFinish
  <2>1. sweeper.pc = "apply" /\ sweeper'.pc = "idle" /\ (swept' => sweeper.answered)
    BY <1>5 DEF SweepFinish, Idle
  <2>2. SweepAnswered' => SweepAnswered
    BY <1>1, <2>1 DEF SweepAnswered, BatchAnswered
  <2> QED
    BY <1>1, <2>1, <2>2 DEF Swept, Guarded
<1> QED
  BY <1>2, <1>3, <1>4, <1>5

\* The head ends: only an answered batch ends the sweep's wait with an answer.
LEMMA FinishSwept ==
  ASSUME IInv, VInv, Swept, Guarded, nq # <<>>, NEW outs \in Seq(Answers),
         NEW failed \in BOOLEAN, Finish(outs, failed), UNCHANGED <<killed, swept>>,
         Head(nq).owner = "sweeper" /\ ~failed => stage = "answered"
  PROVE  Swept'
<1>1. ~BatchAnswered'
  BY DEF Finish, BatchAnswered
<1>2. CASE Head(nq).owner # "sweeper"
  <2>1. sweeper' = sweeper
    BY <1>2 DEF Finish
  <2> QED
    BY <1>1, <2>1, SweptKept
<1>3. CASE Head(nq).owner = "sweeper"
  <2>1. sweeper'.pc = "apply" /\ sweeper'.answered = ~failed
    BY <1>3, FinishSteps DEF SweeperAt
  <2>2. SweepAnswered' => SweepAnswered
    BY <1>1, <1>3, <2>1, HeadFacts DEF SweepAnswered, BatchAnswered
  <2> QED
    BY <2>1, <2>2 DEF Swept, Guarded
<1> QED
  BY <1>2, <1>3

LEMMA QueueSwept ==
  ASSUME IInv, VInv, Swept, Guarded, QueueStep \/ NonceLose
  PROVE  Swept'
<1>1. CASE /\ NoncePreflight
           /\ stage' = "cleared" /\ UNCHANGED <<nq, reply, worker, canceller, sweeper>>
  BY <1>1, SweptKept DEF NoncePreflight, BatchAnswered
<1>2. CASE NoncePreflight /\ Finish(<<Ans("aborted", 0)>>, FALSE)
  <2>1. PICK x \in Answers : x = Ans("aborted", 0)
    BY Constants DEF Ans, Answers, Outcomes
  <2>2. PICK outs \in Seq(Answers) : outs = <<x>>
    <3>1. <<x>> \in Seq(Answers)
      OBVIOUS
    <3> QED
      BY <3>1
  <2>3. Finish(outs, FALSE) /\ nq # <<>> /\ Head(nq).kind = "place"
    BY <1>2, <2>1, <2>2 DEF NoncePreflight
  <2>4. Head(nq).owner # "sweeper"
    BY <2>3, HeadOwner, HeadFacts
  <2> QED
    BY <1>2, <2>3, <2>4, FinishSwept DEF NoncePreflight
<1>3. CASE NonceSendPlace \/ NonceSendCancel
  BY <1>3, SweptKept DEF NonceSendPlace, NonceSendCancel, BatchAnswered
<1>4. CASE NonceReply
  <2>1. PICK outs \in Seq(Answers) : Finish(outs, FALSE)
    BY <1>4, ReplyOuts
  <2> QED
    BY <1>4, <2>1, FinishSwept DEF NonceReply
<1>5. CASE NonceLose
  <2>1. PICK outs \in Seq(Answers) : outs = <<>>
    <3>1. <<>> \in Seq(Answers)
      OBVIOUS
    <3> QED
      BY <3>1
  <2>2. Finish(outs, TRUE) /\ nq # <<>> /\ UNCHANGED <<killed, swept>>
    BY <1>5, <2>1 DEF NonceLose
  <2> QED
    BY <2>2, FinishSwept
<1> QED
  BY <1>1, <1>2, <1>3, <1>4, <1>5 DEF QueueStep, NoncePreflight

\* The batch arrives behind every placement sent before it and closes all it names.
LEMMA VenueSwept ==
  ASSUME IInv, IInv', VInv, Remembered', Swept, Guarded, VenueStep
  PROVE  Swept'
<1>0. /\ nq # <<>> /\ Head(nq) = nq[1] /\ nq[1] \in Jobs /\ stage = "sent" /\ stage' = "answered"
      /\ nq' = nq /\ UNCHANGED <<killed, swept, sweeper, excused>>
  BY HeadFacts DEF VenueStep, VenuePlace, VenueCancel
<1>1. CASE nq[1].owner # "sweeper"
  BY <1>0, <1>1, SweptKept DEF BatchAnswered
<1>2. CASE nq[1].owner = "sweeper"
  <2>1. sweeper.pc = "wait" /\ nq[1].kind = "cancel" /\ SweptOrders(nq[1].cs)
    BY <1>0, <1>2, HeadOwner
  <2>2. Withdraw(nq[1].cs)
    BY <1>0, <2>1 DEF VenueStep, VenuePlace, VenueCancel
  <2>3. sweeper.chunk \in Seq(Targets) /\ nq[1].cs \in Seq(Cloids)
    <3>1. nq[1].cs \in Seq(Cloids)
      BY <1>0 DEF Jobs
    <3>2. sweeper.chunk \in Seq(Targets)
      BY <2>1, SweepTypes DEF IInv
    <3> QED
      BY <3>1, <3>2
  <2>4. \A d \in Cloids : Named(d) => \E i \in DOMAIN nq[1].cs : nq[1].cs[i] = d
    BY <2>1, <2>3 DEF Named, SweptOrders
  <2>5. \A d \in Cloids : Named(d) => ex'[d] # "live"
    BY <2>2, <2>4 DEF Withdraw
  <2>6. \A d \in Cloids : ~HeadSent(d)' /\ ~Cleared(d)' /\ (Astray(d)' => d \in excused')
    BY <1>0 DEF HeadSent, Cleared, Remembered
  <2>7. \A d \in Cloids : Working(d)' => ex'[d] = "live" \/ d \in excused'
    BY <2>6, WorkingNext
  <2>8. killed => \A d \in Cloids : Working(d)' => d \in excused'
    <3> SUFFICES ASSUME killed, NEW d \in Cloids, Working(d)', d \notin excused' PROVE FALSE
      OBVIOUS
    <3>1. Working(d) /\ d \notin excused
      BY <1>0 DEF Guarded
    <3>2. Named(d)
      BY <2>1, <3>1 DEF Swept
    <3> QED
      BY <2>5, <2>7, <3>2
  <2> QED
    BY <1>0, <2>8 DEF Swept
<1> QED
  BY <1>1, <1>2

LEMMA RestSwept ==
  ASSUME IInv, Swept, Guarded,
         \/ \E r \in strays : VenueStray(r)
         \/ \E c \in Cloids : VenueFill(c) \/ IngestFill(c)
         \/ \E c \in Cloids, s \in Terminal \cup {"Acknowledged"} : IngestOrder(c, s)
  PROVE  Swept'
<1>1. UNCHANGED <<killed, sweeper, swept, nq, stage>>
  BY DEF VenueStray, VenueFill, IngestFill, IngestOrder
<1> QED
  BY <1>1, SameBatch, SweptKept

LEMMA CrashSwept ==
  ASSUME Crash
  PROVE  Swept'
<1>1. sweeper'.pc = "idle" /\ swept' = FALSE /\ nq' = <<>>
  BY DEF Crash, Idle
<1> QED
  BY <1>1 DEF Swept, SweepAnswered

-----------------------------------------------------------------------------
(* The inductive invariant *)

LEMMA InitKInv == Init => KInv
<1> SUFFICES ASSUME Init PROVE KInv
  OBVIOUS
<1>1. \A c \in Cloids : ~TakenUp(c) /\ ~Astray(c)
  BY DEF Init, TakenUp, Queued, MaySend, Astray, Idle
<1>2. NoStatus \notin Terminal
  BY DEF NoStatus, Terminal
<1> QED
  BY <1>1, <1>2 DEF Init, KInv, Remembered, Swept, Idle

LEMMA StutterKInv == IInv /\ IInv' /\ VInv /\ KInv /\ UNCHANGED vars => KInv'
<1> SUFFICES ASSUME IInv, IInv', VInv, KInv, UNCHANGED vars PROVE KInv'
  OBVIOUS
<1>1. Guarded /\ Lasting
  BY StillGuarded, StutterVInv DEF vars, MaySend
<1>2. Remembered'
  BY <1>1, RememberedKept DEF KInv, vars
<1>3. Swept'
  BY <1>1, SameBatch, SweptKept DEF KInv, vars
<1> QED
  BY <1>2, <1>3 DEF KInv

LEMMA NextKInv ==
  ASSUME Aligned
  PROVE  IInv /\ IInv' /\ VInv /\ VInv' /\ KInv /\ Next => KInv'
<1> SUFFICES ASSUME IInv, IInv', VInv, VInv', KInv, Next PROVE KInv'
  OBVIOUS
<1>1. Guarded /\ Lasting
  BY NextGuarded, NextVInv
<1>2. Remembered'
  BY <1>1, NextRemembered DEF KInv
<1>3. Swept'
  <2> USE <1>1, <1>2 DEF KInv
  <2>1. ASSUME NEW a \in Callers,
               (\E c \in Cloids : SubmitCheck(a, c)) \/ SubmitPersist(a) \/ SubmitExpose(a)
        PROVE  Swept'
    BY <2>1, SubmitSwept
  <2>2. CASE \/ \E k \in Kinds, c \in Cloids : Claim(k, c)
             \/ WorkerStep \/ WorkerGiveUp \/ WorkerError
    BY <2>2, WorkerSwept
  <2>3. CASE \/ \E c \in Cloids : CancelRequest(c)
             \/ CancelSend \/ CancelGiveUp \/ CancelLookup \/ CancelApply
    BY <2>3, CancelSwept
  <2>4. CASE \/ KillLatch \/ KillReset
             \/ SweepStart \/ SweepSend \/ SweepGiveUp \/ SweepApply \/ SweepFinish
    BY <2>4, KillSwept, SweepStartSwept, SweepSwept
  <2>5. CASE QueueStep \/ NonceLose
    BY <2>5, QueueSwept
  <2>6. CASE VenueStep
    BY <2>6, VenueSwept
  <2>7. CASE \/ \E r \in strays : VenueStray(r)
             \/ \E c \in Cloids : VenueFill(c) \/ IngestFill(c)
             \/ \E c \in Cloids, s \in Terminal \cup {"Acknowledged"} : IngestOrder(c, s)
    BY <2>7, RestSwept
  <2>8. CASE Crash
    BY <2>8, CrashSwept
  <2> QED
    BY <2>1, <2>2, <2>3, <2>4, <2>5, <2>6, <2>7, <2>8 DEF Next
<1> QED
  BY <1>2, <1>3 DEF KInv

LEMMA SweepInvariant ==
  ASSUME Aligned
  PROVE  Spec => [](IInv /\ VInv /\ KInv)
<1>1. Init => IInv /\ VInv /\ KInv
  BY InitIInv, InitVInv, InitKInv
<1>2. IInv /\ VInv /\ KInv /\ [Next]_vars => (IInv /\ VInv /\ KInv)'
  BY NextIInv, StutterIInv, NextVInv, StutterVInv, NextKInv, StutterKInv
<1> QED
  BY <1>1, <1>2, PTL DEF Spec

\* cancel_all_orders, which the kill switch's hook runs: once a sweep whose
\* batch was answered has ended and the latch is still set, the venue works no
\* order but one whose request was lost on the wire or outlived a crash, and
\* which the engine's map could not name.
THEOREM SweepCovers ==
  ASSUME Aligned
  PROVE  Spec => []KillSweepCovers
<1>1. IInv /\ VInv /\ KInv => KillSweepCovers
  BY WorkingNow DEF KInv, Swept, SweepAnswered, KillSweepCovers
<1> QED
  BY <1>1, SweepInvariant, PTL
=============================================================================
