---------------------------- MODULE ActionBudget ----------------------------
(***************************************************************************)
(* The address's action quota as the process sees it: the last             *)
(* userRateLimit answer (ActionBudgetController), the placements sent      *)
(* since, the permission a placement asks for inside the nonce queue and   *)
(* the debit that follows its answer, the poll that refreshes the ledger,  *)
(* and the IP-weight windows of the two limiters.  The venue counts        *)
(* requests in the order it receives them; `now` numbers the events.       *)
(* Running dry by the hour (`runway`) and the economic gate are left to    *)
(* RunwayMode, an input: they compare sums of fills with those of actions. *)
(***************************************************************************)
EXTENDS Integers, FiniteSets

CONSTANTS
  Cap,
  Buffer, CloseReserve,             \* cancel_retry_buffer, close_action_reserve
  ConserveAt, CriticalAt, CancelOnlyAt,
  MaxAge, Minute, IpLimit, IpReserve,
  HardLimit,                        \* of a strategy's allocation; -1 when none is set:
                                    \* no caller in the application sets any
  LastEvent

VARIABLES
  used,             \* the venue's count of the address's requests
  resting,          \* orders working at the venue
  mapped,           \* those of them in the engine's map, which a restart empties
  now,
  remote,           \* remote_snapshot: its count, and when its answer arrived
  headroom,         \* cancel_snapshot: what is left, and its time
  forced,           \* forced_cancel_only
  possibleLive,
  attempts,         \* the debits: number, kind and time
  asked,            \* a poll in flight: the count the venue put in its answer
  job,              \* the placement in the nonce queue: "none" or its kind
  runway,
  unseen            \* history: requests the ledger has no way to know of

budgetVars == <<used, resting, mapped, now, remote, headroom, forced, possibleLive, attempts, asked,
                job, runway, unseen>>
ledger == <<remote, headroom, forced, possibleLive>>

\* An order of a client, of a strategy, risk-reducing or an emergency close.
Kinds == {"place", "strategy", "reduce", "emergency"}
None == [count |-> Cap, at |-> -1]
Larger(a, b) == IF a < b THEN b ELSE a

BudgetInit ==
  /\ used = 0 /\ resting = 0 /\ mapped = 0 /\ now = 0
  /\ remote = None /\ headroom = [left |-> 0, at |-> -1]
  /\ forced = TRUE /\ possibleLive = 0 /\ attempts = {}
  /\ asked = -1 /\ job = "none" /\ runway = 1 /\ unseen = 0

Ticks == now < LastEvent /\ now' = now + 1

----------------------------------------------------------------------------
\* Bug: the remote answer replaces the local count.
NoShadow(at) == {}

\* Attempts newer than the remote answer are charged on top of it.
Shadow(at) == {a \in attempts : a.at > at}
Address == IF remote.at = -1 THEN 0 ELSE Larger(Cap - remote.count - Cardinality(Shadow(remote.at)), 0)
CancelLeft == headroom.left
IpLeft == Larger(IpLimit - Cardinality({a \in attempts : a.at > now - Minute}), 0)
CancelReserve == possibleLive + Buffer
Placeable == Larger(Address - CancelReserve - CloseReserve, 0)
Fresh(at) == at >= 0 /\ now - at <= MaxAge

\* calculate_mode, 1 to 5 for normal, conserve, critical, cancel_only and
\* exhausted: the worst of what placements left, the runway and the reserves say.
Mode ==
  IF forced \/ remote.at = -1 \/ ~Fresh(remote.at) \/ ~Fresh(headroom.at) THEN 4
  ELSE IF Address = 0 \/ CancelLeft <= 0 \/ IpLeft = 0 THEN 5
  ELSE IF Address <= CancelReserve + CloseReserve \/ CancelLeft <= CancelReserve \/ IpLeft <= IpReserve
  THEN 4
  ELSE Larger(runway, CASE Placeable <= CancelOnlyAt -> 4
                        [] Placeable > CancelOnlyAt /\ Placeable <= CriticalAt -> 3
                        [] Placeable > CriticalAt /\ Placeable <= ConserveAt -> 2
                        [] OTHER -> 1)

\* permission: an emergency close needs an action and IP weight only.
Consumed == Cardinality({a \in attempts : a.kind = "strategy"})
Permitted(kind) ==
  IF kind = "emergency" THEN Address >= 1 /\ IpLeft >= 1
  ELSE /\ Mode < 3 \/ kind = "reduce"
       /\ Placeable >= 1
       /\ IpLeft - 1 >= IpReserve
       /\ kind = "strategy" => HardLimit # -1 /\ Consumed + 1 <= HardLimit

----------------------------------------------------------------------------
\* A dispatch in the nonce queue: permission, then the request.  Its debit is
\* written when the answer is there, or has failed.
Send(kind) ==
  /\ job = "none" /\ Permitted(kind) /\ Ticks
  /\ job' = kind
  /\ used' = used + 1
  /\ \E new \in {0, 1} : resting' = resting + new /\ mapped' = mapped + new
  /\ UNCHANGED <<ledger, attempts, asked, runway, unseen>>
Lost(kind) ==
  /\ job = "none" /\ Permitted(kind) /\ Ticks
  /\ job' = kind
  /\ UNCHANGED <<used, resting, mapped, ledger, attempts, asked, runway, unseen>>
\* debit_network_attempt.  A poll answered before the request and arriving
\* after the debit hides it.
Debit ==
  /\ job # "none" /\ Ticks
  /\ attempts' = attempts \union {[number |-> Cardinality(attempts) + 1, kind |-> job, at |-> now + 1]}
  /\ job' = "none"
  /\ UNCHANGED <<used, resting, mapped, ledger, asked, runway, unseen>>
\* A cancel asks for no permission, and the engine debits none.
Cancel ==
  /\ mapped > 0 /\ Ticks
  /\ used' = used + 1
  /\ \E gone \in {0, 1} : resting' = resting - gone /\ mapped' = mapped - gone
  /\ unseen' = unseen + 1
  /\ UNCHANGED <<ledger, attempts, asked, job, runway>>

\* The poll loop: the venue's answer, then its arrival.  observed_at is the
\* time of the arrival; the headroom follows the remaining actions.
Ask == /\ asked = -1 /\ Ticks
       /\ asked' = used
       /\ UNCHANGED <<used, resting, mapped, ledger, attempts, job, runway, unseen>>
Arrive ==
  /\ asked # -1 /\ Ticks
  /\ remote' = [count |-> asked, at |-> now + 1]
  /\ headroom' = [left |-> Larger(Cap - asked, 0), at |-> now + 1]
  /\ forced' = FALSE
  /\ possibleLive' = mapped
  /\ asked' = -1
  /\ unseen' = used - asked - (IF job = "none" THEN 0 ELSE 1)
  /\ UNCHANGED <<used, resting, mapped, attempts, job, runway>>
PollFails == /\ asked # -1 /\ Ticks /\ asked' = -1
             /\ UNCHANGED <<used, resting, mapped, ledger, attempts, job, runway, unseen>>
Burns == /\ Ticks /\ runway' \in 1..4 \ {runway}
         /\ UNCHANGED <<used, resting, mapped, ledger, attempts, asked, job, unseen>>
\* A new process knows no answer, no attempt and no order.
Restart ==
  /\ ~forced /\ Ticks
  /\ remote' = None /\ headroom' = [left |-> 0, at |-> -1]
  /\ forced' = TRUE /\ possibleLive' = 0 /\ attempts' = {}
  /\ asked' = -1 /\ job' = "none" /\ runway' = 1 /\ mapped' = 0
  /\ UNCHANGED <<used, resting, unseen>>

BudgetNext ==
  \/ \E k \in Kinds : Send(k) \/ Lost(k)
  \/ Debit \/ Cancel \/ Ask \/ Arrive \/ PollFails \/ Burns \/ Restart

----------------------------------------------------------------------------
\* The ledger never promises more than the venue has left, up to the requests
\* it cannot know of: cancels, and placements sent and answered while a poll
\* was on its way; and nothing but a close in an emergency is sent before the
\* first poll of a process.
BudgetSound ==
  /\ used \in Nat /\ resting \in Nat /\ mapped \in 0..resting /\ Mode \in 1..5
  /\ Address <= Larger(Cap - used + unseen + (IF job = "none" THEN 0 ELSE 1), 0)
  /\ forced => job = "none"
=============================================================================
