----------------------------- MODULE RequestGate -----------------------------
(***************************************************************************)
(* What stands between an HTTP request and the engine: the security        *)
(* middleware with its three sliding-window limiters, the role check of    *)
(* the handlers, and the order handlers themselves.  (api/src/             *)
(* middleware.rs, auth.rs, state.rs, routes/account.rs)                    *)
(*                                                                         *)
(* A limiter reads the clock before it takes its lock: requests reach the  *)
(* window out of order, at most MaxDelay late.  The engine, the venue and  *)
(* the tracker's poll are external.                                        *)
(***************************************************************************)
EXTENDS Integers, SequencesExt

CONSTANTS
  Clients,        \* peer addresses
  Slots,          \* requests served at once
  Tokens,         \* the configured pairs of a token and a role's rank
  Traffic,        \* what is sent: [kinds, bearers, keyed, until]
  Window,         \* of a limiter; an entry idle twice as long may be swept
  SweepAt,        \* the size a limiter's map is swept at
  RequestLimit, MutationLimit, FailureLimit,
  MaxDelay,       \* between reading the clock and holding the lock
  Start,          \* the position at the start
  MaxArrivals, MaxPosition, MaxSent

VARIABLES
  clock,
  tokens,         \* the tokens of this process
  traffic,        \* what this process is sent
  windows,        \* limiter -> client -> [times, seen], of the clients in its map
  admitted,       \* limiter, client -> <<when it let a request pass, number>>, lately
  serving,        \* slot -> its request
  arrivals,
  sent,           \* orders the engine has accepted
  position,       \* at the venue
  tracked,        \* in the account tracker
  last            \* the last execution: [close, from, to]

gateVars == <<clock, tokens, traffic, windows, admitted, serving, arrivals,
              sent, position, tracked, last>>
engine == <<sent, position, tracked, last>>
limiter == <<windows, admitted>>

Limiters == {"request", "mutation", "failure"}
LimitOf == [request |-> RequestLimit, mutation |-> MutationLimit, failure |-> FailureLimit]
Viewer == 1
Operator == 2
Mutations == {"submit", "cancel", "close"}
Free == [stage |-> "free"]

GateInit == /\ clock = 0 /\ tokens = {} /\ traffic = {} /\ sent = <<>>
            /\ windows = [l \in Limiters |-> <<>>]
            /\ admitted = [k \in Limiters \X Clients |-> {}]
            /\ serving = [r \in Slots |-> Free]
            /\ position = Start /\ tracked = Start /\ arrivals = 0
            /\ last = [close |-> FALSE, from |-> 0, to |-> 0]

Configure == /\ traffic = {} /\ traffic' \in {{t} : t \in Traffic}
             /\ tokens' \in {{}, Tokens}
             /\ UNCHANGED <<clock, limiter, serving, arrivals, engine>>

---------------------------------------------------------------------------
(* The limiter                                                             *)

\* Only a full map is swept, and only of what nobody used for two windows.
Swept(map, now) ==
  IF Cardinality(DOMAIN map) < SweepAt THEN map
  ELSE [c \in {c \in DOMAIN map : now - map[c].seen < 2 * Window} |-> map[c]]

\* Dropped from the front up to the first that counts.
DropExpired(times, cutoff) ==
  LET counts == {i \in DOMAIN times : times[i] >= cutoff}
  IN IF counts = {} THEN <<>>
     ELSE SubSeq(times, CHOOSE i \in counts : \A j \in counts : i <= j, Len(times))

\* Whether a request that read the clock at `now` passes, and the map after it.
Allow(map, c, limit, now) ==
  LET kept == Swept(map, now)
      times == DropExpired(IF c \in DOMAIN kept THEN kept[c].times ELSE <<>>, now - Window)
      pass == Len(times) < limit
      entry == [times |-> IF pass THEN Append(times, now) ELSE times, seen |-> now]
  IN [pass |-> pass,
      map |-> [d \in DOMAIN kept \union {c} |-> IF d = c THEN entry ELSE kept[d]]]

Verdict(r, l) == Allow(windows[l], serving[r].client, LimitOf[l], serving[r].at)

\* The history: <<t, n>> stands for the request let through at t after n others.
Lately(passed) == {a \in passed : a[1] >= clock - Window}
JustNow(passed) == {a \in passed : a[1] = clock}
Ticket(passed) == <<clock, Cardinality(JustNow(passed))>>

\* The lock is taken, the window updated.
Lock(r, l) ==
  LET q == serving[r] IN
  /\ q.stage = l /\ windows' = [windows EXCEPT ![l] = Verdict(r, l).map]
  /\ admitted' = IF Verdict(r, l).pass
                 THEN [admitted EXCEPT ![<<l, q.client>>] = Lately(@) \union {Ticket(@)}]
                 ELSE admitted
  /\ UNCHANGED <<clock, tokens, traffic, arrivals, engine>>

---------------------------------------------------------------------------
(* The middleware                                                          *)

RequestArrives(r, c, k, b, keyed) ==
  /\ serving[r] = Free /\ arrivals < MaxArrivals /\ arrivals' = arrivals + 1
  /\ serving' = [serving EXCEPT ![r] = [stage |-> "request", at |-> clock, client |-> c,
                                        kind |-> k, bearer |-> b, keyed |-> keyed, role |-> 0]]
  /\ UNCHANGED <<clock, tokens, traffic, limiter, engine>>

RolesOf(b) == {p[2] : p \in {p \in tokens : p[1] = b}}
\* The highest matching role; without any token everybody is a viewer.
Authenticate(b) == IF tokens = {} THEN Viewer
                   ELSE IF RolesOf(b) = {} THEN 0
                   ELSE CHOOSE n \in RolesOf(b) : \A m \in RolesOf(b) : m <= n

Goes(r, stage, role) ==
  serving' = [serving EXCEPT ![r] = [@ EXCEPT !.stage = stage, !.at = clock, !.role = role]]
Answer(r) == serving' = [serving EXCEPT ![r] = Free]

RequestLimited(r) ==
  LET role == Authenticate(serving[r].bearer) IN
  /\ Lock(r, "request")
  /\ CASE ~Verdict(r, "request").pass -> Answer(r)
       [] Verdict(r, "request").pass /\ role = 0 -> Goes(r, "failure", 0)
       [] Verdict(r, "request").pass /\ role # 0 /\ serving[r].kind = "read" -> Answer(r)
       [] OTHER -> Goes(r, "mutation", role)

AuthFailed(r) == Lock(r, "failure") /\ Answer(r)

\* The key must be there; nothing looks at it again.
MutationLimited(r) ==
  /\ Lock(r, "mutation")
  /\ IF Verdict(r, "mutation").pass /\ serving[r].keyed
     THEN Goes(r, "handler", serving[r].role) ELSE Answer(r)

---------------------------------------------------------------------------
(* The handlers                                                            *)

Abs(n) == IF n < 0 THEN -n ELSE n
Order(r, side, size, reduce) == [side |-> side, size |-> size, reduce |-> reduce,
                                 kind |-> serving[r].kind, role |-> serving[r].role]

\* A close is sized by what the tracker shows.
CloseIntent(r) == Order(r, IF tracked > 0 THEN -1 ELSE 1, Abs(tracked), TRUE)
SubmitIntent(r, side) == Order(r, side, 1, FALSE)

Refused(r) == /\ serving[r].stage = "handler" /\ Answer(r)
              /\ \/ serving[r].role < Operator
                 \/ serving[r].kind = "close" /\ tracked = 0
              /\ UNCHANGED <<clock, tokens, traffic, limiter, arrivals, engine>>

Authorized(r, k) == serving[r].stage = "handler" /\ serving[r].role >= Operator /\ serving[r].kind = k

BuildIntent(r) ==
  /\ \E intent \in (IF serving[r].kind = "close" THEN {CloseIntent(r)}
                    ELSE {SubmitIntent(r, s) : s \in {-1, 1}}) :
       serving' = [serving EXCEPT ![r] = [stage |-> "submit", intent |-> intent]]
  /\ UNCHANGED <<clock, tokens, traffic, limiter, arrivals, engine>>
ClosePosition(r) == Authorized(r, "close") /\ tracked # 0 /\ BuildIntent(r)
SubmitOrder(r) == Authorized(r, "submit") /\ BuildIntent(r)

\* The engine takes the intent or answers with an error.
EngineAnswers(r) ==
  /\ serving[r].stage = "submit" /\ Answer(r)
  /\ \/ Len(sent) < MaxSent /\ sent' = Append(sent, serving[r].intent)
     \/ UNCHANGED sent
  /\ UNCHANGED <<clock, tokens, traffic, limiter, arrivals, position, tracked, last>>

CancelOrder(r) ==
  /\ Authorized(r, "cancel") /\ Answer(r)
  /\ \/ \E i \in DOMAIN sent : sent' = RemoveAt(sent, i)
     \/ UNCHANGED sent
  /\ UNCHANGED <<clock, tokens, traffic, limiter, arrivals, position, tracked, last>>

---------------------------------------------------------------------------
(* What is outside                                                         *)

\* The venue fills an order, a reducing one at most down to flat.
Filled(o) == IF ~o.reduce THEN o.size
             ELSE IF position * o.side >= 0 THEN 0
             ELSE IF o.size < Abs(position) THEN o.size ELSE Abs(position)
Execute(i) ==
  LET to == position + sent[i].side * Filled(sent[i]) IN
  /\ Abs(to) <= MaxPosition /\ sent' = RemoveAt(sent, i) /\ position' = to
  /\ last' = [close |-> sent[i].kind = "close", from |-> position, to |-> to]
  /\ UNCHANGED <<clock, tokens, traffic, limiter, serving, arrivals, tracked>>

Poll == /\ tracked' = position
        /\ UNCHANGED <<clock, tokens, traffic, limiter, serving, arrivals, sent, position, last>>

Tick == /\ clock' = clock + 1 /\ \E t \in traffic : clock < t.until
        /\ \A r \in Slots : serving[r].stage \in Limiters => clock - serving[r].at < MaxDelay
        /\ UNCHANGED <<tokens, traffic, limiter, serving, arrivals, engine>>

GateNext ==
  \/ Configure
  \/ \E r \in Slots :
       \/ \E t \in traffic, c \in Clients :
            \E k \in t.kinds, b \in t.bearers, keyed \in t.keyed : RequestArrives(r, c, k, b, keyed)
       \/ RequestLimited(r)
       \/ AuthFailed(r)
       \/ MutationLimited(r)
       \/ Refused(r)
       \/ ClosePosition(r)
       \/ SubmitOrder(r)
       \/ EngineAnswers(r)
       \/ CancelOrder(r)
  \/ \E i \in DOMAIN sent : Execute(i)
  \/ Poll
  \/ Tick

---------------------------------------------------------------------------
(* Properties                                                              *)

\* A limiter lets no more than its limit pass in a window, less the time a
\* request may lie between the clock and the lock; sweeping idle clients and
\* reaching the window out of order do not change that (state.rs:481-508).
WithinLimits == \A l \in Limiters, c \in Clients :
  Cardinality({a \in admitted[<<l, c>>] : a[1] >= clock - Window + MaxDelay}) <= LimitOf[l]

\* What reaches the engine was sent by an operator: never without tokens, and
\* never by a client whose bearer is a viewer's or nobody's.
OnlyOperators == \A i \in DOMAIN sent : sent[i].role >= Operator /\ tokens # {}

\* Racing closes, each sized by a tracker that lags, leave the position closer
\* to flat and never past it.
ClosesOnlyClose == last.close => Abs(last.to) <= Abs(last.from) /\ last.to * last.from >= 0

RequestsGated == WithinLimits /\ OnlyOperators /\ ClosesOnlyClose
==============================================================================
