------------------------ MODULE StrategySupervisor ------------------------
(***************************************************************************)
(* The strategy control plane: StrategySupervisor over the Postgres state  *)
(* store and the in-memory lease manager, the runtime handles it drives,   *)
(* and the routes that call it.  No lock spans a call: each call is a list *)
(* of steps, one per await that changes something, and the steps of two    *)
(* calls interleave.  A restart empties memory and restores every          *)
(* instance; a call in flight is lost with the process.                    *)
(***************************************************************************)
EXTENDS Integers, Sequences, FiniteSets

CONSTANTS
  Tasks,            \* callers that may be inside the supervisor at once
  Strategies,
  SymbolOf(_),      \* a strategy's market; all trade one sub-account
  Trend,            \* the trend followers: no shadow mode, runners may die
  Offered,          \* the operations callers use
  MaxCalls,         \* bound on calls and restarts together
  MaxRestarts, MaxVersions, MaxFailures

VARIABLES
  instances,        \* strategy_instances: desired state, config, revision
  runtimes,         \* strategy_runtime_state: actual state, its reason
  versions,         \* the newest config version of a strategy
  leases,           \* the lease manager: who holds its market
  handles,          \* the supervisor's live runtimes
  calls,            \* what each task still has to do
  restoring,        \* instances the boot task read and has not restored yet
  booting,          \* the boot task has not read the instances yet
  called, restarts, failures,
  halted,           \* history: those whose last halt was answered, none begun since
  raced,            \* history: strategies two calls overlapped on, see Return
  unleased          \* history: strategies in use without their lease, see Unleased

counters == <<called, restarts, failures>>
booted == <<booting, restoring>>
supervisorVars == <<instances, runtimes, versions, leases, handles, calls, restoring,
                    booting, called, restarts, failures, halted, raced, unleased>>

Targets == {"shadow", "running"}
Starting == {"start", "resume", "recover"}
Halting == {"pause", "drain", "stop"}
\* What sets the runtime and the row alike, whatever they were.
Settling == {"start", "resume", "drain", "stop"}
Gone == [mode |-> "gone", config |-> 0, alive |-> FALSE]
NoRow == [actual |-> "none", why |-> "none"]
Unread == [desired |-> "none", config |-> 0, revision |-> 0]
Resting == [op |-> "none", s |-> "none", todo |-> <<>>, read |-> Unread,
            fresh |-> Gone, failed |-> FALSE, alone |-> TRUE]

\* A step of a call: what it does, the mode it sets, the reason it records.
Do(what) == [do |-> what, to |-> "none", why |-> "none"]
DoTo(what, mode) == [do |-> what, to |-> mode, why |-> "none"]
Row(mode, why) == [do |-> "row", to |-> mode, why |-> why]

\* start_locked: the runtime is built, started and set to its mode before the
\* fenced write of the instance row; only then is it put in the map.
StartLocked(target) ==
  <<Do("create"), DoTo("mode", target), DoTo("desireFenced", target),
    Row(target, "none"), Do("insert")>>

\* What a call does after it has read the rows.
Plan(op, target, s) ==
  LET actual == runtimes[s].actual
      desired == instances[s].desired
  IN CASE op \in {"start", "resume"} ->
            IF target = "shadow" /\ s \in Trend THEN <<Do("fail")>>
            ELSE <<Do("acquire")>> \o StartLocked(target)
       [] op = "pause" ->
            IF actual = "none" THEN <<Do("fail")>>
            ELSE IF actual = "paused"
            THEN <<Row("same", "operator"), DoTo("desire", "paused")>>
            ELSE <<DoTo("handle", "paused"), Row("paused", "operator"),
                   DoTo("desire", "paused")>>
       [] op = "suspend" ->
            IF actual = "none" THEN <<Do("fail")>>
            ELSE IF actual \in {"stopped", "faulted", "paused"} THEN <<>>
            ELSE <<DoTo("handle", "paused"), Row("paused", "safety")>>
       [] op = "unsuspend" ->
            IF actual = "none" THEN <<Do("fail")>>
            ELSE IF actual # "paused" \/ runtimes[s].why # "safety"
                    \/ desired \notin Targets THEN <<>>
            ELSE IF handles[s] = Gone
            THEN StartLocked(desired) \o <<Row(desired, "recovered")>>
            ELSE <<DoTo("handle", desired), Row(desired, "recovered")>>
       [] op = "drain" ->
            <<DoTo("handle", "draining"), Row("draining", "operator"),
              DoTo("desire", "draining")>>
       [] op = "stop" ->
            <<Do("stop"), Row("stopped", "operator"), DoTo("desire", "stopped"),
              Do("release")>>
       [] op = "fault" ->
            <<Row("faulted", "fault"), DoTo("desire", "faulted"), Do("stop")>>
       [] op = "recover" ->
            IF actual # "faulted" THEN <<Do("fail")>>
            ELSE <<Do("stop"), Row("stopped", "operator"), Do("reread")>>
                 \o StartLocked(target)
       [] op = "activate" ->
            IF actual = "none" THEN <<Do("fail")>>
            ELSE <<Do("apply"), Row("same", "config"), Do("desireConfig")>>
       [] op = "snapshot" ->
            IF handles[s] # Gone /\ ~handles[s].alive
            THEN <<Row("faulted", "fault"), DoTo("desire", "faulted"), Do("stop")>>
            ELSE <<>>
       [] op = "version" -> <<Do("version")>>
       [] op = "upsert" -> <<Do("upsert"), Do("version")>>

\* resolve_restore_target: whatever is not a supported shadow comes up running.
RestoreTarget(s) ==
  IF restoring[s].desired = "shadow" /\ s \notin Trend THEN "shadow" ELSE "running"

\* restore_one, by the actual state the row shows.
RestorePlan(s) ==
  LET actual == runtimes[s].actual
      begin == <<Do("acquire")>> \o StartLocked(RestoreTarget(s))
  IN IF actual = "faulted" THEN <<DoTo("desire", "faulted"), Do("release")>>
     ELSE IF actual \in {"stopped", "none"} THEN <<Do("release")>>
     ELSE IF actual \in {"paused", "draining"}
     THEN Append(begin, DoTo("handle", actual))
     ELSE begin

\* What follows an error: a failed start_locked gives the lease back, a failed
\* restore latches the instance faulted.
OnError(op, st) ==
  IF op \in {"start", "resume"} /\ st.do \notin {"fail", "acquire"} THEN <<Do("release")>>
  ELSE IF op = "restore"
  THEN <<DoTo("desire", "faulted"), Row("faulted", "fault"), Do("release")>>
  ELSE <<>>

---------------------------------------------------------------------------
SupervisorInit ==
  /\ instances = [s \in Strategies |->
                    [desired |-> "stopped", config |-> 1, revision |-> 0]]
  /\ runtimes = [s \in Strategies |-> NoRow]
  /\ versions = [s \in Strategies |-> 1]
  /\ leases = {}
  /\ handles = [s \in Strategies |-> Gone]
  /\ calls = [t \in Tasks |-> Resting]
  /\ restoring = <<>> /\ booting = FALSE
  /\ called = 0 /\ restarts = 0 /\ failures = 0
  /\ halted = {} /\ raced = {} /\ unleased = {}

Others(t, s) == {u \in Tasks \ {t} : calls[u].s = s}
\* The boot task will still act on s: a call that does not wait for it overlaps.
Pending(s) == booting \/ s \in DOMAIN restoring

\* A call reads the rows it decides by.  History: it overlaps with the calls of
\* its strategy under way, and with the restore still to come.
Begin(t, op, s, read, todo) ==
  calls' = [u \in Tasks |->
    IF u = t THEN [op |-> op, s |-> s, todo |-> todo, read |-> read, fresh |-> Gone,
                   failed |-> FALSE,
                   alone |-> Others(t, s) = {} /\ (op = "restore" \/ ~Pending(s))]
    ELSE IF u \in Others(t, s) THEN [calls[u] EXCEPT !.alone = FALSE]
    ELSE calls[u]]

\* The revision a start is fenced by: its caller's, which may be old, or the one
\* it reads itself; every other call that is fenced reads it.
Tokens(op, s) == IF op = "start" THEN {instances[s].revision, instances[s].revision - 1}
                                 ELSE {instances[s].revision}

Call(t) ==
  /\ calls[t] = Resting /\ called + restarts < MaxCalls
  /\ \E op \in Offered, s \in Strategies, target \in Targets :
       /\ \E token \in Tokens(op, s) :
            Begin(t, op, s, [instances[s] EXCEPT !.revision = token], Plan(op, target, s))
       /\ halted' = IF op \in Starting THEN halted \ {s} ELSE halted
  /\ called' = called + 1
  /\ UNCHANGED <<instances, runtimes, versions, leases, handles, booted,
                 restarts, failures, raced, unleased>>

\* restore lists the instances once, in a task beside the API.
ListInstances ==
  /\ booting /\ booting' = FALSE /\ restoring' = instances
  /\ UNCHANGED <<instances, runtimes, versions, leases, handles, calls, counters,
                 halted, raced, unleased>>

Restore(t) ==
  /\ calls[t] = Resting /\ \A u \in Tasks : calls[u].op # "restore"
  /\ \E s \in DOMAIN restoring :
       /\ Begin(t, "restore", s, restoring[s], RestorePlan(s))
       /\ restoring' = [u \in DOMAIN restoring \ {s} |-> restoring[u]]
  /\ UNCHANGED <<instances, runtimes, versions, leases, handles, booting, counters,
                 halted, raced, unleased>>

\* The last step is done: the call returns.  History: a call that overlapped
\* with another leaves its strategy raced, until a start, resume, drain or stop
\* of it succeeds alone.
Return(t) ==
  LET c == calls[t] IN
  /\ c # Resting /\ c.todo = <<>>
  /\ calls' = [calls EXCEPT ![t] = Resting]
  /\ halted' = IF c.op \in Halting /\ ~c.failed THEN halted \cup {c.s} ELSE halted
  /\ raced' = IF ~c.alone THEN raced \cup {c.s}
              ELSE IF c.op \in Settling /\ ~c.failed THEN raced \ {c.s} ELSE raced
  /\ UNCHANGED <<instances, runtimes, versions, leases, handles, booted, counters,
                 unleased>>

Conflict(a, b) == a # b /\ (SymbolOf(a) = SymbolOf(b) \/ "AUTO" \in {SymbolOf(a), SymbolOf(b)})
\* Bug: a lease on every market is not looked at.
FreeByName(s) == \A b \in leases : b = s \/ SymbolOf(b) # SymbolOf(s)

\* acquire: a strategy's own lease is given again.
LeaseFree(s) == \A b \in leases : ~Conflict(s, b)

\* A trend follower has no shadow mode, and draining it ends its runner.
Takes(s, mode) == ~(s \in Trend /\ mode = "shadow")
InMode(s, h, mode) == [h EXCEPT !.mode = mode,
                                !.alive = h.alive /\ ~(s \in Trend /\ mode = "draining")]

\* The steps that err.  A row written without an actual state breaks the
\* column's NOT NULL, update or not.
Errs(c, st) ==
  CASE st.do = "acquire" -> ~LeaseFree(c.s)
    [] st.do = "desireFenced" -> instances[c.s].revision # c.read.revision
    [] st.do = "mode" -> ~Takes(c.s, st.to)
    [] st.do = "handle" -> handles[c.s] # Gone /\ ~Takes(c.s, st.to)
    [] st.do = "row" -> st.to = "same"
    [] OTHER -> st.do = "fail"

\* set_desired, the API's upsert, and a new version all bump the revision.
InstanceAfter(i, s, st) ==
  CASE st.do \in {"desire", "desireFenced"} ->
         [i EXCEPT !.desired = st.to, !.revision = i.revision + 1]
    [] st.do = "desireConfig" ->
         [i EXCEPT !.config = versions[s], !.revision = i.revision + 1]
    [] st.do = "upsert" ->
         [desired |-> "stopped", config |-> 1, revision |-> i.revision + 1]
    [] st.do = "version" /\ versions[s] < MaxVersions ->
         [i EXCEPT !.revision = i.revision + 1]
    [] OTHER -> i

RuntimeAfter(r, st) ==
  IF st.do = "row" THEN [r EXCEPT !.actual = st.to, !.why = st.why] ELSE r

HandleAfter(h, s, st, fresh) ==
  CASE st.do = "insert" -> fresh
    [] st.do = "stop" -> Gone
    [] st.do = "handle" /\ h # Gone -> InMode(s, h, st.to)
    [] st.do = "apply" /\ h # Gone -> [h EXCEPT !.config = versions[s]]
    [] OTHER -> h

LeasesAfter(s, st) ==
  CASE st.do = "acquire" -> leases \cup {s}
    [] st.do = "release" -> leases \ {s}
    [] OTHER -> leases

\* History: a lease is given back while a runtime of the strategy is there or on
\* its way in, or a call that acquires none builds a runtime; acquiring mends it.
Arrives(c) == \E i \in DOMAIN c.todo : c.todo[i].do = "insert"
Unleased(t, s, st) ==
  CASE st.do = "acquire" -> unleased \ {s}
    [] st.do = "create" /\ calls[t].op \in {"unsuspend", "recover"} /\ s \notin leases ->
         unleased \cup {s}
    [] st.do = "release" /\ (handles[s] # Gone \/ \E u \in Others(t, s) : Arrives(calls[u])) ->
         unleased \cup {s}
    [] OTHER -> unleased

\* What the call itself carries on: the runtime it built, the instance it read.
CallAfter(c, st) ==
  LET rest == [c EXCEPT !.todo = Tail(c.todo)] IN
  CASE st.do = "create" ->
         [rest EXCEPT !.fresh = [mode |-> "warming", alive |-> TRUE,
                                 config |-> c.read.config]]
    [] st.do = "mode" -> [rest EXCEPT !.fresh.mode = st.to]
    [] st.do = "insert" -> [rest EXCEPT !.fresh = Gone]
    [] st.do = "reread" -> [rest EXCEPT !.read = instances[c.s]]
    [] OTHER -> rest

Abort(c) == [c EXCEPT !.todo = OnError(c.op, Head(c.todo)), !.failed = TRUE, !.fresh = Gone]

\* One step of a call.
Step(t) ==
  LET c == calls[t]
      s == c.s
      st == Head(c.todo)
  IN
  /\ c # Resting /\ c.todo # <<>> /\ ~Errs(c, st)
  /\ calls' = [calls EXCEPT ![t] = CallAfter(c, st)]
  /\ instances' = [instances EXCEPT ![s] = InstanceAfter(@, s, st)]
  /\ runtimes' = [runtimes EXCEPT ![s] = RuntimeAfter(@, st)]
  /\ handles' = [handles EXCEPT ![s] = HandleAfter(@, s, st, c.fresh)]
  /\ leases' = LeasesAfter(s, st)
  /\ versions' = IF st.do = "version" /\ versions[s] < MaxVersions
                 THEN [versions EXCEPT ![s] = @ + 1] ELSE versions
  /\ unleased' = Unleased(t, s, st)
  /\ UNCHANGED <<booted, counters, halted, raced>>

\* A step errs; building a runtime may fail for reasons of its own.
StepErrs(t) ==
  LET c == calls[t] IN
  /\ c # Resting /\ c.todo # <<>>
  /\ \/ Errs(c, Head(c.todo)) /\ failures' = failures
     \/ /\ Head(c.todo).do = "create" /\ failures < MaxFailures
        /\ failures' = failures + 1
  /\ calls' = [calls EXCEPT ![t] = Abort(c)]
  /\ UNCHANGED <<instances, runtimes, versions, leases, handles, booted,
                 called, restarts, halted, raced, unleased>>

\* A trend follower's runner ends when a submission errors.
RunnerDies(s) ==
  /\ s \in Trend /\ handles[s].alive
  /\ handles' = [handles EXCEPT ![s].alive = FALSE]
  /\ UNCHANGED <<instances, runtimes, versions, leases, calls, booted, counters,
                 halted, raced, unleased>>

Restart ==
  /\ restarts < MaxRestarts /\ called + restarts < MaxCalls
  /\ restarts' = restarts + 1
  /\ handles' = [s \in Strategies |-> Gone]
  /\ leases' = {}
  /\ calls' = [t \in Tasks |-> Resting]
  /\ booting' = TRUE /\ restoring' = <<>>
  /\ raced' = {} /\ unleased' = {}
  /\ UNCHANGED <<instances, runtimes, versions, called, failures, halted>>

SupervisorNext ==
  \/ \E t \in Tasks : Call(t) \/ Restore(t) \/ Step(t) \/ StepErrs(t) \/ Return(t)
  \/ \E s \in Strategies : RunnerDies(s)
  \/ ListInstances \/ Restart

---------------------------------------------------------------------------
Trading(h) == h.alive /\ h.mode = "running"
Quiet(s) == \A t \in Tasks : calls[t].s # s

\* Two strategies whose markets conflict never trade at the same time, the
\* runtimes a call has built and not yet put in the map included, unless one of
\* them is unleased: its lease was given back under its runtime, by a start that
\* failed, a restore or a stop that met a start, or it came up by a recovery or a
\* resume from safety, which take none.
MarketsExclusive ==
  \A a, b \in Strategies \ unleased : Conflict(a, b) =>
     LET trades(s) == \/ Trading(handles[s])
                      \/ \E t \in Tasks : calls[t].s = s /\ Trading(calls[t].fresh)
     IN ~(trades(a) /\ trades(b))

\* Between its calls no strategy trades that its row does not show running: a
\* pause, a drain, a stop or a fault that was answered has reached the runtime,
\* and no half-done call before a restart has left one behind, whatever other
\* strategies' calls do meanwhile.  Two calls of one strategy that overlap end
\* this until a start, resume, drain or stop succeeds alone; a pause does not
\* mend it, it trusts a row that says paused.
NothingTradesUnseen ==
  \A s \in Strategies \ raced :
    Quiet(s) /\ Trading(handles[s]) => runtimes[s].actual = "running"

\* What an operator paused, drained or stopped does not trade again until an
\* operator starts, resumes or recovers it.
HaltSurvives ==
  \A s \in Strategies \ raced :
    Quiet(s) /\ s \in halted => ~Trading(handles[s])

\* The same within one life of the process, whatever safety suspends and
\* resumes meanwhile.
HaltHolds == restarts = 0 => HaltSurvives

=============================================================================
