------------------------- MODULE SafetyLatch_proofs -------------------------
(***************************************************************************)
(* Proofs about SafetyLatch for any number of actors and any bounds.       *)
(***************************************************************************)
EXTENDS SafetyLatch, TLAPS

Owed(a) == IF active THEN "halting" ELSE "clearing"

\* While nothing failed or overlapped, one actor at most owes the row a write,
\* the write it owes is the latch's value, and a row nobody owes is up to date.
RowInv ==
  (faults = 0 /\ ~overlapped) =>
    /\ Writers = {} => saved = active
    /\ \A a \in Writers : actor[a] = Owed(a)
    /\ \A a, b \in Writers : a = b

\* Before startup no placement was ever let through to the risk checker.
StartInv ==
  task.pc = "waiting" => mode = "starting" /\ \A a \in Actors : actor[a] # "checking"

IInv == TypeOK /\ RowInv /\ StartInv

LEMMA InitIInv == Init => IInv
<1> SUFFICES ASSUME Init PROVE IInv
  OBVIOUS
<1>1. TypeOK
  <2>1. Bounded
    BY LatchAssumption DEF Init, Bounded
  <2> QED BY <2>1, Zenon DEF Init, TypeOK, Modes, Writing
<1>2. RowInv /\ StartInv
  BY DEF Init, RowInv, StartInv, Writers, Writing
<1> QED BY <1>1, <1>2 DEF IInv

\* A flip with no write under way leaves one writer, who owes the new value.
LEMMA FlipIInv ==
  ASSUME IInv, NEW a \in Actors, NEW v \in BOOLEAN, v # active,
         actor[a] \in {"idle", "checking"}, Flip(a, v)
  PROVE  IInv'
<1>1. TypeOK'
  <2>1. Bounded'
    BY LatchAssumption DEF IInv, TypeOK, Bounded, Flip
  <2>2. actor' \in [Actors -> Writing \cup {"idle", "checking"}]
    BY DEF IInv, TypeOK, Flip, Writing
  <2> QED BY <2>1, <2>2, Zenon DEF IInv, TypeOK, Flip, modeVars
<1>2. RowInv'
  <2> SUFFICES ASSUME faults' = 0, ~overlapped'
               PROVE  /\ Writers' = {a}
                      /\ actor'[a] = IF active' THEN "halting" ELSE "clearing"
    BY DEF RowInv, Owed
  <2>1. Writers = {} /\ active' = v
    BY DEF Flip
  <2>2. actor' = [actor EXCEPT ![a] = IF v THEN "halting" ELSE "clearing"]
    BY DEF Flip
  <2> QED BY <2>1, <2>2 DEF IInv, TypeOK, Writers, Writing
<1>3. StartInv'
  BY DEF IInv, TypeOK, StartInv, Flip, modeVars
<1> QED BY <1>1, <1>2, <1>3 DEF IInv

LEMMA WriteIInv ==
  ASSUME IInv, NEW a \in Actors, Write(a)
  PROVE  IInv'
<1>1. TypeOK'
  <2>1. Bounded'
    BY LatchAssumption DEF IInv, TypeOK, Bounded, Write, Stored, NotStored
  <2>2. actor' \in [Actors -> Writing \cup {"idle", "checking"}]
    BY DEF IInv, TypeOK, Write
  <2>3. saved' \in BOOLEAN
    BY DEF IInv, TypeOK, Write, Stored, NotStored
  <2> QED BY <2>1, <2>2, <2>3, Zenon DEF IInv, TypeOK, Write, modeVars
<1>2. RowInv'
  <2> SUFFICES ASSUME faults' = 0, ~overlapped'
               PROVE  Writers' = {} /\ saved' = active'
    BY DEF RowInv
  <2>1. a \in Writers /\ actor' = [actor EXCEPT ![a] = "idle"] /\ active' = active
    BY DEF Write, Writers
  <2>2. faults = 0 /\ ~overlapped /\ Stored(actor[a] = "halting")
    BY LatchAssumption DEF IInv, TypeOK, Bounded, Write, Stored, NotStored
  <2>3. Writers = {a} /\ actor[a] = Owed(a)
    BY <2>1, <2>2 DEF IInv, RowInv
  <2>4. Writers' = {}
    BY <2>1, <2>3 DEF IInv, TypeOK, Writers, Writing
  <2>5. saved' = active
    BY <2>2, <2>3 DEF IInv, TypeOK, Stored, Owed
  <2> QED BY <2>1, <2>4, <2>5
<1>3. StartInv'
  BY DEF IInv, TypeOK, StartInv, Write, modeVars
<1> QED BY <1>1, <1>2, <1>3 DEF IInv

\* Risk checks that leave the latch alone.
LEMMA RiskIInv ==
  ASSUME IInv, NEW a \in Actors, CheckRisk(a) \/ RiskAnswered(a) \/ RiskTimeout(a)
  PROVE  IInv'
<1>1. /\ actor' \in {[actor EXCEPT ![a] = "checking"], [actor EXCEPT ![a] = "idle"]}
      /\ actor[a] \in {"idle", "checking"} /\ actor'[a] \in {"idle", "checking"}
  BY DEF IInv, TypeOK, CheckRisk, RiskAnswered, RiskTimeout
<1>2. UNCHANGED <<active, saved, overlapped, bounds, task>>
  BY DEF CheckRisk, RiskAnswered, RiskTimeout, modeVars
<1>3. TypeOK'
  <2>1. Bounded'
    BY <1>2 DEF IInv, TypeOK, Bounded, bounds
  <2>2. actor' \in [Actors -> Writing \cup {"idle", "checking"}] /\ mode' \in Modes
    BY <1>1 DEF IInv, TypeOK, CheckRisk, RiskAnswered, RiskTimeout, Degraded, Modes, modeVars
  <2>3. UNCHANGED <<ready, shown, started>>
    BY DEF CheckRisk, RiskAnswered, RiskTimeout, modeVars
  <2> QED BY <1>2, <2>1, <2>2, <2>3, Zenon DEF IInv, TypeOK
<1>4. Writers' = Writers /\ \A b \in Writers : actor'[b] = actor[b]
  BY <1>1 DEF IInv, TypeOK, Writers, Writing
<1>5. RowInv'
  BY <1>2, <1>4 DEF IInv, RowInv, Owed, bounds
<1>6. StartInv'
  <2> SUFFICES ASSUME task'.pc = "waiting" PROVE FALSE
    BY DEF StartInv
  <2> QED BY <1>2 DEF IInv, StartInv, CheckRisk, RiskAnswered, RiskTimeout
<1> QED BY <1>3, <1>5, <1>6 DEF IInv

LEMMA TaskIInv ==
  ASSUME IInv, Snapshot \/ Lifecycle
  PROVE  IInv'
<1>1. UNCHANGED <<latchVars, overlapped, bounds>>
  BY DEF Snapshot, Lifecycle, StartupComplete, StartupTimeout, ReadLatch, MoveMode,
         LookAtMode, ShowMode, ShowEnabled
<1>2. TypeOK'
  <2>1. Bounded'
    BY <1>1 DEF IInv, TypeOK, Bounded, bounds
  <2>2. mode' \in Modes
    BY DEF IInv, TypeOK, Snapshot, Lifecycle, StartupComplete, StartupTimeout, ReadLatch,
           MoveMode, LookAtMode, ShowMode, ShowEnabled, Derived, Modes
  <2>3. ready' \in BOOLEAN /\ started' \in BOOLEAN
    BY DEF IInv, TypeOK, Snapshot, Lifecycle, StartupComplete, StartupTimeout, ReadLatch,
           MoveMode, LookAtMode, ShowMode, ShowEnabled
  <2>4. /\ task' \in [pc: {"waiting", "read", "move", "look", "showMode", "showEnabled"},
                      killed: BOOLEAN, mode: Modes]
        /\ shown' \in [mode: Modes, enabled: BOOLEAN]
    <3>1. TypeOK
      BY DEF IInv
    <3>2. CASE Snapshot
      BY <3>1, <3>2, Zenon DEF TypeOK, Snapshot
    <3>3. CASE StartupComplete \/ StartupTimeout \/ MoveMode
      <4>1. UNCHANGED shown /\ (At("read") \/ At("look"))
        BY <3>3 DEF StartupComplete, StartupTimeout, MoveMode
      <4>2. task.killed \in BOOLEAN /\ task.mode \in Modes
        BY <3>1, Zenon DEF TypeOK
      <4>3. TaskAt("read", task.killed, task.mode) \/ TaskAt("look", task.killed, task.mode)
        BY <4>1 DEF At
      <4>4. task' \in [pc: {"waiting", "read", "move", "look", "showMode", "showEnabled"},
                       killed: BOOLEAN, mode: Modes]
        BY <4>2, <4>3 DEF TaskAt
      <4> QED BY <3>1, <4>1, <4>4 DEF TypeOK
    <3>4. CASE ReadLatch
      <4>1. active \in BOOLEAN /\ task.mode \in Modes
        BY <3>1, Zenon DEF TypeOK
      <4>2. UNCHANGED shown /\ TaskAt("move", active, task.mode)
        BY <3>4 DEF ReadLatch
      <4> QED BY <3>1, <4>1, <4>2, Zenon DEF TypeOK, TaskAt
    <3>5. CASE LookAtMode
      BY <3>1, <3>5, Zenon DEF TypeOK, LookAtMode, TaskAt
    <3>6. CASE ShowMode
      <4>1. task.mode \in Modes /\ shown.enabled \in BOOLEAN
        BY <3>1, Zenon DEF TypeOK
      <4> QED BY <3>1, <3>6, <4>1, Zenon DEF TypeOK, ShowMode, At, TaskAt
    <3>7. CASE ShowEnabled
      <4>1. MayTrade \in BOOLEAN
        BY Zenon DEF MayTrade
      <4> QED BY <3>1, <3>7, <4>1, Zenon DEF TypeOK, ShowEnabled, At, TaskAt
    <3> QED BY <3>2, <3>3, <3>4, <3>5, <3>6, <3>7 DEF Lifecycle
  <2> QED BY <1>1, <2>1, <2>2, <2>3, <2>4, Zenon DEF IInv, TypeOK, latchVars
<1>3. RowInv'
  BY <1>1 DEF IInv, RowInv, Writers, Owed, latchVars, bounds
<1>4. StartInv'
  BY <1>1
  DEF IInv, TypeOK, StartInv, Snapshot, Lifecycle, StartupComplete, StartupTimeout,
      ReadLatch, MoveMode, LookAtMode, ShowMode, ShowEnabled, At, TaskAt, latchVars
<1> QED BY <1>2, <1>3, <1>4 DEF IInv

LEMMA RestartIInv ==
  ASSUME IInv, Restart
  PROVE  IInv'
<1>1. TypeOK'
  <2>1. Bounded'
    BY LatchAssumption DEF IInv, TypeOK, Bounded, Restart
  <2>2. active' \in BOOLEAN
    BY Zenon DEF IInv, TypeOK, Restart
  <2> QED BY <2>1, <2>2, Zenon DEF IInv, TypeOK, Restart, Boot, Modes, Writing
<1>2. \A a \in Actors : actor'[a] = "idle"
  BY DEF Restart, Boot
<1>3. RowInv'
  <2> SUFFICES ASSUME faults' = 0 PROVE Writers' = {} /\ saved' = active'
    BY DEF RowInv
  <2>1. Writers' = {}
    BY <1>2 DEF Writers, Writing
  <2>2. faults' # faults + 1
    BY DEF IInv, TypeOK, Bounded
  <2> QED BY <2>1, <2>2 DEF Restart
<1>4. StartInv'
  BY <1>2 DEF StartInv, Restart, Boot
<1> QED BY <1>1, <1>3, <1>4 DEF IInv

LEMMA NextIInv == IInv /\ [Next]_vars => IInv'
<1> SUFFICES ASSUME IInv, [Next]_vars PROVE IInv'
  OBVIOUS
<1>1. ASSUME NEW a \in Actors, Trigger(a) \/ RiskTrips(a) PROVE IInv'
  BY <1>1, FlipIInv DEF Trigger, RiskTrips
<1>2. ASSUME NEW a \in Actors, Reset(a) PROVE IInv'
  BY <1>2, FlipIInv DEF Reset
<1>3. ASSUME NEW a \in Actors, Write(a) PROVE IInv'
  BY <1>3, WriteIInv
<1>4. ASSUME NEW a \in Actors, CheckRisk(a) \/ RiskAnswered(a) \/ RiskTimeout(a) PROVE IInv'
  BY <1>4, RiskIInv
<1>5. CASE Snapshot \/ Lifecycle
  BY <1>5, TaskIInv
<1>6. CASE Restart
  BY <1>6, RestartIInv
<1>7. CASE UNCHANGED vars
  BY <1>7
  DEF IInv, TypeOK, Bounded, RowInv, StartInv, Writers, Owed, vars, latchVars, modeVars, bounds
<1> QED BY <1>1, <1>2, <1>3, <1>4, <1>5, <1>6, <1>7 DEF Next

LEMMA Inductive == Spec => []IInv
BY InitIInv, NextIInv, PTL DEF Spec

-----------------------------------------------------------------------------
\* Every reachable state of the latch, the mode and the task is well typed
\* (SafetyLatch!TypeOK), for any set of actors.
THEOREM LatchTypeCorrect == Spec => []TypeOK
<1>1. IInv => TypeOK
  BY DEF IInv
<1> QED BY Inductive, <1>1, PTL

\* KillSwitch writes the row it will restore from: with no failed write and
\* no two writes at once, the row nobody is writing equals the latch, for any
\* number of triggers, resets and restarts.
THEOREM RowIsTheLatch == Spec => []RowFollowsLatch
<1>1. IInv => RowFollowsLatch
  BY DEF IInv, RowInv, RowFollowsLatch
<1> QED BY Inductive, <1>1, PTL

\* No refresh and no late startup ends the degraded mode that a risk timeout
\* entered; only a kill or a restart does.
THEOREM DegradedHolds == Spec => CancelOnlyHolds
<1>1. IInv /\ [Next]_vars =>
        [mode = "cancel_only" /\ restarts' = restarts
           => mode' \in {"cancel_only", "halted"}]_vars
  <2> SUFFICES ASSUME IInv, Next, mode = "cancel_only", restarts' = restarts
               PROVE  mode' \in {"cancel_only", "halted"}
    BY DEF vars, modeVars
  <2>1. ASSUME NEW a \in Actors,
               \/ Trigger(a) \/ Reset(a) \/ Write(a)
               \/ CheckRisk(a) \/ RiskAnswered(a) \/ RiskTrips(a) \/ RiskTimeout(a)
        PROVE  mode' \in {"cancel_only", "halted"}
    BY <2>1
    DEF Trigger, Reset, Flip, Write, CheckRisk, RiskAnswered, RiskTrips, RiskTimeout,
        Degraded, modeVars
  <2>2. CASE Snapshot \/ Lifecycle
    BY <2>2
    DEF IInv, StartInv, Snapshot, Lifecycle, StartupComplete, StartupTimeout, ReadLatch,
        MoveMode, LookAtMode, ShowMode, ShowEnabled, Derived
  <2>3. ~Restart
    BY DEF Restart, IInv, TypeOK, Bounded
  <2> QED BY <2>1, <2>2, <2>3 DEF Next
<1> QED BY Inductive, <1>1, PTL DEF Spec, CancelOnlyHolds
=============================================================================
