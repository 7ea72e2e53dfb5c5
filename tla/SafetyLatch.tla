---------------------------- MODULE SafetyLatch ----------------------------
(***************************************************************************)
(* The kill-switch latch, its durable row, the safety mode that gates      *)
(* placements, and the lifecycle task that derives the mode and the status *)
(* the API shows from the latch.  The latch changes under a lock; its row  *)
(* is written after the lock is released.  A restart loses everything but  *)
(* the row.  The sweep a trigger spawns is in DurableExecution.            *)
(***************************************************************************)
EXTENDS Integers

CONSTANTS
  Actors,      \* API requests and risk checks that may run at once
  MaxFlips,    \* bound: triggers and resets that change the latch
  MaxFaults,   \* bound: failed writes and reads of the row
  MaxRestarts  \* bound: restarts

ASSUME LatchAssumption ==
  MaxFlips \in Nat /\ MaxFaults \in Nat /\ MaxRestarts \in Nat

VARIABLES
  active,      \* KillSwitch.active
  saved,       \* system_state.kill_switch_active (no row reads as clear)
  actor,       \* what each actor has in hand
  mode,        \* SafetyController.state.mode
  ready,       \* the account tracker has its first snapshot
  task,        \* SafetyLifecycle::run: its step, the latch and mode it read
  shown,       \* what the API shows: safety_mode, trading_enabled
  started,     \* history: startup completed in this life
  overlapped,  \* history: two row writes were under way at once
  flips, faults, restarts

latchVars == <<active, saved, actor>>
modeVars  == <<mode, ready, task, shown, started>>
bounds    == <<flips, faults, restarts>>
vars == <<latchVars, modeVars, overlapped, bounds>>

Modes == {"starting", "normal", "cancel_only", "halted"}
Writing == {"halting", "clearing"}   \* holds an unfinished write of the row

Bounded ==
  flips \in 0..MaxFlips /\ faults \in 0..MaxFaults /\ restarts \in 0..MaxRestarts

TypeOK ==
  /\ active \in BOOLEAN /\ saved \in BOOLEAN
  /\ actor \in [Actors -> Writing \cup {"idle", "checking"}]
  /\ mode \in Modes
  /\ ready \in BOOLEAN
  /\ task \in [pc: {"waiting", "read", "move", "look", "showMode", "showEnabled"},
               killed: BOOLEAN, mode: Modes]
  /\ shown \in [mode: Modes, enabled: BOOLEAN]
  /\ started \in BOOLEAN /\ overlapped \in BOOLEAN
  /\ Bounded

\* Boot: the controller starts in Starting, the mirrors disabled.
Boot ==
  /\ actor' = [a \in Actors |-> "idle"]
  /\ mode' = "starting" /\ ready' = FALSE /\ started' = FALSE
  /\ task' = [pc |-> "waiting", killed |-> FALSE, mode |-> "starting"]
  /\ shown' = [mode |-> "starting", enabled |-> FALSE]

Init ==
  /\ active = FALSE /\ saved = FALSE
  /\ actor = [a \in Actors |-> "idle"]
  /\ mode = "starting" /\ ready = FALSE /\ started = FALSE
  /\ task = [pc |-> "waiting", killed |-> FALSE, mode |-> "starting"]
  /\ shown = [mode |-> "starting", enabled |-> FALSE]
  /\ overlapped = FALSE
  /\ flips = 0 /\ faults = 0 /\ restarts = 0

-----------------------------------------------------------------------------
(* The latch *)

Writers == {a \in Actors : actor[a] \in Writing}

\* Actor a sets the latch to v and owes the row a write.
Flip(a, v) ==
  /\ flips < MaxFlips /\ flips' = flips + 1
  /\ active' = v
  /\ actor' = [actor EXCEPT ![a] = IF v THEN "halting" ELSE "clearing"]
  /\ overlapped' = (overlapped \/ Writers # {})
  /\ UNCHANGED <<saved, modeVars, faults, restarts>>

\* trigger and reset: each does nothing unless it changes the latch.
Trigger(a) == actor[a] = "idle" /\ ~active /\ Flip(a, TRUE)
Reset(a) == actor[a] = "idle" /\ active /\ Flip(a, FALSE)

\* The row is written, or the error logged and forgotten.
Stored(value) == saved' = value /\ UNCHANGED faults
NotStored == faults < MaxFaults /\ faults' = faults + 1 /\ UNCHANGED saved

\* Bug: the reset clears memory only.
ResetKeepsRow(a) ==
  /\ actor[a] \in Writing
  /\ IF actor[a] = "halting" THEN Stored(TRUE) \/ NotStored
                             ELSE UNCHANGED <<saved, faults>>
  /\ actor' = [actor EXCEPT ![a] = "idle"]
  /\ UNCHANGED <<active, modeVars, overlapped, flips, restarts>>

Write(a) ==
  /\ actor[a] \in Writing
  /\ Stored(actor[a] = "halting") \/ NotStored
  /\ actor' = [actor EXCEPT ![a] = "idle"]
  /\ UNCHANGED <<active, modeVars, overlapped, flips, restarts>>

-----------------------------------------------------------------------------
(* Risk checks of placements *)

\* enter_cancel_only.
Degraded == IF mode = "halted" THEN mode ELSE "cancel_only"

\* A placement passes run_gates (the latch first, when the kill switch is
\* enabled, then the mode) and asks the risk checker.
CheckRisk(a) ==
  /\ actor[a] = "idle" /\ mode = "normal"
  /\ actor' = [actor EXCEPT ![a] = "checking"]
  /\ UNCHANGED <<active, saved, modeVars, overlapped, bounds>>

\* The checker answers: pass or plain refusal; a drawdown or an error, which
\* triggers the kill switch; a timeout, which degrades the mode.
RiskAnswered(a) ==
  /\ actor[a] = "checking"
  /\ actor' = [actor EXCEPT ![a] = "idle"]
  /\ UNCHANGED <<active, saved, modeVars, overlapped, bounds>>

RiskTrips(a) == actor[a] = "checking" /\ ~active /\ Flip(a, TRUE)

RiskTimeout(a) ==
  /\ actor[a] = "checking"
  /\ actor' = [actor EXCEPT ![a] = "idle"]
  /\ mode' = Degraded
  /\ UNCHANGED <<active, saved, ready, task, shown, started, overlapped, bounds>>

-----------------------------------------------------------------------------
(* The lifecycle task *)

TaskAt(pc, killed, m) == task' = [pc |-> pc, killed |-> killed, mode |-> m]
At(pc) == TaskAt(pc, task.killed, task.mode)

\* The account poller's first snapshot.
Snapshot ==
  /\ ~ready /\ ready' = TRUE
  /\ UNCHANGED <<latchVars, mode, task, shown, started, overlapped, bounds>>

\* mark_startup_complete, or the readiness timeout: on to the refresh.
StartupComplete ==
  /\ task.pc = "waiting" /\ ready
  /\ mode' = "normal" /\ started' = TRUE /\ At("read")
  /\ UNCHANGED <<latchVars, ready, shown, overlapped, bounds>>

\* Bug: the task ends when the account is not ready in time.
TimeoutEndsTask ==
  /\ task.pc = "waiting" /\ ~ready /\ At("ended")
  /\ UNCHANGED <<latchVars, mode, ready, shown, started, overlapped, bounds>>

StartupTimeout ==
  /\ task.pc = "waiting" /\ ~ready /\ At("read")
  /\ UNCHANGED <<latchVars, mode, ready, shown, started, overlapped, bounds>>

\* refresh, an await at a time.
ReadLatch ==
  /\ task.pc = "read"
  /\ TaskAt("move", active, task.mode)
  /\ UNCHANGED <<latchVars, mode, ready, shown, started, overlapped, bounds>>

\* Bugs: only Normal is parked; everything but a kill resumes.
ParkNormalOnly ==
  IF task.killed THEN IF mode = "normal" THEN "halted" ELSE mode
  ELSE IF mode = "halted" THEN "normal" ELSE mode
ResumeAnything == IF task.killed THEN "halted" ELSE "normal"

\* The mode after the task saw the latch: a kill parks it, a cleared latch
\* takes Halted back to Normal.
Derived ==
  IF task.killed THEN "halted" ELSE IF mode = "halted" THEN "normal" ELSE mode

MoveMode ==
  /\ task.pc = "move"
  /\ mode' = Derived /\ At("look")
  /\ UNCHANGED <<latchVars, ready, shown, started, overlapped, bounds>>

LookAtMode ==
  /\ task.pc = "look"
  /\ TaskAt("showMode", task.killed, mode)
  /\ UNCHANGED <<latchVars, mode, ready, shown, started, overlapped, bounds>>

ShowMode ==
  /\ task.pc = "showMode"
  /\ shown' = [mode |-> task.mode, enabled |-> shown.enabled] /\ At("showEnabled")
  /\ UNCHANGED <<latchVars, mode, ready, started, overlapped, bounds>>

\* Bug: the mirror asks the latch only.
EnabledUnlessKilled == ~task.killed

MayTrade == ~task.killed /\ task.mode = "normal"

ShowEnabled ==
  /\ task.pc = "showEnabled"
  /\ shown' = [mode |-> shown.mode, enabled |-> MayTrade] /\ At("read")
  /\ UNCHANGED <<latchVars, mode, ready, started, overlapped, bounds>>

Lifecycle ==
  StartupComplete \/ StartupTimeout \/ ReadLatch \/ MoveMode \/ LookAtMode
    \/ ShowMode \/ ShowEnabled

-----------------------------------------------------------------------------
\* The process dies and boots; a row that cannot be read boots unlatched.
Restart ==
  /\ restarts < MaxRestarts /\ restarts' = restarts + 1
  /\ \/ active' = saved /\ UNCHANGED faults
     \/ active' = FALSE /\ faults < MaxFaults /\ faults' = faults + 1
  /\ Boot
  /\ UNCHANGED <<saved, overlapped, flips>>

Next ==
  \/ \E a \in Actors :
       \/ Trigger(a) \/ Reset(a) \/ Write(a)
       \/ CheckRisk(a) \/ RiskAnswered(a) \/ RiskTrips(a) \/ RiskTimeout(a)
  \/ Snapshot \/ Lifecycle
  \/ Restart

Spec == Init /\ [][Next]_vars

\* The lifecycle task is a loop of its own and waits for no one else.
FairSpec == Spec /\ WF_vars(Lifecycle)

-----------------------------------------------------------------------------
(* Properties *)

\* Between row writes the row says what the latch says, so a restart boots as
\* the process ended, provided no write or read failed and no two writes were
\* ever under way at once.
RowFollowsLatch ==
  (Writers = {} /\ faults = 0 /\ ~overlapped) => saved = active

\* A kill survives a restart: between row writes, none of which failed, a set
\* latch is in the row.
KillSurvivesRestart == (Writers = {} /\ faults = 0 /\ active) => saved

\* Trading opens only after the startup of this life completed.
StartupFailsClosed == mode = "normal" => started

\* The degraded mode ends only in a kill or a restart, never by a refresh or a
\* late startup.
CancelOnlyHolds ==
  [][mode = "cancel_only" /\ restarts' = restarts
       => mode' \in {"cancel_only", "halted"}]_vars

\* A latch that stays set halts the mode and the status shown, for good,
\* whatever risk checks and startup do meanwhile.
KillHalts ==
  <>[]active => <>[](mode = "halted" /\ shown = [mode |-> "halted", enabled |-> FALSE])

\* A latch that stays clear leaves no halt behind, and the status shown comes
\* to tell the mode.
ResetResumes ==
  <>[](~active) =>
    /\ <>[](mode # "halted")
    /\ \A m \in Modes : <>[](mode = m) => <>[](shown = [mode |-> m, enabled |-> m = "normal"])
=============================================================================
