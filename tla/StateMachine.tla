---------------------------- MODULE StateMachine ----------------------------
(***************************************************************************)
(* grbl/state_machine.c with the foreground loop of grbl/protocol.c that   *)
(* drives it: realtime requests set flags from interrupts at any time,     *)
(* protocol_exec_rt_system takes them all at once and hands them to the    *)
(* current state handler, and protocol_exec_rt_suspend repeats that while  *)
(* the machine is held.  The step interrupt executes the segments          *)
(* st_prep_buffer makes and reports when it has run out of them.           *)
(*                                                                         *)
(* Handlers call one another directly, so they are functions from a        *)
(* machine state to the set of machine states they may leave.              *)
(***************************************************************************)
EXTENDS Integers, Sequences

CONSTANTS MaxBlocks,    \* bound on the blocks in the planner
          MaxSegments,  \* capacity of the segment buffer
          MaxDelays,    \* bound on restore delays waiting inside one another
          Parking,      \* parking is enabled in the settings
          IgnoreWhenIdle,  \* settings.safety_door.flags.ignore_when_idle
          Inputs        \* what may be requested: a subset of the names below

ASSUME BoundsAssumption ==
    /\ MaxBlocks \in Nat \ {0} /\ MaxSegments \in Nat \ {0} /\ MaxDelays \in Nat
    /\ Parking \in BOOLEAN /\ IgnoreWhenIdle \in BOOLEAN
    /\ Inputs \subseteq {"hold", "start", "door", "stop", "reset", "jog", "sleep"}

VARIABLES
    sys,            \* the machine: a record, see Machine
    rt_exec_state,  \* sys.rt_exec_state: flags set and not yet taken
    rt_exec_alarm,  \* sys.rt_exec_alarm
    rt_exec,        \* the flags the current pass has taken
    pc,             \* where the foreground is
    door_ajar,      \* the safety door input
    abort,          \* sys.abort
    races           \* HISTORY: which of the awkward coincidences have happened

vars == << sys, rt_exec_state, rt_exec_alarm, rt_exec, pc, door_ajar, abort, races >>

States == {"IDLE", "CYCLE", "HOLD", "JOG", "DOOR", "SLEEP", "ALARM"}
Flags == {"CYCLE_START", "CYCLE_COMPLETE", "FEED_HOLD", "STOP", "RESET", "SAFETY_DOOR",
          "MOTION_CANCEL", "MOTION_CANCEL_FAST", "SLEEP"}
Handlers == {"idle", "cycle", "await_motion_cancel", "await_hold", "await_resume",
             "await_restart_retract", "await_waypoint_retract", "restore", "await_resumed",
             "noop"}
RaceNames == {"late_cancel", "late_reopen", "door_in_hold", "door_in_jog", "door_in_stop",
              "stop_in_hold", "stop_ajar",
              "reset_in_stop", "busy_resume", "start_ajar", "start_parking", "underrun"}

Machine ==
    [ state : States, handler : Handlers, pending : States,
      suspend : BOOLEAN,
      execute_hold : BOOLEAN, end_motion : BOOLEAN, execute_sys_motion : BOOLEAN,
      hold_complete : BOOLEAN,               \* sys.holding_state = Hold_Complete
      motion : BOOLEAN, restart : BOOLEAN,   \* park.flags
      delays : Seq({"resume", "restore"}),   \* delays the foreground is inside of
      queue : 0 .. MaxBlocks,                \* blocks in the planner
      pl_block : {"none", "run", "decel"},   \* the loaded block and its profile
      segments : 0 .. MaxSegments,           \* segments waiting or being executed
      stepping : BOOLEAN,
      exec_block : BOOLEAN ]                 \* the interrupt has a block (st.exec_block)

Init ==
    /\ sys = [ state |-> "IDLE", handler |-> "idle", pending |-> "IDLE", suspend |-> FALSE,
               execute_hold |-> FALSE, end_motion |-> FALSE, execute_sys_motion |-> FALSE,
               hold_complete |-> FALSE, motion |-> FALSE, restart |-> FALSE, delays |-> << >>,
               queue |-> 0, pl_block |-> "none", segments |-> 0, stepping |-> FALSE,
               exec_block |-> FALSE ]
    /\ rt_exec_state = {} /\ rt_exec_alarm = FALSE /\ rt_exec = {}
    /\ pc = "fg" /\ door_ajar = FALSE /\ abort = FALSE /\ races = {}

-----------------------------------------------------------------------------
(* The stepper and planner, as the state machine uses them.                *)

\* st_update_plan_block_parameters: the loaded block's profile is computed again.
Reload(s) == [s EXCEPT !.pl_block = "none"]

\* There is a block for st_prep_buffer to load.
Loadable(s) == s.execute_sys_motion \/ s.queue > 0

\* The profile of a block loaded now.
Profile(s) == IF s.execute_hold THEN "decel" ELSE "run"

\* st_prep_buffer before the steppers are woken: the first segment.
Prime(s) ==
    IF s.end_motion \/ (s.pl_block = "none" /\ ~Loadable(s)) THEN s
    ELSE [s EXCEPT !.pl_block = IF @ = "none" THEN Profile(s) ELSE @,
                   !.segments = IF @ = 0 THEN 1 ELSE @]

\* st_prep_buffer and st_wake_up.
Start(s) == [Prime(s) EXCEPT !.stepping = TRUE]

ClearStepControl(s) ==
    [s EXCEPT !.execute_hold = FALSE, !.end_motion = FALSE, !.execute_sys_motion = FALSE]

\* plan_reset and st_reset.
ResetMotion(s) == [s EXCEPT !.queue = 0, !.pl_block = "none", !.segments = 0, !.stepping = FALSE,
                            !.exec_block = FALSE]

\* Steppers that have been woken up are stepping once the interrupt has loaded a segment.
st_is_stepping(s) == s.stepping /\ s.exec_block

\* mc_parking_motion: a system motion, executed at once.  The set is empty when there
\* is none: refused after an abort (or, decided by the callers, nothing to move).
mc_parking_motion(s) ==
    IF abort THEN {}
    ELSE {Start([s EXCEPT !.execute_sys_motion = TRUE, !.end_motion = FALSE,
                          !.pl_block = "none"])}

\* st_parking_restore_buffer, when a parking motion was under way.
ParkingOver(s) ==
    IF s.execute_sys_motion THEN [s EXCEPT !.execute_sys_motion = FALSE, !.pl_block = "none"] ELSE s

-----------------------------------------------------------------------------
(* state_set and the handlers.                                             *)

SetIdle(s) ==
    IF s.state = "IDLE" THEN s
    ELSE [ClearStepControl(s) EXCEPT !.state = "IDLE", !.pending = "IDLE", !.handler = "idle",
              !.suspend = FALSE, !.hold_complete = FALSE, !.motion = FALSE, !.restart = FALSE]

SetCycle(s) ==
    IF s.state = "IDLE" /\ s.queue > 0
    THEN [Start([s EXCEPT !.state = "CYCLE"]) EXCEPT !.handler = "cycle"]
    ELSE s

SetAlarm(s) ==
    IF s.state = "ALARM" THEN s
    ELSE [s EXCEPT !.state = "ALARM", !.suspend = FALSE, !.handler = "noop"]

initiate_hold(s, new) ==
    LET t == IF s.state \in {"CYCLE", "JOG"}
             THEN [Reload(s) EXCEPT !.execute_hold = TRUE, !.handler = "await_hold"]
             ELSE s
    IN  [t EXCEPT !.hold_complete = new # "HOLD" /\ @,
                  !.motion = new = "HOLD" /\ @, !.restart = new = "HOLD" /\ @,
                  !.suspend = TRUE,
                  !.pending = IF s.state = "JOG" THEN new ELSE "IDLE"]

\* Mutant: a hold is complete as soon as it is requested.
SetHold_AtOnce(s) ==
    IF s.state \in {"HOLD", "JOG"} THEN s
    ELSE [initiate_hold(s, "HOLD") EXCEPT !.state = "HOLD", !.hold_complete = TRUE,
                                          !.handler = "await_resume"]

\* Mutant: an idle machine waits for a motion to stop.
SetHold_AlwaysWaits(s) ==
    IF s.state \in {"HOLD", "JOG"} THEN s
    ELSE [initiate_hold(s, "HOLD") EXCEPT !.state = "HOLD", !.handler = "await_hold"]

SetHold(s) ==
    IF s.state \in {"HOLD", "JOG"} THEN s
    ELSE IF s.state = "CYCLE" THEN [initiate_hold(s, "HOLD") EXCEPT !.state = "HOLD"]
    ELSE [initiate_hold(s, "HOLD") EXCEPT !.state = "HOLD", !.hold_complete = TRUE,
                                          !.handler = "await_resume"]

enter_sleep(s) == [s EXCEPT !.stepping = FALSE, !.handler = "noop"]

\* state_await_resume, the part for the end of a parking motion.
ParkedNow(s) == LET t == ParkingOver(s) IN IF t.state = "SLEEP" THEN enter_sleep(t) ELSE t

\* state_await_waypoint_retract at CYCLE_COMPLETE.  Whether there is anything left
\* to move depends on the position.
AwaitWaypointRetract(s) ==
    LET t == [ParkingOver(s) EXCEPT !.handler = "await_resume"]
    IN  (IF t.motion THEN mc_parking_motion(t) ELSE {}) \cup {ParkedNow(t)}

\* state_await_hold at CYCLE_COMPLETE: the machine has stopped; park it if the door
\* or sleep asks for that and the position allows it.
AwaitHold(s) ==
    LET t == Reload(ClearStepControl(s))
        retract(moved) == [t EXCEPT !.handler = "await_waypoint_retract",
                                    !.motion = IF t.restart THEN @ ELSE moved]
    IN  {[t EXCEPT !.hold_complete = TRUE, !.handler = "await_resume"]}
        \cup IF t.state \in {"SLEEP", "DOOR"} /\ Parking
             THEN mc_parking_motion(retract(TRUE)) \cup AwaitWaypointRetract(retract(FALSE))
             ELSE {}

\* state_set for the safety door and for sleep.
SetSuspended(s, new) ==
    LET h == initiate_hold(s, new)
        next == IF s.state = "CYCLE" THEN {[h EXCEPT !.state = new]}
                ELSE IF h.pending # new THEN AwaitHold([h EXCEPT !.state = new])
                ELSE {h}
    IN  IF new = s.state \/ (new = "DOOR" /\ s.state \in {"ALARM", "SLEEP"}) THEN {s}
        ELSE {IF t.state = "SLEEP" /\ t.handler # "await_waypoint_retract"
              THEN enter_sleep(t) ELSE t : t \in next}

AwaitRestartRetract(s) == AwaitHold([ParkingOver(s) EXCEPT !.handler = "await_hold"])

\* The door was opened again while the machine was being brought back.
restart_retract(s) ==
    LET t == [s EXCEPT !.handler = "await_restart_retract", !.restart = TRUE]
    IN  IF t.execute_sys_motion THEN {[Reload(t) EXCEPT !.execute_hold = TRUE]}
        ELSE AwaitRestartRetract(t)

AwaitResumed(s, rt) ==
    CASE "SAFETY_DOOR" \in rt -> restart_retract(s)
    [] "SAFETY_DOOR" \notin rt /\ "CYCLE_COMPLETE" \in rt ->
         {SetCycle(SetIdle([ParkingOver(s) EXCEPT !.motion = FALSE, !.restart = FALSE]))}
    [] OTHER -> {s}

\* park.flags.restoring: set while state_restore_conditions waits.
Restoring(s) == \E k \in 1 .. Len(s.delays) : s.delays[k] = "restore"

\* state_restore: spindle and coolant are restored, which takes a while.
Restore(s, rt) ==
    CASE "SAFETY_DOOR" \in rt /\ Restoring(s) -> {[s EXCEPT !.restart = TRUE]}
    [] "SAFETY_DOOR" \in rt /\ ~Restoring(s) -> restart_retract(s)
    [] "SAFETY_DOOR" \notin rt /\ "CYCLE_COMPLETE" \in rt ->
         {[ParkingOver(s) EXCEPT !.restart = FALSE, !.handler = "await_resumed",
                                 !.delays = Append(@, "restore")]}
    [] OTHER -> {s}

\* The rest of state_restore, once they are restored.
Restored(s) ==
    IF s.restart THEN restart_retract(s)
    ELSE (IF s.motion THEN mc_parking_motion(s) ELSE {}) \cup AwaitResumed(s, {"CYCLE_COMPLETE"})

\* The rest of state_await_resume, once spindle and coolant are restored: restart the
\* cycle with the step control flags as they are.
Resumed(s) ==
    IF s.state \in {"SLEEP", "DOOR"} THEN s
    ELSE SetCycle([SetIdle(s) EXCEPT !.execute_hold = s.execute_hold, !.end_motion = s.end_motion,
                                     !.execute_sys_motion = s.execute_sys_motion])

\* Mutant: the door switch is not looked at.
ResumeRequest_AnyDoor(s) ==
    CASE s.state = "SLEEP" -> {s}
    [] s.state = "DOOR" ->
         LET t == [s EXCEPT !.handler = "restore", !.restart = s.restart /\ ~s.motion]
         IN  (IF s.motion THEN mc_parking_motion(t) ELSE {}) \cup Restore(t, {"CYCLE_COMPLETE"})
    [] s.state \notin {"SLEEP", "DOOR"} -> {[s EXCEPT !.delays = Append(@, "resume")], Resumed(s)}

\* CYCLE_START while suspended.
ResumeRequest(s) ==
    CASE s.state = "SLEEP" -> {s}
    [] s.state = "DOOR" ->
         IF ~s.restart /\ door_ajar THEN {s}
         ELSE LET t == [s EXCEPT !.handler = "restore", !.restart = s.restart /\ ~s.motion]
              IN  (IF s.motion THEN mc_parking_motion(t) ELSE {}) \cup Restore(t, {"CYCLE_COMPLETE"})
    [] s.state \notin {"SLEEP", "DOOR"} -> {[s EXCEPT !.delays = Append(@, "resume")], Resumed(s)}

AwaitResume(s, rt) ==
    LET t == IF "CYCLE_COMPLETE" \in rt /\ Parking THEN ParkedNow(s) ELSE s
        u == IF "SLEEP" \in rt THEN SetSuspended(t, "SLEEP") ELSE {t}
    IN  IF t.handler = "noop" THEN {t}
        ELSE IF "CYCLE_START" \in rt /\ "SAFETY_DOOR" \notin rt
        THEN UNION {ResumeRequest(v) : v \in u} ELSE u

AwaitMotionCancel(s, rt) ==
    IF "CYCLE_COMPLETE" \notin rt THEN {s}
    ELSE LET t == IF s.state = "JOG"
                  THEN [ResetMotion(ClearStepControl(s)) EXCEPT !.suspend = FALSE] ELSE s
         IN  IF t.pending \in {"DOOR", "SLEEP"} THEN SetSuspended(t, t.pending) ELSE {SetIdle(t)}

\* Mutant: the profile is not computed again.
FastHold_KeepProfile(s) ==
    IF s.segments = MaxSegments
    THEN {[s EXCEPT !.segments = n] : n \in 1 .. MaxSegments} ELSE {s}

\* st_update_plan_block_parameters(true): a full buffer is cut back.
FastHold(s) ==
    IF s.segments = MaxSegments
    THEN {[Reload(s) EXCEPT !.segments = n] : n \in 1 .. MaxSegments} ELSE {Reload(s)}

StateCycle(s, rt) ==
    LET a == IF "CYCLE_COMPLETE" \in rt THEN SetIdle(s) ELSE s
        cut == IF "MOTION_CANCEL_FAST" \in rt THEN FastHold(a) ELSE {Reload(a)}
        b == IF rt \cap {"MOTION_CANCEL", "MOTION_CANCEL_FAST"} # {}
             THEN {[t EXCEPT !.suspend = TRUE, !.execute_hold = TRUE,
                             !.handler = "await_motion_cancel"] : t \in cut}
             ELSE {a}
    IN  IF rt = {"CYCLE_START"} THEN {s}
        ELSE IF "FEED_HOLD" \in rt THEN {SetHold(t) : t \in b} ELSE b

StateIdle(s, rt) ==
    LET a == IF "CYCLE_START" \in rt THEN SetCycle(s) ELSE s
        b == IF "FEED_HOLD" \in rt THEN SetHold(a) ELSE a
    IN  IF "SLEEP" \in rt THEN SetSuspended(b, "SLEEP") ELSE {b}

\* Calls through stateHandler.
Handle(s, rt) ==
    CASE s.handler = "idle" -> StateIdle(s, rt)
    [] s.handler = "cycle" -> StateCycle(s, rt)
    [] s.handler = "await_motion_cancel" -> AwaitMotionCancel(s, rt)
    [] s.handler = "await_hold" -> IF "CYCLE_COMPLETE" \in rt THEN AwaitHold(s) ELSE {s}
    [] s.handler = "await_resume" -> AwaitResume(s, rt)
    [] s.handler = "await_restart_retract" ->
         IF "CYCLE_COMPLETE" \in rt THEN AwaitRestartRetract(s) ELSE {s}
    [] s.handler = "await_waypoint_retract" ->
         IF "CYCLE_COMPLETE" \in rt THEN AwaitWaypointRetract(s) ELSE {s}
    [] s.handler = "restore" -> Restore(s, rt)
    [] s.handler = "await_resumed" -> AwaitResumed(s, rt)
    [] s.handler = "noop" -> {s}

state_update(s, rt) ==
    UNION {Handle(t, rt) : t \in IF "SAFETY_DOOR" \in rt THEN SetSuspended(s, "DOOR") ELSE {s}}


-----------------------------------------------------------------------------
(* The foreground: protocol_exec_rt_system and the loops around it.        *)

Moving == {"CYCLE", "HOLD", "DOOR", "SLEEP", "JOG"}

\* HISTORY: requests that arrive together, or at a moment the handlers are not prepared
\* for.
Coincidences(flags) ==
    LET are(name, condition) == IF condition THEN {name} ELSE {}
        ending == "CYCLE_COMPLETE" \in flags
        door == "SAFETY_DOOR" \in flags
        starting == "CYCLE_START" \in flags
        decelerating == sys.stepping /\ sys.handler # "cycle"
    IN  are("late_cancel", ending /\ "MOTION_CANCEL" \in flags /\ sys.handler = "cycle")
        \cup are("late_reopen", ending /\ door /\ sys.execute_sys_motion)
        \cup are("door_in_hold", door /\ sys.state # "DOOR"
                                    /\ sys.handler \in {"await_hold", "await_motion_cancel"})
        \cup are("door_in_jog", door /\ sys.state = "JOG")
        \cup are("door_in_stop", door /\ ending /\ ("STOP" \in flags \/ pc = "stop"))
        \cup are("stop_in_hold", "STOP" \in flags /\ decelerating)
        \cup are("stop_ajar", door_ajar /\ ("STOP" \in flags \/ pc = "stop") /\ ~st_is_stepping(sys)
                               /\ sys.state \in {"CYCLE", "JOG", "HOLD"}
                               /\ sys.handler # "await_resume")
        \cup are("busy_resume", sys.delays # << >> /\ flags # {})
        \cup are("start_parking", starting /\ sys.handler = "await_resume" /\ sys.stepping)
        \cup are("start_ajar", starting /\ sys.state = "DOOR" /\ sys.restart /\ door_ajar)

\* After the flags: fill the segment buffer if a motion may be under way.
Onward(s) == IF s.state \in Moving THEN "prep" ELSE "fg"

\* protocol_exec_rt_system is called: by the main loop, by protocol_exec_rt_suspend
\* as long as the machine is suspended, and by delay_sec within a handler.
BeginPass ==
    /\ pc = "fg" /\ ~abort
    /\ pc' = "pass"
    /\ UNCHANGED << sys, rt_exec_state, rt_exec_alarm, rt_exec, door_ajar, abort, races >>

\* An alarm comes first.
TakeAlarm ==
    /\ pc = "pass" /\ rt_exec_alarm
    /\ rt_exec_alarm' = FALSE
    /\ sys' = SetAlarm(sys)
    /\ UNCHANGED << rt_exec_state, rt_exec, pc, door_ajar, abort, races >>

\* system_clear_exec_states: all flags are taken at once.
Taking == pc = "pass" /\ ~rt_exec_alarm /\ rt_exec_state' = {}

TakeReset ==
    /\ Taking /\ "RESET" \in rt_exec_state
    /\ abort' = TRUE
    /\ pc' = "fg"
    /\ races' = races \cup Coincidences(rt_exec_state)
    /\ UNCHANGED << sys, rt_exec_alarm, rt_exec, door_ajar >>

Dispatch(s, flags) ==
    /\ sys' \in IF flags = {} THEN {s} ELSE state_update(s, flags)
    /\ Len(sys'.delays) <= MaxDelays
    /\ pc' = Onward(sys')

\* Requests that are neither a reset nor a stop go to the state machine.
Take ==
    /\ Taking /\ rt_exec_state \cap {"RESET", "STOP"} = {}
    /\ Dispatch(sys, rt_exec_state)
    /\ races' = races \cup Coincidences(rt_exec_state)
    /\ UNCHANGED << rt_exec_alarm, rt_exec, door_ajar, abort >>

\* Mutant: a stop comes before a reset.
TakeStop_First ==
    /\ Taking /\ "STOP" \in rt_exec_state
    /\ st_is_stepping(sys)
    /\ sys' \in state_update(ClearStepControl(sys), {"MOTION_CANCEL_FAST"})
    /\ rt_exec' = rt_exec_state \ {"STOP"}
    /\ pc' = "stop"
    /\ races' = races \cup Coincidences(rt_exec_state)
    /\ UNCHANGED << rt_exec_alarm, door_ajar, abort >>

\* EXEC_STOP while stepping: decelerate, and wait right here until the steppers stop.
TakeStop ==
    /\ Taking /\ "STOP" \in rt_exec_state /\ "RESET" \notin rt_exec_state
    /\ st_is_stepping(sys)
    /\ sys' \in state_update(ClearStepControl(sys), {"MOTION_CANCEL_FAST"})
    /\ rt_exec' = rt_exec_state \ {"STOP"}
    /\ pc' = "stop"
    /\ races' = races \cup Coincidences(rt_exec_state)
    /\ UNCHANGED << rt_exec_alarm, door_ajar, abort >>

\* The rest of EXEC_STOP: everything is dropped; the remaining flags follow.
Stopped(s, flags) ==
    LET t == ResetMotion(ClearStepControl(s))
        u == IF door_ajar THEN SetSuspended(t, "DOOR") ELSE {SetIdle(t)}
    IN  \E v \in u : Dispatch(v, flags)

StopNow ==
    /\ Taking /\ "STOP" \in rt_exec_state /\ "RESET" \notin rt_exec_state
    /\ ~st_is_stepping(sys)
    /\ Stopped(sys, rt_exec_state \ {"STOP"})
    /\ races' = races \cup Coincidences(rt_exec_state)
    /\ UNCHANGED << rt_exec_alarm, rt_exec, door_ajar, abort >>

StopDone ==
    /\ pc = "stop" /\ ~st_is_stepping(sys)
    /\ Stopped(sys, (rt_exec \cup rt_exec_state) \ {"STOP"})
    /\ rt_exec' = {} /\ rt_exec_state' = {}
    /\ races' = races \cup Coincidences(rt_exec \cup rt_exec_state)
                      \cup (IF "RESET" \in rt_exec_state THEN {"reset_in_stop"} ELSE {})
    /\ UNCHANGED << rt_exec_alarm, door_ajar, abort >>

\* st_prep_buffer: there is room for a segment and a block to cut it from.
CanPrep ==
    /\ pc \in {"prep", "stop"}
    /\ ~sys.end_motion /\ sys.segments < MaxSegments
    /\ sys.pl_block # "none" \/ Loadable(sys)

Loaded == [sys EXCEPT !.pl_block = IF @ = "none" THEN Profile(sys) ELSE @,
                      !.segments = @ + 1]

PrepDone == UNCHANGED << rt_exec_state, rt_exec_alarm, rt_exec, pc, door_ajar, abort, races >>

\* A segment, and more of the block remains.
PrepSegment == CanPrep /\ sys' = Loaded /\ PrepDone

\* The block's last segment.
PrepBlockEnd ==
    /\ CanPrep
    /\ sys' = IF sys.execute_sys_motion THEN [Loaded EXCEPT !.end_motion = TRUE]
              ELSE [Loaded EXCEPT !.pl_block = "none", !.queue = IF @ > 0 THEN @ - 1 ELSE 0]
    /\ PrepDone

\* The deceleration ends within the block.  A remainder of less than a step is left
\* for the resume, without a segment.
PrepStandstill ==
    /\ CanPrep /\ Loaded.pl_block = "decel"
    /\ \E last \in IF sys.execute_hold THEN {0, 1} ELSE {1} :
         sys' = [Loaded EXCEPT !.end_motion = TRUE, !.segments = sys.segments + last]
    /\ PrepDone

PrepExit ==
    /\ pc = "prep" /\ ~CanPrep
    /\ pc' = "fg"
    /\ UNCHANGED << sys, rt_exec_state, rt_exec_alarm, rt_exec, door_ajar, abort, races >>

\* A delay within a handler ends: it has elapsed, or is cut short by an abort or by
\* the door (state_door_reopened).  The handler goes on.
DelayEnds ==
    /\ pc = "fg" /\ sys.delays # << >>
    /\ LET inner == sys.delays[Len(sys.delays)]
           s == [sys EXCEPT !.delays = SubSeq(@, 1, Len(@) - 1)]
       IN  sys' \in IF inner = "resume" THEN {Resumed(s)} ELSE Restored(s)
    /\ Len(sys'.delays) <= MaxDelays
    /\ pc' = Onward(sys')
    /\ UNCHANGED << rt_exec_state, rt_exec_alarm, rt_exec, door_ajar, abort, races >>

\* After an abort everything returns to the loop in grbl_enter, which clears it all
\* and starts the main loop again.  A machine in alarm or asleep comes back in alarm.
Reinit ==
    /\ pc = "fg" /\ abort /\ sys.delays = << >>
    /\ LET t == [ResetMotion(ClearStepControl(sys)) EXCEPT !.suspend = FALSE,
                                                          !.hold_complete = FALSE]
       IN  sys' = IF t.state \in {"ALARM", "SLEEP"} THEN SetAlarm(t) ELSE SetIdle(t)
    /\ rt_exec_state' = IF door_ajar /\ ~IgnoreWhenIdle /\ sys.state \notin {"ALARM", "SLEEP"}
                        THEN {"SAFETY_DOOR"} ELSE {}
    /\ rt_exec_alarm' = FALSE /\ abort' = FALSE
    /\ UNCHANGED << rt_exec, pc, door_ajar, races >>

\* The main loop between two passes: the machine is not suspended.
InMain == pc = "fg" /\ ~abort /\ sys.delays = << >> /\ ~sys.suspend

\* A G-code motion: into the planner.
Line ==
    /\ InMain /\ sys.state \notin {"ALARM", "JOG"} /\ sys.queue < MaxBlocks
    /\ sys' = [sys EXCEPT !.queue = @ + 1]
    /\ UNCHANGED << rt_exec_state, rt_exec_alarm, rt_exec, pc, door_ajar, abort, races >>

\* A jog command starts at once.
Jog ==
    /\ InMain /\ "jog" \in Inputs
    /\ sys.state \in {"IDLE", "JOG"} /\ sys.queue < MaxBlocks
    /\ LET t == [sys EXCEPT !.queue = @ + 1]
       IN  sys' = IF t.state = "IDLE" THEN Start([t EXCEPT !.state = "JOG", !.handler = "cycle"]) ELSE t
    /\ UNCHANGED << rt_exec_state, rt_exec_alarm, rt_exec, pc, door_ajar, abort, races >>

\* The foreground sets a flag for itself.
Raise(flag) ==
    /\ rt_exec_state' = rt_exec_state \cup {flag}
    /\ UNCHANGED << sys, rt_exec_alarm, rt_exec, pc, door_ajar, abort, races >>

\* The jog is cancelled: CAN in the input.
JogCancel == InMain /\ "jog" \in Inputs /\ sys.state = "JOG" /\ Raise("MOTION_CANCEL")

\* protocol_auto_cycle_start.
AutoStart == InMain /\ sys.queue > 0 /\ Raise("CYCLE_START")

\* The $SLP command, and sleep_check, in the main loop and when held.
Sleep ==
    /\ "sleep" \in Inputs /\ pc = "fg" /\ ~abort /\ sys.delays = << >>
    /\ \/ sys.state \in {"IDLE", "ALARM"} /\ ~sys.suspend
       \/ sys.state = "HOLD" /\ sys.hold_complete
       \/ sys.state = "DOOR" /\ sys.handler = "await_resume" /\ door_ajar
    /\ Raise("SLEEP")

\* $X, refused while the door is open, unless it is ignored when idle.
Unlock ==
    /\ InMain /\ sys.state = "ALARM" /\ (door_ajar => IgnoreWhenIdle)
    /\ sys' = SetIdle(sys)
    /\ UNCHANGED << rt_exec_state, rt_exec_alarm, rt_exec, pc, door_ajar, abort, races >>

-----------------------------------------------------------------------------
(* Interrupts.                                                             *)

\* Mutant: the buffer is not tested for being empty.
Tick_Underflow ==
    /\ sys.stepping
    /\ sys' = [sys EXCEPT !.segments = @ - 1]
    /\ UNCHANGED << rt_exec_state, rt_exec_alarm, rt_exec, pc, door_ajar, abort, races >>

\* Mutant: the end of the motion is not reported.
Tick_Silent ==
    /\ sys.stepping
    /\ sys' = IF sys.segments > 0 THEN [sys EXCEPT !.segments = @ - 1, !.exec_block = TRUE]
              ELSE [sys EXCEPT !.stepping = FALSE, !.exec_block = FALSE]
    /\ UNCHANGED << rt_exec_state, rt_exec_alarm, rt_exec, pc, door_ajar, abort, races >>

\* A tick of the step interrupt: a segment is done, or there is none left.
Tick ==
    /\ sys.stepping
    /\ IF sys.segments > 0
       THEN /\ sys' = [sys EXCEPT !.segments = @ - 1, !.exec_block = TRUE]
            /\ UNCHANGED << rt_exec_state, races >>
       ELSE /\ sys' = [sys EXCEPT !.stepping = FALSE, !.exec_block = FALSE]
            /\ rt_exec_state' = rt_exec_state \cup {"CYCLE_COMPLETE"}
            /\ races' = races \cup (IF sys.execute_sys_motion /\ ~sys.end_motion
                                     THEN {"underrun"} ELSE {})
    /\ UNCHANGED << rt_exec_alarm, rt_exec, pc, door_ajar, abort >>

\* Realtime commands and buttons.
Command(input, flag) == input \in Inputs /\ flag \notin rt_exec_state /\ Raise(flag)

FeedHold == Command("hold", "FEED_HOLD")
CycleStart == Command("start", "CYCLE_START")
StopCommand == Command("stop", "STOP")

\* The door switch.  Opening it requests the door state, unless that is ignored in idle
\* and when jogging.
Door ==
    /\ "door" \in Inputs
    /\ door_ajar' = ~door_ajar
    /\ rt_exec_state' = IF door_ajar \/ (IgnoreWhenIdle /\ sys.state \in {"IDLE", "JOG"})
                        THEN rt_exec_state ELSE rt_exec_state \cup {"SAFETY_DOOR"}
    /\ UNCHANGED << sys, rt_exec_alarm, rt_exec, pc, abort, races >>

\* The safety door as a realtime command.
DoorCommand == sys.state # "DOOR" /\ Command("door", "SAFETY_DOOR")

\* mc_reset.  With a blocking event (sleep) or a reset under way only the flag is set.
mc_reset ==
    /\ "reset" \in Inputs /\ "RESET" \notin rt_exec_state
    /\ rt_exec_state' = rt_exec_state \cup {"RESET"}
    /\ \E blocked \in CASE abort -> {TRUE} [] ~abort /\ sys.state = "SLEEP" -> BOOLEAN [] OTHER -> {FALSE} :
         IF /\ ~blocked
            /\ sys.state \in {"CYCLE", "JOG"} \/ sys.execute_hold \/ sys.execute_sys_motion
         THEN rt_exec_alarm' = TRUE /\ sys' = [sys EXCEPT !.stepping = FALSE]
         ELSE UNCHANGED << sys, rt_exec_alarm >>
    /\ UNCHANGED << rt_exec, pc, door_ajar, abort, races >>

Next ==
    \/ BeginPass \/ TakeAlarm \/ TakeReset \/ Take \/ TakeStop \/ StopNow \/ StopDone
    \/ PrepSegment \/ PrepBlockEnd \/ PrepStandstill \/ PrepExit
    \/ DelayEnds \/ Reinit
    \/ Line \/ Jog \/ JogCancel \/ AutoStart \/ Sleep \/ Unlock
    \/ Tick \/ FeedHold \/ CycleStart \/ StopCommand \/ Door \/ DoorCommand \/ mc_reset

Spec == Init /\ [][Next]_vars

\* What the foreground does without being asked: it never stops calling
\* protocol_exec_rt_system.
Foreground ==
    \/ BeginPass \/ TakeAlarm \/ TakeReset \/ Take \/ TakeStop \/ StopNow \/ StopDone
    \/ PrepSegment \/ PrepBlockEnd \/ PrepStandstill \/ PrepExit \/ DelayEnds \/ Reinit

\* The step timer keeps running, and blocks are finite: however they are cut into
\* segments, st_prep_buffer gets to the end of one.  Every delay ends.
FairSpec ==
    /\ Spec
    /\ WF_vars(Foreground) /\ WF_vars(Tick)
    /\ SF_vars(PrepBlockEnd \/ PrepStandstill) /\ SF_vars(DelayEnds)

-----------------------------------------------------------------------------

\* Types of the machine and of the flags.
TypeOK ==
    /\ sys \in Machine
    /\ rt_exec_state \subseteq Flags /\ rt_exec \subseteq Flags
    /\ rt_exec_alarm \in BOOLEAN /\ door_ajar \in BOOLEAN /\ abort \in BOOLEAN
    /\ pc \in {"fg", "pass", "prep", "stop"} /\ races \subseteq RaceNames

\* No coincidence has happened; also the bound of the runs' exploration.
NoRace == races = {}

\* Nothing has happened but the named coincidences.
Only(names) == races \subseteq names

\* A machine that waits for cycle start is standing still, unless it is parking.
HoldStopsBut(names) ==
    Only(names) /\ sys.handler = "await_resume" /\ ~sys.execute_sys_motion => ~sys.stepping

\* Feed hold, door and sleep come to a stop before the machine is declared held
\* (state_await_hold).
HoldStops == HoldStopsBut({})

\* The same when the door is opened while a feed hold decelerates.  "Safety door is
\* ajar. Feed holds and de-energizes system." (system.h)
HoldStopsAtDoor == HoldStopsBut({"door_in_hold"})

Waiting == sys.handler \in {"await_hold", "await_motion_cancel", "await_restart_retract",
                            "await_waypoint_retract", "restore", "await_resumed"}

\* A handler that waits for a motion to end has one to wait for, its end is reported and
\* not yet taken, or a reset is on its way (the state_await_ handlers go on at
\* CYCLE_COMPLETE only).
WaitsForMotion ==
    NoRace /\ Waiting /\ sys.delays = << >> =>
        \/ sys.stepping \/ "CYCLE_COMPLETE" \in rt_exec_state
        \/ rt_exec_alarm \/ abort \/ "RESET" \in rt_exec_state

\* What the machine says of itself is so: in idle nothing moves and the main loop runs,
\* while a stop request waits for the steppers no block is run at its programmed speed,
\* and a machine that waits for cycle start is in a held state.
TrueToState ==
    NoRace =>
        /\ sys.state = "IDLE" => ~sys.stepping /\ ~sys.suspend
        /\ pc = "stop" => sys.pl_block # "run"
        /\ sys.handler = "await_resume" => sys.state \in {"HOLD", "DOOR", "SLEEP"}

\* A cycle is not started with the door open, unless the door was opened so late that
\* its request has not been taken yet.  Where the door is ignored when idle, that is only
\* so of a cycle resumed from the door state (control_interrupt_handler raises no
\* request in idle and when jogging).
NoCycleAtOpenDoor ==
    [][ NoRace' /\ ~sys.stepping /\ sys'.stepping /\ sys'.state = "CYCLE"
                /\ (IgnoreWhenIdle => sys.state = "DOOR")
          => ~door_ajar \/ "SAFETY_DOOR" \in rt_exec_state' ]_vars

\* Cycle start makes a parked machine return.
Returning == sys.handler = "await_resume" /\ sys'.handler \in {"restore", "await_resumed"}

\* "Resume door state when parking motion has retracted and door has been closed."
\* (state_await_resume)
ReturnsAsPromised ==
    [][ Only({"start_ajar", "start_parking"})' /\ Returning => ~door_ajar /\ ~sys.stepping ]_vars

\* A reset request ends in an abort, whatever the machine is doing or waiting for and
\* whatever else is requested with it (protocol_exec_rt_system).
ResetHonoured == "RESET" \in rt_exec_state ~> (abort \/ ~NoRace)

\* Every wait for a motion to end is over some time: the held machine comes to its stop
\* and the parked machine returns, whatever is requested in between.
WaitEnds == Waiting ~> (~Waiting \/ ~NoRace)
=============================================================================
