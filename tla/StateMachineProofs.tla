------------------------- MODULE StateMachineProofs -------------------------
(***************************************************************************)
(* For any size of the planner and the segment buffer, with or without     *)
(* parking, and whatever is requested and when: the machine's state, its   *)
(* handler and the steppers agree.                                         *)
(***************************************************************************)
EXTENDS StateMachine, TLAPS

-----------------------------------------------------------------------------
(* The inductive invariant *)

Parkers == {"await_resume", "await_restart_retract", "await_waypoint_retract", "restore",
            "await_resumed"}

\* The handlers each state can be in.
Fits(s) ==
    \/ s.state \in {"ALARM", "SLEEP"} /\ s.handler = "noop"
    \/ s.state = "IDLE" /\ s.handler = "idle"
    \/ s.state \in {"CYCLE", "JOG"} /\ s.handler \in {"cycle", "await_motion_cancel"}
    \/ s.state \in {"HOLD", "DOOR"} /\ s.handler \in {"await_hold", "await_resume"}
    \/ s.state = "DOOR" /\ s.handler \in Parkers
    \/ s.state = "SLEEP" /\ s.handler \in {"await_resume", "await_waypoint_retract"}

\* State, handler and steppers agree: only a running, a stopping and a parking machine
\* moves.
Moves(s) ==
    /\ Fits(s)
    /\ s.stepping => s.handler \notin {"idle", "noop"} /\ s.delays = << >>
    /\ s.stepping /\ s.handler \in Parkers => s.execute_sys_motion
    /\ s.state \in {"IDLE", "CYCLE", "JOG", "HOLD"} => ~s.execute_sys_motion
    /\ s.execute_hold => s.handler \in {"await_hold", "await_motion_cancel",
                                        "await_restart_retract", "noop"}
    /\ s.handler = "await_motion_cancel" => s.execute_hold /\ s.pl_block # "run"

\* A delay is one of those of the handler the machine waits in.
Delays(s) ==
    \/ s.delays = << >>
    \/ s.delays = << "resume" >> /\ s.state = "HOLD" /\ s.handler = "await_resume"
    \/ /\ s.delays = << "restore" >> /\ s.state = "DOOR" /\ s.handler = "await_resumed"
       /\ ~s.execute_sys_motion

Shape(s) ==
    /\ Moves(s) /\ Delays(s)
    /\ s.pending = "IDLE" /\ (s.state = "IDLE" => ~s.suspend)

\* A machine at rest of which no motion end is to be reported.
Still(s) == s.state = "IDLE" \/ (s.state = "HOLD" /\ s.handler = "await_resume")

\* A machine in alarm has no step control left.
Cleared(s) == s.state = "ALARM" => ~s.execute_hold /\ ~s.execute_sys_motion

\* The end of a motion is reported after it, to a machine that was in motion.
EndInv ==
    "CYCLE_COMPLETE" \in rt_exec_state =>
        /\ ~sys.stepping /\ sys.delays = << >> /\ ~Still(sys)
        /\ sys.state = "ALARM" => pc = "pass" /\ "RESET" \in rt_exec_state

\* An alarm comes with a reset and to a stopped machine; only a reset under way leaves step
\* control to a machine in alarm; an abort is not delayed; a stop waits for a cancelled motion,
\* and only a stop cancels fast.
ResetInv ==
    /\ rt_exec_alarm => /\ "RESET" \in rt_exec_state /\ sys.delays = << >> /\ ~sys.stepping
                        /\ sys.state \notin {"IDLE", "ALARM"}
    /\ Cleared(sys) \/ abort \/ "RESET" \in rt_exec_state
    /\ abort => pc = "fg" /\ sys.delays = << >>
    /\ pc = "stop" => sys.handler = "await_motion_cancel"
    /\ pc = "stop" => "RESET" \notin rt_exec
    /\ "MOTION_CANCEL_FAST" \notin rt_exec_state \cup rt_exec

\* A handler that waits for a motion, or runs one, has one, unless a reset is on its way.
Waits(s) ==
    s.handler \in {"cycle", "await_hold", "await_motion_cancel", "await_restart_retract",
                   "await_waypoint_retract", "restore", "await_resumed"}

WaitInv ==
    Waits(sys) /\ sys.delays = << >> =>
        \/ sys.stepping \/ "CYCLE_COMPLETE" \in rt_exec_state
        \/ rt_exec_alarm \/ abort \/ "RESET" \in rt_exec_state

\* An open door is known to the machine, or its request is still to be taken.
Guarded(s) == s.state \in {"DOOR", "SLEEP", "ALARM"} /\ s.handler \notin {"restore", "await_resumed"}

\* Where the door is ignored when idle, at least no machine returns from parking.
Knows(s) == Guarded(s) \/ (IgnoreWhenIdle /\ s.handler \notin {"restore", "await_resumed"})

DoorInv ==
    door_ajar /\ ~abort =>
        \/ "SAFETY_DOOR" \in rt_exec_state \/ (pc = "stop" /\ "SAFETY_DOOR" \in rt_exec)
        \/ Knows(sys)

IInv == NoRace => Shape(sys) /\ EndInv /\ ResetInv /\ WaitInv /\ DoorInv

-----------------------------------------------------------------------------
(* Types: every operation on the machine returns machines *)

LEMMA Names ==
    /\ "IDLE" \in States /\ "CYCLE" \in States /\ "HOLD" \in States /\ "JOG" \in States
    /\ "DOOR" \in States /\ "SLEEP" \in States /\ "ALARM" \in States
    /\ "idle" \in Handlers /\ "cycle" \in Handlers /\ "await_motion_cancel" \in Handlers
    /\ "await_hold" \in Handlers /\ "await_resume" \in Handlers
    /\ "await_restart_retract" \in Handlers /\ "await_waypoint_retract" \in Handlers
    /\ "restore" \in Handlers /\ "await_resumed" \in Handlers /\ "noop" \in Handlers
    /\ 0 \in 0 .. MaxBlocks /\ 0 \in 0 .. MaxSegments
BY BoundsAssumption DEF States, Handlers

LEMMA TypeBasics ==
    ASSUME NEW s \in Machine
    PROVE  /\ Reload(s) \in Machine /\ ClearStepControl(s) \in Machine
           /\ ResetMotion(s) \in Machine /\ ParkingOver(s) \in Machine
           /\ enter_sleep(s) \in Machine
<1>1. Reload(s) \in Machine /\ ClearStepControl(s) \in Machine
  BY DEF Machine, Reload, ClearStepControl
<1>2. ResetMotion(s) \in Machine
  BY Names DEF Machine, ResetMotion
<1>3. [s EXCEPT !.execute_sys_motion = FALSE, !.pl_block = "none"] \in Machine
  BY DEF Machine
<1>4. ParkingOver(s) \in Machine
  BY <1>3 DEF ParkingOver
<1>5. enter_sleep(s) \in Machine
  BY Names DEF Machine, enter_sleep
<1>. QED
  BY <1>1, <1>2, <1>4, <1>5

LEMMA PrimeType == ASSUME NEW s \in Machine PROVE Prime(s) \in Machine
<1>. DEFINE p == IF s.pl_block = "none" THEN Profile(s) ELSE s.pl_block
            n == IF s.segments = 0 THEN 1 ELSE s.segments
<1>1. p \in {"none", "run", "decel"} /\ n \in 0 .. MaxSegments
  BY BoundsAssumption DEF Machine, Profile
<1>2. Prime(s) \in {s, [s EXCEPT !.pl_block = p, !.segments = n]}
  BY DEF Prime, Machine
<1>. HIDE DEF p, n
<1>3. [s EXCEPT !.pl_block = p, !.segments = n] \in Machine
  BY <1>1 DEF Machine
<1>. QED
  BY <1>2, <1>3

LEMMA TypeStart == ASSUME NEW s \in Machine PROVE Start(s) \in Machine
<1>2. \A t \in Machine : [t EXCEPT !.stepping = TRUE] \in Machine
  BY DEF Machine
<1>. QED
  BY <1>2, PrimeType DEF Start

LEMMA TypePark == ASSUME NEW s \in Machine PROVE mc_parking_motion(s) \subseteq Machine
<1>1. [s EXCEPT !.execute_sys_motion = TRUE, !.end_motion = FALSE, !.pl_block = "none"] \in Machine
  BY DEF Machine
<1>. QED
  BY <1>1, TypeStart DEF mc_parking_motion

LEMMA TypeIdle == ASSUME NEW s \in Machine PROVE SetIdle(s) \in Machine
<1>0. /\ \A t \in Machine : [t EXCEPT !.state = "IDLE", !.pending = "IDLE", !.handler = "idle",
                                      !.suspend = FALSE] \in Machine
      /\ \A t \in Machine : [t EXCEPT !.hold_complete = FALSE, !.motion = FALSE,
                                      !.restart = FALSE] \in Machine
  BY Names, ZenonT(40) DEF Machine
<1>1. \A t \in Machine :
          [t EXCEPT !.state = "IDLE", !.pending = "IDLE", !.handler = "idle", !.suspend = FALSE,
                    !.hold_complete = FALSE, !.motion = FALSE, !.restart = FALSE] \in Machine
  <2>. TAKE t \in Machine
  <2>. DEFINE u == [t EXCEPT !.state = "IDLE", !.pending = "IDLE", !.handler = "idle",
                             !.suspend = FALSE]
  <2>1. u \in Machine
    BY <1>0
  <2>. HIDE DEF u
  <2>2. [u EXCEPT !.hold_complete = FALSE, !.motion = FALSE, !.restart = FALSE] \in Machine
    BY <1>0, <2>1
  <2>. QED
    BY <2>2 DEF u
<1>. QED
  BY <1>1, TypeBasics DEF SetIdle

LEMMA TypeCycle == ASSUME NEW s \in Machine PROVE SetCycle(s) \in Machine
<1>1. [s EXCEPT !.state = "CYCLE"] \in Machine
  BY Names DEF Machine
<1>2. \A t \in Machine : [t EXCEPT !.handler = "cycle"] \in Machine
  BY Names DEF Machine
<1>. QED
  BY <1>1, <1>2, TypeStart DEF SetCycle

LEMMA TypeAlarm == ASSUME NEW s \in Machine PROVE SetAlarm(s) \in Machine
<1>1. \A t \in Machine : [t EXCEPT !.state = "ALARM", !.suspend = FALSE, !.handler = "noop"] \in Machine
  BY Names DEF Machine
<1>. QED
  BY <1>1 DEF SetAlarm

LEMMA TypeInitiate ==
    ASSUME NEW s \in Machine, NEW new \in States PROVE initiate_hold(s, new) \in Machine
<1>. DEFINE t == IF s.state \in {"CYCLE", "JOG"}
                 THEN [Reload(s) EXCEPT !.execute_hold = TRUE, !.handler = "await_hold"]
                 ELSE s
            a == new # "HOLD" /\ t.hold_complete
            b == new = "HOLD" /\ t.motion
            c == new = "HOLD" /\ t.restart
            d == IF s.state = "JOG" THEN new ELSE "IDLE"
<1>1. \A u \in Machine : [u EXCEPT !.execute_hold = TRUE, !.handler = "await_hold"] \in Machine
  BY Names DEF Machine
<1>2. t \in Machine
  BY <1>1, TypeBasics
<1>3. a \in BOOLEAN /\ b \in BOOLEAN /\ c \in BOOLEAN /\ d \in States
  BY Names
<1>4. initiate_hold(s, new) = [t EXCEPT !.hold_complete = a, !.motion = b, !.restart = c,
                                        !.suspend = TRUE, !.pending = d]
  BY <1>2 DEF initiate_hold, Machine
<1>. HIDE DEF a, b, c, d, t
<1>. QED
  BY <1>2, <1>3, <1>4, ZenonT(40) DEF Machine

LEMMA TypeHold == ASSUME NEW s \in Machine PROVE SetHold(s) \in Machine
<1>1. \A t \in Machine : /\ [t EXCEPT !.state = "HOLD"] \in Machine
                         /\ [t EXCEPT !.state = "HOLD", !.hold_complete = TRUE,
                                      !.handler = "await_resume"] \in Machine
  BY Names DEF Machine
<1>. QED
  BY <1>1, TypeInitiate, Names DEF SetHold

LEMMA TypeParked == ASSUME NEW s \in Machine PROVE ParkedNow(s) \in Machine
BY TypeBasics DEF ParkedNow

LEMMA TypeWaypoint == ASSUME NEW s \in Machine PROVE AwaitWaypointRetract(s) \subseteq Machine
<1>1. \A t \in Machine : [t EXCEPT !.handler = "await_resume"] \in Machine
  BY Names DEF Machine
<1>. QED
  BY <1>1, TypeBasics, TypePark, TypeParked DEF AwaitWaypointRetract

\* The cases of state_await_hold.
Standing(s) == Reload(ClearStepControl(s))
Held(s) == [Standing(s) EXCEPT !.hold_complete = TRUE, !.handler = "await_resume"]
Retract(s, moved) == [Standing(s) EXCEPT !.handler = "await_waypoint_retract",
                                         !.motion = IF Standing(s).restart THEN @ ELSE moved]

LEMMA HoldCases ==
    ASSUME NEW s, NEW t \in AwaitHold(s)
    PROVE  \/ t = Held(s)
           \/ /\ Standing(s).state \in {"SLEEP", "DOOR"} /\ Parking
              /\ t \in mc_parking_motion(Retract(s, TRUE)) \cup AwaitWaypointRetract(Retract(s, FALSE))
BY DEF AwaitHold, Held, Retract, Standing

LEMMA TypeRetract ==
    ASSUME NEW s \in Machine, NEW moved \in BOOLEAN
    PROVE  Standing(s) \in Machine /\ Held(s) \in Machine /\ Retract(s, moved) \in Machine
<1>1. Standing(s) \in Machine
  BY TypeBasics DEF Standing
<1>2. Held(s) \in Machine
  BY <1>1, Names DEF Held, Machine
<1>. DEFINE m == IF Standing(s).restart THEN Standing(s).motion ELSE moved
<1>3. m \in BOOLEAN
  BY <1>1 DEF Machine
<1>4. Retract(s, moved) = [Standing(s) EXCEPT !.handler = "await_waypoint_retract", !.motion = m]
  BY <1>1 DEF Retract, Machine
<1>. HIDE DEF m
<1>5. Retract(s, moved) \in Machine
  BY <1>1, <1>3, <1>4, Names DEF Machine
<1>. QED
  BY <1>1, <1>2, <1>5

LEMMA TypeAwaitHold == ASSUME NEW s \in Machine PROVE AwaitHold(s) \subseteq Machine
<1>. SUFFICES ASSUME NEW t \in AwaitHold(s) PROVE t \in Machine
  OBVIOUS
<1>1. Held(s) \in Machine /\ Retract(s, TRUE) \in Machine /\ Retract(s, FALSE) \in Machine
  BY TypeRetract
<1>2. CASE t = Held(s)
  BY <1>1, <1>2
<1>3. CASE t \in mc_parking_motion(Retract(s, TRUE))
  BY <1>1, <1>3, TypePark
<1>4. CASE t \in AwaitWaypointRetract(Retract(s, FALSE))
  BY <1>1, <1>4, TypeWaypoint
<1>. QED
  BY <1>2, <1>3, <1>4, HoldCases

LEMMA TypeSuspended ==
    ASSUME NEW s \in Machine, NEW new \in States PROVE SetSuspended(s, new) \subseteq Machine
<1>. DEFINE h == initiate_hold(s, new)
            next == IF s.state = "CYCLE" THEN {[h EXCEPT !.state = new]}
                    ELSE IF h.pending # new THEN AwaitHold([h EXCEPT !.state = new])
                    ELSE {h}
<1>1. h \in Machine
  BY TypeInitiate
<1>2. [h EXCEPT !.state = new] \in Machine
  BY <1>1 DEF Machine
<1>3. next \subseteq Machine
  BY <1>1, <1>2, TypeAwaitHold
<1>4. SetSuspended(s, new) \subseteq {s} \cup {IF t.state = "SLEEP" /\ t.handler # "await_waypoint_retract"
                                              THEN enter_sleep(t) ELSE t : t \in next}
  BY DEF SetSuspended
<1>. HIDE DEF next, h
<1>. QED
  BY <1>3, <1>4, TypeBasics

LEMMA TypeRestart == ASSUME NEW s \in Machine
                     PROVE  restart_retract(s) \subseteq Machine /\ AwaitRestartRetract(s) \subseteq Machine
<1>1. \A t \in Machine : [t EXCEPT !.handler = "await_hold"] \in Machine
  BY Names DEF Machine
<1>2. \A t \in Machine : AwaitRestartRetract(t) \subseteq Machine
  BY <1>1, TypeBasics, TypeAwaitHold DEF AwaitRestartRetract
<1>3. \A t \in Machine : [t EXCEPT !.handler = "await_restart_retract", !.restart = TRUE] \in Machine
  BY Names DEF Machine
<1>4. \A t \in Machine : [t EXCEPT !.execute_hold = TRUE] \in Machine
  BY DEF Machine
<1>. QED
  BY <1>2, <1>3, <1>4, TypeBasics DEF restart_retract

LEMMA TypeResumed ==
    ASSUME NEW s \in Machine, NEW rt
    PROVE  /\ AwaitResumed(s, rt) \subseteq Machine /\ Restore(s, rt) \subseteq Machine
           /\ Restored(s) \subseteq Machine /\ Resumed(s) \in Machine
<1>1. \A t \in Machine : [t EXCEPT !.motion = FALSE, !.restart = FALSE] \in Machine
  BY DEF Machine
<1>2. \A q : AwaitResumed(s, q) \subseteq Machine
  BY <1>1, TypeBasics, TypeIdle, TypeCycle, TypeRestart DEF AwaitResumed
<1>3. \A t \in Machine : [t EXCEPT !.restart = FALSE, !.handler = "await_resumed",
                                   !.delays = Append(@, "restore")] \in Machine
  <2>. TAKE t \in Machine
  <2>. DEFINE d == Append(t.delays, "restore")
  <2>1. d \in Seq({"resume", "restore"})
    BY DEF Machine
  <2>. HIDE DEF d
  <2>2. [t EXCEPT !.restart = FALSE, !.handler = "await_resumed", !.delays = d] \in Machine
    BY <2>1, Names DEF Machine
  <2>. QED
    BY <2>2 DEF d, Machine
<1>4. Restore(s, rt) \subseteq Machine
  <2>1. [s EXCEPT !.restart = TRUE] \in Machine
    BY DEF Machine
  <2>. QED
    BY <1>3, <2>1, TypeBasics, TypeRestart DEF Restore
<1>5. Restored(s) \subseteq Machine
  BY <1>2, TypePark, TypeRestart DEF Restored
<1>6. \A t \in Machine : [t EXCEPT !.execute_hold = s.execute_hold, !.end_motion = s.end_motion,
                                   !.execute_sys_motion = s.execute_sys_motion] \in Machine
  BY DEF Machine
<1>7. Resumed(s) \in Machine
  BY <1>6, TypeIdle, TypeCycle DEF Resumed
<1>. QED
  BY <1>2, <1>4, <1>5, <1>7

LEMMA TypeRequest == ASSUME NEW s \in Machine PROVE ResumeRequest(s) \subseteq Machine
<1>. DEFINE r == s.restart /\ ~s.motion
            t == [s EXCEPT !.handler = "restore", !.restart = r]
            d == Append(s.delays, "resume")
<1>1. r \in BOOLEAN /\ d \in Seq({"resume", "restore"})
  BY DEF Machine
<1>2. [s EXCEPT !.delays = d] = [s EXCEPT !.delays = Append(@, "resume")]
  BY DEF Machine
<1>. HIDE DEF r, d
<1>3. t \in Machine /\ [s EXCEPT !.delays = d] \in Machine
  BY <1>1, Names DEF Machine
<1>4. ResumeRequest(s) \subseteq {s, Resumed(s), [s EXCEPT !.delays = d]}
                        \cup mc_parking_motion(t) \cup Restore(t, {"CYCLE_COMPLETE"})
  BY <1>2 DEF ResumeRequest, r
<1>. HIDE DEF t
<1>. QED
  BY <1>3, <1>4, TypePark, TypeResumed

LEMMA TypeAwaitResume == ASSUME NEW s \in Machine, NEW rt PROVE AwaitResume(s, rt) \subseteq Machine
BY TypeParked, TypeSuspended, TypeRequest, Names DEF AwaitResume

LEMMA TypeMotionCancel ==
    ASSUME NEW s \in Machine, NEW rt PROVE AwaitMotionCancel(s, rt) \subseteq Machine
<1>1. \A t \in Machine : [t EXCEPT !.suspend = FALSE] \in Machine
  BY DEF Machine
<1>. QED
  BY <1>1, TypeBasics, TypeIdle, TypeSuspended, Names DEF AwaitMotionCancel

LEMMA TypeFastHold == ASSUME NEW s \in Machine PROVE FastHold(s) \subseteq Machine
<1>1. \A t \in Machine : \A n \in 0 .. MaxSegments : [t EXCEPT !.segments = n] \in Machine
  BY DEF Machine
<1>. QED
  BY <1>1, TypeBasics, BoundsAssumption DEF FastHold

LEMMA TypeStateCycle == ASSUME NEW s \in Machine, NEW rt PROVE StateCycle(s, rt) \subseteq Machine
<1>. DEFINE a == IF "CYCLE_COMPLETE" \in rt THEN SetIdle(s) ELSE s
            cut == IF "MOTION_CANCEL_FAST" \in rt THEN FastHold(a) ELSE {Reload(a)}
            b == IF rt \cap {"MOTION_CANCEL", "MOTION_CANCEL_FAST"} # {}
                 THEN {[t EXCEPT !.suspend = TRUE, !.execute_hold = TRUE,
                                 !.handler = "await_motion_cancel"] : t \in cut}
                 ELSE {a}
<1>1. a \in Machine
  BY TypeIdle
<1>2. cut \subseteq Machine
  BY <1>1, TypeFastHold, TypeBasics
<1>3. \A t \in Machine : [t EXCEPT !.suspend = TRUE, !.execute_hold = TRUE,
                                   !.handler = "await_motion_cancel"] \in Machine
  BY Names DEF Machine
<1>4. b \subseteq Machine
  BY <1>1, <1>2, <1>3
<1>5. StateCycle(s, rt) \subseteq {s} \cup {SetHold(t) : t \in b} \cup b
  BY DEF StateCycle
<1>. HIDE DEF b
<1>. QED
  BY <1>4, <1>5, TypeHold

LEMMA TypeStateIdle == ASSUME NEW s \in Machine, NEW rt PROVE StateIdle(s, rt) \subseteq Machine
BY TypeCycle, TypeHold, TypeSuspended, Names DEF StateIdle

LEMMA TypeHandle == ASSUME NEW s \in Machine, NEW rt PROVE Handle(s, rt) \subseteq Machine
<1>1. s.handler \in Handlers
  BY DEF Machine
<1>. QED
  BY <1>1, TypeStateIdle, TypeStateCycle, TypeMotionCancel, TypeAwaitHold, TypeAwaitResume, TypeRestart,
     TypeWaypoint, TypeResumed
  DEF Handle, Handlers

LEMMA TypeUpdate == ASSUME NEW s \in Machine, NEW rt PROVE state_update(s, rt) \subseteq Machine
BY TypeHandle, TypeSuspended, Names DEF state_update

LEMMA TypeDispatch ==
    ASSUME NEW s \in Machine, NEW flags, Dispatch(s, flags)
    PROVE  sys' \in Machine /\ pc' \in {"fg", "prep"}
BY TypeUpdate DEF Dispatch, Onward

LEMMA TypeStopped ==
    ASSUME NEW s \in Machine, NEW flags, Stopped(s, flags)
    PROVE  sys' \in Machine /\ pc' \in {"fg", "prep"}
<1>1. ResetMotion(ClearStepControl(s)) \in Machine
  BY TypeBasics
<1>. QED
  BY <1>1, TypeSuspended, TypeIdle, TypeDispatch, Names DEF Stopped

LEMMA TypeRaces == ASSUME NEW flags PROVE Coincidences(flags) \subseteq RaceNames
BY DEF Coincidences, RaceNames

LEMMA TypeLoaded == ASSUME TypeOK, CanPrep PROVE Loaded \in Machine
<1>. DEFINE p == IF sys.pl_block = "none" THEN Profile(sys) ELSE sys.pl_block
            n == sys.segments + 1
<1>1. p \in {"none", "run", "decel"} /\ n \in 0 .. MaxSegments
  BY BoundsAssumption DEF Machine, Profile, TypeOK, CanPrep
<1>2. Loaded = [sys EXCEPT !.pl_block = p, !.segments = n]
  BY DEF Loaded, TypeOK, Machine
<1>. HIDE DEF p, n
<1>. QED
  BY <1>1, <1>2 DEF TypeOK, Machine

LEMMA TypeInit == Init => TypeOK
<1>1. Init => sys \in Machine
  BY Names DEF Init, Machine
<1>. QED
  BY <1>1 DEF Init, TypeOK

LEMMA TypeStep == ASSUME TypeOK, [Next]_vars PROVE TypeOK'
<1>0. sys \in Machine
  BY DEF TypeOK
<1>1. CASE BeginPass
  BY <1>1 DEF BeginPass, TypeOK
<1>2. CASE TakeAlarm
  BY <1>0, <1>2, TypeAlarm DEF TakeAlarm, TypeOK
<1>3. CASE TakeReset
  BY <1>3, TypeRaces DEF TakeReset, Taking, TypeOK
<1>4. CASE Take
  BY <1>0, <1>4, TypeRaces, TypeDispatch DEF Take, Taking, TypeOK
<1>5. CASE TakeStop
  <2>1. ClearStepControl(sys) \in Machine
    BY <1>0, TypeBasics
  <2>2. sys' \in Machine
    BY <1>5, <2>1, TypeUpdate DEF TakeStop
  <2>. QED
    BY <1>5, <2>2, TypeRaces DEF TakeStop, Taking, TypeOK
<1>6. CASE StopNow
  BY <1>0, <1>6, TypeRaces, TypeStopped DEF StopNow, Taking, TypeOK
<1>7. CASE StopDone
  <2>1. {"reset_in_stop"} \subseteq RaceNames
    BY DEF RaceNames
  <2>. QED
    BY <1>0, <1>7, <2>1, TypeRaces, TypeStopped DEF StopDone, TypeOK
<1>8. CASE PrepSegment
  BY <1>8, TypeLoaded DEF PrepSegment, PrepDone, TypeOK
<1>9. CASE PrepBlockEnd
  <2>. DEFINE q == IF Loaded.queue > 0 THEN Loaded.queue - 1 ELSE 0
  <2>1. Loaded \in Machine
    BY <1>9, TypeLoaded DEF PrepBlockEnd
  <2>2. q \in 0 .. MaxBlocks
    BY <2>1, BoundsAssumption DEF Machine
  <2>3. sys' \in {[Loaded EXCEPT !.end_motion = TRUE], [Loaded EXCEPT !.pl_block = "none", !.queue = q]}
    BY <1>9, <2>1 DEF PrepBlockEnd, Machine
  <2>. HIDE DEF q
  <2>4. /\ [Loaded EXCEPT !.end_motion = TRUE] \in Machine
        /\ [Loaded EXCEPT !.pl_block = "none", !.queue = q] \in Machine
    BY <2>1, <2>2 DEF Machine
  <2>. QED
    BY <1>9, <2>3, <2>4 DEF PrepBlockEnd, PrepDone, TypeOK
<1>10. CASE PrepStandstill
  <2>1. Loaded \in Machine
    BY <1>10, TypeLoaded DEF PrepStandstill
  <2>2. PICK last \in {0, 1} : sys' = [Loaded EXCEPT !.end_motion = TRUE, !.segments = sys.segments + last]
    BY <1>10 DEF PrepStandstill
  <2>. DEFINE n == sys.segments + last
  <2>3. n \in 0 .. MaxSegments
    BY <1>10, BoundsAssumption DEF PrepStandstill, CanPrep, TypeOK, Machine
  <2>. HIDE DEF n
  <2>4. [Loaded EXCEPT !.end_motion = TRUE, !.segments = n] \in Machine
    BY <2>1, <2>3 DEF Machine
  <2>5. sys' \in Machine
    BY <2>2, <2>4 DEF n
  <2>. QED
    BY <1>10, <2>5 DEF PrepStandstill, PrepDone, TypeOK
<1>11. CASE PrepExit
  BY <1>11 DEF PrepExit, TypeOK
<1>12. CASE DelayEnds
  <2>. DEFINE d == SubSeq(sys.delays, 1, Len(sys.delays) - 1)
              s == [sys EXCEPT !.delays = SubSeq(@, 1, Len(@) - 1)]
  <2>1. d \in Seq({"resume", "restore"})
    BY <1>0 DEF Machine
  <2>2. s = [sys EXCEPT !.delays = d]
    BY <1>0 DEF Machine
  <2>3. sys' \in {Resumed(s)} \cup Restored(s)
    BY <1>12 DEF DelayEnds
  <2>. HIDE DEF d, s
  <2>4. s \in Machine
    BY <1>0, <2>1, <2>2 DEF Machine
  <2>5. sys' \in Machine
    BY <2>3, <2>4, TypeResumed
  <2>. QED
    BY <1>12, <2>5 DEF DelayEnds, Onward, TypeOK
<1>13. CASE Reinit
  <2>1. \A t \in Machine : [t EXCEPT !.suspend = FALSE, !.hold_complete = FALSE] \in Machine
    BY DEF Machine
  <2>2. ResetMotion(ClearStepControl(sys)) \in Machine
    BY <1>0, TypeBasics
  <2>3. sys' \in Machine
    BY <1>13, <2>1, <2>2, TypeAlarm, TypeIdle DEF Reinit
  <2>. QED
    BY <1>13, <2>3 DEF Reinit, TypeOK, Flags
<1>14. CASE Line \/ Jog
  <2>. DEFINE t == [sys EXCEPT !.queue = @ + 1]
  <2>1. t \in Machine
    BY <1>0, <1>14, BoundsAssumption, SMTT(30) DEF Line, Jog, Machine
  <2>2. [t EXCEPT !.state = "JOG", !.handler = "cycle"] \in Machine
    BY <2>1, Names DEF Machine
  <2>3. sys' \in {t, Start([t EXCEPT !.state = "JOG", !.handler = "cycle"])}
    BY <1>14 DEF Line, Jog
  <2>. HIDE DEF t
  <2>. QED
    BY <1>14, <2>1, <2>2, <2>3, TypeStart DEF Line, Jog, TypeOK
<1>15. CASE JogCancel \/ AutoStart \/ Sleep \/ FeedHold \/ CycleStart \/ StopCommand \/ DoorCommand
  BY <1>15 DEF JogCancel, AutoStart, Sleep, FeedHold, CycleStart, StopCommand, DoorCommand, Command,
               Raise, TypeOK, Flags
<1>16. CASE Unlock
  BY <1>0, <1>16, TypeIdle DEF Unlock, TypeOK
<1>17. CASE Tick
  <2>. DEFINE n == sys.segments - 1
  <2>1. sys.segments > 0 => n \in 0 .. MaxSegments
    BY <1>0, BoundsAssumption DEF Machine
  <2>2. sys' = (IF sys.segments > 0 THEN [sys EXCEPT !.segments = n, !.exec_block = TRUE]
                ELSE [sys EXCEPT !.stepping = FALSE, !.exec_block = FALSE])
    BY <1>0, <1>17 DEF Tick, Machine
  <2>. HIDE DEF n
  <2>3. sys' \in Machine
    <3>1. CASE sys.segments > 0
      BY <1>0, <2>1, <2>2, <3>1 DEF Machine
    <3>2. CASE ~(sys.segments > 0)
      BY <1>0, <2>2, <3>2 DEF Machine
    <3>. QED
      BY <3>1, <3>2
  <2>. QED
    BY <1>17, <2>3 DEF Tick, TypeOK, Flags, RaceNames
<1>18. CASE Door
  BY <1>18 DEF Door, TypeOK, Flags
<1>19. CASE mc_reset
  <2>1. [sys EXCEPT !.stepping = FALSE] \in Machine
    BY <1>0 DEF Machine
  <2>2. sys' \in Machine /\ rt_exec_alarm' \in {rt_exec_alarm, TRUE}
    BY <1>0, <1>19, <2>1 DEF mc_reset
  <2>. QED
    BY <1>19, <2>2 DEF mc_reset, TypeOK, Flags
<1>20. CASE UNCHANGED vars
  BY <1>20 DEF vars, TypeOK
<1>. QED
  BY <1>1, <1>2, <1>3, <1>4, <1>5, <1>6, <1>7, <1>8, <1>9, <1>10, <1>11, <1>12, <1>13, <1>14, <1>15,
     <1>16, <1>17, <1>18, <1>19, <1>20
  DEF Next

\* The machine keeps its shape whatever is requested and when, also after coincidences:
\* the planner's queue and the segment buffer never overflow or go below empty.
THEOREM TypeCorrect == Spec => []TypeOK
BY TypeInit, TypeStep, PTL DEF Spec

-----------------------------------------------------------------------------
(* What the operations leave of a machine *)

\* What no operation on the steppers touches.
SameControl(s, t) ==
    /\ t.state = s.state /\ t.pending = s.pending /\ t.suspend = s.suspend /\ t.delays = s.delays

LEMMA StartFacts ==
    ASSUME NEW u \in Machine
    PROVE  /\ SameControl(u, Start(u)) /\ Start(u).handler = u.handler /\ Start(u).stepping
           /\ Start(u).execute_hold = u.execute_hold
           /\ Start(u).execute_sys_motion = u.execute_sys_motion
<1>1. Prime(u) \in Machine /\ SameControl(u, Prime(u)) /\ Prime(u).handler = u.handler
      /\ Prime(u).execute_hold = u.execute_hold
      /\ Prime(u).execute_sys_motion = u.execute_sys_motion
  <2>1. Prime(u) = u \/ \E p, n : Prime(u) = [u EXCEPT !.pl_block = p, !.segments = n]
    BY DEF Prime, Machine
  <2>2. Prime(u) \in Machine
    BY PrimeType
  <2>3. CASE Prime(u) = u
    BY <2>3 DEF SameControl
  <2>4. ASSUME NEW p, NEW n, Prime(u) = [u EXCEPT !.pl_block = p, !.segments = n]
        PROVE  /\ SameControl(u, Prime(u)) /\ Prime(u).handler = u.handler
               /\ Prime(u).execute_hold = u.execute_hold
               /\ Prime(u).execute_sys_motion = u.execute_sys_motion
    BY <2>4 DEF SameControl, Machine
  <2>. QED
    BY <2>1, <2>2, <2>3, <2>4
<1>2. \A v \in Machine : LET w == [v EXCEPT !.stepping = TRUE]
                         IN  /\ SameControl(v, w) /\ w.handler = v.handler /\ w.stepping
                             /\ w.execute_hold = v.execute_hold
                             /\ w.execute_sys_motion = v.execute_sys_motion
  BY DEF Machine, SameControl
<1>. QED
  BY <1>1, <1>2 DEF Start, SameControl

LEMMA ParkFacts ==
    ASSUME NEW s \in Machine, NEW t \in mc_parking_motion(s)
    PROVE  /\ SameControl(s, t) /\ t.handler = s.handler /\ t.execute_hold = s.execute_hold
           /\ t.stepping /\ t.execute_sys_motion
<1>. DEFINE u == [s EXCEPT !.execute_sys_motion = TRUE, !.end_motion = FALSE, !.pl_block = "none"]
<1>1. u \in Machine /\ SameControl(s, u) /\ u.handler = s.handler /\ u.execute_hold = s.execute_hold
      /\ u.execute_sys_motion
  BY DEF Machine, SameControl
<1>2. t = Start(u)
  BY DEF mc_parking_motion
<1>. HIDE DEF u
<1>. QED
  BY <1>1, <1>2, StartFacts DEF SameControl

LEMMA CycleFacts ==
    ASSUME NEW s \in Machine, s.state = "IDLE", NEW t, t = SetCycle(s)
    PROVE  \/ t = s
           \/ /\ t.state = "CYCLE" /\ t.handler = "cycle" /\ t.stepping
              /\ t.pending = s.pending /\ t.suspend = s.suspend /\ t.delays = s.delays
              /\ t.execute_hold = s.execute_hold /\ t.execute_sys_motion = s.execute_sys_motion
<1>. DEFINE u == [s EXCEPT !.state = "CYCLE"]
<1>1. u \in Machine /\ u.state = "CYCLE" /\ u.pending = s.pending /\ u.suspend = s.suspend
      /\ u.delays = s.delays /\ u.execute_hold = s.execute_hold
      /\ u.execute_sys_motion = s.execute_sys_motion
  BY Names DEF Machine
<1>2. t = s \/ t = [Start(u) EXCEPT !.handler = "cycle"]
  BY DEF SetCycle
<1>. HIDE DEF u
<1>3. Start(u) \in Machine
  BY <1>1, TypeStart
<1>. DEFINE v == Start(u)
<1>. HIDE DEF v
<1>4. LET w == [v EXCEPT !.handler = "cycle"]
      IN  /\ w.state = v.state /\ w.handler = "cycle" /\ w.stepping = v.stepping
          /\ w.pending = v.pending /\ w.suspend = v.suspend /\ w.delays = v.delays
          /\ w.execute_hold = v.execute_hold /\ w.execute_sys_motion = v.execute_sys_motion
  BY <1>3 DEF Machine, v
<1>5. t = s \/ t = [v EXCEPT !.handler = "cycle"]
  BY <1>2 DEF v
<1>6. /\ v.state = "CYCLE" /\ v.stepping /\ v.pending = s.pending /\ v.suspend = s.suspend
      /\ v.delays = s.delays /\ v.execute_hold = s.execute_hold
      /\ v.execute_sys_motion = s.execute_sys_motion
  BY <1>1, StartFacts DEF SameControl, v
<1>. QED
  BY <1>4, <1>5, <1>6

LEMMA IdleFacts ==
    ASSUME NEW s \in Machine, s.state # "IDLE", NEW t, t = SetIdle(s)
    PROVE  /\ t.state = "IDLE" /\ t.handler = "idle" /\ t.pending = "IDLE" /\ ~t.suspend
           /\ ~t.execute_hold /\ ~t.execute_sys_motion
           /\ t.stepping = s.stepping /\ t.delays = s.delays
BY DEF Machine, SetIdle, ClearStepControl

LEMMA OverFacts ==
    ASSUME NEW s \in Machine, NEW t, t = ParkingOver(s)
    PROVE  /\ t \in Machine /\ SameControl(s, t) /\ t.handler = s.handler /\ t.stepping = s.stepping
           /\ t.execute_hold = s.execute_hold /\ ~t.execute_sys_motion
           /\ t.restart = s.restart /\ t.motion = s.motion
<1>1. CASE s.execute_sys_motion
  <2>1. t \in Machine
    BY TypeBasics
  <2>. QED
    BY <1>1, <2>1 DEF Machine, ParkingOver, SameControl
<1>2. CASE ~s.execute_sys_motion
  BY <1>2 DEF Machine, ParkingOver, SameControl
<1>. QED
  BY <1>1, <1>2

LEMMA ParkedFacts ==
    ASSUME NEW s \in Machine, NEW t, t = ParkedNow(s)
    PROVE  /\ t \in Machine /\ SameControl(s, t) /\ t.execute_hold = s.execute_hold
           /\ ~t.execute_sys_motion /\ t.restart = s.restart
           /\ IF s.state = "SLEEP" THEN t.handler = "noop" /\ ~t.stepping
              ELSE t.handler = s.handler /\ t.stepping = s.stepping
<1>. DEFINE u == ParkingOver(s)
<1>1. u \in Machine /\ t = IF u.state = "SLEEP" THEN enter_sleep(u) ELSE u
  BY TypeBasics DEF ParkedNow
<1>2. SameControl(s, u) /\ u.handler = s.handler /\ u.stepping = s.stepping
      /\ u.execute_hold = s.execute_hold /\ ~u.execute_sys_motion /\ u.restart = s.restart
  BY OverFacts
<1>3. t \in Machine
  BY TypeParked
<1>. HIDE DEF u
<1>4. CASE s.state = "SLEEP"
  <2>1. t = [u EXCEPT !.stepping = FALSE, !.handler = "noop"]
    BY <1>1, <1>2, <1>4 DEF SameControl, enter_sleep
  <2>. QED
    BY <1>1, <1>2, <1>3, <1>4, <2>1, ZenonT(40) DEF SameControl, Machine
<1>5. CASE s.state # "SLEEP"
  <2>1. t = u
    BY <1>1, <1>2, <1>5 DEF SameControl
  <2>. QED
    BY <1>2, <1>3, <1>5, <2>1
<1>. QED
  BY <1>4, <1>5

\* How state_await_waypoint_retract and state_await_hold leave a machine: held, parked, on
\* its way there, or asleep.
Rests(s, t) ==
    \/ t.handler = "await_resume" /\ ~t.execute_sys_motion /\ t.stepping = s.stepping
    \/ t.handler = "await_resume" /\ t.execute_sys_motion /\ t.stepping /\ s.state # "HOLD"
    \/ t.handler = "await_waypoint_retract" /\ t.execute_sys_motion /\ t.stepping /\ s.state # "HOLD"
    \/ t.handler = "noop" /\ ~t.stepping /\ s.state = "SLEEP"

LEMMA WaypointFacts ==
    ASSUME NEW s \in Machine, s.state # "HOLD", NEW t \in AwaitWaypointRetract(s)
    PROVE  SameControl(s, t) /\ t.execute_hold = s.execute_hold /\ Rests(s, t)
<1>. DEFINE u == [ParkingOver(s) EXCEPT !.handler = "await_resume"]
<1>0. ParkingOver(s) \in Machine
  BY TypeBasics
<1>1. u \in Machine /\ SameControl(s, u) /\ u.handler = "await_resume" /\ u.stepping = s.stepping
      /\ u.execute_hold = s.execute_hold /\ ~u.execute_sys_motion
  BY <1>0, OverFacts, Names DEF Machine, SameControl
<1>2. t \in mc_parking_motion(u) \/ t = ParkedNow(u)
  BY DEF AwaitWaypointRetract
<1>. HIDE DEF u
<1>3. CASE t \in mc_parking_motion(u)
  BY <1>1, <1>3, ParkFacts DEF SameControl, Rests
<1>4. CASE t = ParkedNow(u)
  BY <1>1, <1>4, ParkedFacts DEF SameControl, Rests
<1>. QED
  BY <1>2, <1>3, <1>4

LEMMA RetractFacts ==
    ASSUME NEW s \in Machine, NEW moved \in BOOLEAN
    PROVE  /\ SameControl(s, Held(s)) /\ Held(s).handler = "await_resume"
           /\ ~Held(s).execute_hold /\ ~Held(s).execute_sys_motion /\ Held(s).stepping = s.stepping
           /\ SameControl(s, Retract(s, moved)) /\ Retract(s, moved).handler = "await_waypoint_retract"
           /\ ~Retract(s, moved).execute_hold /\ ~Retract(s, moved).execute_sys_motion
           /\ Retract(s, moved).stepping = s.stepping
           /\ Standing(s).state = s.state
<1>. DEFINE u == Standing(s)
<1>1. u \in Machine /\ SameControl(s, u) /\ ~u.execute_hold /\ ~u.execute_sys_motion
      /\ u.stepping = s.stepping
  <2>. DEFINE c == ClearStepControl(s)
  <2>1. c \in Machine /\ SameControl(s, c) /\ ~c.execute_hold /\ ~c.execute_sys_motion
        /\ c.stepping = s.stepping
    <3>1. c \in Machine
      BY TypeBasics
    <3>2. c = [s EXCEPT !.execute_hold = FALSE, !.end_motion = FALSE, !.execute_sys_motion = FALSE]
      BY DEF ClearStepControl
    <3>. HIDE DEF c
    <3>. QED
      BY <3>1, <3>2 DEF Machine, SameControl
  <2>2. u = [c EXCEPT !.pl_block = "none"] /\ u \in Machine
    BY TypeRetract DEF Standing, Reload
  <2>. HIDE DEF c, u
  <2>. QED
    BY <2>1, <2>2 DEF SameControl, Machine
<1>2. Held(s) = [u EXCEPT !.hold_complete = TRUE, !.handler = "await_resume"]
  BY DEF Held
<1>3. PICK m : Retract(s, moved) = [u EXCEPT !.handler = "await_waypoint_retract", !.motion = m]
  BY <1>1 DEF Retract, Machine
<1>. HIDE DEF u
<1>4. /\ SameControl(s, Held(s)) /\ Held(s).handler = "await_resume"
      /\ ~Held(s).execute_hold /\ ~Held(s).execute_sys_motion /\ Held(s).stepping = s.stepping
  BY <1>1, <1>2 DEF SameControl, Machine
<1>5. /\ SameControl(s, Retract(s, moved)) /\ Retract(s, moved).handler = "await_waypoint_retract"
      /\ ~Retract(s, moved).execute_hold /\ ~Retract(s, moved).execute_sys_motion
      /\ Retract(s, moved).stepping = s.stepping
  BY <1>1, <1>3 DEF SameControl, Machine
<1>. QED
  BY <1>1, <1>4, <1>5 DEF u, SameControl

LEMMA HoldFacts ==
    ASSUME NEW s \in Machine, NEW t \in AwaitHold(s)
    PROVE  SameControl(s, t) /\ ~t.execute_hold /\ Rests(s, t)
<1>1. CASE t = Held(s)
  BY <1>1, RetractFacts DEF Rests
<1>2. CASE s.state # "HOLD" /\ t \in mc_parking_motion(Retract(s, TRUE))
  <2>. DEFINE u == Retract(s, TRUE)
  <2>1. u \in Machine /\ SameControl(s, u) /\ u.handler = "await_waypoint_retract" /\ ~u.execute_hold
    BY TypeRetract, RetractFacts
  <2>. HIDE DEF u
  <2>. QED
    BY <1>2, <2>1, ParkFacts, ZenonT(40) DEF SameControl, Rests, u
<1>3. CASE s.state # "HOLD" /\ t \in AwaitWaypointRetract(Retract(s, FALSE))
  <2>. DEFINE u == Retract(s, FALSE)
  <2>1. u \in Machine /\ SameControl(s, u) /\ ~u.execute_hold /\ u.stepping = s.stepping
    BY TypeRetract, RetractFacts
  <2>. HIDE DEF u
  <2>2. t \in AwaitWaypointRetract(u)
    BY <1>3 DEF u
  <2>3. SameControl(u, t) /\ t.execute_hold = u.execute_hold /\ Rests(u, t)
    BY <1>3, <2>1, <2>2, WaypointFacts DEF SameControl
  <2>. QED
    BY <1>3, <2>1, <2>3 DEF SameControl, Rests
<1>. QED
  BY <1>1, <1>2, <1>3, HoldCases, RetractFacts

LEMMA InitiateFacts ==
    ASSUME NEW s \in Machine, s.state # "JOG", NEW new \in States, NEW t, t = initiate_hold(s, new)
    PROVE  /\ t \in Machine /\ t.state = s.state /\ t.delays = s.delays /\ t.stepping = s.stepping
           /\ t.pending = "IDLE" /\ t.execute_sys_motion = s.execute_sys_motion
           /\ IF s.state = "CYCLE" THEN t.execute_hold /\ t.handler = "await_hold"
              ELSE t.execute_hold = s.execute_hold /\ t.handler = s.handler
<1>. DEFINE u == IF s.state \in {"CYCLE", "JOG"}
                 THEN [Reload(s) EXCEPT !.execute_hold = TRUE, !.handler = "await_hold"]
                 ELSE s
<1>1. u \in Machine /\ u.state = s.state /\ u.delays = s.delays /\ u.stepping = s.stepping
      /\ u.execute_sys_motion = s.execute_sys_motion
      /\ IF s.state = "CYCLE" THEN u.execute_hold /\ u.handler = "await_hold"
         ELSE u.execute_hold = s.execute_hold /\ u.handler = s.handler
  <2>1. CASE s.state = "CYCLE"
    BY <2>1, Names DEF Machine, Reload
  <2>2. CASE s.state # "CYCLE"
    BY <2>2
  <2>. QED
    BY <2>1, <2>2
<1>2. PICK a, b, c : t = [u EXCEPT !.hold_complete = a, !.motion = b, !.restart = c,
                                 !.suspend = TRUE, !.pending = "IDLE"]
  BY <1>1 DEF initiate_hold, Machine
<1>3. t \in Machine
  BY TypeInitiate
<1>. HIDE DEF u
<1>4. /\ t.state = u.state /\ t.delays = u.delays /\ t.stepping = u.stepping
      /\ t.pending = "IDLE" /\ t.execute_sys_motion = u.execute_sys_motion
      /\ t.execute_hold = u.execute_hold /\ t.handler = u.handler
  BY <1>1, <1>2 DEF Machine
<1>. QED
  BY <1>1, <1>3, <1>4

LEMMA SetHoldFacts ==
    ASSUME NEW s \in Machine, s.state \notin {"HOLD", "JOG"}, NEW t, t = SetHold(s)
    PROVE  /\ t \in Machine /\ t.state = "HOLD" /\ t.delays = s.delays /\ t.stepping = s.stepping
           /\ t.pending = "IDLE" /\ t.execute_sys_motion = s.execute_sys_motion
           /\ IF s.state = "CYCLE" THEN t.execute_hold /\ t.handler = "await_hold"
              ELSE t.execute_hold = s.execute_hold /\ t.handler = "await_resume"
<1>. DEFINE h == initiate_hold(s, "HOLD")
<1>1. /\ h \in Machine /\ h.state = s.state /\ h.delays = s.delays /\ h.stepping = s.stepping
      /\ h.pending = "IDLE" /\ h.execute_sys_motion = s.execute_sys_motion
      /\ IF s.state = "CYCLE" THEN h.execute_hold /\ h.handler = "await_hold"
         ELSE h.execute_hold = s.execute_hold /\ h.handler = s.handler
  BY InitiateFacts, Names
<1>2. t = IF s.state = "CYCLE" THEN [h EXCEPT !.state = "HOLD"]
          ELSE [h EXCEPT !.state = "HOLD", !.hold_complete = TRUE, !.handler = "await_resume"]
  BY DEF SetHold
<1>3. t \in Machine
  BY TypeHold
<1>. HIDE DEF h
<1>4. CASE s.state = "CYCLE"
  BY <1>1, <1>2, <1>3, <1>4 DEF Machine
<1>5. CASE s.state # "CYCLE"
  BY <1>1, <1>2, <1>3, <1>5 DEF Machine
<1>. QED
  BY <1>4, <1>5

LEMMA SleepFacts ==
    ASSUME NEW s \in Machine, NEW t, t = enter_sleep(s)
    PROVE  /\ SameControl(s, t) /\ ~t.stepping /\ t.handler = "noop"
           /\ t.execute_hold = s.execute_hold
BY DEF Machine, enter_sleep, SameControl

\* state_set for the door and for sleep: nothing, a running machine decelerates, or what
\* state_await_hold does.
LEMMA SuspendedFacts ==
    ASSUME NEW s \in Machine, s.state # "JOG", NEW new \in {"DOOR", "SLEEP"}, NEW t \in SetSuspended(s, new)
    PROVE  \/ t = s /\ (s.state = new \/ s.state \in {"ALARM", "SLEEP"})
           \/ /\ t.state = new /\ t.pending = "IDLE" /\ t.delays = s.delays
              /\ t.handler # "noop" => /\ new = "SLEEP" => t.handler = "await_waypoint_retract"
                                       /\ IF s.state = "CYCLE"
                                          THEN /\ t.handler = "await_hold" /\ t.stepping = s.stepping
                                               /\ t.execute_hold
                                               /\ t.execute_sys_motion = s.execute_sys_motion
                                          ELSE ~t.execute_hold /\ Rests([s EXCEPT !.state = new], t)
              /\ t.handler = "noop" => t.state = "SLEEP" /\ ~t.stepping
<1>. DEFINE h == initiate_hold(s, new)
            k == [h EXCEPT !.state = new]
<1>1. /\ h \in Machine /\ h.state = s.state /\ h.delays = s.delays /\ h.stepping = s.stepping
      /\ h.pending = "IDLE" /\ h.execute_sys_motion = s.execute_sys_motion
      /\ IF s.state = "CYCLE" THEN h.execute_hold /\ h.handler = "await_hold"
         ELSE h.execute_hold = s.execute_hold /\ h.handler = s.handler
  BY InitiateFacts, Names
<1>. SUFFICES ASSUME ~(new = s.state \/ (new = "DOOR" /\ s.state \in {"ALARM", "SLEEP"}))
              PROVE  /\ t.state = new /\ t.pending = "IDLE" /\ t.delays = s.delays
                     /\ t.handler # "noop" =>
                          /\ new = "SLEEP" => t.handler = "await_waypoint_retract"
                          /\ IF s.state = "CYCLE"
                             THEN /\ t.handler = "await_hold" /\ t.stepping = s.stepping
                                  /\ t.execute_hold
                                  /\ t.execute_sys_motion = s.execute_sys_motion
                             ELSE ~t.execute_hold /\ Rests([s EXCEPT !.state = new], t)
                     /\ t.handler = "noop" => t.state = "SLEEP" /\ ~t.stepping
  BY DEF SetSuspended
<1>2. PICK u \in (IF s.state = "CYCLE" THEN {k} ELSE AwaitHold(k)) :
         t = IF u.state = "SLEEP" /\ u.handler # "await_waypoint_retract" THEN enter_sleep(u) ELSE u
  BY <1>1 DEF SetSuspended
<1>. HIDE DEF h
<1>3. /\ k \in Machine /\ k.state = new /\ k.delays = s.delays /\ k.stepping = s.stepping
      /\ k.pending = "IDLE" /\ k.execute_sys_motion = s.execute_sys_motion
      /\ s.state = "CYCLE" => k.execute_hold /\ k.handler = "await_hold"
  BY <1>1, Names DEF Machine
<1>. HIDE DEF k
<1>4. /\ u \in Machine /\ u.state = new /\ u.delays = s.delays /\ u.pending = "IDLE"
      /\ IF s.state = "CYCLE"
         THEN /\ u.handler = "await_hold" /\ u.stepping = s.stepping /\ u.execute_hold
              /\ u.execute_sys_motion = s.execute_sys_motion
         ELSE ~u.execute_hold /\ Rests(k, u)
  BY <1>2, <1>3, HoldFacts, TypeAwaitHold DEF SameControl
<1>5. Rests(k, u) => Rests([s EXCEPT !.state = new], u)
  BY <1>3 DEF Rests, Machine
<1>6. CASE u.state = "SLEEP" /\ u.handler # "await_waypoint_retract"
  BY <1>2, <1>4, <1>6, SleepFacts DEF SameControl
<1>7. CASE ~(u.state = "SLEEP" /\ u.handler # "await_waypoint_retract")
  <2>1. t = u
    BY <1>2, <1>7
  <2>2. t.handler # "noop"
    BY <1>3, <1>4, <1>7, <2>1 DEF Rests
  <2>. QED
    BY <1>4, <1>5, <1>7, <2>1, <2>2
<1>. QED
  BY <1>6, <1>7

\* A machine that has not been parked before: it waits for cycle start at once, standing,
\* or retracts first.
LEMMA FirstRetract ==
    ASSUME NEW s \in Machine, ~s.stepping, ~s.restart, NEW t \in AwaitHold(s)
    PROVE  t.handler = "await_resume" => ~t.stepping /\ ~t.restart
<1>. DEFINE c == ClearStepControl(s)
            u == Standing(s)
<1>0. c \in Machine /\ ~c.stepping /\ ~c.restart
  BY TypeBasics DEF ClearStepControl, Machine
<1>. HIDE DEF c
<1>1. u \in Machine /\ ~u.stepping /\ ~u.restart
  <2>1. u = [c EXCEPT !.pl_block = "none"] /\ u \in Machine
    BY TypeRetract DEF Standing, Reload, c
  <2>. HIDE DEF u
  <2>. QED
    BY <1>0, <2>1 DEF Machine
<1>2. Held(s) = [u EXCEPT !.hold_complete = TRUE, !.handler = "await_resume"]
  BY DEF Held
<1>3. Retract(s, FALSE) = [u EXCEPT !.handler = "await_waypoint_retract", !.motion = FALSE]
  BY <1>1 DEF Retract, Machine
<1>. HIDE DEF u
<1>4. CASE t = Held(s)
  BY <1>1, <1>2, <1>4 DEF Machine
<1>5. CASE t \in mc_parking_motion(Retract(s, TRUE))
  <2>. DEFINE w == Retract(s, TRUE)
  <2>1. w \in Machine /\ w.handler = "await_waypoint_retract"
    BY TypeRetract, RetractFacts
  <2>. HIDE DEF w
  <2>2. t \in mc_parking_motion(w)
    BY <1>5 DEF w
  <2>3. t.handler = w.handler
    BY <2>1, <2>2, ParkFacts
  <2>. QED
    BY <2>1, <2>3
<1>6. CASE t \in AwaitWaypointRetract(Retract(s, FALSE))
  <2>. DEFINE w == Retract(s, FALSE)
              p == ParkingOver(w)
              q == [p EXCEPT !.handler = "await_resume"]
  <2>1. w \in Machine /\ ~w.stepping /\ ~w.restart /\ ~w.motion
    BY <1>1, <1>3, TypeRetract DEF Machine
  <2>. HIDE DEF w
  <2>2. p \in Machine /\ ~p.stepping /\ ~p.restart /\ ~p.motion
    BY <2>1, OverFacts
  <2>3. ~q.motion => t = ParkedNow(q)
    BY <1>6 DEF AwaitWaypointRetract, w
  <2>. HIDE DEF p
  <2>4. q \in Machine /\ ~q.stepping /\ ~q.restart /\ ~q.motion
    BY <2>2, Names DEF Machine
  <2>. HIDE DEF q
  <2>. QED
    BY <2>3, <2>4, ParkedFacts
<1>. QED
  BY <1>4, <1>5, <1>6, HoldCases

\* So it is when an idle or held machine is taken to the door state.
LEMMA FirstDoor ==
    ASSUME NEW s \in Machine, s.state \in {"IDLE", "HOLD"}, ~s.stepping, NEW t \in SetSuspended(s, "DOOR")
    PROVE  t.handler = "await_resume" => ~t.stepping /\ ~t.restart
<1>. DEFINE h == initiate_hold(s, "DOOR")
            k == [h EXCEPT !.state = "DOOR"]
<1>1. h \in Machine /\ h.pending = "IDLE" /\ ~h.stepping
  BY InitiateFacts, Names
<1>2. ~h.restart
  BY DEF initiate_hold, Machine
<1>3. PICK u \in AwaitHold(k) : t = IF u.state = "SLEEP" /\ u.handler # "await_waypoint_retract"
                                   THEN enter_sleep(u) ELSE u
  BY <1>1 DEF SetSuspended
<1>. HIDE DEF h
<1>4. k \in Machine /\ ~k.restart /\ ~k.stepping /\ k.state = "DOOR"
  BY <1>1, <1>2, Names DEF Machine
<1>. HIDE DEF k
<1>5. u.state = "DOOR"
  BY <1>4, HoldFacts DEF SameControl
<1>. QED
  BY <1>3, <1>4, <1>5, FirstRetract

-----------------------------------------------------------------------------
(* What the handlers make of the machine a pass finds *)

\* What a pass leaves: nothing waits for a motion that does not run.
Out(t) ==
    /\ Shape(t)
    /\ Waits(t) /\ t.delays = << >> => t.stepping
    /\ t.state = "ALARM" => ~t.execute_hold /\ ~t.execute_sys_motion

\* What a pass finds, with the flags rt to be handled: an end of motion among them is so.
Ready(s, rt) ==
    /\ Shape(s) /\ s.delays = << >>
    /\ Waits(s) => s.stepping \/ "CYCLE_COMPLETE" \in rt
    /\ "CYCLE_COMPLETE" \in rt => ~s.stepping
    /\ s.state = "ALARM" => ~s.execute_hold /\ ~s.execute_sys_motion

\* None of the coincidences a handler does not expect.
Calm(s, rt) ==
    /\ s.handler = "cycle" => ~("CYCLE_COMPLETE" \in rt /\ "MOTION_CANCEL" \in rt)
    /\ s.handler \in {"restore", "await_resumed"} =>
          ~("CYCLE_COMPLETE" \in rt /\ "SAFETY_DOOR" \in rt /\ s.execute_sys_motion)
    /\ s.handler = "await_resume" /\ "CYCLE_START" \in rt /\ "SAFETY_DOOR" \notin rt =>
          ~s.stepping /\ ~(s.state = "DOOR" /\ s.restart /\ door_ajar)
    /\ "MOTION_CANCEL_FAST" \notin rt

\* The machine does not forget an open door.
Kept(s, rt, t) ==
    IF s.state \in {"DOOR", "SLEEP", "ALARM"}
    THEN "SAFETY_DOOR" \in rt \/ (door_ajar /\ Guarded(s)) => Guarded(t)
    ELSE "SAFETY_DOOR" \notin rt => t.handler \notin {"restore", "await_resumed"}

LEMMA IdleOut ==
    ASSUME NEW s \in Machine, NEW rt, Ready(s, rt), s.handler = "idle", NEW t \in StateIdle(s, rt)
    PROVE  Out(t) /\ Kept(s, rt, t)
<1>. DEFINE a == IF "CYCLE_START" \in rt THEN SetCycle(s) ELSE s
            b == IF "FEED_HOLD" \in rt THEN SetHold(a) ELSE a
<1>0. s.state = "IDLE" /\ ~s.stepping /\ ~s.execute_hold /\ ~s.execute_sys_motion /\ ~s.suspend
      /\ s.pending = "IDLE" /\ s.delays = << >>
  BY DEF Ready, Shape, Moves, Fits, Parkers
<1>1. /\ a \in Machine /\ a.pending = "IDLE" /\ a.delays = << >> /\ ~a.execute_hold
      /\ ~a.execute_sys_motion
      /\ \/ a.state = "IDLE" /\ a.handler = "idle" /\ ~a.stepping /\ ~a.suspend
         \/ a.state = "CYCLE" /\ a.handler = "cycle" /\ a.stepping
  BY <1>0, CycleFacts, TypeCycle
<1>. HIDE DEF a
<1>2. /\ b \in Machine /\ b.pending = "IDLE" /\ b.delays = << >> /\ ~b.execute_sys_motion
      /\ \/ b = a
         \/ b.state = "HOLD" /\ b.handler = "await_hold" /\ b.stepping /\ b.execute_hold
         \/ b.state = "HOLD" /\ b.handler = "await_resume" /\ ~b.stepping /\ ~b.execute_hold
  BY <1>1, SetHoldFacts DEF Machine
<1>3. b.state \in {"IDLE", "CYCLE", "HOLD"}
  BY <1>1, <1>2
<1>4. t = b \/ ("SLEEP" \in rt /\ t \in SetSuspended(b, "SLEEP"))
  BY DEF StateIdle, a
<1>. HIDE DEF b
<1>5. CASE t = b
  BY <1>0, <1>1, <1>2, <1>5 DEF Out, Shape, Moves, Delays, Fits, Parkers, Waits, Kept
<1>6. CASE t \in SetSuspended(b, "SLEEP")
  <2>1. /\ t.state = "SLEEP" /\ t.pending = "IDLE" /\ t.delays = << >>
        /\ \/ t.handler = "noop" /\ ~t.stepping
           \/ /\ t.handler = "await_waypoint_retract" /\ ~t.execute_hold
              /\ t.execute_sys_motion /\ t.stepping
    BY <1>2, <1>3, <1>6, SuspendedFacts DEF Rests
  <2>. QED
    BY <1>0, <2>1 DEF Out, Shape, Moves, Delays, Fits, Parkers, Waits, Kept
<1>. QED
  BY <1>4, <1>5, <1>6

\* A motion cancel: the machine decelerates under await_motion_cancel.
Cancel(u) == [u EXCEPT !.suspend = TRUE, !.execute_hold = TRUE, !.handler = "await_motion_cancel"]

LEMMA CancelFacts ==
    ASSUME NEW s \in Machine, NEW u \in FastHold(s) \cup {Reload(s)}, NEW t, t = Cancel(u)
    PROVE  /\ t \in Machine /\ t.state = s.state /\ t.pending = s.pending /\ t.delays = s.delays
           /\ t.stepping = s.stepping /\ t.execute_sys_motion = s.execute_sys_motion
           /\ t.execute_hold /\ t.handler = "await_motion_cancel" /\ t.pl_block = "none"
<1>1. Reload(s) \in Machine /\ Reload(s).pl_block = "none" /\ Reload(s).state = s.state
      /\ Reload(s).pending = s.pending /\ Reload(s).delays = s.delays
      /\ Reload(s).stepping = s.stepping /\ Reload(s).execute_sys_motion = s.execute_sys_motion
  BY TypeBasics DEF Reload, Machine
<1>2. u \in Machine
  BY <1>1, TypeFastHold
<1>3. u = Reload(s) \/ \E n : u = [Reload(s) EXCEPT !.segments = n]
  BY DEF FastHold
<1>4. u.pl_block = "none" /\ u.state = s.state /\ u.pending = s.pending /\ u.delays = s.delays
      /\ u.stepping = s.stepping /\ u.execute_sys_motion = s.execute_sys_motion
  <2>1. CASE u = Reload(s)
    BY <1>1, <2>1
  <2>2. CASE \E n : u = [Reload(s) EXCEPT !.segments = n]
    <3>1. PICK n : u = [Reload(s) EXCEPT !.segments = n]
      BY <2>2
    <3>. QED
      BY <1>1, <3>1 DEF Machine
  <2>. QED
    BY <1>3, <2>1, <2>2
<1>. QED
  BY <1>2, <1>4, Names DEF Machine, Cancel

LEMMA CycleOut ==
    ASSUME NEW s \in Machine, NEW rt, Ready(s, rt), s.handler = "cycle",
           Calm(s, rt) \/ rt = {"MOTION_CANCEL_FAST"}, NEW t \in StateCycle(s, rt)
    PROVE  /\ Out(t) /\ Kept(s, rt, t)
           /\ rt = {"MOTION_CANCEL_FAST"} => t.handler = "await_motion_cancel"
<1>. DEFINE a == IF "CYCLE_COMPLETE" \in rt THEN SetIdle(s) ELSE s
            cut == IF "MOTION_CANCEL_FAST" \in rt THEN FastHold(a) ELSE {Reload(a)}
            b == IF rt \cap {"MOTION_CANCEL", "MOTION_CANCEL_FAST"} # {}
                 THEN {Cancel(u) : u \in cut} ELSE {a}
<1>0. s.state \in {"CYCLE", "JOG"} /\ ~s.execute_hold /\ ~s.execute_sys_motion
      /\ s.pending = "IDLE" /\ s.delays = << >> /\ s.stepping = ("CYCLE_COMPLETE" \notin rt)
  BY DEF Ready, Shape, Moves, Fits, Parkers, Waits, Machine
<1>1. /\ a \in Machine /\ a.pending = "IDLE" /\ a.delays = << >> /\ ~a.execute_hold
      /\ ~a.execute_sys_motion
      /\ \/ a.state = "IDLE" /\ a.handler = "idle" /\ ~a.stepping /\ ~a.suspend
            /\ "CYCLE_COMPLETE" \in rt
         \/ a = s /\ a.stepping /\ "CYCLE_COMPLETE" \notin rt
  BY <1>0, IdleFacts, TypeIdle DEF Machine
<1>2. rt \cap {"MOTION_CANCEL", "MOTION_CANCEL_FAST"} # {} => a = s /\ a.stepping
  BY <1>1 DEF Calm
<1>3. cut \subseteq FastHold(a) \cup {Reload(a)}
  OBVIOUS
<1>. HIDE DEF a, cut
<1>4. ASSUME NEW v \in b
      PROVE  /\ v \in Machine /\ v.pending = "IDLE" /\ v.delays = << >> /\ ~v.execute_sys_motion
             /\ \/ /\ v.state = s.state /\ v.handler = "await_motion_cancel" /\ v.execute_hold
                   /\ v.stepping /\ v.pl_block = "none"
                \/ v = a /\ rt \cap {"MOTION_CANCEL", "MOTION_CANCEL_FAST"} = {}
  <2>1. CASE rt \cap {"MOTION_CANCEL", "MOTION_CANCEL_FAST"} # {}
    <3>1. PICK u \in cut : v = Cancel(u)
      BY <2>1
    <3>2. /\ v \in Machine /\ v.state = a.state /\ v.pending = a.pending /\ v.delays = a.delays
          /\ v.stepping = a.stepping /\ v.execute_sys_motion = a.execute_sys_motion
          /\ v.execute_hold /\ v.handler = "await_motion_cancel" /\ v.pl_block = "none"
      BY <1>1, <1>3, <3>1, CancelFacts
    <3>. QED
      BY <1>1, <1>2, <2>1, <3>2
  <2>2. CASE rt \cap {"MOTION_CANCEL", "MOTION_CANCEL_FAST"} = {}
    BY <1>1, <2>2
  <2>. QED
    BY <2>1, <2>2
<1>5. \/ t = s /\ rt = {"CYCLE_START"}
      \/ t \in b /\ rt # {"CYCLE_START"}
      \/ "FEED_HOLD" \in rt /\ \E v \in b : t = SetHold(v)
  BY DEF StateCycle, a, cut, Cancel
<1>. HIDE DEF b
<1>6. CASE t = s /\ rt = {"CYCLE_START"}
  BY <1>0, <1>6 DEF Ready, Out, Kept
<1>7. CASE t \in b
  BY <1>0, <1>1, <1>4, <1>7 DEF Out, Shape, Moves, Delays, Fits, Parkers, Waits, Kept
<1>8. CASE "FEED_HOLD" \in rt /\ \E v \in b : t = SetHold(v)
  <2>1. PICK v \in b : t = SetHold(v)
    BY <1>8
  <2>2. CASE v.state = "JOG"
    <3>1. t = v
      BY <2>1, <2>2 DEF SetHold
    <3>. QED
      BY <1>7, <1>8, <3>1
  <2>3. CASE v.state \in {"IDLE", "CYCLE"}
    <3>0. /\ v.state = "CYCLE" => v.stepping
          /\ v.state = "IDLE" => ~v.stepping /\ ~v.execute_hold
      BY <1>0, <1>1, <1>4
    <3>2. v \in Machine /\ v.delays = << >> /\ ~v.execute_sys_motion
      BY <1>4
    <3>1. /\ t.state = "HOLD" /\ t.delays = << >> /\ t.pending = "IDLE" /\ ~t.execute_sys_motion
          /\ \/ t.execute_hold /\ t.handler = "await_hold" /\ t.stepping
             \/ ~t.execute_hold /\ t.handler = "await_resume" /\ ~t.stepping
      BY <2>1, <2>3, <3>0, <3>2, SetHoldFacts
    <3>3. rt # {"MOTION_CANCEL_FAST"} /\ s.state \notin {"DOOR", "SLEEP", "ALARM"}
      BY <1>0, <1>8
    <3>. QED
      BY <3>1, <3>3 DEF Out, Shape, Moves, Delays, Fits, Parkers, Waits, Kept
  <2>. QED
    BY <1>0, <1>1, <1>4, <2>2, <2>3
<1>. QED
  BY <1>5, <1>6, <1>7, <1>8

LEMMA MotionCancelOut ==
    ASSUME NEW s \in Machine, NEW rt, Ready(s, rt), s.handler = "await_motion_cancel",
           NEW t \in AwaitMotionCancel(s, rt)
    PROVE  Out(t) /\ Kept(s, rt, t)
<1>1. s.state \in {"CYCLE", "JOG"} /\ s.delays = << >> /\ s.pending = "IDLE"
      /\ ("CYCLE_COMPLETE" \in rt => ~s.stepping)
  BY DEF Ready, Shape, Moves, Fits, Parkers
<1>2. CASE "CYCLE_COMPLETE" \notin rt
  BY <1>1, <1>2 DEF AwaitMotionCancel, Ready, Out, Kept
<1>3. CASE "CYCLE_COMPLETE" \in rt
  <2>. DEFINE c == ClearStepControl(s)
              r == ResetMotion(c)
              u == IF s.state = "JOG" THEN [r EXCEPT !.suspend = FALSE] ELSE s
  <2>1. c \in Machine /\ c.state = s.state /\ c.delays = << >> /\ c.pending = "IDLE"
    <3>1. c \in Machine
      BY TypeBasics
    <3>. QED
      BY <1>1, <3>1 DEF ClearStepControl, Machine
  <2>. HIDE DEF c
  <2>2. r \in Machine /\ r.state = s.state /\ r.delays = << >> /\ r.pending = "IDLE" /\ ~r.stepping
    <3>1. r \in Machine
      BY <2>1, TypeBasics
    <3>. QED
      BY <2>1, <3>1 DEF ResetMotion, Machine
  <2>. HIDE DEF r
  <2>3. u \in Machine /\ u.state = s.state /\ u.delays = << >> /\ u.pending = "IDLE" /\ ~u.stepping
    <3>1. CASE s.state = "JOG"
      BY <2>2, <3>1 DEF Machine
    <3>2. CASE s.state # "JOG"
      BY <1>1, <1>3, <3>2
    <3>. QED
      BY <3>1, <3>2
  <2>4. t = SetIdle(u)
    BY <1>3, <2>3 DEF AwaitMotionCancel, r, c
  <2>. HIDE DEF u
  <2>5. t.state = "IDLE" /\ t.handler = "idle" /\ t.pending = "IDLE" /\ ~t.suspend
        /\ ~t.execute_hold /\ ~t.execute_sys_motion /\ ~t.stepping /\ t.delays = << >>
    BY <1>1, <2>3, <2>4, IdleFacts
  <2>. QED
    BY <1>1, <2>5 DEF Out, Shape, Moves, Delays, Fits, Parkers, Waits, Kept
<1>. QED
  BY <1>2, <1>3

\* A machine that has come to rest under state_await_hold.
LEMMA RestsOut ==
    ASSUME NEW s \in Machine, ~s.stepping, s.state \in {"HOLD", "DOOR", "SLEEP"}, s.pending = "IDLE",
           s.delays = << >>, s.state = "HOLD" => ~s.execute_sys_motion,
           NEW t, SameControl(s, t), ~t.execute_hold, Rests(s, t)
    PROVE  Out(t) /\ (s.state # "HOLD" => Guarded(t)) /\ t.handler \notin {"restore", "await_resumed"}
BY DEF SameControl, Rests, Out, Shape, Moves, Delays, Fits, Parkers, Waits, Guarded, Machine

LEMMA HoldOut ==
    ASSUME NEW s \in Machine, NEW rt, Ready(s, rt), s.handler = "await_hold",
           "CYCLE_COMPLETE" \in rt, NEW t \in AwaitHold(s)
    PROVE  Out(t) /\ Kept(s, rt, t)
<1>1. ~s.stepping /\ s.state \in {"HOLD", "DOOR"} /\ s.pending = "IDLE" /\ s.delays = << >>
      /\ (s.state = "HOLD" => ~s.execute_sys_motion)
  BY DEF Ready, Shape, Moves, Fits, Parkers
<1>. QED
  BY <1>1, HoldFacts, RestsOut DEF Kept

LEMMA RestartOut ==
    ASSUME NEW s \in Machine, s.state = "DOOR", ~s.stepping, s.pending = "IDLE", s.delays = << >>,
           NEW t \in AwaitRestartRetract(s)
    PROVE  Out(t) /\ Guarded(t)
<1>. DEFINE p == ParkingOver(s)
            u == [p EXCEPT !.handler = "await_hold"]
<1>1. p \in Machine /\ SameControl(s, p) /\ ~p.stepping
  BY OverFacts
<1>2. t \in AwaitHold(u)
  BY DEF AwaitRestartRetract
<1>. HIDE DEF p
<1>3. u \in Machine /\ SameControl(s, u) /\ ~u.stepping
  BY <1>1, Names DEF Machine, SameControl
<1>. HIDE DEF u
<1>. QED
  BY <1>2, <1>3, HoldFacts, RestsOut DEF SameControl

\* The door is opened while the machine returns: a motion under way is stopped first.
LEMMA ReopenOut ==
    ASSUME NEW s \in Machine, s.state = "DOOR", s.pending = "IDLE", s.delays = << >>,
           s.stepping = s.execute_sys_motion, NEW t \in restart_retract(s)
    PROVE  Out(t) /\ Guarded(t)
<1>. DEFINE u == [s EXCEPT !.handler = "await_restart_retract", !.restart = TRUE]
<1>1. u \in Machine /\ SameControl(s, u) /\ u.handler = "await_restart_retract"
      /\ u.stepping = s.stepping /\ u.execute_sys_motion = s.execute_sys_motion
  BY Names DEF Machine, SameControl
<1>2. t \in IF u.execute_sys_motion THEN {[Reload(u) EXCEPT !.execute_hold = TRUE]}
            ELSE AwaitRestartRetract(u)
  BY DEF restart_retract
<1>. HIDE DEF u
<1>3. CASE u.execute_sys_motion
  <2>1. t = [[u EXCEPT !.pl_block = "none"] EXCEPT !.execute_hold = TRUE]
    BY <1>2, <1>3 DEF Reload
  <2>2. /\ t.state = "DOOR" /\ t.pending = "IDLE" /\ t.delays = << >> /\ t.stepping
        /\ t.execute_sys_motion /\ t.handler = "await_restart_retract"
    BY <1>1, <1>3, <2>1 DEF Machine, SameControl
  <2>. QED
    BY <2>2 DEF Out, Shape, Moves, Delays, Fits, Parkers, Waits, Guarded
<1>4. CASE ~u.execute_sys_motion
  <2>1. u.state = "DOOR" /\ ~u.stepping /\ u.pending = "IDLE" /\ u.delays = << >>
    BY <1>1, <1>4 DEF SameControl, Machine
  <2>. QED
    BY <1>1, <1>2, <1>4, <2>1, RestartOut
<1>. QED
  BY <1>3, <1>4

LEMMA WaypointOut ==
    ASSUME NEW s \in Machine, NEW rt, Ready(s, rt), s.handler = "await_waypoint_retract",
           "CYCLE_COMPLETE" \in rt, NEW t \in AwaitWaypointRetract(s)
    PROVE  Out(t) /\ Kept(s, rt, t)
<1>1. ~s.stepping /\ s.state \in {"DOOR", "SLEEP"} /\ s.pending = "IDLE" /\ s.delays = << >>
      /\ ~s.execute_hold
  BY DEF Ready, Shape, Moves, Fits, Parkers
<1>2. SameControl(s, t) /\ ~t.execute_hold /\ Rests(s, t)
  BY <1>1, WaypointFacts
<1>. QED
  BY <1>1, <1>2, RestsOut DEF Kept

\* The door cycle is over: idle, or on with the queue.
LEMMA OverOut ==
    ASSUME NEW s \in Machine, s.state # "IDLE", ~s.stepping, s.delays = << >>, NEW u, u = SetIdle(s),
           NEW t \in {u, SetCycle(u)}
    PROVE  Out(t) /\ t.state \in {"IDLE", "CYCLE"}
<1>1. /\ u \in Machine /\ u.state = "IDLE" /\ u.handler = "idle" /\ u.pending = "IDLE" /\ ~u.suspend
      /\ ~u.execute_hold /\ ~u.execute_sys_motion /\ ~u.stepping /\ u.delays = << >>
  BY IdleFacts, TypeIdle
<1>2. t = u \/ /\ t.state = "CYCLE" /\ t.handler = "cycle" /\ t.stepping
               /\ t.pending = "IDLE" /\ t.delays = << >> /\ ~t.execute_hold /\ ~t.execute_sys_motion
  BY <1>1, CycleFacts
<1>. QED
  BY <1>1, <1>2 DEF Out, Shape, Moves, Delays, Fits, Parkers, Waits

LEMMA ResumedOut ==
    ASSUME NEW s \in Machine, s.state = "DOOR", s.pending = "IDLE", s.delays = << >>,
           s.handler = "await_resumed", NEW rt,
           s.stepping => s.execute_sys_motion,
           s.stepping \/ "CYCLE_COMPLETE" \in rt, "CYCLE_COMPLETE" \in rt => ~s.stepping,
           ~("CYCLE_COMPLETE" \in rt /\ "SAFETY_DOOR" \in rt /\ s.execute_sys_motion),
           ~s.execute_hold, NEW t \in AwaitResumed(s, rt)
    PROVE  Out(t) /\ ("SAFETY_DOOR" \in rt => Guarded(t))
<1>1. CASE "SAFETY_DOOR" \in rt
  <2>1. s.stepping = s.execute_sys_motion
    BY <1>1 DEF Machine
  <2>. QED
    BY <1>1, <2>1, ReopenOut DEF AwaitResumed
<1>2. CASE "SAFETY_DOOR" \notin rt /\ "CYCLE_COMPLETE" \in rt
  <2>. DEFINE p == ParkingOver(s)
              u == [p EXCEPT !.motion = FALSE, !.restart = FALSE]
  <2>1. p \in Machine /\ SameControl(s, p) /\ ~p.stepping
    BY <1>2, OverFacts
  <2>2. t = SetCycle(SetIdle(u))
    BY <1>2 DEF AwaitResumed
  <2>. HIDE DEF p
  <2>3. u \in Machine /\ u.state = "DOOR" /\ ~u.stepping /\ u.delays = << >>
    BY <2>1 DEF Machine, SameControl
  <2>. HIDE DEF u
  <2>. QED
    BY <1>2, <2>2, <2>3, OverOut
<1>3. CASE "SAFETY_DOOR" \notin rt /\ "CYCLE_COMPLETE" \notin rt
  BY <1>3 DEF AwaitResumed, Out, Shape, Moves, Delays, Fits, Parkers, Waits
<1>. QED
  BY <1>1, <1>2, <1>3

LEMMA RestoreOut ==
    ASSUME NEW s \in Machine, s.state = "DOOR", s.pending = "IDLE", s.delays = << >>,
           s.handler = "restore", NEW rt,
           s.stepping => s.execute_sys_motion,
           s.stepping \/ "CYCLE_COMPLETE" \in rt, "CYCLE_COMPLETE" \in rt => ~s.stepping,
           ~("CYCLE_COMPLETE" \in rt /\ "SAFETY_DOOR" \in rt /\ s.execute_sys_motion),
           ~s.execute_hold, NEW t \in Restore(s, rt)
    PROVE  Out(t) /\ ("SAFETY_DOOR" \in rt => Guarded(t))
<1>1. CASE "SAFETY_DOOR" \in rt
  <2>1. s.stepping = s.execute_sys_motion
    BY <1>1 DEF Machine
  <2>2. ~Restoring(s)
    BY DEF Restoring
  <2>. QED
    BY <1>1, <2>1, <2>2, ReopenOut DEF Restore
<1>2. CASE "SAFETY_DOOR" \notin rt /\ "CYCLE_COMPLETE" \in rt
  <2>. DEFINE p == ParkingOver(s)
              d == Append(p.delays, "restore")
  <2>1. p \in Machine /\ SameControl(s, p) /\ ~p.stepping /\ ~p.execute_sys_motion /\ ~p.execute_hold
    BY <1>2, OverFacts
  <2>2. t = [p EXCEPT !.restart = FALSE, !.handler = "await_resumed", !.delays = d]
    BY <1>2, <2>1 DEF Restore, Machine
  <2>. HIDE DEF p
  <2>3. d = << "restore" >>
    BY <2>1 DEF SameControl
  <2>. HIDE DEF d
  <2>4. /\ t.state = "DOOR" /\ t.pending = "IDLE" /\ t.delays = << "restore" >> /\ ~t.stepping
        /\ ~t.execute_sys_motion /\ ~t.execute_hold /\ t.handler = "await_resumed"
    BY <2>1, <2>2, <2>3 DEF Machine, SameControl
  <2>. QED
    BY <1>2, <2>4 DEF Out, Shape, Moves, Delays, Fits, Parkers, Waits
<1>3. CASE "SAFETY_DOOR" \notin rt /\ "CYCLE_COMPLETE" \notin rt
  BY <1>3 DEF Restore, Out, Shape, Moves, Delays, Fits, Parkers, Waits
<1>. QED
  BY <1>1, <1>2, <1>3

LEMMA RequestOut ==
    ASSUME NEW s \in Machine, Shape(s), s.delays = << >>, s.handler = "await_resume", ~s.stepping,
           ~(s.state = "DOOR" /\ s.restart /\ door_ajar), NEW t \in ResumeRequest(s)
    PROVE  /\ Out(t) /\ (s.state # "HOLD" /\ door_ajar => Guarded(t))
           /\ s.state = "HOLD" => t.handler \notin {"restore", "await_resumed"}
<1>1. s.state \in {"HOLD", "DOOR", "SLEEP"} /\ s.pending = "IDLE" /\ ~s.execute_hold
  BY DEF Shape, Moves, Fits, Parkers
<1>2. t = s => Out(t) /\ (s.state # "HOLD" => Guarded(t))
  BY <1>1 DEF Out, Waits, Guarded
<1>3. CASE s.state = "SLEEP"
  BY <1>2, <1>3 DEF ResumeRequest
<1>4. CASE s.state = "DOOR" /\ t # s
  <2>. DEFINE r == s.restart /\ ~s.motion
              u == [s EXCEPT !.handler = "restore", !.restart = r]
  <2>0. r \in BOOLEAN
    BY DEF Machine
  <2>1. ~door_ajar /\ t \in mc_parking_motion(u) \cup Restore(u, {"CYCLE_COMPLETE"})
    BY <1>4 DEF ResumeRequest
  <2>. HIDE DEF r
  <2>2. u \in Machine /\ u.state = "DOOR" /\ u.handler = "restore" /\ u.pending = "IDLE"
        /\ u.delays = << >> /\ ~u.stepping /\ ~u.execute_hold
    BY <1>1, <1>4, <2>0, Names DEF Machine
  <2>. HIDE DEF u
  <2>3. CASE t \in mc_parking_motion(u)
    <3>1. /\ t.state = "DOOR" /\ t.handler = "restore" /\ t.pending = "IDLE" /\ t.delays = << >>
          /\ ~t.execute_hold /\ t.stepping /\ t.execute_sys_motion
      BY <2>2, <2>3, ParkFacts DEF SameControl
    <3>. QED
      BY <1>4, <2>1, <3>1 DEF Out, Shape, Moves, Delays, Fits, Parkers, Waits
  <2>4. CASE t \in Restore(u, {"CYCLE_COMPLETE"})
    BY <1>4, <2>1, <2>2, <2>4, RestoreOut
  <2>. QED
    BY <2>1, <2>3, <2>4
<1>5. CASE s.state = "HOLD"
  <2>0. ~s.execute_sys_motion
    BY <1>5 DEF Shape, Moves
  <2>. DEFINE d == Append(s.delays, "resume")
              u == SetIdle(s)
              v == [u EXCEPT !.execute_hold = s.execute_hold, !.end_motion = s.end_motion,
                             !.execute_sys_motion = s.execute_sys_motion]
  <2>1. t = [s EXCEPT !.delays = d] \/ t = SetCycle(v)
    BY <1>5 DEF ResumeRequest, Resumed, Machine
  <2>2. d = << "resume" >>
    OBVIOUS
  <2>. HIDE DEF d
  <2>3. CASE t = [s EXCEPT !.delays = d]
    <3>1. /\ t.state = "HOLD" /\ t.pending = "IDLE" /\ t.delays = << "resume" >> /\ ~t.stepping
          /\ ~t.execute_sys_motion /\ ~t.execute_hold /\ t.handler = "await_resume"
      BY <1>1, <1>5, <2>0, <2>2, <2>3 DEF Machine
    <3>. QED
      BY <1>5, <3>1 DEF Out, Shape, Moves, Delays, Fits, Parkers, Waits
  <2>4. CASE t = SetCycle(v)
    <3>1. /\ u \in Machine /\ u.state = "IDLE" /\ u.handler = "idle" /\ u.pending = "IDLE" /\ ~u.suspend
          /\ ~u.execute_hold /\ ~u.execute_sys_motion /\ ~u.stepping /\ u.delays = << >>
      BY <1>5, IdleFacts, TypeIdle
    <3>. HIDE DEF u
    <3>2. /\ v \in Machine /\ v.state = "IDLE" /\ v.handler = "idle" /\ v.pending = "IDLE" /\ ~v.suspend
          /\ ~v.execute_hold /\ ~v.execute_sys_motion /\ ~v.stepping /\ v.delays = << >>
      BY <1>1, <2>0, <3>1 DEF Machine
    <3>. HIDE DEF v
    <3>3. t = v \/ /\ t.state = "CYCLE" /\ t.handler = "cycle" /\ t.stepping
                   /\ t.pending = "IDLE" /\ t.delays = << >> /\ ~t.execute_hold /\ ~t.execute_sys_motion
      BY <2>4, <3>2, CycleFacts
    <3>. QED
      BY <1>5, <3>2, <3>3 DEF Out, Shape, Moves, Delays, Fits, Parkers, Waits
  <2>. QED
    BY <2>1, <2>3, <2>4
<1>. QED
  BY <1>1, <1>2, <1>3, <1>4, <1>5

LEMMA ResumeOut ==
    ASSUME NEW s \in Machine, NEW rt, Ready(s, rt), Calm(s, rt), s.handler = "await_resume",
           NEW t \in AwaitResume(s, rt)
    PROVE  Out(t) /\ Kept(s, rt, t)
<1>. DEFINE p == IF "CYCLE_COMPLETE" \in rt /\ Parking THEN ParkedNow(s) ELSE s
<1>1. /\ s.state \in {"HOLD", "DOOR", "SLEEP"} /\ s.pending = "IDLE" /\ ~s.execute_hold
      /\ s.delays = << >> /\ ("CYCLE_COMPLETE" \in rt => ~s.stepping) /\ Shape(s)
  BY DEF Ready, Shape, Moves, Fits, Parkers
<1>2. /\ p \in Machine /\ p.state = s.state /\ p.delays = << >> /\ p.restart = s.restart
      /\ \/ p.handler = "noop" /\ p.state = "SLEEP" /\ Out(p) /\ Guarded(p)
         \/ p.handler = "await_resume" /\ p.stepping = s.stepping /\ Shape(p)
  <2>1. CASE p = ParkedNow(s) /\ "CYCLE_COMPLETE" \in rt
    <3>1. /\ p \in Machine /\ SameControl(s, p) /\ ~p.execute_hold
          /\ ~p.execute_sys_motion /\ p.restart = s.restart
          /\ IF s.state = "SLEEP" THEN p.handler = "noop" /\ ~p.stepping
             ELSE p.handler = s.handler /\ p.stepping = s.stepping
      BY <1>1, <2>1, ParkedFacts
    <3>. HIDE DEF p
    <3>. QED
      BY <1>1, <2>1, <3>1
      DEF SameControl, Out, Shape, Moves, Delays, Fits, Parkers, Waits, Guarded
  <2>2. CASE p = s
    BY <1>1, <2>2
  <2>. QED
    BY <2>1, <2>2
<1>3. \/ t = p /\ p.handler = "noop"
      \/ /\ p.handler # "noop"
         /\ \E v \in (IF "SLEEP" \in rt THEN SetSuspended(p, "SLEEP") ELSE {p}) :
               \/ t = v
               \/ "CYCLE_START" \in rt /\ "SAFETY_DOOR" \notin rt /\ t \in ResumeRequest(v)
  BY DEF AwaitResume
<1>. HIDE DEF p
<1>4. CASE p.handler = "noop"
  BY <1>2, <1>3, <1>4 DEF Kept
<1>5. CASE p.handler # "noop"
  <2>1. PICK v \in (IF "SLEEP" \in rt THEN SetSuspended(p, "SLEEP") ELSE {p}) :
               \/ t = v
               \/ "CYCLE_START" \in rt /\ "SAFETY_DOOR" \notin rt /\ t \in ResumeRequest(v)
    BY <1>3, <1>5
  <2>2. CASE v = p
    <3>1. Out(p) /\ (s.state # "HOLD" => Guarded(p))
      BY <1>1, <1>2, <1>5 DEF Out, Waits, Guarded
    <3>2. CASE t = v
      BY <1>2, <1>5, <2>2, <3>1, <3>2 DEF Kept
    <3>3. CASE "CYCLE_START" \in rt /\ "SAFETY_DOOR" \notin rt /\ t \in ResumeRequest(v)
      <4>1. ~p.stepping /\ ~(p.state = "DOOR" /\ p.restart /\ door_ajar)
        BY <1>2, <1>5, <3>3 DEF Calm
      <4>. QED
        BY <1>1, <1>2, <1>5, <2>2, <3>3, <4>1, RequestOut DEF Kept
    <3>. QED
      BY <2>1, <3>2, <3>3
  <2>3. CASE v # p
    <3>1. v \in SetSuspended(p, "SLEEP")
      BY <2>1, <2>3
    <3>2. /\ v.state = "SLEEP" /\ v.pending = "IDLE" /\ v.delays = << >>
          /\ \/ v.handler = "noop" /\ ~v.stepping
             \/ /\ v.handler = "await_waypoint_retract" /\ ~v.execute_hold
                /\ v.execute_sys_motion /\ v.stepping
      BY <1>1, <1>2, <2>3, <3>1, SuspendedFacts DEF Rests
    <3>3. t = v
      BY <2>1, <3>2 DEF ResumeRequest
    <3>. QED
      BY <3>2, <3>3 DEF Out, Shape, Moves, Delays, Fits, Parkers, Waits, Kept, Guarded
  <2>. QED
    BY <2>2, <2>3
<1>. QED
  BY <1>4, <1>5

\* Calls through stateHandler.
LEMMA HandleOut ==
    ASSUME NEW s \in Machine, NEW rt, Ready(s, rt), Calm(s, rt), NEW t \in Handle(s, rt)
    PROVE  Out(t) /\ Kept(s, rt, t)
<1>0. s.handler \in Handlers
  BY DEF Machine
<1>1. CASE s.handler = "idle"
  BY <1>1, IdleOut DEF Handle
<1>2. CASE s.handler = "cycle"
  BY <1>2, CycleOut DEF Handle
<1>3. CASE s.handler = "await_motion_cancel"
  BY <1>3, MotionCancelOut DEF Handle
<1>4. CASE s.handler = "await_resume"
  BY <1>4, ResumeOut DEF Handle
<1>5. CASE t = s /\ s.handler \in {"await_hold", "await_restart_retract", "await_waypoint_retract"}
           /\ "CYCLE_COMPLETE" \notin rt
  <2>1. Out(t)
    BY <1>5 DEF Ready, Out, Waits
  <2>. QED
    BY <1>5, <2>1 DEF Kept, Guarded
<1>6. CASE s.handler = "await_hold"
  BY <1>5, <1>6, HoldOut DEF Handle
<1>7. CASE s.handler = "await_waypoint_retract"
  BY <1>5, <1>7, WaypointOut DEF Handle
<1>8. CASE s.handler = "await_restart_retract"
  <2>1. s.state = "DOOR" /\ s.pending = "IDLE" /\ s.delays = << >>
        /\ ("CYCLE_COMPLETE" \in rt => ~s.stepping)
    BY <1>8 DEF Ready, Shape, Moves, Fits, Parkers
  <2>. QED
    BY <1>5, <1>8, <2>1, RestartOut DEF Handle, Kept
<1>9. CASE s.handler \in {"restore", "await_resumed"}
  <2>1. /\ s.state = "DOOR" /\ s.pending = "IDLE" /\ s.delays = << >> /\ ~s.execute_hold
        /\ s.stepping => s.execute_sys_motion
        /\ s.stepping \/ "CYCLE_COMPLETE" \in rt
        /\ "CYCLE_COMPLETE" \in rt => ~s.stepping
        /\ ~("CYCLE_COMPLETE" \in rt /\ "SAFETY_DOOR" \in rt /\ s.execute_sys_motion)
    BY <1>9 DEF Ready, Calm, Shape, Moves, Fits, Parkers, Waits
  <2>2. Out(t) /\ ("SAFETY_DOOR" \in rt => Guarded(t))
    <3>1. CASE s.handler = "restore"
      BY <2>1, <3>1, RestoreOut DEF Handle
    <3>2. CASE s.handler = "await_resumed"
      BY <2>1, <3>2, ResumedOut DEF Handle
    <3>. QED
      BY <1>9, <3>1, <3>2
  <2>. QED
    BY <1>9, <2>1, <2>2 DEF Kept, Guarded
<1>10. CASE s.handler = "noop"
  <2>1. t = s
    BY <1>10 DEF Handle
  <2>. QED
    BY <1>10, <2>1 DEF Ready, Out, Waits, Kept, Guarded
<1>. QED
  BY <1>0, <1>1, <1>2, <1>3, <1>4, <1>6, <1>7, <1>8, <1>9, <1>10 DEF Handlers

\* The door is only handled where state_set is prepared for it.
Open(s, rt) ==
    "SAFETY_DOOR" \in rt =>
        /\ s.state # "JOG" /\ ~(s.state # "DOOR" /\ s.handler \in {"await_hold", "await_motion_cancel"})
        /\ "CYCLE_COMPLETE" \in rt => ~Still(s)

LEMMA UpdateOut ==
    ASSUME NEW s \in Machine, NEW rt, Ready(s, rt), Calm(s, rt), Open(s, rt), NEW t \in state_update(s, rt)
    PROVE  Out(t) /\ Kept(s, rt, t) /\ ("SAFETY_DOOR" \in rt => Guarded(t))
<1>1. CASE "SAFETY_DOOR" \notin rt
  BY <1>1, HandleOut DEF state_update
<1>2. CASE "SAFETY_DOOR" \in rt
  <2>1. PICK u \in SetSuspended(s, "DOOR") : t \in Handle(u, rt)
    BY <1>2 DEF state_update
  <2>2. u \in Machine
    BY <2>1, TypeSuspended, Names
  <2>3. CASE u = s /\ s.state \in {"DOOR", "ALARM", "SLEEP"}
    BY <1>2, <2>1, <2>3, HandleOut DEF Kept
  <2>4. CASE s.state \notin {"DOOR", "ALARM", "SLEEP"}
    <3>1. /\ s.state \in {"IDLE", "CYCLE", "HOLD"} /\ s.delays = << >> /\ ~s.execute_sys_motion
          /\ s.state = "IDLE" => ~s.stepping
          /\ s.state = "HOLD" => s.handler = "await_resume" /\ ~s.stepping
          /\ s.state = "CYCLE" => s.handler = "cycle"
      BY <1>2, <2>4 DEF Ready, Open, Shape, Moves, Fits, Parkers, Machine, States
    <3>2. /\ s.state # "CYCLE" => "CYCLE_COMPLETE" \notin rt
          /\ s.state = "CYCLE" => s.stepping \/ "CYCLE_COMPLETE" \in rt
          /\ "CYCLE_COMPLETE" \in rt => ~s.stepping
      BY <1>2, <3>1 DEF Ready, Open, Still, Waits
    <3>3. /\ u.state = "DOOR" /\ u.pending = "IDLE" /\ u.delays = << >>
          /\ IF s.state = "CYCLE"
             THEN /\ u.handler = "await_hold" /\ u.stepping = s.stepping /\ u.execute_hold
                  /\ ~u.execute_sys_motion
             ELSE ~u.execute_hold /\ u.handler # "noop" /\ Rests([s EXCEPT !.state = "DOOR"], u)
      BY <2>1, <2>4, <3>1, SuspendedFacts
    <3>4. s.state # "CYCLE" =>
             \/ u.handler = "await_resume" /\ ~u.execute_sys_motion /\ ~u.stepping
             \/ u.handler \in {"await_resume", "await_waypoint_retract"} /\ u.execute_sys_motion /\ u.stepping
      <4>1. [s EXCEPT !.state = "DOOR"].stepping = s.stepping
        BY DEF Machine
      <4>. QED
        BY <3>1, <3>3, <4>1 DEF Rests
    <3>5. Ready(u, rt) /\ Calm(u, rt)
      <4>1. Calm(u, rt)
        BY <1>2, <3>1, <3>3, <3>4 DEF Calm
      <4>2. Shape(u)
        BY <3>3, <3>4 DEF Shape, Moves, Delays, Fits, Parkers
      <4>3. (Waits(u) => u.stepping \/ "CYCLE_COMPLETE" \in rt) /\ ("CYCLE_COMPLETE" \in rt => ~u.stepping)
        BY <3>2, <3>3, <3>4 DEF Waits
      <4>. QED
        BY <3>3, <4>1, <4>2, <4>3 DEF Ready
    <3>6. Out(t) /\ Kept(u, rt, t)
      BY <2>1, <2>2, <3>5, HandleOut
    <3>. QED
      BY <1>2, <3>3, <3>6, <2>4 DEF Kept
  <2>5. s.state \in {"DOOR", "ALARM", "SLEEP"} => u = s
    <3>1. SetSuspended(s, "DOOR") = {s} \/ s.state \notin {"DOOR", "ALARM", "SLEEP"}
      BY DEF SetSuspended
    <3>. QED
      BY <2>1, <3>1
  <2>. QED
    BY <2>3, <2>4, <2>5
<1>. QED
  BY <1>1, <1>2

-----------------------------------------------------------------------------
(* The steps *)

LEMMA NotRaced == ASSUME Next, NoRace' PROVE NoRace
BY DEF Next, NoRace, BeginPass, TakeAlarm, TakeReset, Take, TakeStop, StopNow, StopDone,
       PrepSegment, PrepBlockEnd, PrepStandstill, PrepDone, PrepExit, DelayEnds, Reinit, Line, Jog,
       JogCancel, AutoStart, Sleep, Unlock, Tick, FeedHold, CycleStart, StopCommand, Door, DoorCommand,
       Command, Raise, mc_reset

\* What it means that none of the coincidences happens.
LEMMA NoCoincidence ==
    ASSUME NEW flags, Coincidences(flags) = {}
    PROVE  /\ sys.handler = "cycle" => ~("CYCLE_COMPLETE" \in flags /\ "MOTION_CANCEL" \in flags)
           /\ door_ajar /\ ~st_is_stepping(sys) /\ ("STOP" \in flags \/ pc = "stop")
                 /\ sys.state \in {"CYCLE", "JOG", "HOLD"} => sys.handler = "await_resume"
           /\ sys.execute_sys_motion => ~("CYCLE_COMPLETE" \in flags /\ "SAFETY_DOOR" \in flags)
           /\ "SAFETY_DOOR" \in flags =>
                 /\ sys.state # "JOG"
                 /\ ~(sys.state # "DOOR" /\ sys.handler \in {"await_hold", "await_motion_cancel"})
           /\ "SAFETY_DOOR" \in flags /\ "CYCLE_COMPLETE" \in flags => "STOP" \notin flags /\ pc # "stop"
           /\ "STOP" \in flags /\ sys.stepping => sys.handler = "cycle"
           /\ flags # {} => sys.delays = << >>
           /\ "CYCLE_START" \in flags =>
                 /\ sys.handler = "await_resume" => ~sys.stepping
                 /\ ~(sys.state = "DOOR" /\ sys.restart /\ door_ajar)
BY DEF Coincidences

\* A pass that leaves the machine so leaves the invariant.
LEMMA PassLeaves ==
    ASSUME Out(sys'), rt_exec_state' = {}, rt_exec_alarm' = FALSE, abort' = FALSE, pc' # "stop",
           "MOTION_CANCEL_FAST" \notin rt_exec', door_ajar' => Knows(sys')
    PROVE  IInv'
<1>1. Shape(sys)' /\ EndInv' /\ DoorInv'
  BY DEF Out, EndInv, DoorInv
<1>2. WaitInv'
  BY DEF Out, WaitInv
<1>3. ResetInv'
  BY DEF Out, ResetInv, Cleared
<1>. QED
  BY <1>1, <1>2, <1>3 DEF IInv

\* What a pass without reset and stop leaves, and that an open door stays known.
LEMMA TakeOut ==
    ASSUME TypeOK, IInv, Take, NoRace, NoRace', rt_exec_state # {}
    PROVE  Out(sys') /\ (door_ajar => Knows(sys') /\ (sys.state = "DOOR" => Guarded(sys')))
<1>1. /\ sys \in Machine /\ pc = "pass" /\ ~rt_exec_alarm /\ ~abort /\ "RESET" \notin rt_exec_state
      /\ "MOTION_CANCEL_FAST" \notin rt_exec_state \cup rt_exec
      /\ Shape(sys) /\ EndInv /\ WaitInv /\ DoorInv /\ Cleared(sys)
  BY DEF TypeOK, IInv, ResetInv, Take, Taking
<1>2. Coincidences(rt_exec_state) = {}
  BY DEF Take, NoRace
<1>3. sys.delays = << >>
  BY <1>2, NoCoincidence
<1>4. Ready(sys, rt_exec_state)
  BY <1>1, <1>3 DEF Ready, EndInv, WaitInv, Cleared
<1>5. Calm(sys, rt_exec_state)
  BY <1>1, <1>2, NoCoincidence DEF Calm
<1>6. Open(sys, rt_exec_state)
  BY <1>1, <1>2, NoCoincidence DEF Open, EndInv
<1>7. sys' \in state_update(sys, rt_exec_state)
  BY DEF Take, Dispatch
<1>8. Out(sys') /\ Kept(sys, rt_exec_state, sys') /\ ("SAFETY_DOOR" \in rt_exec_state => Guarded(sys'))
  BY <1>1, <1>4, <1>5, <1>6, <1>7, UpdateOut
<1>9. door_ajar => "SAFETY_DOOR" \in rt_exec_state \/ Knows(sys)
  BY <1>1 DEF DoorInv
<1>. QED
  BY <1>8, <1>9 DEF Kept, Knows, Guarded

LEMMA StepTake == ASSUME TypeOK, IInv, Take, NoRace, NoRace' PROVE IInv'
<1>1. /\ ~rt_exec_alarm /\ ~abort /\ "MOTION_CANCEL_FAST" \notin rt_exec_state \cup rt_exec
  BY DEF TypeOK, IInv, ResetInv, Take, Taking
<1>2. /\ rt_exec_state' = {} /\ rt_exec_alarm' = rt_exec_alarm /\ abort' = abort /\ rt_exec' = rt_exec
      /\ door_ajar' = door_ajar /\ pc' # "stop"
  BY DEF Take, Taking, Dispatch, Onward
<1>3. CASE rt_exec_state = {}
  <2>1. sys' = sys /\ pc = "pass"
    BY <1>3 DEF Take, Dispatch, Taking
  <2>. QED
    BY <1>1, <1>2, <1>3, <2>1 DEF IInv, EndInv, ResetInv, WaitInv, DoorInv, TypeOK, NoRace
<1>4. CASE rt_exec_state # {}
  <2>1. Out(sys') /\ (door_ajar' => Knows(sys'))
    BY <1>2, <1>4, TakeOut
  <2>. QED
    BY <1>1, <1>2, <2>1, PassLeaves DEF TypeOK
<1>. QED
  BY <1>3, <1>4

LEMMA ClearFacts ==
    ASSUME NEW s \in Machine, NEW t, t = ClearStepControl(s)
    PROVE  /\ t \in Machine /\ SameControl(s, t) /\ t.handler = s.handler /\ t.stepping = s.stepping
           /\ t.restart = s.restart /\ ~t.execute_hold /\ ~t.execute_sys_motion
<1>1. t \in Machine
  BY TypeBasics
<1>. QED
  BY <1>1 DEF ClearStepControl, Machine, SameControl

LEMMA DropFacts ==
    ASSUME NEW s \in Machine, NEW t, t = ResetMotion(ClearStepControl(s))
    PROVE  /\ t \in Machine /\ SameControl(s, t) /\ t.handler = s.handler /\ ~t.stepping
           /\ t.restart = s.restart /\ ~t.execute_hold /\ ~t.execute_sys_motion
<1>. DEFINE c == ClearStepControl(s)
<1>1. /\ c \in Machine /\ SameControl(s, c) /\ c.handler = s.handler
      /\ c.restart = s.restart /\ ~c.execute_hold /\ ~c.execute_sys_motion
  BY ClearFacts
<1>. HIDE DEF c
<1>2. t = ResetMotion(c)
  BY DEF c
<1>3. t \in Machine
  BY <1>1, <1>2, TypeBasics
<1>. QED
  BY <1>1, <1>2, <1>3, ZenonT(40) DEF ResetMotion, Machine, SameControl

LEMMA StepTakeStop == ASSUME TypeOK, IInv, TakeStop, NoRace, NoRace' PROVE IInv'
<1>. DEFINE c == ClearStepControl(sys)
            rt == {"MOTION_CANCEL_FAST"}
<1>1. /\ sys \in Machine /\ pc = "pass" /\ ~rt_exec_alarm /\ ~abort /\ "RESET" \notin rt_exec_state
      /\ "MOTION_CANCEL_FAST" \notin rt_exec_state /\ Shape(sys) /\ DoorInv /\ sys.stepping
  BY DEF TypeOK, IInv, ResetInv, TakeStop, Taking, st_is_stepping
<1>2. /\ rt_exec_state' = {} /\ rt_exec_alarm' = rt_exec_alarm /\ abort' = abort
      /\ rt_exec' = rt_exec_state \ {"STOP"}
      /\ door_ajar' = door_ajar /\ pc' = "stop" /\ sys' \in state_update(c, rt)
  BY DEF TakeStop, Taking
<1>3. Coincidences(rt_exec_state) = {}
  BY DEF TakeStop, NoRace
<1>4. sys.handler = "cycle"
  BY <1>1, <1>3, NoCoincidence DEF TakeStop
<1>5. c \in Machine /\ SameControl(sys, c) /\ c.handler = "cycle" /\ c.stepping
      /\ ~c.execute_hold /\ ~c.execute_sys_motion
  BY <1>1, <1>4, ClearFacts
<1>6. sys.state \in {"CYCLE", "JOG"} /\ sys.pending = "IDLE" /\ sys.delays = << >>
  BY <1>1, <1>4 DEF Shape, Moves, Fits, Parkers
<1>. HIDE DEF c
<1>7. Ready(c, rt)
  <2>1. "CYCLE_COMPLETE" \notin rt
    OBVIOUS
  <2>. HIDE DEF rt
  <2>. QED
    BY <1>5, <1>6, <2>1 DEF SameControl, Ready, Shape, Moves, Delays, Fits, Parkers
<1>8. sys' \in StateCycle(c, rt)
  BY <1>2, <1>5 DEF state_update, Handle
<1>9. Out(sys') /\ sys'.handler = "await_motion_cancel"
  BY <1>5, <1>7, <1>8, CycleOut
<1>10. Shape(sys)' /\ EndInv'
  BY <1>2, <1>9 DEF Out, EndInv
<1>11. WaitInv'
  BY <1>9 DEF Out, WaitInv
<1>12. ResetInv'
  BY <1>1, <1>2, <1>9 DEF Out, ResetInv, Cleared
<1>13. DoorInv'
  BY <1>1, <1>2, <1>6, <1>9 DEF DoorInv, Knows, Guarded
<1>. QED
  BY <1>10, <1>11, <1>12, <1>13 DEF IInv

\* The rest of a stop with the door closed: an idle machine, and what the flags make of it.
LEMMA StoppedClosed ==
    ASSUME sys \in Machine, Shape(sys), sys.delays = << >>, ~door_ajar, NEW flags,
           "MOTION_CANCEL_FAST" \notin flags, ~("SAFETY_DOOR" \in flags /\ "CYCLE_COMPLETE" \in flags),
           Stopped(sys, flags)
    PROVE  Out(sys')
<1>. DEFINE t == ResetMotion(ClearStepControl(sys))
            v == SetIdle(t)
<1>1. /\ t \in Machine /\ SameControl(sys, t) /\ t.handler = sys.handler /\ ~t.stepping
      /\ ~t.execute_hold /\ ~t.execute_sys_motion
  BY DropFacts
<1>2. Dispatch(v, flags)
  BY DEF Stopped
<1>. HIDE DEF t
<1>3. /\ v \in Machine /\ v.state = "IDLE" /\ v.handler = "idle" /\ v.pending = "IDLE" /\ ~v.suspend
      /\ ~v.execute_hold /\ ~v.execute_sys_motion /\ ~v.stepping /\ v.delays = << >>
  <2>1. CASE t.state = "IDLE"
    <3>1. v = t
      BY <2>1 DEF SetIdle
    <3>. QED
      BY <1>1, <2>1, <3>1 DEF SameControl, Shape, Moves, Fits, Parkers
  <2>2. CASE t.state # "IDLE"
    BY <1>1, <2>2, IdleFacts, TypeIdle DEF SameControl
  <2>. QED
    BY <2>1, <2>2
<1>. HIDE DEF v
<1>4. Shape(v)
  BY <1>3 DEF Shape, Moves, Delays, Fits, Parkers
<1>5. CASE flags = {}
  <2>1. sys' = v
    BY <1>2, <1>5 DEF Dispatch
  <2>. QED
    BY <1>3, <1>4, <2>1 DEF Out, Waits
<1>6. CASE flags # {}
  <2>1. Ready(v, flags)
    BY <1>3, <1>4 DEF Ready, Waits
  <2>2. Calm(v, flags) /\ Open(v, flags)
    BY <1>3 DEF Calm, Open
  <2>. QED
    BY <1>2, <1>3, <1>6, <2>1, <2>2, UpdateOut DEF Dispatch
<1>. QED
  BY <1>5, <1>6

\* With the door open: the door state, or the one that comes before it.
LEMMA StoppedOpen ==
    ASSUME sys \in Machine, Shape(sys), sys.delays = << >>, ~sys.stepping, door_ajar, NEW flags,
           "MOTION_CANCEL_FAST" \notin flags, Waits(sys) => "CYCLE_COMPLETE" \in flags,
           ~("SAFETY_DOOR" \in flags /\ "CYCLE_COMPLETE" \in flags),
           "CYCLE_COMPLETE" \in flags => ~Still(sys),
           "CYCLE_START" \in flags => ~(sys.state = "DOOR" /\ sys.restart /\ door_ajar),
           "SAFETY_DOOR" \in flags \/ Knows(sys),
           sys.state \in {"CYCLE", "JOG", "HOLD"} => sys.handler = "await_resume",
           Stopped(sys, flags)
    PROVE  Out(sys') /\ Guarded(sys')
<1>. DEFINE t == ResetMotion(ClearStepControl(sys))
<1>1. /\ t \in Machine /\ SameControl(sys, t) /\ t.handler = sys.handler /\ ~t.stepping
      /\ t.restart = sys.restart /\ ~t.execute_hold /\ ~t.execute_sys_motion
  BY DropFacts
<1>2. PICK v \in SetSuspended(t, "DOOR") : Dispatch(v, flags)
  BY DEF Stopped
<1>. HIDE DEF t
<1>3. v \in Machine
  BY <1>1, <1>2, TypeSuspended, Names
<1>4. CASE sys.state \in {"DOOR", "ALARM", "SLEEP"}
  <2>1. v = t
    <3>1. t.state \in {"DOOR", "ALARM", "SLEEP"}
      BY <1>1, <1>4 DEF SameControl
    <3>2. SetSuspended(t, "DOOR") = {t}
      BY <3>1 DEF SetSuspended
    <3>. QED
      BY <1>2, <3>2
  <2>2. Shape(v) /\ v.delays = << >> /\ ~v.execute_hold /\ ~v.execute_sys_motion /\ ~v.stepping
        /\ v.state = sys.state /\ v.handler = sys.handler /\ v.restart = sys.restart
    BY <1>1, <1>4, <2>1 DEF SameControl, Shape, Moves, Delays, Fits, Parkers
  <2>3. "SAFETY_DOOR" \in flags \/ Guarded(v)
    BY <1>4, <2>2 DEF Knows, Guarded
  <2>4. CASE flags = {}
    <3>1. sys' = v
      BY <1>2, <2>4 DEF Dispatch
    <3>. QED
      BY <2>2, <2>3, <2>4, <3>1 DEF Out, Waits
  <2>5. CASE flags # {}
    <3>1. Ready(v, flags)
      BY <2>2 DEF Ready, Waits
    <3>2. Calm(v, flags)
      BY <1>4, <2>2 DEF Calm, Shape, Moves, Fits, Parkers
    <3>3. Open(v, flags)
      BY <1>4, <2>2 DEF Open, Shape, Moves, Fits, Parkers
    <3>4. Out(sys') /\ Kept(v, flags, sys') /\ ("SAFETY_DOOR" \in flags => Guarded(sys'))
      BY <1>2, <1>3, <2>5, <3>1, <3>2, <3>3, UpdateOut DEF Dispatch
    <3>. QED
      BY <1>4, <2>2, <2>3, <3>4 DEF Kept
  <2>. QED
    BY <2>4, <2>5
<1>5. CASE sys.state \notin {"DOOR", "ALARM", "SLEEP"}
  <2>1. sys.state \in {"IDLE", "HOLD"} /\ Still(sys)
    BY <1>5 DEF Shape, Moves, Fits, Parkers, Still, Machine, States
  <2>2. "CYCLE_COMPLETE" \notin flags
    BY <2>1
  <2>3. t.state \in {"IDLE", "HOLD"} /\ t.delays = << >>
    BY <1>1, <2>1 DEF SameControl
  <2>4. /\ v.state = "DOOR" /\ v.pending = "IDLE" /\ v.delays = << >> /\ v.handler # "noop"
        /\ ~v.execute_hold /\ Rests([t EXCEPT !.state = "DOOR"], v)
    BY <1>1, <1>2, <2>3, SuspendedFacts, ZenonT(40)
  <2>5. \/ v.handler = "await_resume" /\ ~v.execute_sys_motion /\ ~v.stepping
        \/ v.handler \in {"await_resume", "await_waypoint_retract"} /\ v.execute_sys_motion /\ v.stepping
    <3>1. [t EXCEPT !.state = "DOOR"].stepping = t.stepping
      BY <1>1 DEF Machine
    <3>. QED
      BY <1>1, <2>4, <3>1 DEF Rests
  <2>6. Shape(v) /\ Guarded(v)
    BY <2>4, <2>5 DEF Shape, Moves, Delays, Fits, Parkers, Guarded
  <2>7. CASE flags = {}
    <3>1. sys' = v
      BY <1>2, <2>7 DEF Dispatch
    <3>. QED
      BY <2>4, <2>5, <2>6, <3>1 DEF Out, Waits
  <2>8. CASE flags # {}
    <3>1. Ready(v, flags)
      BY <2>2, <2>4, <2>5, <2>6 DEF Ready, Waits
    <3>2. Calm(v, flags) /\ Open(v, flags)
      <4>1. v.handler = "await_resume" => ~v.stepping /\ ~v.restart
        BY <1>1, <1>2, <2>3, FirstDoor
      <4>. QED
        BY <2>2, <2>4, <2>5, <4>1 DEF Calm, Open
    <3>3. sys' \in state_update(v, flags)
      BY <1>2, <2>8 DEF Dispatch
    <3>4. Out(sys') /\ Kept(v, flags, sys')
      BY <1>3, <3>1, <3>2, <3>3, UpdateOut
    <3>. QED
      BY <2>4, <2>6, <3>4 DEF Kept
  <2>. QED
    BY <2>7, <2>8
<1>. QED
  BY <1>4, <1>5

LEMMA StopNowOut ==
    ASSUME TypeOK, IInv, StopNow, NoRace, NoRace'
    PROVE  Out(sys') /\ (door_ajar => Guarded(sys'))
<1>. DEFINE flags == rt_exec_state \ {"STOP"}
<1>1. /\ sys \in Machine /\ pc = "pass" /\ ~rt_exec_alarm /\ ~abort /\ "RESET" \notin rt_exec_state
      /\ "MOTION_CANCEL_FAST" \notin rt_exec_state \cup rt_exec
      /\ Shape(sys) /\ EndInv /\ WaitInv /\ DoorInv /\ ~st_is_stepping(sys) /\ "STOP" \in rt_exec_state
      /\ Stopped(sys, flags)
  BY DEF TypeOK, IInv, ResetInv, StopNow, Taking
<1>2. Coincidences(rt_exec_state) = {}
  BY DEF StopNow, NoRace
<1>3. /\ sys.delays = << >>
      /\ ~("SAFETY_DOOR" \in flags /\ "CYCLE_COMPLETE" \in flags)
      /\ "CYCLE_START" \in flags => ~(sys.state = "DOOR" /\ sys.restart /\ door_ajar)
      /\ door_ajar /\ sys.state \in {"CYCLE", "JOG", "HOLD"} => sys.handler = "await_resume"
      /\ sys.stepping => sys.handler = "cycle"
  BY <1>1, <1>2, NoCoincidence
<1>4. /\ "MOTION_CANCEL_FAST" \notin flags
      /\ "CYCLE_COMPLETE" \in flags => ~Still(sys)
      /\ door_ajar => "SAFETY_DOOR" \in flags \/ Knows(sys)
      /\ ~sys.stepping => (Waits(sys) => "CYCLE_COMPLETE" \in flags)
  BY <1>1, <1>3 DEF WaitInv, EndInv, DoorInv
<1>. HIDE DEF flags
<1>5. CASE ~door_ajar
  BY <1>1, <1>3, <1>4, <1>5, StoppedClosed
<1>6. CASE door_ajar
  <2>1. ~sys.stepping
    BY <1>1, <1>3, <1>6 DEF Shape, Moves, Fits, Parkers
  <2>. QED
    BY <1>1, <1>3, <1>4, <1>6, <2>1, StoppedOpen
<1>. QED
  BY <1>5, <1>6

LEMMA StepStopNow == ASSUME TypeOK, IInv, StopNow, NoRace, NoRace' PROVE IInv'
<1>1. ~rt_exec_alarm /\ ~abort /\ "MOTION_CANCEL_FAST" \notin rt_exec_state \cup rt_exec
  BY DEF TypeOK, IInv, ResetInv, StopNow, Taking
<1>2. /\ rt_exec_state' = {} /\ rt_exec_alarm' = rt_exec_alarm /\ abort' = abort /\ rt_exec' = rt_exec
      /\ door_ajar' = door_ajar /\ pc' # "stop"
  BY DEF StopNow, Taking, Stopped, Dispatch, Onward
<1>3. Out(sys') /\ (door_ajar' => Knows(sys'))
  BY <1>2, StopNowOut DEF Knows
<1>. QED
  BY <1>1, <1>2, <1>3, PassLeaves DEF TypeOK

LEMMA StepStopDone == ASSUME TypeOK, IInv, StopDone, NoRace, NoRace' PROVE IInv'
<1>. DEFINE taken == rt_exec \cup rt_exec_state
            flags == taken \ {"STOP"}
<1>1. /\ sys \in Machine /\ pc = "stop" /\ Shape(sys) /\ ~st_is_stepping(sys)
      /\ ~abort /\ sys.handler = "await_motion_cancel" /\ "RESET" \notin rt_exec
      /\ "MOTION_CANCEL_FAST" \notin taken
      /\ rt_exec_alarm => "RESET" \in rt_exec_state
  BY DEF TypeOK, IInv, ResetInv, StopDone
<1>2. /\ rt_exec_state' = {} /\ rt_exec_alarm' = rt_exec_alarm /\ abort' = abort /\ rt_exec' = {}
      /\ door_ajar' = door_ajar /\ pc' # "stop" /\ Stopped(sys, flags)
  BY DEF StopDone, Stopped, Dispatch, Onward
<1>3. Coincidences(taken) = {} /\ "RESET" \notin rt_exec_state
  BY DEF StopDone, NoRace
<1>. HIDE DEF taken
<1>4. sys.delays = << >> /\ sys.state \in {"CYCLE", "JOG"}
  BY <1>1 DEF Shape, Moves, Delays, Fits, Parkers
<1>5. "SAFETY_DOOR" \notin taken /\ ~door_ajar
  BY <1>1, <1>3, <1>4, NoCoincidence
<1>6. "MOTION_CANCEL_FAST" \notin flags /\ "SAFETY_DOOR" \notin flags
  BY <1>1, <1>5
<1>. HIDE DEF flags
<1>7. Out(sys')
  BY <1>1, <1>2, <1>4, <1>5, <1>6, StoppedClosed
<1>. QED
  BY <1>1, <1>2, <1>3, <1>5, <1>7, PassLeaves DEF TypeOK

LEMMA StepAlarm == ASSUME TypeOK, IInv, TakeAlarm, NoRace PROVE IInv'
<1>1. /\ sys \in Machine /\ pc = "pass" /\ ~abort /\ "RESET" \in rt_exec_state /\ Shape(sys) /\ EndInv
      /\ sys.delays = << >> /\ ~sys.stepping /\ sys.state # "ALARM"
      /\ "MOTION_CANCEL_FAST" \notin rt_exec_state \cup rt_exec
  BY DEF TypeOK, IInv, ResetInv, TakeAlarm
<1>2. /\ rt_exec_state' = rt_exec_state /\ rt_exec_alarm' = FALSE /\ abort' = abort /\ rt_exec' = rt_exec
      /\ pc' = pc /\ sys' = [sys EXCEPT !.state = "ALARM", !.suspend = FALSE, !.handler = "noop"]
  BY <1>1 DEF TakeAlarm, SetAlarm
<1>3. /\ sys'.state = "ALARM" /\ sys'.handler = "noop" /\ ~sys'.stepping /\ sys'.delays = << >>
      /\ sys'.pending = "IDLE"
  BY <1>1, <1>2 DEF Machine, Shape
<1>4. sys'.execute_hold = sys.execute_hold /\ sys'.execute_sys_motion = sys.execute_sys_motion
  BY <1>1, <1>2 DEF Machine
<1>5. Shape(sys)'
  BY <1>3 DEF Shape, Moves, Delays, Fits, Parkers
<1>6. EndInv' /\ WaitInv' /\ DoorInv'
  BY <1>1, <1>2, <1>3 DEF EndInv, WaitInv, DoorInv, Still, Waits, Knows, Guarded
<1>7. ResetInv'
  BY <1>1, <1>2 DEF ResetInv
<1>. QED
  BY <1>5, <1>6, <1>7 DEF IInv

LEMMA StepReset == ASSUME TypeOK, IInv, TakeReset, NoRace, NoRace' PROVE IInv'
<1>1. /\ Coincidences(rt_exec_state) = {} /\ rt_exec_state # {}
      /\ rt_exec_state' = {} /\ rt_exec_alarm' = rt_exec_alarm /\ ~rt_exec_alarm /\ abort' = TRUE
      /\ rt_exec' = rt_exec /\ pc' = "fg" /\ sys' = sys
  BY DEF TakeReset, Taking, NoRace
<1>2. sys.delays = << >>
  BY <1>1, NoCoincidence
<1>. QED
  BY <1>1, <1>2 DEF IInv, EndInv, ResetInv, WaitInv, DoorInv

\* st_prep_buffer touches nothing of the control, and cuts a cancelled motion's segments
\* from a decelerating profile.
LEMMA PrepFacts ==
    ASSUME TypeOK, PrepSegment \/ PrepBlockEnd \/ PrepStandstill
    PROVE  /\ SameControl(sys, sys') /\ sys'.handler = sys.handler /\ sys'.stepping = sys.stepping
           /\ sys'.execute_hold = sys.execute_hold
           /\ sys'.execute_sys_motion = sys.execute_sys_motion
           /\ sys.execute_hold /\ sys.pl_block # "run" => sys'.pl_block # "run"
<1>1. sys \in Machine /\ CanPrep /\ PrepDone /\ Loaded \in Machine
  BY TypeLoaded DEF TypeOK, PrepSegment, PrepBlockEnd, PrepStandstill
<1>. DEFINE p == IF sys.pl_block = "none" THEN Profile(sys) ELSE sys.pl_block
<1>2. PICK n : Loaded = [sys EXCEPT !.pl_block = p, !.segments = n]
  BY <1>1 DEF Loaded, Machine
<1>3. sys.execute_hold /\ sys.pl_block # "run" => p # "run"
  BY DEF Profile
<1>. HIDE DEF p
<1>4. /\ SameControl(sys, Loaded) /\ Loaded.handler = sys.handler /\ Loaded.stepping = sys.stepping
      /\ Loaded.execute_hold = sys.execute_hold
      /\ Loaded.execute_sys_motion = sys.execute_sys_motion /\ Loaded.pl_block = p
  BY <1>1, <1>2 DEF Machine, SameControl
<1>5. /\ SameControl(sys, sys') /\ sys'.handler = sys.handler /\ sys'.stepping = sys.stepping
      /\ sys'.execute_hold = sys.execute_hold
      /\ sys'.execute_sys_motion = sys.execute_sys_motion /\ sys'.pl_block \in {p, "none"}
  <2>. DEFINE l == Loaded
              q == IF l.queue > 0 THEN l.queue - 1 ELSE 0
  <2>1. /\ l \in Machine /\ SameControl(sys, l) /\ l.handler = sys.handler /\ l.stepping = sys.stepping
        /\ l.execute_hold = sys.execute_hold /\ l.execute_sys_motion = sys.execute_sys_motion
        /\ l.pl_block = p
    BY <1>1, <1>4
  <2>. HIDE DEF l
  <2>2. CASE sys' = l
    BY <2>1, <2>2
  <2>3. CASE sys' = [l EXCEPT !.end_motion = TRUE]
    BY <2>1, <2>3 DEF SameControl, Machine
  <2>4. ASSUME NEW m, sys' = [l EXCEPT !.pl_block = "none", !.queue = m]
        PROVE  <1>5!:
    BY <2>1, <2>4 DEF SameControl, Machine
  <2>5. ASSUME NEW m, sys' = [l EXCEPT !.end_motion = TRUE, !.segments = m]
        PROVE  <1>5!:
    BY <2>1, <2>5 DEF SameControl, Machine
  <2>6. CASE PrepSegment
    BY <2>2, <2>6 DEF PrepSegment, l
  <2>7. CASE PrepBlockEnd
    <3>1. \/ sys' = [l EXCEPT !.end_motion = TRUE]
          \/ sys' = [l EXCEPT !.pl_block = "none", !.queue = q]
      BY <2>1, <2>7 DEF PrepBlockEnd, l, Machine
    <3>. HIDE DEF q
    <3>. QED
      BY <2>3, <2>4, <3>1
  <2>8. CASE PrepStandstill
    <3>1. PICK last \in {0, 1} : sys' = [l EXCEPT !.end_motion = TRUE, !.segments = sys.segments + last]
      BY <2>8 DEF PrepStandstill, l
    <3>. QED
      BY <2>5, <3>1
  <2>. QED
    BY <2>6, <2>7, <2>8
<1>. QED
  BY <1>3, <1>5

LEMMA StepPrep ==
    ASSUME TypeOK, IInv, NoRace, PrepSegment \/ PrepBlockEnd \/ PrepStandstill
    PROVE  IInv'
<1>1. /\ SameControl(sys, sys') /\ sys'.handler = sys.handler /\ sys'.stepping = sys.stepping
      /\ sys'.execute_hold = sys.execute_hold
      /\ sys'.execute_sys_motion = sys.execute_sys_motion
      /\ sys.execute_hold /\ sys.pl_block # "run" => sys'.pl_block # "run"
  BY PrepFacts
<1>2. PrepDone
  BY DEF PrepSegment, PrepBlockEnd, PrepStandstill
<1>3. Shape(sys)'
  BY <1>1 DEF IInv, SameControl, Shape, Moves, Delays, Fits, Parkers
<1>4. EndInv' /\ WaitInv' /\ DoorInv'
  BY <1>1, <1>2 DEF IInv, SameControl, PrepDone, EndInv, WaitInv, DoorInv, Still, Waits, Knows, Guarded
<1>5. ResetInv'
  BY <1>1, <1>2 DEF IInv, SameControl, PrepDone, ResetInv, Cleared
<1>. QED
  BY <1>3, <1>4, <1>5 DEF IInv

\* The rest of state_await_resume after its delay, for a feed hold.
LEMMA AfterHold ==
    ASSUME NEW s \in Machine, s.state = "HOLD", ~s.stepping, ~s.execute_hold, ~s.execute_sys_motion,
           s.delays = << >>
    PROVE  Out(Resumed(s)) /\ Resumed(s).state \in {"IDLE", "CYCLE"}
<1>. DEFINE u == SetIdle(s)
            v == [u EXCEPT !.execute_hold = s.execute_hold, !.end_motion = s.end_motion,
                           !.execute_sys_motion = s.execute_sys_motion]
            t == Resumed(s)
<1>1. /\ u \in Machine /\ u.state = "IDLE" /\ u.handler = "idle" /\ u.pending = "IDLE" /\ ~u.suspend
      /\ ~u.execute_hold /\ ~u.execute_sys_motion /\ ~u.stepping /\ u.delays = << >>
  BY IdleFacts, TypeIdle
<1>2. t = SetCycle(v)
  BY DEF Resumed
<1>. HIDE DEF u, t
<1>3. /\ v \in Machine /\ v.state = "IDLE" /\ v.handler = "idle" /\ v.pending = "IDLE" /\ ~v.suspend
      /\ ~v.execute_hold /\ ~v.execute_sys_motion /\ ~v.stepping /\ v.delays = << >>
  BY <1>1 DEF Machine
<1>. HIDE DEF v
<1>4. t = v \/ /\ t.state = "CYCLE" /\ t.handler = "cycle" /\ t.stepping
               /\ t.pending = "IDLE" /\ t.delays = << >> /\ ~t.execute_hold /\ ~t.execute_sys_motion
  BY <1>2, <1>3, CycleFacts
<1>5. Out(t) /\ t.state \in {"IDLE", "CYCLE"}
  BY <1>3, <1>4 DEF Out, Shape, Moves, Delays, Fits, Parkers, Waits
<1>. QED
  BY <1>5 DEF t

LEMMA AfterRestore ==
    ASSUME NEW s \in Machine, s.state = "DOOR", s.handler = "await_resumed", ~s.stepping,
           ~s.execute_hold, ~s.execute_sys_motion, s.pending = "IDLE", s.delays = << >>,
           NEW t \in Restored(s)
    PROVE  Out(t)
<1>1. CASE s.restart
  <2>1. s.stepping = s.execute_sys_motion
    BY DEF Machine
  <2>. QED
    BY <1>1, <2>1, ReopenOut DEF Restored
<1>2. CASE ~s.restart /\ t \in mc_parking_motion(s)
  <2>1. /\ t.state = "DOOR" /\ t.handler = "await_resumed" /\ t.pending = "IDLE" /\ t.delays = << >>
        /\ ~t.execute_hold /\ t.stepping /\ t.execute_sys_motion
    BY <1>2, ParkFacts DEF SameControl
  <2>. QED
    BY <2>1 DEF Out, Shape, Moves, Delays, Fits, Parkers, Waits
<1>3. CASE ~s.restart /\ t \in AwaitResumed(s, {"CYCLE_COMPLETE"})
  BY <1>3, ResumedOut
<1>. QED
  BY <1>1, <1>2, <1>3 DEF Restored

LEMMA DelayFacts ==
    ASSUME TypeOK, IInv, DelayEnds, NoRace
    PROVE  /\ Out(sys') /\ sys.state \in {"HOLD", "DOOR"}
           /\ sys.state = "DOOR" => sys.handler = "await_resumed"
           /\ sys.handler = "await_resume" => sys'.state \in {"IDLE", "CYCLE"}
<1>1. /\ sys \in Machine /\ pc = "fg" /\ sys.delays # << >> /\ Shape(sys)
      /\ ~sys.stepping
  BY DEF DelayEnds, TypeOK, IInv, Shape, Moves
<1>3. /\ sys.pending = "IDLE" /\ ~sys.execute_hold /\ ~sys.execute_sys_motion
      /\ \/ sys.delays = << "resume" >> /\ sys.state = "HOLD" /\ sys.handler = "await_resume"
         \/ sys.delays = << "restore" >> /\ sys.state = "DOOR" /\ sys.handler = "await_resumed"
  BY <1>1 DEF Shape, Moves, Delays
<1>. DEFINE d == SubSeq(sys.delays, 1, Len(sys.delays) - 1)
            s == [sys EXCEPT !.delays = d]
<1>4. d = << >> /\ d \in Seq({"resume", "restore"})
  <2>1. \A w : SubSeq(<< w >>, 1, Len(<< w >>) - 1) = << >>
    OBVIOUS
  <2>2. CASE sys.delays = << "resume" >>
    BY <2>1, <2>2
  <2>3. CASE sys.delays = << "restore" >>
    BY <2>1, <2>3
  <2>. QED
    BY <1>3, <2>2, <2>3
<1>5. sys' \in IF sys.delays[Len(sys.delays)] = "resume" THEN {Resumed(s)} ELSE Restored(s)
  BY <1>1 DEF DelayEnds, Machine
<1>. HIDE DEF d
<1>6. /\ s \in Machine /\ s.state = sys.state /\ s.handler = sys.handler /\ ~s.stepping
      /\ ~s.execute_hold /\ ~s.execute_sys_motion /\ s.pending = "IDLE" /\ s.delays = << >>
  BY <1>1, <1>3, <1>4 DEF Machine
<1>. HIDE DEF s
<1>7. Out(sys') /\ (sys.handler = "await_resume" => sys'.state \in {"IDLE", "CYCLE"})
  <2>1. CASE sys.delays = << "resume" >> /\ sys.state = "HOLD"
    <3>1. sys' = Resumed(s)
      BY <1>5, <2>1
    <3>. QED
      BY <1>6, <2>1, <3>1, AfterHold
  <2>2. CASE sys.delays = << "restore" >> /\ sys.state = "DOOR" /\ sys.handler = "await_resumed"
    <3>1. sys' \in Restored(s)
      BY <1>5, <2>2
    <3>. QED
      BY <1>6, <2>2, <3>1, AfterRestore
  <2>. QED
    BY <1>3, <2>1, <2>2
<1>. QED
  BY <1>3, <1>7

LEMMA StepDelayEnds == ASSUME TypeOK, IInv, DelayEnds, NoRace PROVE IInv'
<1>1. /\ pc = "fg" /\ sys.delays # << >>
      /\ ~abort /\ ~rt_exec_alarm /\ "CYCLE_COMPLETE" \notin rt_exec_state
      /\ ResetInv /\ DoorInv
  BY DEF DelayEnds, IInv, EndInv, ResetInv
<1>2. /\ rt_exec_state' = rt_exec_state /\ rt_exec_alarm' = rt_exec_alarm /\ abort' = abort
      /\ rt_exec' = rt_exec /\ door_ajar' = door_ajar /\ pc' # "stop"
  BY DEF DelayEnds, Onward
<1>3. /\ Out(sys') /\ sys.state \in {"HOLD", "DOOR"}
      /\ sys.state = "DOOR" => sys.handler = "await_resumed"
  BY DelayFacts
<1>4. sys.state = "HOLD" => sys'.handler \in {"idle", "cycle", "await_motion_cancel"}
  <2>1. sys.state = "HOLD" => sys.handler = "await_resume"
    BY <1>1 DEF IInv, Shape, Delays
  <2>. QED
    BY <1>3, <2>1, DelayFacts DEF Out, Shape, Moves, Fits, Parkers
<1>5. Shape(sys)' /\ EndInv' /\ WaitInv'
  BY <1>1, <1>2, <1>3 DEF Out, EndInv, WaitInv
<1>6. ResetInv'
  BY <1>1, <1>2, <1>3 DEF Out, ResetInv, Cleared
<1>7. DoorInv'
  BY <1>1, <1>2, <1>3, <1>4 DEF DoorInv, Knows, Guarded
<1>. QED
  BY <1>5, <1>6, <1>7 DEF IInv

LEMMA ReinitFacts ==
    ASSUME TypeOK, IInv, Reinit, NoRace
    PROVE  /\ sys'.pending = "IDLE" /\ sys'.delays = << >> /\ ~sys'.suspend /\ ~sys'.stepping
           /\ ~sys'.execute_hold /\ ~sys'.execute_sys_motion
           /\ IF sys.state \in {"ALARM", "SLEEP"} THEN sys'.state = "ALARM" /\ sys'.handler = "noop"
              ELSE sys'.state = "IDLE" /\ sys'.handler = "idle"
<1>. DEFINE r == ResetMotion(ClearStepControl(sys))
            t == [r EXCEPT !.suspend = FALSE, !.hold_complete = FALSE]
<1>1. sys \in Machine /\ Shape(sys) /\ sys.delays = << >>
  BY DEF Reinit, TypeOK, IInv
<1>2. sys' = IF t.state \in {"ALARM", "SLEEP"} THEN SetAlarm(t) ELSE SetIdle(t)
  BY DEF Reinit
<1>3. /\ r \in Machine /\ SameControl(sys, r) /\ r.handler = sys.handler /\ ~r.stepping
      /\ ~r.execute_hold /\ ~r.execute_sys_motion
  BY <1>1, DropFacts
<1>. HIDE DEF r
<1>4. /\ t \in Machine /\ t.state = sys.state /\ t.handler = sys.handler /\ t.pending = "IDLE"
      /\ t.delays = << >> /\ ~t.suspend /\ ~t.stepping /\ ~t.execute_hold /\ ~t.execute_sys_motion
  BY <1>1, <1>3 DEF Machine, SameControl, Shape
<1>. HIDE DEF t
<1>5. CASE t.state = "ALARM"
  <2>1. sys' = t
    BY <1>2, <1>5 DEF SetAlarm
  <2>. QED
    BY <1>1, <1>4, <1>5, <2>1 DEF Shape, Moves, Fits, Parkers
<1>6. CASE t.state = "SLEEP"
  <2>1. sys' = [t EXCEPT !.state = "ALARM", !.suspend = FALSE, !.handler = "noop"]
    BY <1>2, <1>6 DEF SetAlarm
  <2>. QED
    BY <1>4, <1>6, <2>1 DEF Machine
<1>7. CASE t.state = "IDLE"
  <2>1. sys' = t
    BY <1>2, <1>7 DEF SetIdle
  <2>. QED
    BY <1>1, <1>4, <1>7, <2>1 DEF Shape, Moves, Fits, Parkers
<1>8. CASE t.state \notin {"ALARM", "SLEEP", "IDLE"}
  <2>1. sys' = SetIdle(t)
    BY <1>2, <1>8
  <2>2. t.state # "IDLE" /\ sys.state \notin {"ALARM", "SLEEP"}
    BY <1>4, <1>8
  <2>. QED
    BY <1>4, <2>1, <2>2, IdleFacts
<1>. QED
  BY <1>5, <1>6, <1>7, <1>8

LEMMA StepReinit == ASSUME TypeOK, IInv, Reinit, NoRace PROVE IInv'
<1>1. pc = "fg" /\ "MOTION_CANCEL_FAST" \notin rt_exec
  BY DEF Reinit, IInv, ResetInv
<1>2. /\ rt_exec_state' \subseteq {"SAFETY_DOOR"} /\ rt_exec_alarm' = FALSE /\ abort' = FALSE
      /\ rt_exec' = rt_exec /\ door_ajar' = door_ajar /\ pc' = pc
      /\ door_ajar => "SAFETY_DOOR" \in rt_exec_state' \/ IgnoreWhenIdle \/ sys.state \in {"ALARM", "SLEEP"}
  BY DEF Reinit
<1>3. /\ sys'.pending = "IDLE" /\ sys'.delays = << >> /\ ~sys'.suspend /\ ~sys'.stepping
      /\ ~sys'.execute_hold /\ ~sys'.execute_sys_motion
      /\ IF sys.state \in {"ALARM", "SLEEP"} THEN sys'.state = "ALARM" /\ sys'.handler = "noop"
         ELSE sys'.state = "IDLE" /\ sys'.handler = "idle"
  BY ReinitFacts
<1>4. Shape(sys)'
  BY <1>3 DEF Shape, Moves, Delays, Fits, Parkers
<1>5. EndInv' /\ WaitInv' /\ DoorInv'
  BY <1>1, <1>2, <1>3 DEF EndInv, WaitInv, Waits, DoorInv, Knows, Guarded
<1>6. ResetInv'
  BY <1>1, <1>2, <1>3 DEF ResetInv, Cleared
<1>. QED
  BY <1>4, <1>5, <1>6 DEF IInv

\* A step that raises a flag none of the invariant's parts is about.
LEMMA StepRaise ==
    ASSUME TypeOK, IInv, NoRace, NEW flag \in Flags \ {"CYCLE_COMPLETE", "RESET", "MOTION_CANCEL_FAST"},
           Raise(flag)
    PROVE  IInv'
<1>1. /\ rt_exec_state' = rt_exec_state \cup {flag}
      /\ UNCHANGED << sys, rt_exec_alarm, rt_exec, pc, door_ajar, abort >>
  BY DEF Raise
<1>2. /\ "CYCLE_COMPLETE" \in rt_exec_state' <=> "CYCLE_COMPLETE" \in rt_exec_state
      /\ "RESET" \in rt_exec_state' <=> "RESET" \in rt_exec_state
      /\ "MOTION_CANCEL_FAST" \in rt_exec_state' <=> "MOTION_CANCEL_FAST" \in rt_exec_state
      /\ "SAFETY_DOOR" \in rt_exec_state => "SAFETY_DOOR" \in rt_exec_state'
  BY <1>1
<1>3. Shape(sys)' /\ EndInv' /\ WaitInv' /\ DoorInv'
  BY <1>1, <1>2 DEF IInv, EndInv, WaitInv, DoorInv
<1>4. ResetInv'
  BY <1>1, <1>2 DEF IInv, ResetInv
<1>. QED
  BY <1>3, <1>4 DEF IInv

LEMMA StepRequests ==
    ASSUME TypeOK, IInv, NoRace,
           JogCancel \/ AutoStart \/ Sleep \/ FeedHold \/ CycleStart \/ StopCommand \/ DoorCommand
    PROVE  IInv'
<1>1. PICK flag \in Flags \ {"CYCLE_COMPLETE", "RESET", "MOTION_CANCEL_FAST"} : Raise(flag)
  BY DEF JogCancel, AutoStart, Sleep, FeedHold, CycleStart, StopCommand, DoorCommand, Command, Flags
<1>. QED
  BY <1>1, StepRaise

LEMMA StepPasses == ASSUME TypeOK, IInv, NoRace, BeginPass \/ PrepExit PROVE IInv'
<1>1. /\ UNCHANGED << sys, rt_exec_state, rt_exec_alarm, rt_exec, door_ajar, abort >>
      /\ \/ pc = "fg" /\ pc' = "pass" /\ ~abort
         \/ pc = "prep" /\ pc' = "fg"
  BY DEF BeginPass, PrepExit
<1>2. Shape(sys)' /\ EndInv' /\ WaitInv' /\ DoorInv'
  BY <1>1 DEF IInv, EndInv, WaitInv, DoorInv
<1>3. ResetInv'
  BY <1>1 DEF IInv, ResetInv
<1>. QED
  BY <1>2, <1>3 DEF IInv

LEMMA StepDoor == ASSUME TypeOK, IInv, NoRace, Door PROVE IInv'
<1>1. /\ UNCHANGED << sys, rt_exec_alarm, rt_exec, pc, abort >> /\ door_ajar' = ~door_ajar
      /\ rt_exec_state' = IF door_ajar \/ (IgnoreWhenIdle /\ sys.state \in {"IDLE", "JOG"})
                          THEN rt_exec_state ELSE rt_exec_state \cup {"SAFETY_DOOR"}
  BY DEF Door
<1>2. /\ "CYCLE_COMPLETE" \in rt_exec_state' <=> "CYCLE_COMPLETE" \in rt_exec_state
      /\ "RESET" \in rt_exec_state' <=> "RESET" \in rt_exec_state
      /\ "MOTION_CANCEL_FAST" \in rt_exec_state' <=> "MOTION_CANCEL_FAST" \in rt_exec_state
      /\ door_ajar' => "SAFETY_DOOR" \in rt_exec_state' \/ Knows(sys)
  BY <1>1 DEF TypeOK, IInv, Shape, Moves, Fits, Parkers, Knows
<1>3. Shape(sys)' /\ EndInv' /\ WaitInv' /\ DoorInv'
  BY <1>1, <1>2 DEF IInv, EndInv, WaitInv, DoorInv, Knows, Guarded
<1>4. ResetInv'
  BY <1>1, <1>2 DEF IInv, ResetInv
<1>. QED
  BY <1>3, <1>4 DEF IInv

LEMMA StepLine ==
    ASSUME TypeOK, IInv, NoRace, UNCHANGED << rt_exec_state, rt_exec_alarm, rt_exec, pc, door_ajar, abort >>,
           NEW q, sys' = [sys EXCEPT !.queue = q]
    PROVE  IInv'
<1>1. sys \in Machine
  BY DEF TypeOK
<1>2. /\ SameControl(sys, sys') /\ sys'.handler = sys.handler /\ sys'.stepping = sys.stepping
      /\ sys'.execute_hold = sys.execute_hold
      /\ sys'.execute_sys_motion = sys.execute_sys_motion /\ sys'.pl_block = sys.pl_block
  BY <1>1 DEF Machine, SameControl
<1>3. Shape(sys)'
  BY <1>2 DEF IInv, SameControl, Shape, Moves, Delays, Fits, Parkers
<1>4. EndInv' /\ WaitInv' /\ DoorInv'
  BY <1>2 DEF IInv, SameControl, EndInv, WaitInv, DoorInv, Still, Waits, Knows, Guarded
<1>5. ResetInv'
  BY <1>2 DEF IInv, SameControl, ResetInv, Cleared
<1>. QED
  BY <1>3, <1>4, <1>5 DEF IInv

LEMMA StepJog == ASSUME TypeOK, IInv, NoRace, Line \/ Jog PROVE IInv'
<1>. DEFINE q == sys.queue + 1
            t == [sys EXCEPT !.queue = q]
            u == [t EXCEPT !.state = "JOG", !.handler = "cycle"]
<1>1. /\ sys \in Machine /\ q \in 0 .. MaxBlocks /\ pc = "fg" /\ ~abort /\ sys.delays = << >>
      /\ UNCHANGED << rt_exec_state, rt_exec_alarm, rt_exec, pc, door_ajar, abort >>
  BY BoundsAssumption DEF TypeOK, Line, Jog, InMain, Machine
<1>2. sys' = t \/ (sys.state = "IDLE" /\ sys' = Start(u))
  BY <1>1 DEF Line, Jog, Machine
<1>. HIDE DEF q
<1>3. CASE sys' = t
  BY <1>1, <1>3, StepLine
<1>4. CASE sys.state = "IDLE" /\ sys' = Start(u)
  <2>1. sys.handler = "idle" /\ ~sys.execute_hold /\ ~sys.execute_sys_motion /\ sys.pending = "IDLE"
    BY <1>4 DEF IInv, Shape, Moves, Fits, Parkers
  <2>2. "CYCLE_COMPLETE" \notin rt_exec_state /\ ~rt_exec_alarm
    BY <1>4 DEF IInv, EndInv, ResetInv, Still
  <2>3. /\ u \in Machine /\ u.state = "JOG" /\ u.handler = "cycle" /\ u.pending = "IDLE" /\ u.delays = << >>
        /\ ~u.execute_hold /\ ~u.execute_sys_motion
    <3>1. t \in Machine /\ t.pending = "IDLE" /\ t.delays = << >>
          /\ ~t.execute_hold /\ ~t.execute_sys_motion
      BY <1>1, <2>1 DEF Machine
    <3>. HIDE DEF t
    <3>. QED
      BY <3>1, Names DEF Machine
  <2>. HIDE DEF u
  <2>4. /\ sys'.state = "JOG" /\ sys'.handler = "cycle" /\ sys'.pending = "IDLE" /\ sys'.delays = << >>
        /\ ~sys'.execute_hold /\ ~sys'.execute_sys_motion /\ sys'.stepping
    BY <1>4, <2>3, StartFacts DEF SameControl
  <2>5. Shape(sys)'
    BY <2>4 DEF Shape, Moves, Delays, Fits, Parkers
  <2>6. EndInv' /\ WaitInv'
    BY <1>1, <2>2, <2>4 DEF EndInv, WaitInv
  <2>7. DoorInv'
    BY <1>1, <1>4, <2>4 DEF IInv, DoorInv, Knows, Guarded
  <2>8. ResetInv'
    BY <1>1, <2>2, <2>4 DEF IInv, ResetInv, Cleared
  <2>. QED
    BY <2>5, <2>6, <2>7, <2>8 DEF IInv
<1>. QED
  BY <1>2, <1>3, <1>4

LEMMA StepUnlock == ASSUME TypeOK, IInv, NoRace, Unlock PROVE IInv'
<1>1. /\ sys \in Machine /\ pc = "fg" /\ ~abort /\ sys.delays = << >> /\ sys.state = "ALARM"
      /\ door_ajar => IgnoreWhenIdle
      /\ UNCHANGED << rt_exec_state, rt_exec_alarm, rt_exec, pc, door_ajar, abort >> /\ sys' = SetIdle(sys)
  BY DEF TypeOK, Unlock, InMain
<1>2. ~sys.stepping /\ "CYCLE_COMPLETE" \notin rt_exec_state /\ ~rt_exec_alarm
  BY <1>1 DEF IInv, Shape, Moves, Fits, Parkers, EndInv, ResetInv
<1>3. /\ sys'.state = "IDLE" /\ sys'.handler = "idle" /\ sys'.pending = "IDLE" /\ ~sys'.suspend
      /\ ~sys'.execute_hold /\ ~sys'.execute_sys_motion /\ ~sys'.stepping /\ sys'.delays = << >>
  BY <1>1, <1>2, IdleFacts
<1>4. Shape(sys)'
  BY <1>3 DEF Shape, Moves, Delays, Fits, Parkers
<1>5. EndInv' /\ WaitInv' /\ DoorInv'
  BY <1>1, <1>2, <1>3 DEF EndInv, WaitInv, Waits, DoorInv, Knows
<1>6. ResetInv'
  BY <1>1, <1>2, <1>3 DEF IInv, ResetInv, Cleared
<1>. QED
  BY <1>4, <1>5, <1>6 DEF IInv

\* The steppers are stopped: nothing else of the control changes.
LEMMA HaltFacts ==
    ASSUME NEW s \in Machine, Shape(s), NEW t,
           \E b : t = [s EXCEPT !.stepping = FALSE, !.exec_block = b]
    PROVE  /\ SameControl(s, t) /\ t.handler = s.handler /\ ~t.stepping
           /\ t.execute_hold = s.execute_hold /\ t.execute_sys_motion = s.execute_sys_motion
           /\ Shape(t)
<1>1. /\ SameControl(s, t) /\ t.handler = s.handler /\ ~t.stepping /\ t.pl_block = s.pl_block
      /\ t.execute_hold = s.execute_hold /\ t.execute_sys_motion = s.execute_sys_motion
  <2>1. PICK b : t = [s EXCEPT !.stepping = FALSE, !.exec_block = b]
    OBVIOUS
  <2>. QED
    BY <2>1 DEF Machine, SameControl
<1>. QED
  BY <1>1 DEF SameControl, Shape, Moves, Delays, Fits, Parkers

LEMMA StepTick == ASSUME TypeOK, IInv, NoRace, Tick PROVE IInv'
<1>1. sys \in Machine /\ sys.stepping /\ Shape(sys) /\ EndInv /\ ResetInv /\ WaitInv /\ DoorInv
      /\ UNCHANGED << rt_exec_alarm, rt_exec, pc, door_ajar, abort >>
  BY DEF TypeOK, IInv, Tick
<1>2. ~rt_exec_alarm
  BY <1>1 DEF ResetInv
<1>3. CASE sys.segments > 0
  <2>. DEFINE n == sys.segments - 1
  <2>1. sys' = [sys EXCEPT !.segments = n, !.exec_block = TRUE] /\ rt_exec_state' = rt_exec_state
    BY <1>1, <1>3 DEF Tick, Machine
  <2>. HIDE DEF n
  <2>2. /\ SameControl(sys, sys') /\ sys'.handler = sys.handler /\ sys'.stepping = sys.stepping
        /\ sys'.execute_hold = sys.execute_hold
        /\ sys'.execute_sys_motion = sys.execute_sys_motion /\ sys'.pl_block = sys.pl_block
    BY <1>1, <2>1 DEF Machine, SameControl
  <2>3. Shape(sys)'
    BY <1>1, <2>2 DEF SameControl, Shape, Moves, Delays, Fits, Parkers
  <2>4. EndInv' /\ WaitInv' /\ DoorInv'
    BY <1>1, <2>1, <2>2 DEF SameControl, EndInv, WaitInv, DoorInv, Still, Waits, Knows, Guarded
  <2>5. ResetInv'
    BY <1>1, <2>1, <2>2 DEF SameControl, ResetInv, Cleared
  <2>. QED
    BY <2>3, <2>4, <2>5 DEF IInv
<1>4. CASE ~(sys.segments > 0)
  <2>1. /\ sys' = [sys EXCEPT !.stepping = FALSE, !.exec_block = FALSE]
        /\ rt_exec_state' = rt_exec_state \cup {"CYCLE_COMPLETE"}
    BY <1>4 DEF Tick
  <2>2. /\ SameControl(sys, sys') /\ sys'.handler = sys.handler /\ ~sys'.stepping
        /\ sys'.execute_hold = sys.execute_hold /\ sys'.execute_sys_motion = sys.execute_sys_motion
        /\ Shape(sys')
    BY <1>1, <2>1, HaltFacts
  <2>3. sys.delays = << >> /\ ~Still(sys) /\ sys.state # "ALARM"
    BY <1>1 DEF Shape, Moves, Fits, Parkers, Still
  <2>4. EndInv' /\ WaitInv' /\ DoorInv'
    BY <1>1, <2>1, <2>2, <2>3 DEF SameControl, EndInv, WaitInv, DoorInv, Still, Knows, Guarded
  <2>5. ResetInv'
    BY <1>1, <1>2, <2>1, <2>2 DEF SameControl, ResetInv, Cleared
  <2>. QED
    BY <2>2, <2>4, <2>5 DEF IInv
<1>. QED
  BY <1>3, <1>4

LEMMA StepMcReset == ASSUME TypeOK, IInv, NoRace, mc_reset PROVE IInv'
<1>1. /\ sys \in Machine /\ Shape(sys) /\ EndInv /\ ResetInv /\ WaitInv /\ DoorInv
      /\ "RESET" \notin rt_exec_state /\ rt_exec_state' = rt_exec_state \cup {"RESET"}
      /\ UNCHANGED << rt_exec, pc, door_ajar, abort >>
  BY DEF TypeOK, IInv, mc_reset
<1>2. ~rt_exec_alarm
  BY <1>1 DEF ResetInv
<1>3. \/ sys' = sys /\ rt_exec_alarm' = rt_exec_alarm
      \/ /\ ~abort /\ rt_exec_alarm' = TRUE /\ sys' = [sys EXCEPT !.stepping = FALSE]
         /\ sys.state \in {"CYCLE", "JOG"} \/ sys.execute_hold \/ sys.execute_sys_motion
  BY DEF mc_reset, TypeOK
<1>4. CASE sys' = sys /\ rt_exec_alarm' = rt_exec_alarm
  <2>1. Shape(sys)' /\ EndInv' /\ WaitInv' /\ DoorInv'
    BY <1>1, <1>4 DEF EndInv, WaitInv, DoorInv
  <2>2. ResetInv'
    BY <1>1, <1>2, <1>4 DEF ResetInv
  <2>. QED
    BY <2>1, <2>2 DEF IInv
<1>5. CASE /\ ~abort /\ rt_exec_alarm' = TRUE /\ sys' = [sys EXCEPT !.stepping = FALSE]
           /\ sys.state \in {"CYCLE", "JOG"} \/ sys.execute_hold \/ sys.execute_sys_motion
  <2>1. /\ SameControl(sys, sys') /\ sys'.handler = sys.handler /\ ~sys'.stepping
        /\ sys'.execute_hold = sys.execute_hold /\ sys'.execute_sys_motion = sys.execute_sys_motion
        /\ Shape(sys')
    <3>1. [sys EXCEPT !.stepping = FALSE] = [sys EXCEPT !.stepping = FALSE, !.exec_block = sys.exec_block]
      BY <1>1 DEF Machine
    <3>. QED
      BY <1>1, <1>5, <3>1, HaltFacts
  <2>2. sys.state \notin {"IDLE", "ALARM"}
    BY <1>1, <1>5 DEF ResetInv, Cleared, Shape, Moves, Fits, Parkers
  <2>3. sys.delays = << >>
    BY <1>1, <1>5 DEF Shape, Moves, Delays
  <2>4. EndInv' /\ WaitInv' /\ DoorInv'
    BY <1>1, <2>1, <2>2 DEF SameControl, EndInv, WaitInv, DoorInv, Still, Knows, Guarded
  <2>5. ResetInv'
    BY <1>1, <1>5, <2>1, <2>2, <2>3 DEF SameControl, ResetInv
  <2>. QED
    BY <2>1, <2>4, <2>5 DEF IInv
<1>. QED
  BY <1>3, <1>4, <1>5

-----------------------------------------------------------------------------
(* The theorems *)

LEMMA InvInit == Init => IInv
BY DEF Init, IInv, Shape, Moves, Delays, Fits, Parkers, EndInv, ResetInv, Cleared, WaitInv, Waits, DoorInv

LEMMA InvStep == ASSUME TypeOK, IInv, [Next]_vars PROVE IInv'
<1>0. SUFFICES ASSUME NoRace' PROVE IInv'
  BY DEF IInv
<1>1. CASE UNCHANGED vars
  BY <1>1 DEF vars, IInv, NoRace, EndInv, ResetInv, WaitInv, DoorInv
<1>2. CASE Next
  <2>1. NoRace
    BY <1>0, <1>2, NotRaced
  <2>. QED
    BY <1>0, <1>2, <2>1, StepAlarm, StepReset, StepTake, StepTakeStop, StepStopNow, StepStopDone,
       StepPrep, StepPasses, StepDelayEnds, StepReinit, StepJog, StepRequests, StepUnlock, StepTick,
       StepDoor, StepMcReset
    DEF Next
<1>. QED
  BY <1>1, <1>2

LEMMA InvCorrect == Spec => []IInv
BY TypeCorrect, InvInit, InvStep, PTL DEF Spec

\* A machine that waits for cycle start stands still or is parking (state_await_hold
\* declares the hold complete only at the end of the motion).
THEOREM HeldStandsStill == Spec => []HoldStops
<1>1. ASSUME IInv PROVE HoldStops
  <2>. SUFFICES ASSUME NoRace, sys.handler = "await_resume", ~sys.execute_sys_motion
                PROVE  ~sys.stepping
    BY DEF HoldStops, HoldStopsBut, Only, NoRace
  <2>. QED
    BY <1>1 DEF IInv, Shape, Moves, Parkers
<1>. QED
  BY <1>1, InvCorrect, PTL

\* A handler that waits for the end of a motion has one to wait for, or its report, or a
\* reset (the state handlers leave only at EXEC_CYCLE_COMPLETE).
THEOREM WaitsHaveMotion == Spec => []WaitsForMotion
<1>1. ASSUME IInv PROVE WaitsForMotion
  BY <1>1 DEF IInv, WaitInv, WaitsForMotion, NoRace, Waiting, Waits
<1>. QED
  BY <1>1, InvCorrect, PTL

\* Idle, stopping and held mean what they say (state_get, protocol_exec_rt_system).
THEOREM StateIsTrue == Spec => []TrueToState
<1>1. ASSUME IInv PROVE TrueToState
  BY <1>1 DEF IInv, TrueToState, Shape, Moves, Fits, Parkers, ResetInv
<1>. QED
  BY <1>1, InvCorrect, PTL

\* Which steps start the steppers of a cycle: none of them during an abort, none while a stop
\* waits, none that moves the door.
LEMMA CycleStarts ==
    ASSUME TypeOK, IInv, Next, NoRace, NoRace', ~sys.stepping, sys'.stepping
    PROVE  door_ajar' = door_ajar /\ ~abort' /\ pc' # "stop"
<1>1. sys \in Machine /\ ResetInv
  BY DEF TypeOK, IInv
<1>2. CASE BeginPass \/ TakeReset \/ PrepExit \/ Door \/ JogCancel \/ AutoStart \/ Sleep \/ FeedHold
           \/ CycleStart \/ StopCommand \/ DoorCommand
  BY <1>2 DEF BeginPass, TakeReset, PrepExit, Door, JogCancel, AutoStart, Sleep, FeedHold,
              CycleStart, StopCommand, DoorCommand, Command, Raise
<1>3. CASE PrepSegment \/ PrepBlockEnd \/ PrepStandstill
  BY <1>3, PrepFacts
<1>4. CASE Take \/ StopNow \/ StopDone
  BY <1>1, <1>4 DEF Take, StopNow, StopDone, Taking, Stopped, Dispatch, Onward, ResetInv
<1>5. CASE DelayEnds
  BY <1>1, <1>5 DEF DelayEnds, Onward, ResetInv
<1>6. CASE TakeAlarm \/ Line \/ Jog \/ Unlock \/ Reinit
  BY <1>1, <1>6 DEF TakeAlarm, Line, Jog, Unlock, Reinit, InMain, ResetInv
<1>7. CASE TakeStop \/ Tick
  BY <1>7 DEF TakeStop, Tick, st_is_stepping
<1>8. CASE mc_reset
  <2>1. ~[sys EXCEPT !.stepping = FALSE].stepping
    BY <1>1 DEF Machine
  <2>2. sys' = sys \/ sys' = [sys EXCEPT !.stepping = FALSE]
    BY <1>8 DEF mc_reset
  <2>. QED
    BY <2>1, <2>2
<1>. QED
  BY <1>2, <1>3, <1>4, <1>5, <1>6, <1>7, <1>8 DEF Next

\* Which steps take a standing machine from the door state to a cycle.
LEMMA DoorSteps ==
    ASSUME TypeOK, IInv, Next, NoRace, NoRace', ~sys.stepping, sys'.stepping, sys.state = "DOOR"
    PROVE  DelayEnds \/ Take \/ StopNow \/ StopDone
<1>1. sys \in Machine
  BY DEF TypeOK
<1>2. ~(BeginPass \/ TakeReset \/ PrepExit \/ Door \/ JogCancel \/ AutoStart \/ Sleep \/ FeedHold
        \/ CycleStart \/ StopCommand \/ DoorCommand)
  BY DEF BeginPass, TakeReset, PrepExit, Door, JogCancel, AutoStart, Sleep, FeedHold,
         CycleStart, StopCommand, DoorCommand, Command, Raise
<1>3. ~(PrepSegment \/ PrepBlockEnd \/ PrepStandstill)
  BY PrepFacts
<1>4. ~(TakeStop \/ Tick)
  BY DEF TakeStop, Tick, st_is_stepping
<1>5. ~(TakeAlarm \/ mc_reset)
  <2>1. /\ ~[sys EXCEPT !.stepping = FALSE].stepping
        /\ [sys EXCEPT !.state = "ALARM", !.suspend = FALSE, !.handler = "noop"].stepping = sys.stepping
    BY <1>1 DEF Machine
  <2>. QED
    BY <2>1 DEF TakeAlarm, SetAlarm, mc_reset
<1>6. ~(Line \/ Jog \/ Unlock)
  <2>. DEFINE q == sys.queue + 1
  <2>1. Line \/ Jog \/ Unlock => sys' = [sys EXCEPT !.queue = q]
    BY <1>1 DEF Line, Jog, Unlock, Machine
  <2>. HIDE DEF q
  <2>2. [sys EXCEPT !.queue = q].stepping = sys.stepping
    BY <1>1 DEF Machine
  <2>. QED
    BY <2>1, <2>2
<1>7. ~Reinit
  BY ReinitFacts
<1>. QED
  BY <1>2, <1>3, <1>4, <1>5, <1>6, <1>7 DEF Next

\* A pass does not make a machine in the door state forget the open door.
LEMMA DoorStaysKnown ==
    ASSUME TypeOK, IInv, NoRace, NoRace', Take \/ StopNow \/ StopDone, sys.state = "DOOR", door_ajar,
           sys' # sys
    PROVE  Guarded(sys')
<1>1. CASE Take
  <2>1. rt_exec_state # {}
    BY <1>1 DEF Take, Dispatch
  <2>. QED
    BY <1>1, <2>1, TakeOut
<1>2. CASE StopNow
  BY <1>2, StopNowOut
<1>3. CASE StopDone
  BY <1>3 DEF StopDone, IInv, ResetInv, Shape, Moves, Fits, Parkers
<1>. QED
  BY <1>1, <1>2, <1>3

\* No cycle starts with the door open unless the door's request is still to be taken
\* (state_await_resume, state_await_resumed); with a door ignored when idle, that is so of a
\* cycle resumed from the door state.
THEOREM DoorIsRespected == Spec => NoCycleAtOpenDoor
<1>1. ASSUME TypeOK, IInv, IInv', [Next]_vars, NoRace', ~sys.stepping, sys'.stepping,
             sys'.state = "CYCLE", IgnoreWhenIdle => sys.state = "DOOR"
      PROVE  ~door_ajar \/ "SAFETY_DOOR" \in rt_exec_state'
  <2>1. Next /\ NoRace
    BY <1>1, NotRaced DEF vars
  <2>2. door_ajar' = door_ajar /\ ~abort' /\ pc' # "stop" /\ DoorInv' /\ sys' # sys
    BY <1>1, <2>1, CycleStarts DEF IInv
  <2>3. CASE ~IgnoreWhenIdle
    BY <1>1, <2>2, <2>3 DEF DoorInv, Knows, Guarded
  <2>4. CASE IgnoreWhenIdle /\ DelayEnds
    <3>1. ~abort /\ pc = "fg" /\ rt_exec_state' = rt_exec_state /\ DoorInv
      BY <1>1, <2>1, <2>4 DEF DelayEnds, IInv, ResetInv
    <3>2. sys.handler = "await_resumed"
      BY <1>1, <2>1, <2>4, DelayFacts
    <3>. QED
      BY <3>1, <3>2 DEF DoorInv, Knows, Guarded
  <2>5. CASE IgnoreWhenIdle /\ (Take \/ StopNow \/ StopDone)
    <3>1. door_ajar => Guarded(sys')
      BY <1>1, <2>1, <2>2, <2>5, DoorStaysKnown
    <3>. QED
      BY <1>1, <3>1 DEF Guarded
  <2>6. IgnoreWhenIdle => DelayEnds \/ Take \/ StopNow \/ StopDone
    BY <1>1, <2>1, DoorSteps
  <2>. QED
    BY <2>3, <2>4, <2>5, <2>6
<1>. QED
  BY <1>1, TypeCorrect, InvCorrect, PTL DEF Spec, NoCycleAtOpenDoor

=============================================================================
