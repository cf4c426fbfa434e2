------------------------------- MODULE Stepper -------------------------------
(***************************************************************************)
(* The segment buffer of grbl/stepper.c.  The foreground (st_prep_buffer)   *)
(* cuts the motions of the planner into segments of whole steps, held in a  *)
(* ring of S slots; the step interrupt takes the segments out.  What a      *)
(* segment needs of its motion is copied to one of S - 1 stepper blocks, so *)
(* that the planner may discard the motion before its last step is taken.   *)
(*                                                                         *)
(* The callers that change the course of the buffer are modelled with it:   *)
(* cycle start and end, feed hold, safety door with its parking motions     *)
(* (grbl/state_machine.c), motion cancel and stop.  Parking moves one axis  *)
(* from the place of the hold, 0, by way of Pullout to Target, and back.    *)
(* Speeds are reduced to whether the motion being cut is at rest.           *)
(***************************************************************************)
EXTENDS Integers, Sequences

CONSTANTS S,            \* SEGMENT_BUFFER_SIZE
          Lines,        \* bound on the motions queued between two resets
          Steps,        \* step events of each of them
          Pullout,      \* steps from the place of the hold to the retract waypoint
          Target,       \* steps from there to the parking target
          MaxDoors      \* bound on feed holds and door openings between two resets

ASSUME SAssumption == S \in Nat /\ S >= 4
ASSUME StepsAssumption == Lines \in Nat /\ Steps \in Nat \ {0}
ASSUME ParkAssumption == Pullout \in Nat \ {0} /\ Target \in Nat /\ Target > Pullout
ASSUME MaxDoorsAssumption == MaxDoors \in Nat

VARIABLES
    queue,           \* the planner's queue: numbers of motions
    planned,         \* HISTORY: motions queued since the last reset
    sys_block,       \* the system motion at the planner's free head block
    segment, head, tail,  \* segment_buffer and its two indices
    st_block,        \* st_block_buffer: the motion each block holds the data of
    prep,            \* prep and pl_block: the motion being cut
    st,              \* st and stepping: the segment being executed
    control,         \* sys.step_control
    exec_fast_hold,
    pc, wake,        \* where the foreground is in st_prep_buffer; st_wake_up follows
    sys,             \* state, handler and the pending EXEC_CYCLE_COMPLETE
    park,            \* park.flags and park.target
    parking_enabled, \* settings.parking.flags.enabled, and the machine can park
    pos, done,       \* HISTORY: the parking axis; steps taken of each motion
    doors, races     \* HISTORY: holds and door openings; coincidences met

planner == << queue, planned, sys_block >>
ring == << segment, head, tail >>
history == << pos, done, doors >>
vars == << planner, ring, st_block, prep, st, control, exec_fast_hold, pc, wake, sys, park,
           parking_enabled, history, races >>

None == -1
Slots == 0 .. S - 1
Blocks == 0 .. S - 2

\* A motion is known by what it does: a line by its number, a parking motion by
\* where it starts and ends.
Line(i) == << "line", i, i >>
Park(a, b) == << "park", a, b >>
Motions == {Line(i) : i \in 0 .. Lines} \cup {"park"} \X Int \X Int
Distance(a, b) == IF a < b THEN b - a ELSE a - b
StepCount(m) == IF m[1] = "line" THEN Steps ELSE Distance(m[2], m[3])

NoMotion == Line(0)
NoSegment == [exec_block |-> 0, n_step |-> 0, of |-> NoMotion, at |-> 0]

NextSlot(i) == (i + 1) % S
PrevSlot(i) == (i + S - 1) % S

\* Mutant: one stepper block too many.
NextBlock_Wide(b) == (b + 1) % S

NextBlock(b) == (b + 1) % (S - 1)

\* The slots of the segments the interrupt has still to finish.
Ahead(i) == (i - tail) % S
InRing == {i \in Slots : Ahead(i) < Ahead(head)}

NoControl == [execute_hold |-> FALSE, end_motion |-> FALSE, execute_sys_motion |-> FALSE]

PrepReset ==
    [pl_block |-> "none", velocity_profile |-> FALSE, parking |-> FALSE,
     hold_partial_block |-> FALSE, block |-> 0, steps_remaining |-> 0, at_rest |-> TRUE,
     last_block |-> 0, last_steps |-> 0, hold_block |-> NoMotion]

StReset == [stepping |-> FALSE, exec_segment |-> None, exec_block |-> None, step_count |-> 0,
            traces |-> NoMotion]

ParkReset == [motion |-> FALSE, restart |-> FALSE, target |-> 0]

\* What plan_reset and st_reset leave behind.
ResetState ==
    /\ queue' = << >> /\ planned' = 0 /\ sys_block' = NoMotion
    /\ segment' = [i \in Slots |-> NoSegment] /\ head' = 0 /\ tail' = 0
    /\ st_block' = [b \in Blocks |-> NoMotion]
    /\ prep' = PrepReset /\ st' = StReset /\ control' = NoControl
    /\ exec_fast_hold' = FALSE /\ pc' = "loop" /\ wake' = FALSE
    /\ sys' = [state |-> "IDLE", handler |-> "idle", complete |-> FALSE]
    /\ park' = ParkReset
    /\ pos' = 0 /\ done' = [i \in 1 .. Lines |-> 0] /\ doors' = 0 /\ races' = {}
    /\ UNCHANGED parking_enabled

Init ==
    /\ queue = << >> /\ planned = 0 /\ sys_block = NoMotion
    /\ segment = [i \in Slots |-> NoSegment] /\ head = 0 /\ tail = 0
    /\ st_block = [b \in Blocks |-> NoMotion]
    /\ prep = PrepReset /\ st = StReset /\ control = NoControl
    /\ exec_fast_hold = FALSE /\ pc = "loop" /\ wake = FALSE
    /\ sys = [state |-> "IDLE", handler |-> "idle", complete |-> FALSE]
    /\ park = ParkReset /\ parking_enabled \in BOOLEAN
    /\ pos = 0 /\ done = [i \in 1 .. Lines |-> 0] /\ doors = 0 /\ races = {}

-----------------------------------------------------------------------------
(* Coincidences *)

\* The motion stopped short: there is more of it to cut, at speed.
Uncut == ~control.end_motion /\ ~prep.at_rest

\* The buffer still holds part of the motion that was running; what is left of it
\* waits for a motion that is not in the planner's queue.
Unfinished == Uncut \/ head # tail
Stranded == queue = << >> /\ head # tail

Goes(handlers, next) == sys.handler \in handlers /\ sys'.handler \in next

\* The coincidences a step meets, each described in the README.
Met ==
    {r \in {"late", "cut_in_hold", "start_in_retract", "door_in_hold", "door_after_hold",
            "end_dropped", "taken_back"} :
      \/ r = "late"
         /\ \/ st.stepping /\ ~st'.stepping /\ Uncut /\ sys.state # "CYCLE"
            \/ Goes({"cycle"}, {"await_hold"}) /\ sys.complete /\ Unfinished
            \/ Goes({"cycle"}, {"idle"}) /\ Stranded
            \/ sys.state = "IDLE" /\ sys'.state = "DOOR" /\ Unfinished
      \/ r = "cut_in_hold" /\ sys.state \in {"HOLD", "DOOR"} /\ sys'.state = "IDLE" /\ Stranded
      \/ r = "start_in_retract" /\ control.execute_sys_motion
         /\ Goes({"await_resume"}, {"restore", "await_resumed", "cycle", "idle"})
      \/ r = "door_in_hold" /\ sys.state = "HOLD" /\ sys'.state = "DOOR" /\ sys.handler = "await_hold"
      \/ r = "door_after_hold" /\ sys.state = "HOLD" /\ sys'.state = "DOOR"
         /\ sys.handler = "await_resume"
      \/ r = "end_dropped" /\ sys.complete /\ ~sys'.complete
         /\ Goes({"restore", "await_resumed"}, {"await_restart_retract"})
      \/ r = "taken_back" /\ head' # head /\ Goes({"cycle"}, {"await_motion_cancel"})
         /\ segment[PrevSlot(head')].exec_block # prep.block}

Note == races' = races \cup Met

-----------------------------------------------------------------------------
(* The step interrupt *)

\* One step event of motion m.
TakeStep(m) ==
    /\ done' = IF m[1] = "line" THEN [done EXCEPT ![m[2]] = @ + 1] ELSE done
    /\ pos' = IF m[1] = "line" THEN pos ELSE IF m[2] < m[3] THEN pos + 1 ELSE pos - 1

\* A segment of another block than the one being executed starts a new motion.
StartsBlock(b) == st.exec_block # b

\* stepper_driver_interrupt_handler.  A segment whose steps are all taken is given
\* back at once, and given up at the next tick.
Tick ==
    /\ st.stepping
    /\ LET over == st.exec_segment = None \/ (st.exec_block # None /\ st.step_count = 0)
           taken == IF over THEN tail ELSE st.exec_segment
           b == segment[taken].exec_block
           m == IF over /\ StartsBlock(b) THEN st_block[b] ELSE st.traces
           count == IF over THEN segment[taken].n_step ELSE st.step_count
       IN  /\ ~over \/ head # tail
           /\ st' = [st EXCEPT !.exec_segment = taken, !.exec_block = IF over THEN b ELSE @,
                               !.traces = m, !.step_count = IF count = 0 THEN 0 ELSE count - 1]
           /\ tail' = IF count <= 1 THEN NextSlot(tail) ELSE tail
           /\ TakeStep(m)
    /\ UNCHANGED << planner, segment, head, st_block, prep, control, exec_fast_hold, pc, wake,
                    sys, park, parking_enabled, doors >>
    /\ Note

\* Mutant: the interrupt does not forget the block it was executing.
RunDry_Remembers ==
    /\ st.stepping /\ head = tail
    /\ st.exec_segment = None \/ st.step_count = 0
    /\ st' = [StReset EXCEPT !.exec_block = st.exec_block, !.traces = st.traces]
    /\ sys' = [sys EXCEPT !.complete = TRUE]
    /\ UNCHANGED << planner, ring, st_block, prep, control, exec_fast_hold, pc, wake, park,
                    parking_enabled, history >>
    /\ Note

\* Mutant: only the end of a cycle is reported, not that of a hold.
RunDry_InCycle ==
    /\ st.stepping /\ head = tail
    /\ st.exec_segment = None \/ st.step_count = 0
    /\ st' = StReset
    /\ sys' = [sys EXCEPT !.complete = @ \/ sys.state = "CYCLE"]
    /\ UNCHANGED << planner, ring, st_block, prep, control, exec_fast_hold, pc, wake, park,
                    parking_enabled, pos, done, doors >>
    /\ Note

\* The interrupt finds the ring empty: st_go_idle, and the cycle is complete.
RunDry ==
    /\ st.stepping /\ head = tail
    /\ st.exec_segment = None \/ st.step_count = 0
    /\ st' = StReset
    /\ sys' = [sys EXCEPT !.complete = TRUE]
    /\ UNCHANGED << planner, ring, st_block, prep, control, exec_fast_hold, pc, wake, park,
                    parking_enabled, pos, done, doors >>
    /\ Note

-----------------------------------------------------------------------------
(* st_prep_buffer *)

foreground == << sys, park, parking_enabled, pos, done, doors, st, tail >>

\* The foreground leaves st_prep_buffer; its caller may then start the interrupt.
Leave ==
    /\ pc' = "loop" /\ wake' = FALSE
    /\ st' = IF wake THEN [st EXCEPT !.stepping = TRUE] ELSE st
    /\ UNCHANGED << sys, park, parking_enabled, pos, done, doors, tail >>

Go(where) == pc' = where /\ UNCHANGED wake /\ UNCHANGED foreground

Full == NextSlot(head) = tail

\* The motion st_prep_buffer is to cut next.
Available == IF control.execute_sys_motion THEN "sys" ELSE IF queue # << >> THEN "line" ELSE "none"

\* The checks that end a call: motion at its end, ring full, nothing to cut, and
\* segments held back until a fast hold has been planned.
PrepReturn ==
    /\ \/ pc = "prep" /\ control.end_motion
       \/ pc \in {"prep", "load"} /\ Full
       \/ pc \in {"prep", "load"} /\ prep.pl_block = "none" /\ Available = "none"
       \/ pc \in {"prep", "load"} /\ prep.pl_block # "none" /\ exec_fast_hold
    /\ Leave
    /\ UNCHANGED << planner, segment, head, st_block, prep, control, exec_fast_hold >>
    /\ Note

\* Take up a motion: a new one is copied to the next stepper block, one whose
\* profile is only to be computed again stays where it is.
Load ==
    /\ pc \in {"prep", "load"} /\ ~(pc = "prep" /\ control.end_motion) /\ ~Full
    /\ prep.pl_block = "none" /\ Available # "none"
    /\ LET m == IF Available = "sys" THEN sys_block ELSE Line(Head(queue))
       IN  IF prep.velocity_profile
           THEN /\ prep' = [prep EXCEPT !.pl_block = Available, !.velocity_profile = FALSE,
                                        !.hold_partial_block = parking_enabled /\ @ /\ prep.parking,
                                        !.parking = parking_enabled /\ @]
                /\ UNCHANGED st_block
           ELSE /\ prep' = [prep EXCEPT !.pl_block = Available, !.steps_remaining = StepCount(m),
                                        !.block = NextBlock(@)]
                /\ st_block' = [st_block EXCEPT ![NextBlock(prep.block)] = m]
    /\ exec_fast_hold' = FALSE
    /\ Go("fill")
    /\ UNCHANGED << planner, segment, head, control >>
    /\ Note

\* Ready to write the segment at the head of the ring.
Filling ==
    \/ pc = "fill"
    \/ /\ pc \in {"prep", "load"} /\ ~(pc = "prep" /\ control.end_motion) /\ ~Full
       /\ prep.pl_block # "none" /\ ~exec_fast_hold

\* HISTORY: the motion the segment is cut from, and how much of it was cut before.
NewSegment(n) ==
    LET m == st_block[prep.block]
    IN  [exec_block |-> prep.block, n_step |-> n, of |-> m, at |-> StepCount(m) - prep.steps_remaining]

\* A segment of n steps is written, not yet published.  At the end of a hold less
\* than a step may be left; a motion at rest has nothing to decelerate.
Fill(n) ==
    /\ Filling
    /\ n <= prep.steps_remaining
    /\ n = 0 => control.execute_hold
    /\ control.execute_hold /\ prep.at_rest => n = 0
    /\ segment' = [segment EXCEPT ![head] = NewSegment(n)]
    /\ IF n = 0
       THEN /\ control' = [control EXCEPT !.end_motion = TRUE]
            /\ prep' = [prep EXCEPT !.at_rest = TRUE,
                                    !.hold_partial_block = @ \/ (parking_enabled /\ ~prep.parking)]
            /\ Leave
       ELSE Go("publish") /\ UNCHANGED << control, prep >>
    /\ UNCHANGED << planner, head, st_block, exec_fast_hold >>
    /\ Note

\* The segment is handed to the interrupt; a hold may end with it, or the motion.
Publish(hold_ends, rest) ==
    /\ pc = "publish"
    /\ head' = NextSlot(head)
    /\ LET left == prep.steps_remaining - segment[head].n_step
           p == [prep EXCEPT !.steps_remaining = left, !.at_rest = FALSE]
       IN  \/ /\ left > 0 /\ ~hold_ends /\ ~rest        \* more of it to come
              /\ prep' = p /\ Go("load")
              /\ UNCHANGED << planner, control >>
           \/ /\ left > 0 /\ hold_ends /\ rest /\ control.execute_hold
              /\ control' = [control EXCEPT !.end_motion = TRUE]
              /\ prep' = [p EXCEPT !.at_rest = TRUE,
                                   !.hold_partial_block = @ \/ (parking_enabled /\ ~prep.parking)]
              /\ Leave /\ UNCHANGED planner
           \/ /\ left = 0 /\ control.execute_sys_motion /\ ~hold_ends /\ rest
              /\ control' = [control EXCEPT !.end_motion = TRUE]
              /\ prep' = [p EXCEPT !.at_rest = TRUE]
              /\ Leave /\ UNCHANGED planner
           \/ /\ left = 0 /\ ~control.execute_sys_motion /\ ~hold_ends
              /\ Len(queue) = 1 => rest
              /\ prep' = [p EXCEPT !.pl_block = "none", !.at_rest = rest]
              /\ queue' = IF queue = << >> THEN queue ELSE Tail(queue)   \* plan_discard_current_block
              /\ Go("load")
              /\ UNCHANGED << planned, sys_block, control >>
    /\ UNCHANGED << segment, st_block, exec_fast_hold >>
    /\ Note

\* A pass of the realtime protocol that has nothing else to do.
Prep ==
    /\ pc = "loop" /\ sys.state \in {"CYCLE", "HOLD", "DOOR"}
    /\ pc' = "prep"
    /\ UNCHANGED << planner, ring, st_block, prep, st, control, exec_fast_hold, wake, sys, park,
                    parking_enabled, history >>
    /\ Note

-----------------------------------------------------------------------------
(* What the callers do to the buffer *)

\* st_update_plan_block_parameters: the motion being cut is to be profiled again.
UpdateParameters(p) ==
    IF p.pl_block = "none" THEN p ELSE [p EXCEPT !.velocity_profile = TRUE, !.pl_block = "none"]

\* st_parking_setup_buffer.
ParkingSetup(p, blocks) ==
    LET saved == IF p.hold_partial_block /\ ~p.parking
                 THEN [p EXCEPT !.last_block = p.block, !.hold_block = blocks[p.block],
                                !.last_steps = p.steps_remaining]
                 ELSE p
    IN  [saved EXCEPT !.parking = TRUE, !.velocity_profile = FALSE, !.pl_block = "none"]

\* st_parking_restore_buffer: the record, and the stepper blocks.
ParkingRestore(p) ==
    IF p.hold_partial_block
    THEN [p EXCEPT !.block = p.last_block, !.steps_remaining = p.last_steps, !.parking = FALSE,
                   !.velocity_profile = TRUE, !.pl_block = "none"]
    ELSE [p EXCEPT !.velocity_profile = FALSE, !.parking = FALSE, !.pl_block = "none"]

RestoreBlocks(p, blocks) ==
    IF p.hold_partial_block THEN [blocks EXCEPT ![p.last_block] = p.hold_block] ELSE blocks

\* The buffer after the parking motion under way, if there is one.
AfterMotion(p) == IF control.execute_sys_motion THEN ParkingRestore(p) ELSE p
BlocksAfterMotion == IF control.execute_sys_motion THEN RestoreBlocks(prep, st_block) ELSE st_block

Enter(handler) == sys' = [state |-> "DOOR", handler |-> handler, complete |-> FALSE]
Pass == pc' = "prep" /\ wake' = FALSE

\* mc_parking_motion: plan the motion from where the machine is, and start it.
ParkTo(to, p, blocks, c) ==
    /\ sys_block' = Park(pos, to)
    /\ control' = [c EXCEPT !.execute_sys_motion = TRUE, !.end_motion = FALSE]
    /\ prep' = ParkingSetup(p, blocks)
    /\ st_block' = blocks
    /\ pc' = "prep" /\ wake' = TRUE

\* No motion is needed.
StandStill(p, blocks, c) ==
    /\ control' = c /\ prep' = p /\ st_block' = blocks
    /\ Pass
    /\ UNCHANGED sys_block

\* Mutant: the interrupt is started although nothing is queued.
StartCycle_Always ==
    /\ park' = ParkReset
    /\ sys' = [state |-> "CYCLE", handler |-> "cycle", complete |-> FALSE]
    /\ pc' = "prep" /\ wake' = TRUE

\* state_set(STATE_IDLE) then state_set(STATE_CYCLE): start the queued motions.
StartCycle ==
    /\ park' = ParkReset
    /\ IF queue # << >>
       THEN /\ sys' = [state |-> "CYCLE", handler |-> "cycle", complete |-> FALSE]
            /\ pc' = "prep" /\ wake' = TRUE
       ELSE /\ sys' = [state |-> "IDLE", handler |-> "idle", complete |-> FALSE]
            /\ pc' = "loop" /\ wake' = FALSE

\* state_await_resumed with its motion complete: the door cycle is over.
ResumedDone(p, blocks) ==
    /\ control' = NoControl /\ prep' = p /\ st_block' = blocks
    /\ StartCycle
    /\ UNCHANGED sys_block

\* Mutant: the cycle goes on from the waypoint.
RestoreDone_Early(p, blocks, c) == ResumedDone(p, blocks)

\* state_restore with its motion complete: back to the place of the hold.
RestoreDone(p, blocks, c) ==
    IF park.motion /\ pos # 0
    THEN ParkTo(0, p, blocks, c) /\ Enter("await_resumed") /\ park' = [park EXCEPT !.restart = FALSE]
    ELSE ResumedDone(p, blocks)

\* state_await_waypoint_retract with its motion complete: on to the parking target.
RetractDone(p, blocks, c, k) ==
    /\ IF k.motion /\ k.target < Target /\ pos # Target
       THEN ParkTo(Target, p, blocks, c)
       ELSE StandStill(p, blocks, c)
    /\ Enter("await_resume") /\ park' = k

\* state_await_hold at the end of a hold with the door open: retract to the
\* waypoint, if the machine can park and is not there yet.
HoldDoneAtDoor(p, blocks, k) ==
    LET from == IF k.restart THEN pos ELSE 0
        moves == from < Pullout /\ pos # Pullout
        parked == [k EXCEPT !.target = IF from < Pullout THEN Pullout ELSE from,
                            !.motion = IF k.restart THEN @ ELSE moves]
    IN  \/ /\ ~parking_enabled
           /\ StandStill(p, blocks, NoControl) /\ Enter("await_resume") /\ park' = k
        \/ /\ parking_enabled /\ moves
           /\ ParkTo(Pullout, p, blocks, NoControl) /\ Enter("await_waypoint_retract")
           /\ park' = parked
        \/ /\ parking_enabled /\ ~moves
           /\ RetractDone(p, blocks, NoControl, parked)

-----------------------------------------------------------------------------
(* The foreground's events, each a pass of the realtime protocol *)

untouched == << segment, head, tail, st, exec_fast_hold, parking_enabled, pos, done >>

Loop == pc = "loop"

\* plan_buffer_line adds a motion, and may re-plan the one being cut.
QueueLine(replan) ==
    /\ Loop /\ sys.state \in {"IDLE", "CYCLE"} /\ planned < Lines
    /\ queue' = Append(queue, planned + 1) /\ planned' = planned + 1
    /\ prep' = IF replan THEN UpdateParameters(prep) ELSE prep
    /\ UNCHANGED << sys_block, st_block, control, pc, wake, sys, park, doors, untouched >>
    /\ Note

\* Mutant: an override loads the motion again.
Replan_Reloads ==
    /\ Loop /\ queue # << >> /\ prep.pl_block # "none"
    /\ prep' = [prep EXCEPT !.pl_block = "none"]
    /\ UNCHANGED << planner, st_block, control, pc, wake, sys, park, doors, untouched >>
    /\ Note

\* An override in any state (plan_feed_override, plan_cycle_reinitialize).
Replan ==
    /\ Loop /\ queue # << >> /\ prep.pl_block # "none"
    /\ prep' = UpdateParameters(prep)
    /\ UNCHANGED << planner, st_block, control, pc, wake, sys, park, doors, untouched >>
    /\ Note

\* Cycle start: of queued motions, after a hold, and after the door was closed.
CycleStart ==
    /\ Loop
    /\ \/ /\ sys.state = "IDLE" /\ queue # << >>
          /\ StartCycle
          /\ UNCHANGED << sys_block, st_block, control, prep >>
       \/ /\ sys.state = "HOLD" /\ sys.handler = "await_resume"
          /\ StartCycle
          /\ UNCHANGED << sys_block, st_block, control, prep >>
       \/ /\ sys.state = "DOOR" /\ sys.handler = "await_resume"
          /\ IF park.motion
             THEN IF pos # Pullout
                  THEN /\ ParkTo(Pullout, prep, st_block, control) /\ Enter("restore")
                       /\ park' = [park EXCEPT !.restart = FALSE]
                  ELSE RestoreDone(prep, st_block, control)
             ELSE RestoreDone(prep, st_block, control)
    /\ UNCHANGED << queue, planned, doors, untouched >>
    /\ Note

\* initiate_hold in a running cycle.
InitiateHold(state) ==
    /\ sys.state = "CYCLE" /\ sys.handler = "cycle"
    /\ sys' = [sys EXCEPT !.state = state, !.handler = "await_hold"]
    /\ prep' = UpdateParameters(prep)
    /\ control' = [control EXCEPT !.execute_hold = TRUE]
    /\ UNCHANGED << sys_block, st_block >>

\* Feed hold: of a running cycle, or of a machine that stands.
FeedHold ==
    /\ Loop /\ doors < MaxDoors /\ doors' = doors + 1
    /\ \/ InitiateHold("HOLD")
       \/ /\ sys.state = "IDLE"
          /\ sys' = [sys EXCEPT !.state = "HOLD", !.handler = "await_resume"]
          /\ UNCHANGED << sys_block, st_block, prep, control >>
    /\ Pass
    /\ UNCHANGED << queue, planned, park, untouched >>
    /\ Note

\* The door is opened: a running cycle is held first (its end may be seen in the
\* same pass); a machine at rest, or already in a hold, goes on as if one had ended.
Door ==
    /\ Loop /\ doors < MaxDoors /\ doors' = doors + 1
    /\ \/ InitiateHold("DOOR") /\ park' = ParkReset /\ pc' \in {"loop", "prep"} /\ wake' = FALSE
       \/ /\ sys.state \in {"IDLE", "HOLD"}
          /\ HoldDoneAtDoor(UpdateParameters(prep), st_block, ParkReset)
    /\ UNCHANGED << queue, planned, untouched >>
    /\ Note

\* The door is opened again while the machine returns: the motion is held, and the
\* machine will retract.  The end of the motion may be dropped with the same pass.
DoorAgain ==
    /\ Loop /\ doors < MaxDoors /\ doors' = doors + 1
    /\ sys.handler \in {"restore", "await_resumed"}
    /\ \E seen \in {FALSE, sys.complete} :
         sys' = [sys EXCEPT !.handler = "await_restart_retract", !.complete = seen]
    /\ park' = [park EXCEPT !.restart = TRUE]
    /\ prep' = UpdateParameters(prep)
    /\ control' = [control EXCEPT !.execute_hold = TRUE]
    /\ Pass
    /\ UNCHANGED << planner, st_block, untouched >>
    /\ Note

\* EXEC_CYCLE_COMPLETE is seen by the handler in charge.
CycleComplete ==
    /\ Loop /\ sys.complete
    /\ LET p == AfterMotion(prep)
           blocks == BlocksAfterMotion
           c == [control EXCEPT !.execute_sys_motion = FALSE]
           held == UpdateParameters(prep)
       IN  \/ /\ sys.handler = "cycle"
              /\ sys' = [state |-> "IDLE", handler |-> "idle", complete |-> FALSE]
              /\ control' = NoControl /\ park' = ParkReset
              /\ UNCHANGED << sys_block, prep, st_block, pc, wake >>
           \/ /\ sys.handler = "await_hold" /\ sys.state = "HOLD"
              /\ sys' = [sys EXCEPT !.handler = "await_resume", !.complete = FALSE]
              /\ StandStill(held, st_block, NoControl) /\ UNCHANGED park
           \/ /\ sys.handler = "await_hold" /\ sys.state = "DOOR"
              /\ HoldDoneAtDoor(held, st_block, park)
           \/ /\ sys.handler = "await_waypoint_retract"
              /\ RetractDone(p, blocks, c, park)
           \/ /\ sys.handler = "await_resume"
              /\ sys' = [sys EXCEPT !.complete = FALSE]
              /\ StandStill(p, blocks, c) /\ UNCHANGED park
           \/ /\ sys.handler = "restore"
              /\ RestoreDone(p, blocks, c)
           \/ /\ sys.handler = "await_resumed"
              /\ ResumedDone(p, blocks)
           \/ /\ sys.handler = "await_restart_retract"
              /\ HoldDoneAtDoor(p, blocks, park)
    /\ UNCHANGED << queue, planned, doors, untouched >>
    /\ Note

\* The door is opened again while spindle and coolant are restored (park.flags.restoring), between the
\* motion to the waypoint and the one to the place of the hold.
DoorWhileRestoring ==
    /\ Loop /\ sys.complete /\ sys.handler = "restore"
    /\ doors < MaxDoors /\ doors' = doors + 1
    /\ HoldDoneAtDoor(AfterMotion(prep), BlocksAfterMotion, [park EXCEPT !.restart = TRUE])
    /\ UNCHANGED << queue, planned, untouched >>
    /\ Note

\* The head of a full ring after a fast hold: at least one segment beyond the one
\* being executed is kept, and as many more as decelerate already.
Rewound ==
    LET short == st.step_count < 3
                 \/ st.step_count < segment[st.exec_segment].n_step \div 8
        first == IF short THEN 2 ELSE 1
    IN  {(tail + k + 1) % S : k \in first .. S - 2}

\* Motion cancel and stop: a deceleration, and then a reset of planner and stepper.
MotionCancel(fast) ==
    /\ Loop /\ sys.handler = "cycle" /\ ~sys.complete
    /\ sys' = [sys EXCEPT !.handler = "await_motion_cancel"]
    /\ control' = [control EXCEPT !.execute_hold = TRUE]
    /\ exec_fast_hold' = IF fast THEN Full ELSE exec_fast_hold
    /\ IF fast /\ Full
       THEN head' \in Rewound /\ prep' = [UpdateParameters(prep) EXCEPT !.at_rest = FALSE]
       ELSE UNCHANGED head /\ prep' = UpdateParameters(prep)
    /\ Pass
    /\ UNCHANGED << planner, segment, tail, st_block, st, park, parking_enabled, history >>
    /\ Note

\* The cancelled motion has come to its end.
Cancelled ==
    /\ Loop /\ sys.handler = "await_motion_cancel" /\ sys.complete
    /\ ResetState

\* A soft reset: mc_reset stops the interrupt, the main loop restarts.  From mc_reset, which
\* comes at any moment, to the main loop the interrupt is silent, which it may be here
\* anyway, and all that the foreground does in between is thrown away: one step.
Reset == Loop /\ planned > 0 /\ ResetState

Interrupt == Tick \/ RunDry

Cutting ==
    \/ PrepReturn \/ Load
    \/ \E n \in 0 .. Steps + Target : Fill(n)
    \/ \E hold_ends, rest \in BOOLEAN : Publish(hold_ends, rest)

Foreground == Prep \/ Cutting \/ CycleComplete \/ CycleStart

Events ==
    \/ \E replan \in BOOLEAN : QueueLine(replan)
    \/ Replan \/ FeedHold \/ Door \/ DoorAgain \/ DoorWhileRestoring
    \/ \E fast \in BOOLEAN : MotionCancel(fast)

Next ==
    \/ Interrupt \/ Foreground \/ Events
    \/ Cancelled \/ Reset

Spec == Init /\ [][Next]_vars

\* The interrupt ticks while it is enabled, the foreground comes back to
\* st_prep_buffer and to its flags, and somebody presses cycle start in the end.
Fairness ==
    /\ WF_vars(Interrupt) /\ WF_vars(Cutting)
    /\ SF_vars(Prep) /\ SF_vars(CycleComplete) /\ SF_vars(CycleStart)
    /\ SF_vars(Cancelled)

FairSpec == Spec /\ Fairness

\* Bound for TLC: what follows a coincidence is not explored.
NoRace == races = {}

-----------------------------------------------------------------------------

Segments == [exec_block : Blocks, n_step : 0 .. Steps + Target, of : Motions, at : Int]
Preps == [pl_block : {"none", "line", "sys"}, velocity_profile : BOOLEAN, parking : BOOLEAN,
          hold_partial_block : BOOLEAN, block : Blocks, steps_remaining : Nat, at_rest : BOOLEAN,
          last_block : Blocks, last_steps : Nat, hold_block : Motions]
Executions == [stepping : BOOLEAN, exec_segment : Slots \cup {None},
               exec_block : Blocks \cup {None}, step_count : Nat, traces : Motions]
Handlers == {"idle", "cycle", "await_hold", "await_resume", "await_waypoint_retract", "restore",
             "await_resumed", "await_restart_retract", "await_motion_cancel"}

\* Types of the buffer and of what describes it.
TypeOK ==
    /\ queue \in Seq(1 .. Lines) /\ planned \in 0 .. Lines /\ sys_block \in Motions
    /\ segment \in [Slots -> Segments] /\ head \in Slots /\ tail \in Slots
    /\ st_block \in [Blocks -> Motions] /\ prep \in Preps /\ st \in Executions
    /\ control \in [execute_hold : BOOLEAN, end_motion : BOOLEAN, execute_sys_motion : BOOLEAN]
    /\ exec_fast_hold \in BOOLEAN
    /\ pc \in {"loop", "prep", "load", "fill", "publish"} /\ wake \in BOOLEAN
    /\ sys \in [state : {"IDLE", "CYCLE", "HOLD", "DOOR"}, handler : Handlers, complete : BOOLEAN]
    /\ park \in [motion : BOOLEAN, restart : BOOLEAN, target : Int] /\ parking_enabled \in BOOLEAN
    /\ pos \in Int /\ done \in [1 .. Lines -> Nat] /\ doors \in 0 .. MaxDoors

\* "for the worst case scenario, it will never exceed the number of accessible
\* stepper buffer segments" (stepper.c): the stepper block of a segment that is not
\* finished still holds the data of the motion the segment was cut from.  And the
\* interrupt traces that motion: it notices each change of motion, although it only
\* compares the addresses of stepper blocks.
TracesOwnMotion ==
    races = {} =>
        /\ \A i \in InRing : st_block[segment[i].exec_block] = segment[i].of
        /\ st.exec_segment # None /\ st.step_count > 0 => st.traces = segment[st.exec_segment].of

\* The interrupt finds a block to switch off when it finds the ring empty: it is
\* only ever started with a segment to execute.
NeverStartsEmpty == races = {} /\ st.stepping => st.exec_block # None \/ head # tail

\* The part of its motion that segment s is still to execute.
Begins(s) == IF s = st.exec_segment /\ st.step_count > 0
             THEN segment[s].at + segment[s].n_step - st.step_count ELSE segment[s].at
Ends(s) == segment[s].at + segment[s].n_step
CutFrom(s, i) == s \in InRing /\ segment[s].of = Line(i)

Cancelling == sys.handler = "await_motion_cancel"

\* Line i has left the planner: all of it has been cut.
Discarded(i) == i <= planned /\ \A k \in 1 .. Len(queue) : queue[k] # i

\* Every motion takes all of its steps once, and motions follow each other in the
\* order of the program, whatever holds, overrides, parking motions and pauses of
\* the foreground come in between (st_prep_buffer and the parking functions): the
\* segments of a line go on where the interrupt is, each where the one before it
\* ends, and reach the end of the line before the planner forgets it.
StepsConserved ==
    races = {} /\ ~Cancelling =>
        \A i \in 1 .. Lines :
          /\ done[i] <= Steps
          /\ done[i] > 0 => \A j \in 1 .. i - 1 : done[j] = Steps
          /\ Discarded(i) => done[i] = Steps \/ \E s \in InRing : CutFrom(s, i)
          /\ \A s \in InRing : CutFrom(s, i) =>
                /\ Begins(s) = IF s # tail /\ CutFrom(PrevSlot(s), i) THEN Ends(PrevSlot(s)) ELSE done[i]
                /\ Discarded(i) /\ ~CutFrom(NextSlot(s), i) => Ends(s) = Steps

\* No step of the program is taken while the machine is away from the place where
\* it was held, and parking never overshoots its two ends.
ParkingApart ==
    races = {} =>
        /\ pos \in 0 .. Target
        /\ st.traces[1] = "line" /\ st.step_count > 0 => pos = 0

\* Whatever was queued is executed to its end, through holds and parking and re-plans:
\* no hand-over between the foreground and the interrupt is ever missed.
RunsOut == []<>(races # {} \/ (queue = << >> /\ head = tail /\ ~st.stepping))
=============================================================================
