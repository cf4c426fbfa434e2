---------------------------- MODULE StepperProofs ----------------------------
(***************************************************************************)
(* For a ring of any number of segments, any number and length of motions, *)
(* any parking distances, and whatever is requested and when: as long as no *)
(* coincidence has been met, the generator never overwrites what the       *)
(* interrupt still reads, every step is taken once and in order, and        *)
(* parking motions and the program stay apart.                             *)
(***************************************************************************)
EXTENDS Stepper, SequenceTheorems, TLAPS

-----------------------------------------------------------------------------
(* The inductive invariant *)

\* A motion has been taken up and is not cut to its end; nothing of it is cut yet.
Started == prep.pl_block # "none" \/ prep.velocity_profile
Fresh == Started /\ prep.steps_remaining = StepCount(st_block[prep.block])

\* Who is in charge, and what that says of the steppers and of the generator.
Moving == {"await_waypoint_retract", "restore", "await_resumed", "await_restart_retract"}
Holding == {"await_hold", "await_restart_retract", "await_motion_cancel"}
Parked == sys.handler = "await_resume" /\ ~control.execute_sys_motion

Calm ==
    \/ sys.handler \in {"idle", "cycle"} 
    \/ sys.handler = "await_resume" /\ (sys.state = "HOLD" \/ ~park.motion)

StateInv ==
    /\ sys.state = "IDLE" <=> sys.handler = "idle"
    /\ sys.state = "CYCLE" <=> sys.handler \in {"cycle", "await_motion_cancel"}
    /\ sys.state = "HOLD" => sys.handler \in {"await_hold", "await_resume"}
    /\ Calm => ~control.execute_hold /\ ~control.end_motion /\ ~control.execute_sys_motion
    /\ control.execute_hold => sys.handler \in Holding
    /\ sys.handler \in {"await_hold", "await_restart_retract"} => control.execute_hold
    /\ control.execute_sys_motion => sys.state = "DOOR" /\ sys.handler \in Moving \cup {"await_resume"}
    /\ sys.handler \in Moving => control.execute_sys_motion
    /\ exec_fast_hold => sys.handler = "await_motion_cancel"

\* The interrupt.
SteppingInv ==
    /\ sys.handler = "idle" \/ Parked => ~st.stepping /\ ~wake /\ ~sys.complete
    /\ sys.complete => ~st.stepping /\ ~wake
    /\ ~st.stepping => st.exec_segment = None /\ st.exec_block = None /\ st.step_count = 0
    /\ st.exec_segment = None <=> st.exec_block = None
    /\ st.stepping /\ st.exec_block = None => head # tail
    /\ wake => /\ pc # "loop" /\ ~st.stepping /\ ~control.execute_hold /\ ~control.end_motion
               /\ ~exec_fast_hold
               /\ control.execute_sys_motion \/ queue # << >> \/ head # tail
               /\ pc = "load" => head # tail

\* Parking.
ParkInv ==
    /\ control.execute_sys_motion => prep.parking /\ parking_enabled /\ park.motion
    /\ prep.parking => control.execute_sys_motion
    /\ park.motion => parking_enabled /\ sys.state = "DOOR"
    /\ park.motion /\ ~control.execute_sys_motion =>
           sys.handler = "await_resume" /\ control.end_motion /\ head = tail
    /\ sys.state = "DOOR" /\ sys.handler = "await_hold" => ~park.restart
    /\ sys.state = "DOOR" /\ sys.handler = "await_resume" /\ parking_enabled => park.motion
    /\ sys.handler = "await_restart_retract" => park.restart
    /\ sys.handler = "await_waypoint_retract" => park.target = Pullout
    /\ prep.hold_partial_block => parking_enabled

\* The generator.
CutInv ==
    /\ prep.pl_block = "sys" => control.execute_sys_motion
    /\ prep.pl_block = "line" => ~control.execute_sys_motion
    /\ prep.pl_block # "none" => ~prep.velocity_profile
    /\ pc \in {"fill", "publish"} => prep.pl_block # "none" /\ NextSlot(head) # tail
    /\ pc = "publish" => segment[head] = NewSegment(segment[head].n_step) /\ segment[head].n_step > 0
    /\ pc = "publish" /\ control.execute_hold => ~prep.at_rest
    /\ control.end_motion => prep.at_rest /\ pc \in {"loop", "prep"}
    /\ sys.complete /\ (control.execute_sys_motion \/ sys.handler = "await_hold") =>
           head = tail /\ prep.at_rest

\* The motion that waits while others are executed in its place.
HeldInv ==
    /\ prep.hold_partial_block /\ ~prep.parking =>
           prep.velocity_profile \/ (prep.pl_block = "line" /\ control.end_motion)
    /\ parking_enabled /\ ~prep.parking /\ prep.at_rest /\ pc \notin {"fill", "publish"} =>
           prep.hold_partial_block \/ ~Started

\* A parking motion that has not been taken up, and one of which nothing is cut.
SysInv ==
    control.execute_sys_motion =>
        /\ Started \/ (wake /\ pc = "prep" /\ head = tail)
        /\ Fresh => wake /\ pc \in {"fill", "publish"} /\ head = tail
        /\ prep.at_rest /\ ~control.end_motion => wake /\ head = tail /\ pc # "load"
        /\ control.end_motion => Started /\ (prep.steps_remaining = 0 \/ control.execute_hold)

\* The queue, and the stepper block of the motion being cut.
Cut == planned - Len(queue)       \* lines cut to their end

QueueInv == /\ Len(queue) <= planned
            /\ \A i \in 1 .. Len(queue) : queue[i] = Cut + i

BlockInv ==
    /\ Started /\ ~prep.parking =>
           /\ queue # << >> /\ st_block[prep.block] = Line(Cut + 1)
           /\ prep.steps_remaining \in 1 .. Steps
    /\ prep.parking /\ prep.hold_partial_block =>
           queue # << >> /\ prep.hold_block = Line(Cut + 1) /\ prep.last_steps \in 1 .. Steps
    /\ Started /\ prep.parking =>
           st_block[prep.block] = sys_block /\ prep.steps_remaining <= StepCount(sys_block)

\* How many blocks behind the one being cut block b is.
Behind(b) == IF b <= prep.block THEN prep.block - b ELSE prep.block - b + (S - 1)
Back(s) == Behind(segment[s].exec_block)

RingInv ==
    /\ \A s \in InRing : /\ st_block[segment[s].exec_block] = segment[s].of
                         /\ segment[s].n_step > 0
                         /\ Back(s) < Ahead(head) - Ahead(s) + (IF Fresh THEN 1 ELSE 0)
                         /\ control.execute_sys_motion => segment[s].exec_block = prep.block
                         /\ ~control.execute_sys_motion =>
                              \E i \in 1 .. Lines : segment[s].of = Line(i)
    /\ \A s, t \in InRing : Ahead(s) <= Ahead(t) =>
           0 <= Back(s) - Back(t) /\ Back(s) - Back(t) <= Ahead(t) - Ahead(s)

ExecInv ==
    /\ st.step_count > 0 =>
           /\ st.exec_segment = tail /\ head # tail
           /\ st.exec_block = segment[tail].exec_block /\ st.traces = segment[tail].of
           /\ st.step_count <= segment[tail].n_step
    /\ st.exec_block # None /\ head # tail =>
           \/ segment[tail].exec_block = st.exec_block /\ st.traces = st_block[st.exec_block]
           \/ segment[tail].exec_block = NextBlock(st.exec_block) 
    /\ st.exec_block # None /\ head = tail =>
           \/ prep.block = st.exec_block /\ st.traces = st_block[st.exec_block]
           \/ Fresh /\ prep.block = NextBlock(st.exec_block)

\* Where a parking motion goes.
RouteInv ==
    control.execute_sys_motion =>
        /\ sys_block = Park(sys_block[2], sys_block[3])
        /\ sys_block[2] \in 0 .. Target /\ sys_block[3] \in 0 .. Target
        /\ sys.handler = "await_waypoint_retract" => sys_block[2] < Pullout /\ sys_block[3] = Pullout
        /\ sys.handler = "await_resume" => sys_block[2] < Target /\ sys_block[3] = Target
        /\ sys.handler = "restore" => sys_block[2] = Target /\ sys_block[3] = Pullout
        /\ sys.handler = "await_resumed" => sys_block[2] = Pullout /\ sys_block[3] = 0
        /\ sys.handler = "await_restart_retract" =>
               sys_block \in {Park(Target, Pullout), Park(Pullout, 0)}

\* The segments of the ring are cut one after the other.
NextSeg(s, t) ==
    IF segment[s].exec_block = segment[t].exec_block
    THEN segment[t].at = Ends(s)
    ELSE segment[t].at = 0 /\ Ends(s) = StepCount(segment[s].of) /\ segment[t].of[2] = segment[s].of[2] + 1

OfBlock(s) == Started /\ segment[s].exec_block = prep.block

ChainInv ==
    /\ \A s \in InRing : segment[s].at >= 0 /\ Ends(s) <= StepCount(segment[s].of)
    /\ \A s, t \in InRing : Ahead(t) = Ahead(s) + 1 => NextSeg(s, t)
    /\ \A s \in InRing : Ahead(head) = Ahead(s) + 1 =>
         /\ OfBlock(s) => Ends(s) = StepCount(segment[s].of) - prep.steps_remaining
         /\ ~OfBlock(s) => Ends(s) = StepCount(segment[s].of) /\ segment[s].of = Line(Cut)

\* How far the machine has come.
Along(m, t) == IF m[2] < m[3] THEN m[2] + t ELSE m[2] - t
CutOff == IF Started THEN StepCount(st_block[prep.block]) - prep.steps_remaining ELSE 0

PosInv ==
    /\ control.execute_sys_motion =>
           pos = Along(sys_block, IF head # tail THEN Begins(tail) ELSE CutOff)
    /\ ~control.execute_sys_motion => pos = IF park.motion THEN Target ELSE 0

\* Lines that are executed before line i begins, and none after it.
ReachedLine(i, n) == \A j \in 1 .. Lines : done[j] = IF j < i THEN Steps ELSE IF j = i THEN n ELSE 0
HeldOff == IF prep.parking THEN IF prep.hold_partial_block THEN Steps - prep.last_steps ELSE 0
                           ELSE CutOff

LineInv ==
    /\ head # tail /\ ~control.execute_sys_motion =>
           /\ ReachedLine(segment[tail].of[2], Begins(tail))
           /\ \A i \in segment[tail].of[2] .. Cut : \E s \in InRing : segment[s].of = Line(i)
           /\ \A s, t \in InRing : Ahead(s) <= Ahead(t) => segment[s].of[2] <= segment[t].of[2]
    /\ head = tail \/ control.execute_sys_motion => ReachedLine(Cut + 1, HeldOff)

\* The inductive invariant.
Control == StateInv /\ SteppingInv /\ ParkInv /\ CutInv /\ HeldInv /\ SysInv
Buffers == QueueInv /\ BlockInv /\ RingInv /\ ExecInv
Account == RouteInv /\ PosInv /\ (~Cancelling => ChainInv /\ LineInv)

Inv == Control /\ Buffers /\ Account
IInv == TypeOK /\ (races = {} => Inv)

-----------------------------------------------------------------------------
(* Indices *)

\* On the ring of slots, and on that of blocks, the remainder is a conditional wrap.
LEMMA Wraps ==
    /\ \A i \in Slots : /\ NextSlot(i) = IF i = S - 1 THEN 0 ELSE i + 1
                        /\ PrevSlot(i) = IF i = 0 THEN S - 1 ELSE i - 1
                        /\ NextSlot(i) \in Slots /\ PrevSlot(i) \in Slots
    /\ \A b \in Blocks : /\ NextBlock(b) = IF b = S - 2 THEN 0 ELSE b + 1
                         /\ NextBlock(b) \in Blocks
<1>. USE SAssumption
<1>1. ASSUME NEW i \in Slots PROVE NextSlot(i) = IF i = S - 1 THEN 0 ELSE i + 1
  <2>1. CASE i = S - 1
    <3>1. S % S = 0
      OBVIOUS
    <3>. QED
      BY <2>1, <3>1 DEF NextSlot
  <2>2. CASE i # S - 1
    <3>1. (i + 1) % S = i + 1
      BY <2>2 DEF Slots
    <3>. QED
      BY <2>2, <3>1 DEF NextSlot
  <2>. QED
    BY <2>1, <2>2
<1>2. ASSUME NEW i \in Slots PROVE PrevSlot(i) = IF i = 0 THEN S - 1 ELSE i - 1
  <2>1. CASE i = 0
    <3>1. (S - 1) % S = S - 1
      OBVIOUS
    <3>. QED
      BY <2>1, <3>1 DEF PrevSlot
  <2>2. CASE i # 0
    <3>1. i - 1 \in 0 .. S - 1 /\ i + S - 1 = S + (i - 1)
      BY <2>2 DEF Slots
    <3>2. \A k \in 0 .. S - 1 : (S + k) % S = k
      OBVIOUS
    <3>3. (i + S - 1) % S = i - 1
      BY <3>1, <3>2
    <3>. QED
      BY <2>2, <3>3 DEF PrevSlot
  <2>. QED
    BY <2>1, <2>2
<1>3. ASSUME NEW b \in Blocks PROVE NextBlock(b) = IF b = S - 2 THEN 0 ELSE b + 1
  <2>1. CASE b = S - 2
    <3>1. (S - 1) % (S - 1) = 0
      OBVIOUS
    <3>. QED
      BY <2>1, <3>1 DEF NextBlock
  <2>2. CASE b # S - 2
    <3>1. (b + 1) % (S - 1) = b + 1
      BY <2>2 DEF Blocks
    <3>. QED
      BY <2>2, <3>1 DEF NextBlock
  <2>. QED
    BY <2>1, <2>2
<1>4. \A i \in Slots : (IF i = S - 1 THEN 0 ELSE i + 1) \in Slots /\ (IF i = 0 THEN S - 1 ELSE i - 1) \in Slots
  BY DEF Slots
<1>5. \A b \in Blocks : (IF b = S - 2 THEN 0 ELSE b + 1) \in Blocks
  BY DEF Blocks
<1>. QED
  BY <1>1, <1>2, <1>3, <1>4, <1>5

\* The distance of a slot from another one, and so from the tail.
LEMMA DistanceIs ==
    ASSUME NEW i \in Slots, NEW t \in Slots
    PROVE  /\ (i - t) % S = IF t <= i THEN i - t ELSE i - t + S
           /\ (i - t) % S \in 0 .. S - 1
<1>. USE SAssumption DEF Slots
<1>1. CASE t <= i
  <2>1. (i - t) % S = i - t
    BY <1>1
  <2>. QED
    BY <1>1, <2>1
<1>2. CASE i < t
  <2>1. \A k \in 1 .. S - 1 : (-k) % S = S - k
    OBVIOUS
  <2>2. t - i \in 1 .. S - 1 /\ i - t = -(t - i)
    BY <1>2
  <2>3. (i - t) % S = S - (t - i)
    BY <2>1, <2>2
  <2>. QED
    BY <1>2, <2>3
<1>. QED
  BY <1>1, <1>2

LEMMA AheadIs ==
    ASSUME NEW i \in Slots, tail \in Slots
    PROVE  /\ Ahead(i) = IF tail <= i THEN i - tail ELSE i - tail + S
           /\ Ahead(i) \in 0 .. S - 1
BY DistanceIs DEF Ahead

\* Slots are told apart by their distance; the next one is one further.
LEMMA AheadSteps ==
    ASSUME tail \in Slots
    PROVE  /\ Ahead(tail) = 0
           /\ \A s, t \in Slots : Ahead(s) = Ahead(t) => s = t
           /\ \A s \in Slots : Ahead(s) < S - 1 => Ahead(NextSlot(s)) = Ahead(s) + 1
           /\ \A s \in Slots : NextSlot(s) = tail <=> Ahead(s) = S - 1
           /\ \A s \in Slots : s # tail => Ahead(PrevSlot(s)) = Ahead(s) - 1
<1>. USE SAssumption
<1>1. \A s \in Slots : Ahead(s) = IF tail <= s THEN s - tail ELSE s - tail + S
  BY AheadIs
<1>2. Ahead(tail) = 0 /\ \A s, t \in Slots : Ahead(s) = Ahead(t) => s = t
  BY <1>1 DEF Slots
<1>3. ASSUME NEW s \in Slots, Ahead(s) < S - 1 PROVE Ahead(NextSlot(s)) = Ahead(s) + 1
  <2>1. NextSlot(s) \in Slots /\ NextSlot(s) = IF s = S - 1 THEN 0 ELSE s + 1
    BY Wraps
  <2>2. \A n \in Slots : n = (IF s = S - 1 THEN 0 ELSE s + 1) => Ahead(n) = Ahead(s) + 1
    BY <1>1, <1>3 DEF Slots
  <2>. QED
    BY <2>1, <2>2
<1>4. ASSUME NEW s \in Slots PROVE NextSlot(s) = tail <=> Ahead(s) = S - 1
  <2>1. NextSlot(s) \in Slots /\ NextSlot(s) = IF s = S - 1 THEN 0 ELSE s + 1
    BY Wraps
  <2>. QED
    BY <1>1, <2>1 DEF Slots
<1>5. ASSUME NEW s \in Slots, s # tail PROVE Ahead(PrevSlot(s)) = Ahead(s) - 1
  <2>1. PrevSlot(s) \in Slots /\ PrevSlot(s) = IF s = 0 THEN S - 1 ELSE s - 1
    BY Wraps
  <2>2. \A n \in Slots : n = (IF s = 0 THEN S - 1 ELSE s - 1) => Ahead(n) = Ahead(s) - 1
    BY <1>1, <1>5 DEF Slots
  <2>. QED
    BY <2>1, <2>2
<1>. QED
  BY <1>2, <1>3, <1>4, <1>5

-----------------------------------------------------------------------------
(* Types *)

Controls == [execute_hold : BOOLEAN, end_motion : BOOLEAN, execute_sys_motion : BOOLEAN]
Systems == [state : {"IDLE", "CYCLE", "HOLD", "DOOR"}, handler : Handlers, complete : BOOLEAN]
Parks == [motion : BOOLEAN, restart : BOOLEAN, target : Int]

LEMMA MotionTypes ==
    /\ NoMotion \in Motions
    /\ \A i \in 0 .. Lines : Line(i) \in Motions
    /\ \A a, b \in Int : Park(a, b) \in Motions
    /\ \A m \in Motions : StepCount(m) \in Nat /\ m[2] \in Int /\ m[3] \in Int
<1>. USE StepsAssumption
<1>1. \A i \in 0 .. Lines : Line(i) \in Motions
  BY DEF Motions
<1>2. \A a, b \in Int : Park(a, b) \in Motions
  BY DEF Motions, Park
<1>3. ASSUME NEW m \in Motions PROVE StepCount(m) \in Nat /\ m[2] \in Int /\ m[3] \in Int
  BY DEF Motions, Line, StepCount, Distance
<1>. QED
  BY <1>1, <1>2, <1>3 DEF NoMotion

LEMMA StartTypes ==
    /\ NoSegment \in Segments /\ PrepReset \in Preps /\ StReset \in Executions
    /\ NoControl \in Controls /\ ParkReset \in Parks
    /\ [i \in Slots |-> NoSegment] \in [Slots -> Segments]
    /\ [b \in Blocks |-> NoMotion] \in [Blocks -> Motions]
    /\ [i \in 1 .. Lines |-> 0] \in [1 .. Lines -> Nat]
    /\ << >> \in Seq(1 .. Lines) /\ 0 \in 0 .. Lines /\ 0 \in Slots /\ 0 \in 0 .. MaxDoors
    /\ [state |-> "IDLE", handler |-> "idle", complete |-> FALSE] \in Systems
    /\ NoMotion \in Motions /\ 0 \in Int
<1>. USE SAssumption, StepsAssumption, ParkAssumption, MaxDoorsAssumption, MotionTypes
<1>1. 0 \in Blocks /\ 0 \in Slots /\ 0 \in 0 .. Steps + Target
  BY DEF Blocks, Slots
<1>2. NoSegment \in Segments
  BY <1>1 DEF NoSegment, Segments
<1>3. PrepReset \in Preps
  BY <1>1 DEF PrepReset, Preps
<1>4. StReset \in Executions
  BY DEF StReset, Executions
<1>5. NoControl \in Controls /\ ParkReset \in Parks
  BY DEF NoControl, Controls, ParkReset, Parks
<1>6. [state |-> "IDLE", handler |-> "idle", complete |-> FALSE] \in Systems
  BY DEF Systems, Handlers
<1>. QED
  BY <1>1, <1>2, <1>3, <1>4, <1>5, <1>6

LEMMA TypeInit == Init => TypeOK
BY StartTypes, Zenon DEF Init, TypeOK, Controls, Systems, Parks

LEMMA TypeReset == ASSUME TypeOK, ResetState PROVE TypeOK'
BY StartTypes, Zenon DEF ResetState, TypeOK, Controls, Systems, Parks

\* The buffer functions return records of the same types.
LEMMA BufferTypes ==
    ASSUME NEW p \in Preps, NEW blocks \in [Blocks -> Motions]
    PROVE  /\ UpdateParameters(p) \in Preps /\ ParkingSetup(p, blocks) \in Preps
           /\ ParkingRestore(p) \in Preps /\ RestoreBlocks(p, blocks) \in [Blocks -> Motions]
<1>1. UpdateParameters(p) \in Preps
  BY DEF UpdateParameters, Preps
<1>2. ParkingSetup(p, blocks) \in Preps
  BY DEF ParkingSetup, Preps
<1>3. ParkingRestore(p) \in Preps
  BY DEF ParkingRestore, Preps
<1>4. RestoreBlocks(p, blocks) \in [Blocks -> Motions]
  BY DEF RestoreBlocks, Preps
<1>. QED
  BY <1>1, <1>2, <1>3, <1>4

LEMMA TypeTick == ASSUME TypeOK, Tick PROVE TypeOK'
<1>. DEFINE over == st.exec_segment = None \/ (st.exec_block # None /\ st.step_count = 0)
            taken == IF over THEN tail ELSE st.exec_segment
            b == segment[taken].exec_block
            m == IF over /\ StartsBlock(b) THEN st_block[b] ELSE st.traces
            count == IF over THEN segment[taken].n_step ELSE st.step_count
            c == IF count = 0 THEN 0 ELSE count - 1
            e == IF over THEN b ELSE st.exec_block
<1>. USE SAssumption, StepsAssumption, ParkAssumption
<1>1. taken \in Slots
  BY DEF TypeOK, Executions
<1>2. segment[taken] \in Segments
  BY <1>1 DEF TypeOK
<1>3. b \in Blocks /\ segment[taken].n_step \in Nat
  BY <1>2 DEF Segments
<1>4. m \in Motions
  BY <1>3 DEF TypeOK, Executions
<1>5. count \in Nat /\ c \in Nat
  BY <1>3 DEF TypeOK, Executions
<1>6. e \in Blocks \cup {None}
  BY <1>3 DEF TypeOK, Executions
<1>7. /\ st' = [st EXCEPT !.exec_segment = taken, !.exec_block = e, !.traces = m, !.step_count = c]
      /\ tail' \in {tail, NextSlot(tail)} /\ TakeStep(m)
  BY DEF Tick, TypeOK, Executions
<1>. HIDE DEF m, count, c, e, b, taken, over
<1>8. st' \in Executions
  BY <1>1, <1>4, <1>5, <1>6, <1>7 DEF TypeOK, Executions
<1>9. tail' \in Slots
  BY <1>7, Wraps DEF TypeOK
<1>10. pos' \in Int /\ done' \in [1 .. Lines -> Nat]
  <2>1. pos' \in {pos, pos + 1, pos - 1} /\ (done' = done \/ done' = [done EXCEPT ![m[2]] = @ + 1])
    BY <1>7 DEF TakeStep
  <2>2. m[2] \in Int /\ pos \in Int /\ done \in [1 .. Lines -> Nat]
    BY <1>4, MotionTypes DEF TypeOK
  <2>. QED
    BY <2>1, <2>2
<1>11. UNCHANGED << queue, planned, sys_block, segment, head, st_block, prep, control, exec_fast_hold,
                    pc, wake, sys, park, parking_enabled, doors >>
  BY DEF Tick, planner
<1>. QED
  BY <1>8, <1>9, <1>10, <1>11 DEF TypeOK

LEMMA TypeRunDry == ASSUME TypeOK, RunDry PROVE TypeOK'
<1>1. st' \in Executions /\ sys' \in Systems
  BY StartTypes DEF RunDry, TypeOK, Systems
<1>2. UNCHANGED << queue, planned, sys_block, segment, head, tail, st_block, prep, control,
                   exec_fast_hold, pc, wake, park, parking_enabled, pos, done, doors >>
  BY DEF RunDry, planner, ring
<1>. QED
  BY <1>1, <1>2 DEF TypeOK, Systems

\* What leaving st_prep_buffer, and going on in it, changes.
LEMMA LeaveEffect ==
    ASSUME TypeOK, Leave
    PROVE  /\ pc' = "loop" /\ wake' = FALSE /\ st' \in Executions
           /\ st'.stepping = (wake \/ st.stepping) /\ st'.exec_segment = st.exec_segment
           /\ st'.exec_block = st.exec_block /\ st'.step_count = st.step_count
           /\ st'.traces = st.traces
           /\ UNCHANGED << sys, park, parking_enabled, pos, done, doors, tail >>
BY DEF Leave, TypeOK, Executions

LEMMA GoEffect ==
    ASSUME NEW where, Go(where)
    PROVE  /\ pc' = where
           /\ UNCHANGED << wake, st, sys, park, parking_enabled, pos, done, doors, tail >>
BY DEF Go, foreground

LEMMA TypePrepReturn == ASSUME TypeOK, PrepReturn PROVE TypeOK'
<1>1. UNCHANGED << queue, planned, sys_block, segment, head, st_block, prep, control, exec_fast_hold >>
  BY DEF PrepReturn, planner
<1>2. Leave
  BY DEF PrepReturn
<1>. QED
  BY <1>1, LeaveEffect, <1>2 DEF TypeOK

\* The motion that Load takes up.
Loaded == IF Available = "sys" THEN sys_block ELSE Line(Head(queue))

LEMMA LoadedType == ASSUME TypeOK, Available # "none" PROVE Loaded \in Motions
<1>1. CASE Available = "sys"
  BY <1>1 DEF Loaded, TypeOK
<1>2. CASE Available # "sys"
  <2>1. queue # << >>
    BY <1>2 DEF Available
  <2>2. Head(queue) \in 1 .. Lines
    <3>1. queue \in Seq(1 .. Lines)
      BY DEF TypeOK
    <3>. QED
      BY <2>1, <3>1, HeadTailProperties
  <2>3. Head(queue) \in 0 .. Lines
    BY <2>2, StepsAssumption
  <2>. QED
    BY <1>2, <2>3, MotionTypes DEF Loaded
<1>. QED
  BY <1>1, <1>2

\* The two ways of taking up a motion.
LoadProfile ==
    /\ prep.velocity_profile
    /\ prep' = [prep EXCEPT !.pl_block = Available, !.velocity_profile = FALSE,
                            !.hold_partial_block = parking_enabled /\ @ /\ prep.parking,
                            !.parking = parking_enabled /\ @]
    /\ st_block' = st_block
LoadNew ==
    /\ ~prep.velocity_profile
    /\ prep' = [prep EXCEPT !.pl_block = Available, !.steps_remaining = StepCount(Loaded),
                            !.block = NextBlock(@)]
    /\ st_block' = [st_block EXCEPT ![NextBlock(prep.block)] = Loaded]

LEMMA LoadEffect ==
    ASSUME Load
    PROVE  /\ pc \in {"prep", "load"} /\ ~(pc = "prep" /\ control.end_motion) /\ ~Full
           /\ prep.pl_block = "none" /\ Available # "none"
           /\ LoadProfile \/ LoadNew
           /\ exec_fast_hold' = FALSE /\ pc' = "fill"
           /\ UNCHANGED << queue, planned, sys_block, segment, head, tail, control, wake, st, sys,
                           park, parking_enabled, pos, done, doors >>
<1>1. Go("fill")
  BY DEF Load
<1>2. LoadProfile \/ LoadNew
  BY DEF Load, LoadProfile, LoadNew, Loaded
<1>3. /\ pc \in {"prep", "load"} /\ ~(pc = "prep" /\ control.end_motion) /\ ~Full
      /\ prep.pl_block = "none" /\ Available # "none" /\ exec_fast_hold' = FALSE
      /\ UNCHANGED << queue, planned, sys_block, segment, head, control >>
  BY DEF Load, planner
<1>. QED
  BY <1>1, <1>2, <1>3, GoEffect

LEMMA TypeLoad == ASSUME TypeOK, Load PROVE TypeOK'
<1>1. Available \in {"line", "sys"}
  BY LoadEffect DEF Available
<1>2. Loaded \in Motions /\ StepCount(Loaded) \in Nat
  BY LoadedType, MotionTypes, LoadEffect
<1>3. NextBlock(prep.block) \in Blocks
  BY Wraps DEF TypeOK, Preps
<1>4. prep' \in Preps /\ st_block' \in [Blocks -> Motions]
  <2>1. CASE LoadProfile
    <3>1. PICK h \in BOOLEAN, k \in BOOLEAN :
             prep' = [prep EXCEPT !.pl_block = Available, !.velocity_profile = FALSE,
                                  !.hold_partial_block = h, !.parking = k]
      BY <2>1, Zenon DEF LoadProfile
    <3>2. prep' \in Preps
      BY <1>1, <3>1 DEF TypeOK, Preps
    <3>. QED
      BY <2>1, <3>2 DEF TypeOK, LoadProfile
  <2>2. CASE LoadNew
    <3>1. prep' \in Preps
      BY <1>1, <1>2, <1>3, <2>2 DEF TypeOK, Preps, LoadNew
    <3>2. st_block' \in [Blocks -> Motions]
      BY <1>2, <1>3, <2>2 DEF TypeOK, LoadNew
    <3>. QED
      BY <3>1, <3>2
  <2>. QED
    BY <2>1, <2>2, LoadEffect
<1>. QED
  BY <1>4, LoadEffect DEF TypeOK

\* Fill writes the segment at the head; with no step left the hold ends there.
FillEnds ==
    /\ control.execute_hold
    /\ control' = [control EXCEPT !.end_motion = TRUE]
    /\ prep' = [prep EXCEPT !.at_rest = TRUE,
                            !.hold_partial_block = @ \/ (parking_enabled /\ ~prep.parking)]
    /\ Leave

LEMMA FillEffect ==
    ASSUME NEW n, Fill(n)
    PROVE  /\ Filling /\ n <= prep.steps_remaining /\ (control.execute_hold /\ prep.at_rest => n = 0)
           /\ segment' = [segment EXCEPT ![head] = NewSegment(n)]
           /\ (n = 0 /\ FillEnds) \/ (n # 0 /\ Go("publish") /\ UNCHANGED << control, prep >>)
           /\ UNCHANGED << queue, planned, sys_block, head, st_block, exec_fast_hold >>
BY DEF Fill, FillEnds, planner

LEMMA TypeFill == ASSUME TypeOK, NEW n \in 0 .. Steps + Target, Fill(n) PROVE TypeOK'
<1>1. segment' \in [Slots -> Segments]
  <2>1. prep.block \in Blocks /\ st_block[prep.block] \in Motions /\ prep.steps_remaining \in Nat
    BY DEF TypeOK, Preps
  <2>2. StepCount(st_block[prep.block]) \in Nat
    BY <2>1, MotionTypes
  <2>3. StepCount(st_block[prep.block]) - prep.steps_remaining \in Int
    BY <2>1, <2>2
  <2>4. NewSegment(n) \in Segments
    BY <2>1, <2>3 DEF NewSegment, Segments
  <2>. QED
    BY <2>4, FillEffect DEF TypeOK
<1>2. CASE FillEnds
  <2>1. prep' \in Preps /\ control' \in Controls
    BY <1>2 DEF FillEnds, TypeOK, Preps, Controls
  <2>. QED
    BY <1>1, <1>2, <2>1, FillEffect, LeaveEffect DEF FillEnds, TypeOK, Controls
<1>3. CASE Go("publish") /\ UNCHANGED << control, prep >>
  BY <1>1, <1>3, FillEffect, GoEffect DEF TypeOK
<1>. QED
  BY <1>2, <1>3, FillEffect

\* The four outcomes of Publish.
Left == prep.steps_remaining - segment[head].n_step
PublishMore ==
    /\ Left > 0
    /\ prep' = [prep EXCEPT !.steps_remaining = Left, !.at_rest = FALSE]
    /\ Go("load") /\ UNCHANGED << queue, planned, sys_block, control >>
PublishHeld ==
    /\ Left > 0 /\ control.execute_hold
    /\ control' = [control EXCEPT !.end_motion = TRUE]
    /\ prep' = [prep EXCEPT !.steps_remaining = Left, !.at_rest = TRUE,
                            !.hold_partial_block = @ \/ (parking_enabled /\ ~prep.parking)]
    /\ Leave /\ UNCHANGED << queue, planned, sys_block >>
PublishSys ==
    /\ Left = 0 /\ control.execute_sys_motion
    /\ control' = [control EXCEPT !.end_motion = TRUE]
    /\ prep' = [prep EXCEPT !.steps_remaining = Left, !.at_rest = TRUE]
    /\ Leave /\ UNCHANGED << queue, planned, sys_block >>
PublishLast(rest) ==
    /\ Left = 0 /\ ~control.execute_sys_motion
    /\ prep' = [prep EXCEPT !.steps_remaining = Left, !.pl_block = "none", !.at_rest = rest]
    /\ queue' = IF queue = << >> THEN queue ELSE Tail(queue)
    /\ Go("load") /\ UNCHANGED << planned, sys_block, control >>

LEMMA PublishEffect ==
    ASSUME prep \in Preps, NEW hold_ends, NEW rest, Publish(hold_ends, rest)
    PROVE  /\ pc = "publish" /\ head' = NextSlot(head)
           /\ PublishMore \/ PublishHeld \/ PublishSys \/ PublishLast(rest)
           /\ UNCHANGED << segment, st_block, exec_fast_hold >>
<1>. DEFINE p == [prep EXCEPT !.steps_remaining = Left, !.at_rest = FALSE]
<1>1. /\ [p EXCEPT !.at_rest = TRUE, !.hold_partial_block = @ \/ (parking_enabled /\ ~prep.parking)]
         = [prep EXCEPT !.steps_remaining = Left, !.at_rest = TRUE,
                        !.hold_partial_block = @ \/ (parking_enabled /\ ~prep.parking)]
      /\ [p EXCEPT !.at_rest = TRUE] = [prep EXCEPT !.steps_remaining = Left, !.at_rest = TRUE]
      /\ [p EXCEPT !.pl_block = "none", !.at_rest = rest]
         = [prep EXCEPT !.steps_remaining = Left, !.pl_block = "none", !.at_rest = rest]
  BY DEF Preps
<1>. QED
  BY <1>1 DEF Publish, PublishMore, PublishHeld, PublishSys, PublishLast, Left, planner

LEMMA TypePublish == ASSUME TypeOK, NEW hold_ends, NEW rest \in BOOLEAN, Publish(hold_ends, rest) PROVE TypeOK'
<1>1. prep \in Preps /\ head' \in Slots
  BY Wraps, PublishEffect DEF TypeOK
<1>2. Left \in Int
  BY DEF Left, TypeOK, Preps, Segments
<1>3. CASE PublishMore
  <2>0. Left \in Nat
    BY <1>2, <1>3 DEF PublishMore
  <2>1. prep' \in Preps
    BY <1>1, <2>0, <1>3 DEF PublishMore, Preps, TypeOK
  <2>. QED
    BY <1>1, <1>3, <2>1, PublishEffect, GoEffect DEF PublishMore, TypeOK
<1>4. CASE PublishHeld
  <2>0. Left \in Nat
    BY <1>2, <1>4 DEF PublishHeld
  <2>1. prep' \in Preps /\ control' \in Controls
    BY <1>1, <2>0, <1>4 DEF PublishHeld, Preps, TypeOK, Controls
  <2>. QED
    BY <1>1, <1>4, <2>1, PublishEffect, LeaveEffect DEF PublishHeld, TypeOK, Controls
<1>5. CASE PublishSys
  <2>1. prep' \in Preps /\ control' \in Controls
    BY <1>2, <1>5 DEF PublishSys, Preps, TypeOK, Controls
  <2>. QED
    BY <1>1, <1>5, <2>1, PublishEffect, LeaveEffect DEF PublishSys, TypeOK, Controls
<1>6. CASE PublishLast(rest)
  <2>1. prep' \in Preps
    BY <1>2, <1>6 DEF PublishLast, Preps, TypeOK
  <2>2. queue' \in Seq(1 .. Lines)
    BY <1>6, HeadTailProperties DEF PublishLast, TypeOK
  <2>. QED
    BY <1>1, <1>6, <2>1, <2>2, PublishEffect, GoEffect DEF PublishLast, TypeOK
<1>. QED
  BY <1>1, <1>3, <1>4, <1>5, <1>6, PublishEffect

LEMMA TypePrep == ASSUME TypeOK, Prep PROVE TypeOK'
BY DEF Prep, TypeOK, planner, ring, history

\* What the foreground's events leave alone.
Apart == UNCHANGED << segment, head, tail, st, exec_fast_hold, parking_enabled, pos, done >>

LEMMA TypeQueueLine == ASSUME TypeOK, NEW replan, QueueLine(replan) PROVE TypeOK'
<1>1. prep' \in Preps
  BY BufferTypes DEF QueueLine, TypeOK
<1>2. planned + 1 \in 1 .. Lines
  BY StepsAssumption DEF QueueLine, TypeOK
<1>3. queue' \in Seq(1 .. Lines) /\ planned' \in 0 .. Lines
  BY <1>2, AppendProperties DEF QueueLine, TypeOK
<1>4. UNCHANGED << sys_block, st_block, control, pc, wake, sys, park, doors >> /\ Apart
  BY DEF QueueLine, untouched, Apart
<1>. QED
  BY <1>1, <1>3, <1>4 DEF TypeOK, Apart

LEMMA TypeReplan == ASSUME TypeOK, Replan PROVE TypeOK'
<1>1. prep' \in Preps
  BY BufferTypes DEF Replan, TypeOK
<1>4. UNCHANGED << queue, planned, sys_block, st_block, control, pc, wake, sys, park, doors >> /\ Apart
  BY DEF Replan, untouched, Apart, planner
<1>. QED
  BY <1>1, <1>4 DEF TypeOK, Apart

\* The types of all that the foreground's events change.
EventTypes ==
    /\ sys_block' \in Motions /\ st_block' \in [Blocks -> Motions] /\ prep' \in Preps
    /\ control' \in Controls /\ pc' \in {"loop", "prep"} /\ wake' \in BOOLEAN
    /\ sys' \in Systems /\ park' \in Parks

LEMMA EventTypesDo ==
    ASSUME TypeOK, EventTypes, Apart, UNCHANGED << queue, planned >>, doors' \in 0 .. MaxDoors
    PROVE  TypeOK'
BY DEF TypeOK, EventTypes, Apart, Controls, Systems, Parks

LEMMA EnterType == ASSUME NEW h \in Handlers, Enter(h) PROVE sys' \in Systems
BY DEF Enter, Systems

LEMMA ParkToTypes ==
    ASSUME TypeOK, NEW to \in Int, NEW p \in Preps, NEW blocks \in [Blocks -> Motions],
           NEW c \in Controls, ParkTo(to, p, blocks, c)
    PROVE  /\ sys_block' \in Motions /\ st_block' \in [Blocks -> Motions] /\ prep' \in Preps
           /\ control' \in Controls /\ pc' \in {"loop", "prep"} /\ wake' \in BOOLEAN
<1>1. control' \in Controls
  BY DEF ParkTo, Controls
<1>. QED
  BY <1>1, BufferTypes, MotionTypes DEF ParkTo, TypeOK

LEMMA StandStillTypes ==
    ASSUME TypeOK, NEW p \in Preps, NEW blocks \in [Blocks -> Motions], NEW c \in Controls,
           StandStill(p, blocks, c)
    PROVE  /\ sys_block' \in Motions /\ st_block' \in [Blocks -> Motions] /\ prep' \in Preps
           /\ control' \in Controls /\ pc' \in {"loop", "prep"} /\ wake' \in BOOLEAN
BY DEF StandStill, Pass, TypeOK

LEMMA StartCycleTypes ==
    ASSUME StartCycle
    PROVE  park' \in Parks /\ sys' \in Systems /\ pc' \in {"loop", "prep"} /\ wake' \in BOOLEAN
<1>1. /\ [state |-> "CYCLE", handler |-> "cycle", complete |-> FALSE] \in Systems
      /\ [state |-> "IDLE", handler |-> "idle", complete |-> FALSE] \in Systems
  BY DEF Systems, Handlers
<1>. QED
  BY <1>1, StartTypes DEF StartCycle

LEMMA ResumedTypes ==
    ASSUME TypeOK, NEW p \in Preps, NEW blocks \in [Blocks -> Motions], ResumedDone(p, blocks)
    PROVE  EventTypes
BY StartTypes, StartCycleTypes DEF ResumedDone, EventTypes, TypeOK

LEMMA RestoreTypes ==
    ASSUME TypeOK, NEW p \in Preps, NEW blocks \in [Blocks -> Motions], NEW c \in Controls,
           RestoreDone(p, blocks, c)
    PROVE  EventTypes
<1>1. CASE park.motion /\ pos # 0
  <2>1. ParkTo(0, p, blocks, c) /\ Enter("await_resumed") /\ park' = [park EXCEPT !.restart = FALSE]
    BY <1>1 DEF RestoreDone
  <2>2. park' \in Parks /\ sys' \in Systems
    BY <2>1, EnterType DEF TypeOK, Parks, Handlers
  <2>. QED
    BY <2>1, <2>2, ParkToTypes DEF EventTypes
<1>2. CASE ~(park.motion /\ pos # 0)
  BY <1>2, ResumedTypes DEF RestoreDone
<1>. QED
  BY <1>1, <1>2

LEMMA RetractTypes ==
    ASSUME TypeOK, NEW p \in Preps, NEW blocks \in [Blocks -> Motions], NEW c \in Controls,
           NEW k \in Parks, RetractDone(p, blocks, c, k)
    PROVE  EventTypes
<1>1. sys' \in Systems /\ park' \in Parks
  BY EnterType DEF RetractDone, Handlers
<1>2. Target \in Int
  BY ParkAssumption
<1>. QED
  BY <1>1, <1>2, ParkToTypes, StandStillTypes DEF RetractDone, EventTypes

\* The cases of HoldDoneAtDoor.
HoldFrom(k) == IF k.restart THEN pos ELSE 0
HoldMoves(k) == HoldFrom(k) < Pullout /\ pos # Pullout
HoldParked(k) ==
    [k EXCEPT !.target = IF HoldFrom(k) < Pullout THEN Pullout ELSE HoldFrom(k),
              !.motion = IF k.restart THEN @ ELSE HoldMoves(k)]

LEMMA HoldCases ==
    ASSUME NEW p, NEW blocks, NEW k, HoldDoneAtDoor(p, blocks, k)
    PROVE  \/ /\ ~parking_enabled /\ StandStill(p, blocks, NoControl) /\ Enter("await_resume")
              /\ park' = k
           \/ /\ parking_enabled /\ HoldMoves(k) /\ ParkTo(Pullout, p, blocks, NoControl)
              /\ Enter("await_waypoint_retract") /\ park' = HoldParked(k)
           \/ /\ parking_enabled /\ ~HoldMoves(k) /\ RetractDone(p, blocks, NoControl, HoldParked(k))
BY DEF HoldDoneAtDoor, HoldFrom, HoldMoves, HoldParked

LEMMA HoldTypes ==
    ASSUME TypeOK, NEW p \in Preps, NEW blocks \in [Blocks -> Motions], NEW k \in Parks,
           HoldDoneAtDoor(p, blocks, k)
    PROVE  EventTypes
<1>1. HoldParked(k) \in Parks
  <2>1. HoldFrom(k) \in Int /\ HoldMoves(k) \in BOOLEAN /\ Pullout \in Int
    BY ParkAssumption DEF HoldFrom, HoldMoves, TypeOK
  <2>. QED
    BY <2>1 DEF HoldParked, Parks
<1>2. NoControl \in Controls
  BY StartTypes
<1>3. "await_resume" \in Handlers /\ "await_waypoint_retract" \in Handlers /\ Pullout \in Int
  BY ParkAssumption DEF Handlers
<1>. QED
  BY <1>1, <1>2, <1>3, HoldCases, EnterType, StandStillTypes, ParkToTypes, RetractTypes DEF EventTypes

LEMMA TypeCycleStart == ASSUME TypeOK, CycleStart PROVE TypeOK'
<1>1. Apart /\ UNCHANGED << queue, planned, doors >>
  BY DEF CycleStart, untouched, Apart
<1>2. CASE StartCycle /\ UNCHANGED << sys_block, st_block, control, prep >>
  BY <1>1, <1>2, StartCycleTypes, EventTypesDo DEF EventTypes, TypeOK, Controls
<1>3. CASE RestoreDone(prep, st_block, control)
  BY <1>1, <1>3, RestoreTypes, EventTypesDo DEF TypeOK, Controls
<1>4. CASE /\ ParkTo(Pullout, prep, st_block, control) /\ Enter("restore")
           /\ park' = [park EXCEPT !.restart = FALSE]
  <2>0. "restore" \in Handlers /\ park' \in Parks
    BY <1>4 DEF Handlers, Parks, TypeOK
  <2>1. sys' \in Systems /\ park' \in Parks /\ Pullout \in Int
    BY <1>4, <2>0, EnterType, ParkAssumption
  <2>2. prep \in Preps /\ st_block \in [Blocks -> Motions] /\ control \in Controls
    BY DEF TypeOK, Controls
  <2>3. EventTypes
    BY <1>4, <2>1, <2>2, ParkToTypes DEF EventTypes
  <2>. QED
    BY <1>1, <2>3, EventTypesDo DEF TypeOK
<1>. QED
  BY <1>2, <1>3, <1>4 DEF CycleStart

LEMMA InitiateTypes ==
    ASSUME TypeOK, NEW state \in {"HOLD", "DOOR"}, InitiateHold(state)
    PROVE  /\ sys' \in Systems /\ prep' \in Preps /\ control' \in Controls
           /\ UNCHANGED << sys_block, st_block >>
<1>1. "await_hold" \in Handlers
  BY DEF Handlers
<1>2. sys' \in Systems
  BY <1>1 DEF InitiateHold, TypeOK, Systems
<1>. QED
  BY <1>2, BufferTypes DEF InitiateHold, TypeOK, Controls

LEMMA OneMoreDoor == ASSUME TypeOK, doors < MaxDoors PROVE doors + 1 \in 0 .. MaxDoors
BY MaxDoorsAssumption DEF TypeOK

LEMMA TypeFeedHold == ASSUME TypeOK, FeedHold PROVE TypeOK'
<1>1. /\ Apart /\ UNCHANGED << queue, planned, park >> /\ doors' \in 0 .. MaxDoors
      /\ pc' = "prep" /\ wake' = FALSE
  BY OneMoreDoor DEF FeedHold, untouched, Apart, Pass
<1>2. sys_block' \in Motions /\ st_block' \in [Blocks -> Motions] /\ prep' \in Preps
      /\ control' \in Controls /\ sys' \in Systems
  <2>1. CASE InitiateHold("HOLD")
    BY <2>1, InitiateTypes DEF TypeOK
  <2>2. CASE /\ sys' = [sys EXCEPT !.state = "HOLD", !.handler = "await_resume"]
             /\ UNCHANGED << sys_block, st_block, prep, control >>
    BY <2>2 DEF TypeOK, Systems, Handlers, Controls
  <2>. QED
    BY <2>1, <2>2 DEF FeedHold
<1>. QED
  BY <1>1, <1>2, EventTypesDo DEF EventTypes, TypeOK, Parks

LEMMA TypeDoor == ASSUME TypeOK, Door PROVE TypeOK'
<1>1. /\ Apart /\ UNCHANGED << queue, planned >> /\ doors' \in 0 .. MaxDoors
  BY OneMoreDoor DEF Door, untouched, Apart
<1>2. CASE InitiateHold("DOOR") /\ park' = ParkReset /\ pc' \in {"loop", "prep"} /\ wake' = FALSE
  BY <1>1, <1>2, InitiateTypes, StartTypes, EventTypesDo DEF EventTypes, TypeOK
<1>3. CASE HoldDoneAtDoor(UpdateParameters(prep), st_block, ParkReset)
  BY <1>1, <1>3, BufferTypes, StartTypes, HoldTypes, EventTypesDo DEF TypeOK
<1>. QED
  BY <1>2, <1>3 DEF Door

LEMMA TypeDoorAgain == ASSUME TypeOK, DoorAgain PROVE TypeOK'
<1>1. /\ Apart /\ UNCHANGED << queue, planned, sys_block, st_block >> /\ doors' \in 0 .. MaxDoors
      /\ pc' = "prep" /\ wake' = FALSE
  BY OneMoreDoor DEF DoorAgain, untouched, Apart, Pass, planner
<1>2. prep' \in Preps /\ control' \in Controls /\ park' \in Parks
  BY BufferTypes DEF DoorAgain, TypeOK, Controls, Parks
<1>3. sys' \in Systems
  BY DEF DoorAgain, TypeOK, Systems, Handlers
<1>. QED
  BY <1>1, <1>2, <1>3, EventTypesDo DEF EventTypes, TypeOK

LEMMA AfterTypes ==
    ASSUME TypeOK
    PROVE  AfterMotion(prep) \in Preps /\ BlocksAfterMotion \in [Blocks -> Motions]
BY BufferTypes DEF AfterMotion, BlocksAfterMotion, TypeOK

\* The cases of CycleComplete.
SysOff == [control EXCEPT !.execute_sys_motion = FALSE]
EndCycle ==
    /\ sys.handler = "cycle"
    /\ sys' = [state |-> "IDLE", handler |-> "idle", complete |-> FALSE]
    /\ control' = NoControl /\ park' = ParkReset
    /\ UNCHANGED << sys_block, prep, st_block, pc, wake >>
EndHold ==
    /\ sys.handler = "await_hold" /\ sys.state = "HOLD"
    /\ sys' = [sys EXCEPT !.handler = "await_resume", !.complete = FALSE]
    /\ StandStill(UpdateParameters(prep), st_block, NoControl) /\ UNCHANGED park
EndHoldAtDoor ==
    /\ sys.handler = "await_hold" /\ sys.state = "DOOR"
    /\ HoldDoneAtDoor(UpdateParameters(prep), st_block, park)
EndWaypoint ==
    /\ sys.handler = "await_waypoint_retract"
    /\ RetractDone(AfterMotion(prep), BlocksAfterMotion, SysOff, park)
EndRetract ==
    /\ sys.handler = "await_resume"
    /\ sys' = [sys EXCEPT !.complete = FALSE]
    /\ StandStill(AfterMotion(prep), BlocksAfterMotion, SysOff) /\ UNCHANGED park
EndRestore ==
    sys.handler = "restore" /\ RestoreDone(AfterMotion(prep), BlocksAfterMotion, SysOff)
EndResumed ==
    sys.handler = "await_resumed" /\ ResumedDone(AfterMotion(prep), BlocksAfterMotion)
EndRestart ==
    /\ sys.handler = "await_restart_retract"
    /\ HoldDoneAtDoor(AfterMotion(prep), BlocksAfterMotion, park)

LEMMA CompleteCases ==
    ASSUME CycleComplete
    PROVE  /\ Loop /\ sys.complete /\ Apart /\ UNCHANGED << queue, planned, doors >>
           /\ \/ EndCycle \/ EndHold \/ EndHoldAtDoor \/ EndWaypoint \/ EndRetract \/ EndRestore
              \/ EndResumed \/ EndRestart
BY DEF CycleComplete, EndCycle, EndHold, EndHoldAtDoor, EndWaypoint, EndRetract, EndRestore,
       EndResumed, EndRestart, SysOff, untouched, Apart

LEMMA TypeCycleComplete == ASSUME TypeOK, CycleComplete PROVE TypeOK'
<1>1. Apart /\ UNCHANGED << queue, planned, doors >> /\ pc = "loop"
  BY CompleteCases DEF Loop
<1>2. SysOff \in Controls /\ UpdateParameters(prep) \in Preps /\ st_block \in [Blocks -> Motions]
      /\ NoControl \in Controls /\ park \in Parks /\ ParkReset \in Parks
  BY BufferTypes, StartTypes DEF SysOff, TypeOK, Controls, Parks
<1>3. CASE EndCycle
  <2>1. sys' \in Systems
    BY <1>3, StartTypes DEF EndCycle
  <2>2. sys_block' \in Motions /\ st_block' \in [Blocks -> Motions] /\ prep' \in Preps /\ wake' \in BOOLEAN
        /\ pc' = "loop" /\ control' \in Controls /\ park' \in Parks
    BY <1>1, <1>2, <1>3 DEF EndCycle, TypeOK
  <2>3. EventTypes
    BY <2>1, <2>2 DEF EventTypes
  <2>. QED
    BY <1>1, <2>3, EventTypesDo DEF TypeOK
<1>4. CASE EndHold
  <2>1. sys' \in Systems
    BY <1>4 DEF EndHold, TypeOK, Systems, Handlers
  <2>2. StandStill(UpdateParameters(prep), st_block, NoControl) /\ park' = park
    BY <1>4 DEF EndHold
  <2>3. EventTypes
    BY <1>2, <2>1, <2>2, StandStillTypes DEF EventTypes
  <2>. QED
    BY <1>1, <2>3, EventTypesDo DEF TypeOK
<1>5. CASE EndHoldAtDoor
  BY <1>1, <1>2, <1>5, HoldTypes, EventTypesDo DEF EndHoldAtDoor, TypeOK
<1>6. CASE EndWaypoint
  BY <1>1, <1>2, <1>6, AfterTypes, RetractTypes, EventTypesDo DEF EndWaypoint, TypeOK
<1>7. CASE EndRetract
  <2>1. sys' \in Systems
    BY <1>7 DEF EndRetract, TypeOK, Systems
  <2>2. StandStill(AfterMotion(prep), BlocksAfterMotion, SysOff) /\ park' = park
    BY <1>7 DEF EndRetract
  <2>3. EventTypes
    BY <1>2, <2>1, <2>2, AfterTypes, StandStillTypes DEF EventTypes
  <2>. QED
    BY <1>1, <2>3, EventTypesDo DEF TypeOK
<1>8. CASE EndRestore
  BY <1>1, <1>2, <1>8, AfterTypes, RestoreTypes, EventTypesDo DEF EndRestore, TypeOK
<1>9. CASE EndResumed
  BY <1>1, <1>9, AfterTypes, ResumedTypes, EventTypesDo DEF EndResumed, TypeOK
<1>10. CASE EndRestart
  BY <1>1, <1>2, <1>10, AfterTypes, HoldTypes, EventTypesDo DEF EndRestart, TypeOK
<1>. QED
  BY <1>3, <1>4, <1>5, <1>6, <1>7, <1>8, <1>9, <1>10, CompleteCases

LEMMA TypeDoorWhileRestoring == ASSUME TypeOK, DoorWhileRestoring PROVE TypeOK'
<1>1. [park EXCEPT !.restart = TRUE] \in Parks
  BY DEF TypeOK, Parks
<1>2. /\ Apart /\ UNCHANGED << queue, planned >> /\ doors' \in 0 .. MaxDoors
      /\ HoldDoneAtDoor(AfterMotion(prep), BlocksAfterMotion, [park EXCEPT !.restart = TRUE])
  BY OneMoreDoor DEF DoorWhileRestoring, untouched, Apart
<1>. QED
  BY <1>1, <1>2, AfterTypes, HoldTypes, EventTypesDo

\* A fast stop leaves at least two segments in the ring, from the same tail.
LEMMA RewoundHeads ==
    ASSUME TypeOK, NEW h \in Rewound
    PROVE  h \in Slots /\ Ahead(h) \in 2 .. S - 1
<1>1. PICK k \in 1 .. S - 2 : h = (tail + k + 1) % S
  BY DEF Rewound
<1>2. tail \in 0 .. S - 1 /\ tail \in Slots
  BY DEF TypeOK, Slots
<1>. USE SAssumption
<1>3. CASE tail + k + 1 < S
  <2>1. (tail + k + 1) % S = tail + k + 1
    BY <1>2, <1>3
  <2>2. h = tail + k + 1 /\ h \in Slots
    BY <1>1, <1>2, <1>3, <2>1 DEF Slots
  <2>. QED
    BY <1>2, <2>2, AheadIs
<1>4. CASE tail + k + 1 >= S
  <2>1. tail + k + 1 - S \in 0 .. S - 1
    BY <1>2, <1>4
  <2>2. \A i \in 0 .. S - 1 : (i + S) % S = i
    OBVIOUS
  <2>3. (tail + k + 1 - S) + S = tail + k + 1
    BY <1>2
  <2>4. h = tail + k + 1 - S /\ h \in Slots
    BY <1>1, <2>1, <2>2, <2>3 DEF Slots
  <2>. QED
    BY <1>2, <2>4, AheadIs
<1>. QED
  BY <1>2, <1>3, <1>4

LEMMA TypeMotionCancel == ASSUME TypeOK, NEW fast \in BOOLEAN, MotionCancel(fast) PROVE TypeOK'
<1>1. sys' \in Systems /\ control' \in Controls
  BY DEF MotionCancel, TypeOK, Systems, Handlers, Controls
<1>2. prep' \in Preps
  <2>1. \A p \in Preps : [p EXCEPT !.at_rest = FALSE] \in Preps
    BY DEF Preps
  <2>. QED
    <3>1. UpdateParameters(prep) \in Preps
      BY BufferTypes DEF TypeOK
    <3>2. prep' \in {UpdateParameters(prep), [UpdateParameters(prep) EXCEPT !.at_rest = FALSE]}
      BY DEF MotionCancel
    <3>. QED
      BY <2>1, <3>1, <3>2
<1>3. head' \in Slots
  BY RewoundHeads DEF MotionCancel, TypeOK
<1>4. exec_fast_hold' \in BOOLEAN /\ pc' = "prep" /\ wake' = FALSE
  BY DEF MotionCancel, TypeOK, Full, Pass
<1>5. UNCHANGED << queue, planned, sys_block, segment, tail, st_block, st, park, parking_enabled,
                   pos, done, doors >>
  BY DEF MotionCancel, planner, history
<1>. QED
  BY <1>1, <1>2, <1>3, <1>4, <1>5 DEF TypeOK, Systems, Controls

LEMMA TypeStep == ASSUME TypeOK, [Next]_vars PROVE TypeOK'
<1>1. CASE UNCHANGED vars
  <2>1. UNCHANGED << queue, planned, sys_block, segment, head, tail, st_block, prep, st, control,
                     exec_fast_hold, pc, wake, sys, park, parking_enabled, pos, done, doors >>
    BY <1>1 DEF vars, planner, ring, history
  <2>. QED
    BY <2>1 DEF TypeOK
<1>2. CASE Tick \/ RunDry
  BY <1>2, TypeTick, TypeRunDry
<1>3. CASE Cutting
  BY <1>3, TypePrepReturn, TypeLoad, TypeFill, TypePublish DEF Cutting
<1>4. CASE Prep \/ CycleComplete \/ CycleStart
  BY <1>4, TypePrep, TypeCycleComplete, TypeCycleStart
<1>5. CASE Events
  BY <1>5, TypeQueueLine, TypeReplan, TypeFeedHold, TypeDoor, TypeDoorAgain, TypeDoorWhileRestoring,
     TypeMotionCancel DEF Events
<1>6. CASE Cancelled \/ Reset
  BY <1>6, TypeReset DEF Cancelled, Reset
<1>. QED
  BY <1>1, <1>2, <1>3, <1>4, <1>5, <1>6 DEF Next, Interrupt, Foreground

\* The segment ring, the stepper blocks and what describes them keep their types,
\* whatever coincidences are met (stepper.c).
THEOREM TypeCorrect == Spec => []TypeOK
BY TypeInit, TypeStep, PTL DEF Spec

-----------------------------------------------------------------------------
(* Steps without coincidences *)

LEMMA Quiet ==
    ASSUME Note, races' = {}
    PROVE  /\ races = {}
           /\ ~(st.stepping /\ ~st'.stepping /\ Uncut /\ sys.state # "CYCLE")
           /\ ~(Goes({"cycle"}, {"await_hold"}) /\ sys.complete /\ Unfinished)
           /\ ~(Goes({"cycle"}, {"idle"}) /\ Stranded)
           /\ ~(sys.state = "IDLE" /\ sys'.state = "DOOR" /\ Unfinished)
           /\ ~(sys.state \in {"HOLD", "DOOR"} /\ sys'.state = "IDLE" /\ Stranded)
           /\ ~(control.execute_sys_motion
                /\ Goes({"await_resume"}, {"restore", "await_resumed", "cycle", "idle"}))
           /\ ~(sys.state = "HOLD" /\ sys'.state = "DOOR" /\ sys.handler \in {"await_hold", "await_resume"})
           /\ ~(sys.complete /\ ~sys'.complete
                /\ Goes({"restore", "await_resumed"}, {"await_restart_retract"}))
           /\ ~(head' # head /\ Goes({"cycle"}, {"await_motion_cancel"})
                /\ segment[PrevSlot(head')].exec_block # prep.block)
<1>1. races = {} /\ Met = {}
  BY DEF Note
<1>2. "late" \notin Met /\ "cut_in_hold" \notin Met /\ "start_in_retract" \notin Met
      /\ "door_in_hold" \notin Met /\ "door_after_hold" \notin Met /\ "end_dropped" \notin Met
      /\ "taken_back" \notin Met
  BY <1>1
<1>. HIDE DEF Goes, Uncut, Unfinished, Stranded
<1>3. /\ ~(st.stepping /\ ~st'.stepping /\ Uncut /\ sys.state # "CYCLE")
      /\ ~(Goes({"cycle"}, {"await_hold"}) /\ sys.complete /\ Unfinished)
      /\ ~(Goes({"cycle"}, {"idle"}) /\ Stranded)
      /\ ~(sys.state = "IDLE" /\ sys'.state = "DOOR" /\ Unfinished)
  BY <1>2, Zenon DEF Met
<1>4. ~(sys.state \in {"HOLD", "DOOR"} /\ sys'.state = "IDLE" /\ Stranded)
  BY <1>2, Zenon DEF Met
<1>5. ~(control.execute_sys_motion
        /\ Goes({"await_resume"}, {"restore", "await_resumed", "cycle", "idle"}))
  BY <1>2, Zenon DEF Met
<1>6. ~(sys.state = "HOLD" /\ sys'.state = "DOOR" /\ sys.handler \in {"await_hold", "await_resume"})
  BY <1>2, Zenon DEF Met
<1>7. ~(sys.complete /\ ~sys'.complete
        /\ Goes({"restore", "await_resumed"}, {"await_restart_retract"}))
  BY <1>2, Zenon DEF Met
<1>8. ~(head' # head /\ Goes({"cycle"}, {"await_motion_cancel"})
        /\ segment[PrevSlot(head')].exec_block # prep.block)
  BY <1>2, Zenon DEF Met
<1>. QED
  BY <1>1, <1>3, <1>4, <1>5, <1>6, <1>7, <1>8

\* The ring, and what is cut of the motion in hand, stay as they are.
Same ==
    /\ UNCHANGED << head, tail, st_block >>
    /\ \A s \in InRing : segment'[s] = segment[s]
    /\ prep'.block = prep.block /\ prep'.steps_remaining = prep.steps_remaining
    /\ Started' <=> Started
    /\ control'.execute_sys_motion <=> control.execute_sys_motion

SameExecution ==
    /\ st'.exec_segment = st.exec_segment /\ st'.exec_block = st.exec_block
    /\ st'.step_count = st.step_count /\ st'.traces = st.traces

\* The ring holds the slot at the tail unless it is empty, and never the one at the head.
LEMMA RingEnds ==
    ASSUME TypeOK
    PROVE  /\ head # tail => tail \in InRing
           /\ head = tail => InRing = {}
           /\ head \notin InRing
           /\ \A s \in InRing : head # tail
<1>1. head \in Slots /\ tail \in Slots
  BY DEF TypeOK
<1>2. Ahead(tail) = 0 /\ (Ahead(head) = Ahead(tail) => head = tail) /\ Ahead(head) \in 0 .. S - 1
      /\ \A s \in Slots : Ahead(s) \in 0 .. S - 1
  BY <1>1, AheadSteps, AheadIs
<1>. QED
  BY <1>1, <1>2, SAssumption DEF InRing

LEMMA SameBasics ==
    ASSUME TypeOK, Same
    PROVE  /\ Fresh' <=> Fresh
           /\ \A s \in InRing : Back(s)' = Back(s) /\ Ends(s)' = Ends(s) /\ (OfBlock(s)' <=> OfBlock(s))
           /\ \A s : Ahead(s)' = Ahead(s)
           /\ Ahead(head)' = Ahead(head)
           /\ InRing' = InRing /\ CutOff' = CutOff
           /\ head # tail => segment'[tail] = segment[tail]
<1>1. Fresh' <=> Fresh
  BY DEF Same, Fresh
<1>2. \A s \in InRing : Back(s)' = Back(s) /\ Ends(s)' = Ends(s)
  BY DEF Same, Back, Behind, Ends
<1>3. Ahead(head)' = Ahead(head) /\ InRing' = InRing /\ \A s : Ahead(s)' = Ahead(s)
  BY DEF Same, Ahead, InRing
<1>4. CutOff' = CutOff
  BY DEF Same, CutOff
<1>5. \A s \in InRing : OfBlock(s)' <=> OfBlock(s)
  BY DEF Same, OfBlock
<1>6. head # tail => segment'[tail] = segment[tail]
  BY RingEnds DEF Same
<1>. QED
  BY <1>1, <1>2, <1>3, <1>4, <1>5, <1>6

LEMMA SameRing == ASSUME TypeOK, Same, RingInv PROVE RingInv'
BY SameBasics DEF RingInv, Same

LEMMA SameExec == ASSUME TypeOK, Same, SameExecution, ExecInv PROVE ExecInv'
<1>1. /\ UNCHANGED << head, tail, st_block >> /\ prep'.block = prep.block /\ (Fresh' <=> Fresh)
      /\ head # tail => segment'[tail] = segment[tail]
  BY SameBasics DEF Same
<1>. QED
  BY <1>1 DEF ExecInv, SameExecution

LEMMA SameChain == ASSUME TypeOK, Same, Cut' = Cut, ChainInv PROVE ChainInv'
<1>1. \A s, t \in InRing : NextSeg(s, t)' <=> NextSeg(s, t)
  BY SameBasics DEF NextSeg, Same
<1>. QED
  BY <1>1, SameBasics DEF ChainInv, Same

LEMMA SamePos ==
    ASSUME TypeOK, Same, SameExecution, pos' = pos, park'.motion = park.motion,
           control.execute_sys_motion => sys_block' = sys_block, PosInv
    PROVE  PosInv'
<1>1. head # tail => Begins(tail)' = Begins(tail)
  BY SameBasics DEF Begins, Same, SameExecution
<1>. QED
  BY <1>1, SameBasics DEF PosInv, Same

LEMMA SameLine ==
    ASSUME TypeOK, Same, SameExecution, Cut' = Cut, done' = done, prep'.parking = prep.parking,
           prep.parking => prep'.hold_partial_block = prep.hold_partial_block,
           prep.parking => prep'.last_steps = prep.last_steps, LineInv
    PROVE  LineInv'
<1>1. head # tail => Begins(tail)' = Begins(tail) /\ segment'[tail] = segment[tail]
  BY SameBasics DEF Begins, Same, SameExecution
<1>2. HeldOff' = HeldOff
  BY SameBasics DEF HeldOff
<1>3. \A i, n : ReachedLine(i, n)' <=> ReachedLine(i, n)
  BY DEF ReachedLine
<1>4. head # tail /\ ~control.execute_sys_motion => ReachedLine(segment[tail].of[2], Begins(tail))'
  <2>1. head # tail => (segment[tail].of[2])' = segment[tail].of[2]
    BY <1>1 DEF Same
  <2>2. head # tail => (ReachedLine(segment[tail].of[2], Begins(tail))' <=> ReachedLine(segment[tail].of[2], Begins(tail)))
    BY <1>1, <1>3, <2>1 DEF ReachedLine
  <2>. QED
    BY <2>2 DEF LineInv
<1>5. head # tail /\ ~control.execute_sys_motion =>
           /\ \A i \in segment[tail].of[2] .. Cut : \E s \in InRing : segment'[s].of = Line(i)
           /\ \A s, t \in InRing : Ahead(s) <= Ahead(t) => segment'[s].of[2] <= segment'[t].of[2]
  BY DEF LineInv, Same
<1>6. head = tail \/ control.execute_sys_motion => ReachedLine(Cut + 1, HeldOff)'
  BY <1>2, <1>3, Zenon DEF LineInv
<1>. QED
  BY <1>1, <1>4, <1>5, <1>6, SameBasics DEF LineInv, Same

-----------------------------------------------------------------------------
(* Steps that leave the ring alone *)

\* A full ring holds all but one of its slots.
LEMMA FullRing ==
    ASSUME TypeOK
    PROVE  /\ Full <=> Ahead(head) = S - 1
           /\ head = tail <=> Ahead(head) = 0
           /\ Full => head # tail
<1>1. head \in Slots /\ tail \in Slots
  BY DEF TypeOK
<1>2. NextSlot(head) = IF head = S - 1 THEN 0 ELSE head + 1
  BY <1>1, Wraps
<1>3. Ahead(head) = IF tail <= head THEN head - tail ELSE head - tail + S
  BY <1>1, AheadIs
<1>. QED
  BY <1>1, <1>2, <1>3, SAssumption DEF Full, Slots

LEMMA SameQueue ==
    ASSUME UNCHANGED << queue, planned >>, QueueInv PROVE QueueInv' /\ Cut' = Cut
BY DEF QueueInv, Cut

LEMMA SameAccount ==
    ASSUME TypeOK, Same, SameExecution, UNCHANGED << sys_block, pos, done >>, Cut' = Cut,
           prep'.parking = prep.parking, park'.motion = park.motion,
           prep.parking => prep'.hold_partial_block = prep.hold_partial_block,
           prep.parking => prep'.last_steps = prep.last_steps,
           Cancelling' <=> Cancelling, PosInv, ~Cancelling => ChainInv /\ LineInv
    PROVE  PosInv' /\ (~Cancelling' => ChainInv' /\ LineInv')
BY SameChain, SamePos, SameLine

LEMMA InvPrep == ASSUME TypeOK, Inv, Prep PROVE Inv'
<1>. USE DEF Inv, Control, Buffers, Account
<1>1. /\ pc = "loop" /\ pc' = "prep"
      /\ UNCHANGED << queue, planned, sys_block, segment, head, tail, st_block, prep, st, control,
                      exec_fast_hold, wake, sys, park, parking_enabled, pos, done >>
  BY DEF Prep, planner, ring, history
<1>2. Started' = Started /\ Fresh' = Fresh /\ Cancelling' = Cancelling /\ Parked' = Parked
  BY <1>1 DEF Started, Fresh, Cancelling, Parked
<1>3. Same /\ SameExecution
  BY <1>1, <1>2 DEF Same, SameExecution
<1>4. StateInv'
  BY <1>1 DEF StateInv, Calm
<1>5. SteppingInv'
  BY <1>1, <1>2 DEF SteppingInv
<1>6. ParkInv'
  BY <1>1 DEF ParkInv
<1>7. CutInv'
  BY <1>1 DEF CutInv
<1>8. HeldInv'
  BY <1>1, <1>2 DEF HeldInv
<1>9. SysInv'
  BY <1>1, <1>2 DEF SysInv, SteppingInv
<1>10. QueueInv' /\ Cut' = Cut
  BY <1>1, SameQueue
<1>11. BlockInv'
  BY <1>1, <1>2, <1>10 DEF BlockInv
<1>12. RouteInv'
  BY <1>1 DEF RouteInv
<1>. QED
  BY <1>1, <1>2, <1>3, <1>4, <1>5, <1>6, <1>7, <1>8, <1>9, <1>10, <1>11, <1>12, SameRing, SameExec,
     SameAccount

\* The interrupt is started with a segment in the ring.
LEMMA InvPrepReturn == ASSUME TypeOK, Inv, PrepReturn PROVE Inv'
<1>. USE DEF Inv, Control, Buffers, Account
<1>1. /\ pc \in {"prep", "load"}
      /\ UNCHANGED << queue, planned, sys_block, segment, head, st_block, prep, control, exec_fast_hold >>
  BY DEF PrepReturn, planner
<1>2. /\ pc' = "loop" /\ wake' = FALSE /\ st'.stepping = (wake \/ st.stepping) /\ SameExecution
      /\ UNCHANGED << sys, park, parking_enabled, pos, done, tail >>
  BY LeaveEffect DEF PrepReturn, SameExecution
<1>3. Started' = Started /\ Fresh' = Fresh /\ Cancelling' = Cancelling /\ Parked' = Parked
  BY <1>1, <1>2 DEF Started, Fresh, Cancelling, Parked
<1>4. Same
  BY <1>1, <1>2, <1>3 DEF Same
<1>5. wake => head # tail
  <2>1. ASSUME wake, pc = "prep", prep.pl_block = "none", Available = "none" PROVE head # tail
    BY <2>1 DEF SteppingInv, Available
  <2>2. ASSUME wake, Full PROVE head # tail
    BY <2>2, FullRing
  <2>3. wake => ~control.end_motion /\ (pc = "load" => head # tail)
    BY DEF SteppingInv
  <2>4. ASSUME wake, exec_fast_hold, pc = "prep" PROVE FALSE
    BY <2>4 DEF SteppingInv
  <2>. QED
    BY <2>1, <2>2, <2>3, <2>4 DEF PrepReturn
<1>6. StateInv'
  BY <1>1, <1>2 DEF StateInv, Calm
<1>7. SteppingInv'
  BY <1>1, <1>2, <1>3, <1>5 DEF SteppingInv, SameExecution
<1>8. ParkInv'
  BY <1>1, <1>2 DEF ParkInv
<1>9. CutInv'
  BY <1>1, <1>2 DEF CutInv
<1>10. HeldInv'
  BY <1>1, <1>2, <1>3 DEF HeldInv
<1>11. SysInv'
  BY <1>1, <1>2, <1>3, <1>5 DEF SysInv, SteppingInv
<1>12. QueueInv' /\ Cut' = Cut
  BY <1>1, SameQueue
<1>13. BlockInv'
  BY <1>1, <1>3, <1>12 DEF BlockInv
<1>14. RouteInv'
  BY <1>1, <1>2 DEF RouteInv
<1>. QED
  BY <1>1, <1>2, <1>3, <1>4, <1>6, <1>7, <1>8, <1>9, <1>10, <1>11, <1>12, <1>13, <1>14, SameRing,
     SameExec, SameAccount

LEMMA InvRunDry == ASSUME TypeOK, Inv, RunDry, races' = {} PROVE Inv'
<1>. USE DEF Inv, Control, Buffers, Account
<1>1. /\ st.stepping /\ head = tail
      /\ UNCHANGED << queue, planned, sys_block, segment, head, tail, st_block, prep, control,
                      exec_fast_hold, pc, wake, park, parking_enabled, pos, done >>
  BY DEF RunDry, planner, ring
<1>2. /\ ~st'.stepping /\ st'.exec_segment = None /\ st'.exec_block = None /\ st'.step_count = 0
  BY DEF RunDry, StReset
<1>3. sys'.complete /\ sys'.state = sys.state /\ sys'.handler = sys.handler
  BY DEF RunDry, TypeOK
<1>4. ~(Uncut /\ sys.state # "CYCLE")
  BY <1>1, <1>2, Quiet DEF RunDry
<1>5. Started' = Started /\ Fresh' = Fresh /\ Cancelling' = Cancelling /\ Parked' = Parked
  BY <1>1, <1>3 DEF Started, Fresh, Cancelling, Parked
<1>6. Same
  BY <1>1, <1>5 DEF Same
<1>7. StateInv'
  BY <1>1, <1>3 DEF StateInv, Calm
<1>8. SteppingInv'
  BY <1>1, <1>2, <1>3, <1>5 DEF SteppingInv
<1>9. ParkInv'
  BY <1>1, <1>3 DEF ParkInv
<1>10. CutInv'
  <2>1. control.execute_sys_motion \/ sys.handler = "await_hold" => sys.state # "CYCLE"
    BY DEF StateInv
  <2>2. control.execute_sys_motion \/ sys.handler = "await_hold" => prep.at_rest
    BY <1>4, <2>1 DEF CutInv, Uncut
  <2>. QED
    BY <1>1, <1>3, <2>2 DEF CutInv, NewSegment
<1>11. HeldInv'
  BY <1>1, <1>5 DEF HeldInv
<1>12. SysInv'
  BY <1>1, <1>5 DEF SysInv
<1>13. QueueInv' /\ Cut' = Cut
  BY <1>1, SameQueue
<1>14. BlockInv'
  BY <1>1, <1>5, <1>13 DEF BlockInv
<1>15. RouteInv'
  BY <1>1, <1>3 DEF RouteInv
<1>16. ExecInv'
  BY <1>1, <1>2 DEF ExecInv
<1>17. PosInv'
  BY <1>1, <1>6, SameBasics DEF PosInv
<1>18. LineInv => LineInv'
  <2>1. HeldOff' = HeldOff
    BY <1>1, <1>6, SameBasics DEF HeldOff
  <2>2. LineInv => ReachedLine(Cut + 1, HeldOff)
    BY <1>1 DEF LineInv
  <2>3. ReachedLine(Cut + 1, HeldOff) => ReachedLine(Cut + 1, HeldOff)'
    BY <1>1, <1>13, <2>1 DEF ReachedLine
  <2>. QED
    BY <1>1, <2>2, <2>3 DEF LineInv
<1>. QED
  BY <1>5, <1>6, <1>7, <1>8, <1>9, <1>10, <1>11, <1>12, <1>13, <1>14, <1>15, <1>16, <1>17, <1>18,
     SameRing, SameChain

\* A re-plan keeps everything but the way in which the motion will be taken up.
Replanned ==
    /\ prep'.pl_block = "none" /\ (prep'.velocity_profile <=> Started)
    /\ (Started' <=> Started) /\ prep'.parking = prep.parking
    /\ prep'.hold_partial_block = prep.hold_partial_block
    /\ prep'.block = prep.block /\ prep'.steps_remaining = prep.steps_remaining
    /\ prep'.at_rest = prep.at_rest /\ prep'.last_block = prep.last_block
    /\ prep'.last_steps = prep.last_steps /\ prep'.hold_block = prep.hold_block

LEMMA UpdateEffect == ASSUME TypeOK, prep' = UpdateParameters(prep) PROVE Replanned
BY DEF Replanned, Started, UpdateParameters, TypeOK, Preps

\* What an event that re-plans, or does nothing to, the motion being cut preserves.
Steady ==
    /\ prep' = prep \/ Replanned
    /\ pc = "loop" /\ pc' \in {"loop", "prep"} /\ ~wake'
    /\ UNCHANGED << sys_block, segment, head, tail, st_block, st, parking_enabled, pos, done >>
    /\ control'.execute_sys_motion = control.execute_sys_motion
    /\ park'.motion = park.motion
    /\ Cut' = Cut

LEMMA SteadyBasics ==
    ASSUME TypeOK, Steady
    PROVE  /\ Same /\ SameExecution /\ (Started' <=> Started) /\ (Fresh' <=> Fresh)
           /\ prep'.parking = prep.parking /\ prep'.hold_partial_block = prep.hold_partial_block
           /\ prep'.at_rest = prep.at_rest /\ prep'.last_steps = prep.last_steps
           /\ prep'.hold_block = prep.hold_block /\ prep'.steps_remaining = prep.steps_remaining
           /\ prep'.block = prep.block
<1>1. Started' <=> Started
  BY DEF Steady, Replanned, Started
<1>2. Same
  BY <1>1 DEF Steady, Same, Replanned
<1>. QED
  BY <1>1, <1>2, SameBasics DEF Steady, Replanned, SameExecution

LEMMA SteadyBuffers ==
    ASSUME TypeOK, Inv, Steady, queue # << >> => queue' # << >>
    PROVE  BlockInv' /\ RingInv' /\ ExecInv'
<1>1. RingInv' /\ ExecInv'
  BY SteadyBasics, SameRing, SameExec DEF Inv, Buffers
<1>2. BlockInv'
  BY SteadyBasics DEF Inv, Buffers, BlockInv, Steady
<1>. QED
  BY <1>1, <1>2

LEMMA SteadyAccount ==
    ASSUME TypeOK, Inv, Steady
    PROVE  PosInv' /\ (~Cancelling => ChainInv' /\ LineInv')
BY SteadyBasics, SameChain, SamePos, SameLine DEF Inv, Account, Steady

LEMMA SteadyHeld ==
    ASSUME TypeOK, Inv, Steady, control.end_motion => control'.end_motion PROVE HeldInv'
<1>1. \/ prep' = prep
      \/ prep.hold_partial_block /\ ~prep.parking => prep'.velocity_profile
  BY SteadyBasics DEF Inv, Control, HeldInv, Steady, Replanned, Started
<1>. QED
  BY <1>1, SteadyBasics DEF Inv, Control, HeldInv, Steady

LEMMA InvReplan == ASSUME TypeOK, Inv, Replan PROVE Inv'
<1>. USE DEF Inv, Control, Buffers, Account
<1>1. /\ pc = "loop" /\ prep' = UpdateParameters(prep)
      /\ UNCHANGED << queue, planned, sys_block, segment, head, tail, st_block, st, control,
                      exec_fast_hold, pc, wake, sys, park, parking_enabled, pos, done >>
  BY DEF Replan, planner, untouched, Loop
<1>2. QueueInv' /\ Cut' = Cut /\ ~wake
  BY <1>1, SameQueue DEF SteppingInv
<1>3. Steady /\ Replanned
  BY <1>1, <1>2, UpdateEffect DEF Steady
<1>4. Cancelling' = Cancelling /\ Parked' = Parked
  BY <1>1 DEF Cancelling, Parked
<1>5. StateInv'
  BY <1>1 DEF StateInv, Calm
<1>6. SteppingInv'
  BY <1>1, <1>2, <1>4 DEF SteppingInv
<1>7. ParkInv'
  BY <1>1, <1>3 DEF ParkInv, Replanned
<1>8. CutInv'
  BY <1>1, <1>3 DEF CutInv, Replanned
<1>9. SysInv'
  BY <1>1, <1>2, <1>3, SteadyBasics DEF SysInv
<1>10. RouteInv'
  BY <1>1 DEF RouteInv
<1>. QED
  BY <1>1, <1>2, <1>3, <1>4, <1>5, <1>6, <1>7, <1>8, <1>9, <1>10, SteadyHeld, SteadyBuffers, SteadyAccount

LEMMA InvQueueLine == ASSUME TypeOK, Inv, NEW replan \in BOOLEAN, QueueLine(replan) PROVE Inv'
<1>. USE DEF Inv, Control, Buffers, Account
<1>1. /\ pc = "loop" /\ (prep' = UpdateParameters(prep) \/ prep' = prep)
      /\ queue' = Append(queue, planned + 1) /\ planned' = planned + 1 /\ planned < Lines
      /\ UNCHANGED << sys_block, segment, head, tail, st_block, st, control,
                      exec_fast_hold, pc, wake, sys, park, parking_enabled, pos, done >>
  BY DEF QueueLine, planner, untouched, Loop
<1>2. QueueInv' /\ Cut' = Cut /\ ~wake /\ queue' # << >>
  <2>1. queue \in Seq(1 .. Lines) /\ planned + 1 \in 1 .. Lines /\ planned \in Nat
    BY <1>1, StepsAssumption DEF TypeOK
  <2>2. /\ Len(queue') = Len(queue) + 1 /\ queue'[Len(queue) + 1] = planned + 1
        /\ \A i \in 1 .. Len(queue) : queue'[i] = queue[i]
        /\ Len(queue) \in Nat
    BY <1>1, <2>1, AppendProperties
  <2>3. Cut' = Cut /\ planned + 1 = Cut + (Len(queue) + 1) /\ queue' # << >>
    BY <1>1, <2>1, <2>2 DEF Cut
  <2>4. \A i \in 1 .. Len(queue') : i \in 1 .. Len(queue) \/ i = Len(queue) + 1
    BY <2>2
  <2>5. \A i \in 1 .. Len(queue') : queue'[i] = Cut + i
    BY <2>2, <2>3, <2>4 DEF QueueInv
  <2>. QED
    BY <1>1, <2>1, <2>2, <2>3, <2>5 DEF QueueInv, SteppingInv
<1>3. Steady
  BY <1>1, <1>2, UpdateEffect DEF Steady
<1>4. Cancelling' = Cancelling /\ Parked' = Parked
  BY <1>1 DEF Cancelling, Parked
<1>5. StateInv'
  BY <1>1 DEF StateInv, Calm
<1>6. SteppingInv'
  BY <1>1, <1>2, <1>4 DEF SteppingInv
<1>7. ParkInv'
  BY <1>1, <1>3, SteadyBasics DEF ParkInv
<1>8. CutInv'
  <2>1. CASE prep' = prep
    BY <1>1, <2>1 DEF CutInv
  <2>2. CASE Replanned
    BY <1>1, <2>2 DEF CutInv, Replanned
  <2>. QED
    BY <2>1, <2>2, <1>3 DEF Steady
<1>9. SysInv'
  BY <1>1, <1>2, <1>3, SteadyBasics DEF SysInv
<1>10. RouteInv'
  BY <1>1 DEF RouteInv
<1>. QED
  BY <1>1, <1>2, <1>3, <1>4, <1>5, <1>6, <1>7, <1>8, <1>9, <1>10, SteadyHeld, SteadyBuffers, SteadyAccount

\* A running cycle is held: by a feed hold, or by the door.
LEMMA InvInitiateHold ==
    ASSUME TypeOK, Inv, NEW state \in {"HOLD", "DOOR"}, Loop, InitiateHold(state),
           Apart, UNCHANGED << queue, planned >>, pc' \in {"loop", "prep"}, wake' = FALSE,
           (state = "HOLD" /\ park' = park) \/ (state = "DOOR" /\ park' = ParkReset), Note, races' = {}
    PROVE  Inv'
<1>. USE DEF Inv, Control, Buffers, Account
<1>1. /\ pc = "loop" /\ prep' = UpdateParameters(prep)
      /\ sys.state = "CYCLE" /\ sys.handler = "cycle"
      /\ UNCHANGED << queue, planned, sys_block, segment, head, tail, st_block, st, exec_fast_hold,
                      parking_enabled, pos, done >>
  BY DEF InitiateHold, Apart, Loop
<1>2. /\ sys'.state = state /\ sys'.handler = "await_hold" /\ sys'.complete = sys.complete
      /\ control'.execute_hold /\ control'.end_motion = control.end_motion
      /\ control'.execute_sys_motion = control.execute_sys_motion
  BY DEF InitiateHold, TypeOK
<1>3. /\ ~control.execute_hold /\ ~control.end_motion /\ ~control.execute_sys_motion
      /\ park.motion = FALSE /\ park'.motion = FALSE /\ (state = "DOOR" => ~park'.restart)
  BY <1>1 DEF StateInv, Calm, ParkInv, ParkReset, TypeOK
<1>4. QueueInv' /\ Cut' = Cut /\ ~wake
  BY <1>1, SameQueue DEF SteppingInv
<1>5. Steady /\ Replanned
  BY <1>1, <1>2, <1>3, <1>4, UpdateEffect DEF Steady
<1>6. sys.complete => ~Unfinished
  BY <1>1, <1>2, Quiet DEF Goes
<1>7. ~Cancelling' /\ ~Cancelling /\ ~Parked'
  BY <1>1, <1>2 DEF Cancelling, Parked
<1>8. StateInv'
  BY <1>1, <1>2, <1>3 DEF StateInv, Calm, Moving, Holding
<1>9. SteppingInv'
  BY <1>1, <1>2, <1>4, <1>7 DEF SteppingInv
<1>10. ParkInv'
  BY <1>1, <1>2, <1>3, <1>5 DEF ParkInv, Replanned
<1>11. CutInv'
  BY <1>1, <1>2, <1>3, <1>5, <1>6 DEF CutInv, Replanned, Unfinished, Uncut
<1>12. SysInv'
  BY <1>2, <1>3 DEF SysInv
<1>13. RouteInv'
  BY <1>2, <1>3 DEF RouteInv
<1>. QED
  BY <1>1, <1>2, <1>3, <1>4, <1>5, <1>7, <1>8, <1>9, <1>10, <1>11, <1>12, <1>13, SteadyHeld, SteadyBuffers, SteadyAccount

LEMMA InvFeedHold == ASSUME TypeOK, Inv, FeedHold, races' = {} PROVE Inv'
<1>. USE DEF Inv, Control, Buffers, Account
<1>1. /\ Loop /\ pc' = "prep" /\ wake' = FALSE /\ Apart /\ UNCHANGED << queue, planned, park >> /\ Note
  BY DEF FeedHold, Pass, untouched, Apart
<1>2. CASE InitiateHold("HOLD")
  BY <1>1, <1>2, InvInitiateHold
<1>3. CASE /\ sys.state = "IDLE"
           /\ sys' = [sys EXCEPT !.state = "HOLD", !.handler = "await_resume"]
           /\ UNCHANGED << sys_block, st_block, prep, control >>
  <2>1. /\ pc = "loop"
        /\ UNCHANGED << queue, planned, sys_block, segment, head, tail, st_block, prep, st, control,
                        exec_fast_hold, park, parking_enabled, pos, done >>
    BY <1>1, <1>3 DEF Apart, Loop
  <2>2. /\ sys'.state = "HOLD" /\ sys'.handler = "await_resume" /\ sys'.complete = sys.complete
        /\ sys.handler = "idle"
    BY <1>3 DEF TypeOK, StateInv
  <2>3. /\ ~control.execute_hold /\ ~control.end_motion /\ ~control.execute_sys_motion
        /\ ~st.stepping /\ ~wake /\ ~sys.complete /\ ~park.motion
    BY <1>3, <2>2 DEF StateInv, Calm, SteppingInv, ParkInv
  <2>4. QueueInv' /\ Cut' = Cut
    BY <2>1, SameQueue
  <2>5. Steady
    BY <1>1, <2>1, <2>4 DEF Steady
  <2>6. ~Cancelling' /\ ~Cancelling
    BY <2>2 DEF Cancelling
  <2>7. StateInv'
    BY <2>1, <2>2, <2>3 DEF StateInv, Calm, Moving, Holding
  <2>8. SteppingInv'
    BY <1>1, <2>1, <2>2, <2>3 DEF SteppingInv
  <2>9. ParkInv'
    BY <2>1, <2>2, <2>3 DEF ParkInv
  <2>10. CutInv'
    BY <1>1, <2>1, <2>2, <2>3 DEF CutInv
  <2>11. SysInv' /\ RouteInv'
    BY <2>1, <2>3 DEF SysInv, RouteInv
  <2>. QED
    BY <2>1, <2>2, <2>3, <2>4, <2>5, <2>6, <2>7, <2>8, <2>9, <2>10, <2>11, SteadyHeld, SteadyBuffers,
       SteadyAccount
<1>. QED
  BY <1>2, <1>3 DEF FeedHold

\* A parking motion is only held once something of it is cut.
LEMMA InvDoorAgain == ASSUME TypeOK, Inv, DoorAgain, races' = {} PROVE Inv'
<1>. USE DEF Inv, Control, Buffers, Account
<1>1. /\ pc = "loop" /\ pc' = "prep" /\ wake' = FALSE /\ prep' = UpdateParameters(prep)
      /\ sys.handler \in {"restore", "await_resumed"}
      /\ UNCHANGED << queue, planned, sys_block, segment, head, tail, st_block, st, exec_fast_hold,
                      parking_enabled, pos, done >>
  BY DEF DoorAgain, Loop, Pass, untouched, planner
<1>2. /\ sys'.state = sys.state /\ sys'.handler = "await_restart_retract"
      /\ sys'.complete \in {FALSE, sys.complete}
  BY DEF DoorAgain, TypeOK
<1>3. /\ control'.execute_hold /\ control'.end_motion = control.end_motion
      /\ control'.execute_sys_motion = control.execute_sys_motion
      /\ park'.motion = park.motion /\ park'.restart /\ park'.target = park.target
  BY DEF DoorAgain, TypeOK
<1>4. sys'.complete = sys.complete
  BY <1>1, <1>2, Quiet DEF DoorAgain, Goes, TypeOK
<1>5. control.execute_sys_motion /\ ~wake /\ sys.state = "DOOR"
  BY <1>1 DEF StateInv, SteppingInv, Moving
<1>6. QueueInv' /\ Cut' = Cut
  BY <1>1, SameQueue
<1>7. Steady /\ Replanned
  BY <1>1, <1>3, <1>6, UpdateEffect DEF Steady
<1>8. ~Cancelling' /\ ~Cancelling /\ ~Parked'
  BY <1>1, <1>2 DEF Cancelling, Parked
<1>9. StateInv'
  BY <1>1, <1>2, <1>3, <1>5 DEF StateInv, Calm, Moving, Holding
<1>10. SteppingInv'
  BY <1>1, <1>2, <1>4, <1>5, <1>8 DEF SteppingInv
<1>11. ParkInv'
  BY <1>1, <1>2, <1>3, <1>5, <1>7 DEF ParkInv, Replanned
<1>12. CutInv'
  BY <1>1, <1>2, <1>3, <1>4, <1>5, <1>7 DEF CutInv, Replanned
<1>13. SysInv'
  BY <1>1, <1>3, <1>5, <1>7, SteadyBasics DEF SysInv
<1>14. RouteInv'
  BY <1>1, <1>2, <1>5 DEF RouteInv
<1>. QED
  BY <1>1, <1>3, <1>6, <1>7, <1>8, <1>9, <1>10, <1>11, <1>12, <1>13, <1>14, SteadyHeld, SteadyBuffers,
     SteadyAccount

\* The end of a cycle; what is left of the ring is executed in the next one.
LEMMA InvEndCycle ==
    ASSUME TypeOK, Inv, Loop, sys.complete, EndCycle, Apart, UNCHANGED << queue, planned >> PROVE Inv'
<1>. USE DEF Inv, Control, Buffers, Account
<1>1. /\ pc = "loop" /\ sys.handler = "cycle"
      /\ UNCHANGED << queue, planned, sys_block, segment, head, tail, st_block, prep, st,
                      exec_fast_hold, pc, wake, parking_enabled, pos, done >>
  BY DEF EndCycle, Apart, Loop
<1>2. sys'.state = "IDLE" /\ sys'.handler = "idle" /\ sys'.complete = FALSE
  BY DEF EndCycle
<1>3. /\ ~control.execute_hold /\ ~control.end_motion /\ ~control.execute_sys_motion
      /\ ~st.stepping /\ ~wake /\ park.motion = FALSE
  BY <1>1 DEF StateInv, Calm, SteppingInv, ParkInv, TypeOK
<1>4. /\ ~control'.execute_hold /\ ~control'.end_motion /\ control'.execute_sys_motion = FALSE
      /\ park'.motion = FALSE
  BY DEF EndCycle, NoControl, ParkReset
<1>5. QueueInv' /\ Cut' = Cut
  BY <1>1, SameQueue
<1>6. Steady
  BY <1>1, <1>3, <1>4, <1>5 DEF Steady, TypeOK
<1>7. ~Cancelling' /\ ~Cancelling
  BY <1>1, <1>2 DEF Cancelling
<1>8. StateInv'
  BY <1>1, <1>2, <1>4 DEF StateInv, Calm, Moving, Holding
<1>9. SteppingInv'
  BY <1>1, <1>2, <1>3, <1>4 DEF SteppingInv
<1>10. ParkInv'
  BY <1>1, <1>2, <1>3, <1>4 DEF ParkInv
<1>11. CutInv'
  BY <1>1, <1>2, <1>3, <1>4 DEF CutInv
<1>12. SysInv' /\ RouteInv'
  BY <1>4 DEF SysInv, RouteInv
<1>. QED
  BY <1>1, <1>3, <1>5, <1>6, <1>7, <1>8, <1>9, <1>10, <1>11, <1>12, SteadyHeld, SteadyBuffers, SteadyAccount

\* The end of a feed hold.
LEMMA InvEndHold ==
    ASSUME TypeOK, Inv, Loop, sys.complete, EndHold, Apart, UNCHANGED << queue, planned >> PROVE Inv'
<1>. USE DEF Inv, Control, Buffers, Account
<1>1. /\ pc = "loop" /\ sys.handler = "await_hold" /\ sys.state = "HOLD" /\ pc' = "prep" /\ wake' = FALSE
      /\ prep' = UpdateParameters(prep)
      /\ UNCHANGED << queue, planned, sys_block, segment, head, tail, st_block, st,
                      exec_fast_hold, park, parking_enabled, pos, done >>
  BY DEF EndHold, StandStill, Pass, Apart, Loop
<1>2. sys'.state = "HOLD" /\ sys'.handler = "await_resume" /\ sys'.complete = FALSE
  BY <1>1 DEF EndHold, TypeOK
<1>3. /\ ~control.execute_sys_motion /\ ~st.stepping /\ ~wake /\ park.motion = FALSE
  BY <1>1 DEF StateInv, SteppingInv, ParkInv, TypeOK, Moving
<1>4. /\ ~control'.execute_hold /\ ~control'.end_motion /\ control'.execute_sys_motion = FALSE
  BY DEF EndHold, StandStill, NoControl
<1>5. QueueInv' /\ Cut' = Cut
  BY <1>1, SameQueue
<1>6. Steady /\ Replanned
  BY <1>1, <1>3, <1>4, <1>5, UpdateEffect DEF Steady, TypeOK
<1>7. ~Cancelling' /\ ~Cancelling
  BY <1>1, <1>2 DEF Cancelling
<1>8. StateInv'
  BY <1>1, <1>2, <1>4 DEF StateInv, Calm, Moving, Holding
<1>9. SteppingInv'
  BY <1>1, <1>2, <1>3, <1>4 DEF SteppingInv
<1>10. ParkInv'
  BY <1>1, <1>2, <1>3, <1>4, <1>6 DEF ParkInv, Replanned
<1>11. CutInv'
  BY <1>1, <1>2, <1>3, <1>4, <1>6 DEF CutInv, Replanned
<1>12. SysInv' /\ RouteInv'
  BY <1>4 DEF SysInv, RouteInv
<1>13. HeldInv'
  BY <1>1, <1>6 DEF HeldInv, Replanned, Started
<1>. QED
  BY <1>1, <1>3, <1>5, <1>6, <1>7, <1>8, <1>9, <1>10, <1>11, <1>12, <1>13, SteadyBuffers, SteadyAccount

\* Blocks are told apart by how far they are behind.
LEMMA BehindIs ==
    ASSUME TypeOK
    PROVE  /\ \A b \in Blocks : Behind(b) \in 0 .. S - 2 /\ (Behind(b) = 0 <=> b = prep.block)
           /\ \A s \in Slots : Back(s) \in 0 .. S - 2
           /\ \A s \in InRing : s \in Slots /\ Ahead(s) \in 0 .. S - 1 /\ Back(s) \in 0 .. S - 2
                                /\ segment[s] \in Segments
<1>1. prep.block \in Blocks /\ tail \in Slots /\ \A s \in Slots : segment[s].exec_block \in Blocks
  BY DEF TypeOK, Preps, Segments
<1>2. \A b \in Blocks : Behind(b) \in 0 .. S - 2 /\ (Behind(b) = 0 <=> b = prep.block)
  BY <1>1, SAssumption DEF Behind, Blocks
<1>3. \A s \in Slots : Back(s) \in 0 .. S - 2
  BY <1>1, <1>2 DEF Back
<1>. QED
  BY <1>1, <1>2, <1>3, AheadIs DEF InRing, TypeOK

\* A fast stop takes segments back, but never all of the motion being cut.
LEMMA InvMotionCancel ==
    ASSUME TypeOK, Inv, NEW fast \in BOOLEAN, MotionCancel(fast), races' = {} PROVE Inv'
<1>. USE DEF Inv, Control, Buffers, Account
<1>1. /\ pc = "loop" /\ sys.handler = "cycle" /\ pc' = "prep" /\ wake' = FALSE /\ ~sys.complete
      /\ UNCHANGED << queue, planned, sys_block, segment, tail, st_block, st, park, parking_enabled,
                      pos, done >>
  BY DEF MotionCancel, Pass, Loop, planner, history
<1>2. sys'.state = sys.state /\ sys'.handler = "await_motion_cancel" /\ ~sys'.complete
  BY <1>1 DEF MotionCancel, TypeOK
<1>3. /\ control'.execute_hold /\ control'.end_motion = control.end_motion
      /\ control'.execute_sys_motion = control.execute_sys_motion
  BY DEF MotionCancel, TypeOK
<1>4. /\ ~control.execute_hold /\ ~control.end_motion /\ ~control.execute_sys_motion
      /\ sys.state = "CYCLE" /\ ~wake /\ park.motion = FALSE /\ ~prep.parking
  BY <1>1 DEF StateInv, Calm, SteppingInv, ParkInv, TypeOK
<1>5. QueueInv' /\ Cut' = Cut
  BY <1>1, SameQueue
<1>6. Cancelling' /\ ~Parked'
  BY <1>2 DEF Cancelling, Parked
<1>7. StateInv'
  BY <1>1, <1>2, <1>3, <1>4 DEF StateInv, Calm, Moving, Holding
<1>8. SysInv' /\ RouteInv'
  BY <1>3, <1>4 DEF SysInv, RouteInv
<1>9. CASE ~(fast /\ Full)
  <2>1. UNCHANGED head /\ prep' = UpdateParameters(prep)
    BY <1>9 DEF MotionCancel
  <2>2. Steady /\ Replanned
    BY <1>1, <1>3, <1>5, <2>1, UpdateEffect DEF Steady
  <2>3. SteppingInv'
    BY <1>1, <1>2, <1>3, <1>4, <1>6, <2>1 DEF SteppingInv
  <2>4. ParkInv'
    BY <1>1, <1>2, <1>3, <1>4, <2>2 DEF ParkInv, Replanned
  <2>5. CutInv'
    BY <1>1, <1>2, <1>3, <1>4, <2>2 DEF CutInv, Replanned
  <2>. QED
    BY <1>1, <1>3, <1>5, <1>6, <1>7, <1>8, <2>2, <2>3, <2>4, <2>5, SteadyHeld, SteadyBuffers, SteadyAccount
<1>10. CASE fast /\ Full
  <2>1. head' \in Rewound /\ prep' = [UpdateParameters(prep) EXCEPT !.at_rest = FALSE]
    BY <1>10 DEF MotionCancel
  <2>2. /\ prep'.pl_block = "none" /\ (prep'.velocity_profile <=> Started) /\ (Started' <=> Started)
        /\ prep'.parking = prep.parking /\ prep'.hold_partial_block = prep.hold_partial_block
        /\ prep'.block = prep.block /\ prep'.steps_remaining = prep.steps_remaining /\ ~prep'.at_rest
    BY <2>1 DEF UpdateParameters, TypeOK, Preps, Started
  <2>3. head' \in Slots /\ Ahead(head') \in 2 .. S - 1 /\ Ahead(head) = S - 1
    BY <2>1, <1>10, RewoundHeads, FullRing
  <2>4. head' # tail /\ head # tail /\ head \in Slots /\ tail \in Slots
    <3>1. head \in Slots /\ tail \in Slots
      BY DEF TypeOK
    <3>2. Ahead(tail) = 0
      BY <3>1, AheadSteps
    <3>. QED
      BY <2>3, <3>1, <3>2, SAssumption
  <2>5. Fresh' <=> Fresh
    BY <1>1, <2>2 DEF Fresh
  <2>6. SteppingInv'
    BY <1>1, <1>2, <1>3, <1>4, <1>6, <2>4 DEF SteppingInv
  <2>7. ParkInv'
    BY <1>1, <1>2, <1>3, <1>4, <2>2 DEF ParkInv
  <2>8. CutInv'
    BY <1>1, <1>2, <1>3, <1>4, <2>2 DEF CutInv
  <2>9. HeldInv'
    BY <1>3, <1>4, <2>2 DEF HeldInv, Started
  <2>10. BlockInv'
    BY <1>1, <1>4, <1>5, <2>2 DEF BlockInv
  <2>11. ExecInv'
    BY <1>1, <2>4 DEF ExecInv
  <2>12. PosInv'
    BY <1>1, <1>3, <1>4 DEF PosInv
  <2>13. RingInv'
    <3>1. /\ \A s : Ahead(s)' = Ahead(s) /\ Back(s)' = Back(s)
          /\ Ahead(head)' = Ahead(head')
      BY <1>1, <2>2 DEF Ahead, Back, Behind
    <3>2. InRing' = {s \in Slots : Ahead(s) < Ahead(head')} /\ InRing' \subseteq InRing
      <4>1. \A s \in Slots : Ahead(s) \in 0 .. S - 1
        BY <2>4, AheadIs
      <4>. QED
        BY <2>3, <3>1, <4>1, SAssumption DEF InRing
    <3>3. \A s \in InRing' : Back(s) < Ahead(head') - Ahead(s) + (IF Fresh THEN 1 ELSE 0)
      <4>1. CASE head' = head
        BY <3>2, <4>1 DEF RingInv
      <4>2. CASE head' # head
        <5>. DEFINE last == PrevSlot(head')
        <5>1. segment[last].exec_block = prep.block
          BY <1>1, <1>2, <4>2, Quiet DEF MotionCancel, Goes
        <5>2. last \in Slots
          BY <2>3, Wraps
        <5>4. Ahead(last) = Ahead(head') - 1
          BY <2>3, <2>4, AheadSteps
        <5>5. last \in InRing' /\ last \in InRing
          BY <2>3, <3>2, <5>2, <5>4, SAssumption
        <5>6. Back(last) = 0
          BY <5>1, BehindIs DEF Back, TypeOK, Preps
        <5>7. ASSUME NEW s \in InRing' PROVE Back(s) < Ahead(head') - Ahead(s)
          <6>1. s \in InRing /\ Ahead(s) < Ahead(head') /\ Ahead(s) \in 0 .. S - 1
            BY <3>2, <2>4, AheadIs
          <6>2. Ahead(s) <= Ahead(last)
            BY <2>3, <5>4, <6>1, SAssumption
          <6>3. Back(s) - Back(last) <= Ahead(last) - Ahead(s)
            BY <5>5, <6>1, <6>2 DEF RingInv
          <6>4. Back(s) \in Int
            BY <6>1, BehindIs
          <6>. QED
            BY <2>3, <5>4, <5>6, <6>1, <6>3, <6>4, SAssumption
        <5>8. \A s \in InRing' : Back(s) \in Int /\ Ahead(s) \in Int
          BY <3>2, BehindIs
        <5>. QED
          BY <2>3, <5>7, <5>8
      <4>. QED
        BY <4>1, <4>2
    <3>4. \A s \in InRing' : Back(s)' < Ahead(head)' - Ahead(s)' + (IF Fresh' THEN 1 ELSE 0)
      BY <2>5, <3>1, <3>3
    <3>5. \A s \in InRing' : /\ st_block[segment[s].exec_block] = segment[s].of
                             /\ segment[s].n_step > 0
                             /\ \E i \in 1 .. Lines : segment[s].of = Line(i)
      BY <1>4, <3>2 DEF RingInv
    <3>6. \A s, t \in InRing' : Ahead(s)' <= Ahead(t)' =>
             0 <= Back(s)' - Back(t)' /\ Back(s)' - Back(t)' <= Ahead(t)' - Ahead(s)'
      BY <3>1, <3>2 DEF RingInv
    <3>. QED
      BY <1>1, <1>3, <1>4, <3>4, <3>5, <3>6 DEF RingInv
  <2>. QED
    BY <1>5, <1>6, <1>7, <1>8, <2>6, <2>7, <2>8, <2>9, <2>10, <2>11, <2>12, <2>13
<1>. QED
  BY <1>9, <1>10

-----------------------------------------------------------------------------
(* Cutting *)

\* A motion whose profile was dropped is taken up again where it was.
LEMMA InvLoadProfile == ASSUME TypeOK, Inv, Load, LoadProfile PROVE Inv'
<1>. USE DEF Inv, Control, Buffers, Account
<1>1. /\ pc \in {"prep", "load"} /\ ~(pc = "prep" /\ control.end_motion) /\ ~Full
      /\ prep.pl_block = "none" /\ Available # "none"
      /\ exec_fast_hold' = FALSE /\ pc' = "fill" /\ st_block' = st_block
      /\ UNCHANGED << queue, planned, sys_block, segment, head, tail, control, wake, st, sys,
                      park, parking_enabled, pos, done >>
  BY LoadEffect DEF LoadProfile
<1>2. /\ prep.velocity_profile /\ prep'.pl_block = Available /\ ~prep'.velocity_profile
      /\ (prep'.hold_partial_block <=> parking_enabled /\ prep.hold_partial_block /\ prep.parking)
      /\ (prep'.parking <=> parking_enabled /\ prep.parking)
      /\ prep'.block = prep.block /\ prep'.steps_remaining = prep.steps_remaining
      /\ prep'.at_rest = prep.at_rest /\ prep'.last_steps = prep.last_steps
      /\ prep'.hold_block = prep.hold_block
      /\ prep'.hold_partial_block \in BOOLEAN /\ prep'.parking \in BOOLEAN
      /\ prep.hold_partial_block \in BOOLEAN /\ prep.parking \in BOOLEAN
  BY DEF LoadProfile, TypeOK, Preps
<1>3. /\ prep'.parking = prep.parking
      /\ prep.parking => prep'.hold_partial_block = prep.hold_partial_block
  BY <1>2 DEF ParkInv
<1>4. Started' /\ Started /\ Cancelling' = Cancelling /\ Parked' = Parked
  BY <1>1, <1>2 DEF Started, Cancelling, Parked
<1>5. Same /\ SameExecution
  BY <1>1, <1>2, <1>4 DEF Same, SameExecution
<1>6. /\ (control.execute_sys_motion <=> Available = "sys") /\ ~control.end_motion
      /\ (Fresh' <=> Fresh)
  BY <1>1, <1>5, SameBasics DEF Available, CutInv
<1>7. StateInv'
  BY <1>1 DEF StateInv, Calm
<1>8. SteppingInv'
  BY <1>1, <1>4 DEF SteppingInv
<1>9. ParkInv'
  BY <1>1, <1>2, <1>3 DEF ParkInv
<1>10. CutInv'
  BY <1>1, <1>2, <1>6 DEF CutInv, Full
<1>11. HeldInv'
  BY <1>1, <1>2, <1>3 DEF HeldInv
<1>12. SysInv'
  BY <1>1, <1>2, <1>4, <1>6 DEF SysInv
<1>13. QueueInv' /\ Cut' = Cut
  BY <1>1, SameQueue
<1>14. BlockInv'
  BY <1>1, <1>2, <1>3, <1>4, <1>13 DEF BlockInv
<1>15. RouteInv'
  BY <1>1 DEF RouteInv
<1>. QED
  BY <1>1, <1>2, <1>3, <1>4, <1>5, <1>7, <1>8, <1>9, <1>10, <1>11, <1>12, <1>13, <1>14, <1>15, SameRing,
     SameExec, SameAccount

\* A new motion is copied to a block that no segment of the ring needs.
LEMMA InvLoadNew == ASSUME TypeOK, Inv, Load, LoadNew PROVE Inv'
<1>. USE DEF Inv, Control, Buffers, Account
<1>1. /\ pc \in {"prep", "load"} /\ ~(pc = "prep" /\ control.end_motion) /\ ~Full
      /\ prep.pl_block = "none" /\ Available # "none"
      /\ exec_fast_hold' = FALSE /\ pc' = "fill"
      /\ UNCHANGED << queue, planned, sys_block, segment, head, tail, control, wake, st, sys,
                      park, parking_enabled, pos, done >>
  BY LoadEffect
<1>. DEFINE b == NextBlock(prep.block)
<1>2. /\ ~prep.velocity_profile /\ prep'.pl_block = Available /\ ~prep'.velocity_profile
      /\ prep'.hold_partial_block = prep.hold_partial_block /\ prep'.parking = prep.parking
      /\ prep'.block = b /\ prep'.steps_remaining = StepCount(Loaded)
      /\ prep'.at_rest = prep.at_rest /\ prep'.last_steps = prep.last_steps
      /\ prep'.hold_block = prep.hold_block
  BY DEF LoadNew, TypeOK, Preps
<1>3. /\ b \in Blocks /\ prep.block \in Blocks /\ b = (IF prep.block = S - 2 THEN 0 ELSE prep.block + 1)
      /\ st_block'[b] = Loaded
      /\ \A c \in Blocks \ {b} : st_block'[c] = st_block[c]
  BY Wraps DEF LoadNew, TypeOK, Preps
<1>4. ~Started /\ Started' /\ Fresh' /\ ~Fresh /\ Cancelling' = Cancelling /\ Parked' = Parked
  BY <1>1, <1>2, <1>3 DEF Started, Fresh, Cancelling, Parked
<1>5. /\ (control.execute_sys_motion <=> Available = "sys") /\ ~control.end_motion
      /\ (Available = "line" <=> ~control.execute_sys_motion)
      /\ (~control.execute_sys_motion => queue # << >>)
  BY <1>1 DEF Available, CutInv
<1>6. control.execute_sys_motion => wake /\ pc = "prep" /\ head = tail
  BY <1>4 DEF SysInv
<1>7. QueueInv' /\ Cut' = Cut
  BY <1>1, SameQueue
<1>8. /\ control.execute_sys_motion => Loaded = sys_block
      /\ ~control.execute_sys_motion => Loaded = Line(Cut + 1) /\ StepCount(Loaded) \in 1 .. Steps
  <2>1. ASSUME ~control.execute_sys_motion PROVE Head(queue) = Cut + 1
    <3>1. queue \in Seq(1 .. Lines) /\ queue # << >>
      BY <1>5, <2>1 DEF TypeOK
    <3>2. 1 \in 1 .. Len(queue) /\ Head(queue) = queue[1]
      BY <3>1
    <3>. QED
      BY <3>2 DEF QueueInv
  <2>2. StepCount(Line(Cut + 1)) = Steps
    BY DEF StepCount, Line
  <2>. QED
    BY <1>5, <2>1, <2>2, StepsAssumption DEF Loaded
<1>9. StateInv'
  BY <1>1 DEF StateInv, Calm
<1>10. SteppingInv'
  BY <1>1, <1>4 DEF SteppingInv
<1>11. ParkInv'
  BY <1>1, <1>2 DEF ParkInv
<1>12. CutInv'
  BY <1>1, <1>2, <1>5 DEF CutInv, Full
<1>13. HeldInv'
  BY <1>1, <1>2 DEF HeldInv
<1>14. SysInv'
  BY <1>1, <1>2, <1>4, <1>5, <1>6 DEF SysInv
<1>15. BlockInv'
  <2>1. prep.parking <=> control.execute_sys_motion
    BY DEF ParkInv
  <2>2. StepCount(sys_block) \in Int
    BY MotionTypes DEF TypeOK
  <2>. QED
    BY <1>1, <1>2, <1>3, <1>5, <1>7, <1>8, <2>1, <2>2 DEF BlockInv
<1>16. RouteInv'
  BY <1>1 DEF RouteInv
<1>17. /\ InRing' = InRing /\ Ahead(head)' = Ahead(head) /\ \A s : Ahead(s)' = Ahead(s)
       /\ \A s : Ends(s)' = Ends(s)
  BY <1>1 DEF InRing, Ahead, Ends
<1>18. ASSUME NEW s \in InRing PROVE segment[s].exec_block # b /\ segment[s].exec_block \in Blocks
  <2>2. Ahead(head) \in 0 .. S - 2
    BY <1>1, FullRing, AheadIs, SAssumption DEF TypeOK
  <2>1. Back(s) < Ahead(head) - Ahead(s) /\ Ahead(s) \in 0 .. S - 1
    <3>1. Back(s) < Ahead(head) - Ahead(s) + 0 /\ Ahead(s) \in 0 .. S - 1
      BY <1>4, BehindIs DEF RingInv
    <3>. QED
      BY <2>2, <3>1, SAssumption
  <2>3. Back(s) < S - 2
    BY <2>1, <2>2, BehindIs, SAssumption
  <2>4. Behind(b) = S - 2
    BY <1>3, SAssumption DEF Behind, Blocks
  <2>5. segment[s].exec_block \in Blocks
    BY BehindIs DEF Segments
  <2>. QED
    BY <2>3, <2>4, <2>5, SAssumption DEF Back
<1>19. ASSUME NEW s \in InRing PROVE Back(s)' = Back(s) + 1
  BY <1>1, <1>2, <1>3, <1>18, SAssumption DEF Back, Behind, Blocks
<1>20. RingInv'
  <2>1. \A s \in InRing : Back(s) \in Int /\ Ahead(s) \in Int /\ Ahead(head) \in Int
    BY BehindIs, AheadIs, SAssumption DEF TypeOK
  <2>2. \A s \in InRing : Back(s)' < Ahead(head)' - Ahead(s)' + (IF Fresh' THEN 1 ELSE 0)
    BY <1>4, <1>17, <1>19, <2>1 DEF RingInv
  <2>3. \A s \in InRing : st_block'[segment[s].exec_block] = segment[s].of
    BY <1>3, <1>18 DEF RingInv
  <2>4. control.execute_sys_motion => InRing = {}
    BY <1>6, RingEnds
  <2>5. \A s, t \in InRing : Ahead(s) <= Ahead(t) =>
           0 <= Back(s)' - Back(t)' /\ Back(s)' - Back(t)' <= Ahead(t) - Ahead(s)
    BY <1>19, <2>1 DEF RingInv
  <2>6. \A s \in InRing : segment[s].n_step > 0 /\ \E i \in 1 .. Lines : segment[s].of = Line(i)
    BY <2>4 DEF RingInv
  <2>. QED
    BY <1>1, <1>17, <2>2, <2>3, <2>4, <2>5, <2>6 DEF RingInv
<1>21. ExecInv'
  <2>1. head # tail => segment[tail].exec_block # b /\ segment[tail].exec_block \in Blocks
    BY <1>18, RingEnds
  <2>. QED
    BY <1>1, <1>2, <1>3, <1>4, <2>1 DEF ExecInv
<1>22. CutOff = 0 /\ CutOff' = 0
  <2>1. Loaded \in Motions /\ StepCount(Loaded) \in Int
    BY <1>1, LoadedType, MotionTypes
  <2>. QED
    BY <1>2, <1>3, <1>4, <2>1 DEF CutOff
<1>23. PosInv'
  BY <1>1, <1>6, <1>22 DEF PosInv
<1>24. ChainInv => ChainInv'
  <2>1. \A s, t \in InRing : NextSeg(s, t)' <=> NextSeg(s, t)
    BY <1>1, <1>17 DEF NextSeg
  <2>2. \A s \in InRing : ~OfBlock(s) /\ ~OfBlock(s)'
    BY <1>1, <1>2, <1>4, <1>18 DEF OfBlock
  <2>. QED
    BY <1>1, <1>7, <1>17, <2>1, <2>2 DEF ChainInv
<1>25. LineInv => LineInv'
  <2>1. HeldOff' = HeldOff
    BY <1>2, <1>22 DEF HeldOff
  <2>2. Begins(tail)' = Begins(tail)
    BY <1>1 DEF Begins
  <2>3. ReachedLine(Cut + 1, HeldOff)' <=> ReachedLine(Cut + 1, HeldOff)
    BY <1>1, <1>7, <2>1 DEF ReachedLine
  <2>4. ReachedLine(segment[tail].of[2], Begins(tail))' <=> ReachedLine(segment[tail].of[2], Begins(tail))
    BY <1>1, <2>2 DEF ReachedLine
  <2>. QED
    BY <1>1, <1>7, <1>17, <2>3, <2>4 DEF LineInv
<1>. QED
  BY <1>4, <1>7, <1>9, <1>10, <1>11, <1>12, <1>13, <1>14, <1>15, <1>16, <1>20, <1>21, <1>23, <1>24, <1>25

LEMMA InvLoad == ASSUME TypeOK, Inv, Load PROVE Inv'
BY LoadEffect, InvLoadProfile, InvLoadNew

\* Where a segment can be written.
LEMMA FillingWhere ==
    ASSUME TypeOK, Inv, Filling
    PROVE  /\ prep.pl_block # "none" /\ ~Full /\ ~control.end_motion /\ pc \in {"prep", "load", "fill"}
           /\ Started
BY DEF Filling, Inv, Control, CutInv, Full, Started

\* Less than a step was left of the hold.
LEMMA InvFillEnds == ASSUME TypeOK, Inv, Fill(0), FillEnds PROVE Inv'
<1>. USE DEF Inv, Control, Buffers, Account
<1>1. /\ segment' = [segment EXCEPT ![head] = NewSegment(0)] /\ Filling
      /\ UNCHANGED << queue, planned, sys_block, head, st_block, exec_fast_hold >>
  BY FillEffect
<1>2. /\ control.execute_hold /\ control'.end_motion
      /\ control'.execute_hold = control.execute_hold
      /\ control'.execute_sys_motion = control.execute_sys_motion
  BY DEF FillEnds, TypeOK
<1>3. /\ prep'.at_rest
      /\ (prep'.hold_partial_block <=> prep.hold_partial_block \/ (parking_enabled /\ ~prep.parking))
      /\ prep'.hold_partial_block \in BOOLEAN /\ prep.hold_partial_block \in BOOLEAN
      /\ prep'.pl_block = prep.pl_block /\ prep'.velocity_profile = prep.velocity_profile
      /\ prep'.parking = prep.parking
      /\ prep'.block = prep.block /\ prep'.steps_remaining = prep.steps_remaining
      /\ prep'.last_steps = prep.last_steps /\ prep'.hold_block = prep.hold_block
  BY DEF FillEnds, TypeOK, Preps
<1>4. ~wake /\ wake' = FALSE /\ pc' = "loop" /\ UNCHANGED << sys, park, parking_enabled, pos, done, tail, st >>
  <2>1. ~wake
    BY <1>2 DEF SteppingInv
  <2>. QED
    BY <2>1 DEF FillEnds, Leave
<1>5. prep.pl_block # "none" /\ ~control.end_motion /\ Started
  BY <1>1, FillingWhere
<1>6. Started' /\ Cancelling' = Cancelling /\ Parked' = Parked
  BY <1>2, <1>3, <1>4, <1>5 DEF Started, Cancelling, Parked
<1>7. Same /\ SameExecution
  <2>1. \A s \in InRing : segment'[s] = segment[s]
    BY <1>1, RingEnds DEF InRing, TypeOK
  <2>. QED
    BY <1>1, <1>2, <1>3, <1>4, <1>5, <1>6, <2>1 DEF Same, SameExecution
<1>8. (Fresh' <=> Fresh) /\ (control.execute_sys_motion => ~Fresh)
  BY <1>4, <1>7, SameBasics DEF SysInv
<1>9. StateInv'
  BY <1>1, <1>2, <1>4 DEF StateInv, Calm, Holding
<1>10. SteppingInv'
  BY <1>1, <1>2, <1>4, <1>6 DEF SteppingInv
<1>11. ParkInv'
  BY <1>1, <1>2, <1>3, <1>4 DEF ParkInv
<1>12. CutInv'
  BY <1>1, <1>2, <1>3, <1>4 DEF CutInv
<1>13. HeldInv'
  <2>1. ~prep.parking => prep.pl_block = "line"
    BY <1>5 DEF CutInv, ParkInv, TypeOK, Preps
  <2>. QED
    BY <1>2, <1>3, <1>4, <2>1 DEF HeldInv
<1>14. SysInv'
  BY <1>1, <1>2, <1>3, <1>4, <1>6, <1>8 DEF SysInv
<1>15. QueueInv' /\ Cut' = Cut
  BY <1>1, SameQueue
<1>16. BlockInv'
  BY <1>1, <1>3, <1>5, <1>6, <1>15 DEF BlockInv
<1>17. RouteInv'
  BY <1>1, <1>2, <1>4 DEF RouteInv
<1>18. prep.parking => prep'.hold_partial_block = prep.hold_partial_block
  BY <1>3
<1>. QED
  BY <1>1, <1>3, <1>4, <1>6, <1>7, <1>9, <1>10, <1>11, <1>12, <1>13, <1>14, <1>15, <1>16, <1>17, <1>18,
     SameRing, SameExec, SameAccount

LEMMA InvFillOn ==
    ASSUME TypeOK, Inv, NEW n \in 1 .. Steps + Target, Fill(n) PROVE Inv'
<1>. USE DEF Inv, Control, Buffers, Account
<1>1. n # 0 /\ n > 0
  OBVIOUS
<1>2. /\ segment' = [segment EXCEPT ![head] = NewSegment(n)] /\ Filling
      /\ ~(control.execute_hold /\ prep.at_rest)
      /\ Go("publish") /\ UNCHANGED << control, prep >>
      /\ UNCHANGED << queue, planned, sys_block, head, st_block, exec_fast_hold >>
  BY <1>1, FillEffect
<1>3. pc' = "publish" /\ UNCHANGED << wake, sys, park, parking_enabled, pos, done, tail, st >>
  BY <1>2, GoEffect
<1>4. prep.pl_block # "none" /\ ~control.end_motion /\ ~Full /\ Started /\ pc \in {"prep", "load", "fill"}
  BY <1>2, FillingWhere
<1>5. Started' = Started /\ Cancelling' = Cancelling /\ Parked' = Parked
  BY <1>2, <1>3 DEF Started, Cancelling, Parked
<1>6. Same /\ SameExecution
  <2>1. \A s \in InRing : segment'[s] = segment[s]
    BY <1>2, RingEnds DEF InRing, TypeOK
  <2>. QED
    BY <1>2, <1>3, <1>5, <2>1 DEF Same, SameExecution
<1>7. Fresh' <=> Fresh
  BY <1>6, SameBasics
<1>8. StateInv'
  BY <1>2, <1>3 DEF StateInv, Calm
<1>9. SteppingInv'
  BY <1>2, <1>3, <1>4, <1>5 DEF SteppingInv
<1>10. ParkInv'
  BY <1>2, <1>3 DEF ParkInv
<1>11. CutInv'
  <2>1. segment'[head] = NewSegment(n) /\ NewSegment(n).n_step = n
    BY <1>2 DEF NewSegment, TypeOK
  <2>2. NewSegment(n)' = NewSegment(n)
    BY <1>2 DEF NewSegment
  <2>3. (segment[head] = NewSegment(segment[head].n_step))' /\ (segment[head].n_step > 0)'
    <3>1. (segment[head])' = NewSegment(n) /\ (segment[head].n_step)' = n
      BY <1>2, <2>1
    <3>2. (NewSegment(segment[head].n_step))' = NewSegment(n)
      BY <1>2, <3>1 DEF NewSegment
    <3>. QED
      BY <1>1, <3>1, <3>2
  <2>. QED
    BY <1>2, <1>3, <1>4, <2>3 DEF CutInv, Full
<1>12. HeldInv'
  BY <1>2, <1>3, <1>5 DEF HeldInv
<1>13. SysInv'
  BY <1>2, <1>3, <1>4, <1>5, <1>7 DEF SysInv
<1>14. QueueInv' /\ Cut' = Cut
  BY <1>2, SameQueue
<1>15. BlockInv'
  BY <1>2, <1>5, <1>14 DEF BlockInv
<1>16. RouteInv'
  BY <1>2, <1>3 DEF RouteInv
<1>. QED
  BY <1>2, <1>3, <1>5, <1>6, <1>8, <1>9, <1>10, <1>11, <1>12, <1>13, <1>14, <1>15, <1>16, SameRing,
     SameExec, SameAccount

LEMMA InvFill == ASSUME TypeOK, Inv, NEW n \in 0 .. Steps + Target, Fill(n) PROVE Inv'
<1>1. CASE n = 0
  BY <1>1, FillEffect, InvFillEnds
<1>2. CASE n # 0
  <2>1. n \in 1 .. Steps + Target
    BY <1>2
  <2>. QED
    BY <2>1, InvFillOn
<1>. QED
  BY <1>1, <1>2

\* What the four outcomes of Publish have in common.
Published ==
    /\ Left >= 0
    /\ UNCHANGED << planned, sys_block, segment, tail, st_block, exec_fast_hold, sys, park,
                    parking_enabled, pos, done >>
    /\ SameExecution /\ head' = NextSlot(head)
    /\ prep'.steps_remaining = Left /\ prep'.block = prep.block /\ prep'.parking = prep.parking
    /\ prep'.velocity_profile = prep.velocity_profile /\ prep'.last_steps = prep.last_steps
    /\ prep'.hold_block = prep.hold_block
    /\ control'.execute_hold = control.execute_hold
    /\ control'.execute_sys_motion = control.execute_sys_motion
    /\ prep.parking => prep'.hold_partial_block = prep.hold_partial_block
    /\ prep'.hold_partial_block => prep.hold_partial_block \/ (parking_enabled /\ control'.end_motion)
    /\ prep'.at_rest /\ parking_enabled /\ ~prep.parking => prep'.hold_partial_block \/ prep'.pl_block = "none"
    /\ prep'.at_rest /\ control.execute_sys_motion => control'.end_motion
    /\ \/ /\ control' = control /\ pc' = "load" /\ wake' = wake /\ st' = st
       \/ /\ control'.end_motion /\ prep'.at_rest /\ pc' = "loop" /\ wake' = FALSE
          /\ st'.stepping = (wake \/ st.stepping)
          /\ control.execute_hold \/ control.execute_sys_motion
          /\ Left = 0 \/ control.execute_hold
          /\ prep'.pl_block = prep.pl_block
    /\ \/ /\ Left > 0 \/ control.execute_sys_motion
          /\ prep'.pl_block = prep.pl_block /\ queue' = queue
       \/ /\ Left = 0 /\ ~control.execute_sys_motion
          /\ prep'.pl_block = "none" /\ queue' = IF queue = << >> THEN queue ELSE Tail(queue)

LEMMA PublishedDo ==
    ASSUME TypeOK, Inv, NEW hold_ends, NEW rest \in BOOLEAN, Publish(hold_ends, rest) PROVE Published
<1>1. /\ head' = NextSlot(head) /\ UNCHANGED << segment, st_block, exec_fast_hold >>
      /\ PublishMore \/ PublishHeld \/ PublishSys \/ PublishLast(rest)
  BY PublishEffect DEF TypeOK
<1>2. prep.parking => control.execute_sys_motion
  BY DEF Inv, Control, ParkInv
<1>3. Left \in Int
  BY DEF Left, TypeOK, Preps, Segments
<1>4. CASE PublishMore
  <2>1. /\ pc' = "load" /\ UNCHANGED << wake, sys, park, parking_enabled, pos, done, st, tail >>
    BY <1>4, GoEffect DEF PublishMore
  <2>2. /\ Left > 0 /\ UNCHANGED << queue, planned, sys_block, control >>
        /\ prep'.steps_remaining = Left /\ prep'.block = prep.block /\ prep'.parking = prep.parking
        /\ prep'.velocity_profile = prep.velocity_profile /\ prep'.last_steps = prep.last_steps
        /\ prep'.hold_block = prep.hold_block /\ prep'.hold_partial_block = prep.hold_partial_block
        /\ prep'.pl_block = prep.pl_block /\ ~prep'.at_rest
    BY <1>4 DEF PublishMore, TypeOK, Preps
  <2>. QED
    BY <1>1, <1>3, <2>1, <2>2 DEF Published, SameExecution
<1>5. CASE PublishHeld
  <2>1. /\ pc' = "loop" /\ wake' = FALSE /\ st'.stepping = (wake \/ st.stepping) /\ SameExecution
        /\ UNCHANGED << sys, park, parking_enabled, pos, done, tail >>
    BY <1>5, LeaveEffect DEF PublishHeld, SameExecution
  <2>2. /\ Left > 0 /\ control.execute_hold /\ UNCHANGED << queue, planned, sys_block >>
        /\ prep'.steps_remaining = Left /\ prep'.block = prep.block /\ prep'.parking = prep.parking
        /\ prep'.velocity_profile = prep.velocity_profile /\ prep'.last_steps = prep.last_steps
        /\ prep'.hold_block = prep.hold_block
        /\ (prep'.hold_partial_block <=> prep.hold_partial_block \/ (parking_enabled /\ ~prep.parking))
        /\ prep'.hold_partial_block \in BOOLEAN /\ prep.hold_partial_block \in BOOLEAN
        /\ prep'.pl_block = prep.pl_block /\ prep'.at_rest
    BY <1>5 DEF PublishHeld, TypeOK, Preps
  <2>3. /\ control'.end_motion /\ control'.execute_hold = control.execute_hold
        /\ control'.execute_sys_motion = control.execute_sys_motion
    BY <1>5 DEF PublishHeld, TypeOK
  <2>. QED
    BY <1>1, <1>3, <2>1, <2>2, <2>3 DEF Published
<1>6. CASE PublishSys
  <2>1. /\ pc' = "loop" /\ wake' = FALSE /\ st'.stepping = (wake \/ st.stepping) /\ SameExecution
        /\ UNCHANGED << sys, park, parking_enabled, pos, done, tail >>
    BY <1>6, LeaveEffect DEF PublishSys, SameExecution
  <2>2. /\ Left = 0 /\ control.execute_sys_motion /\ UNCHANGED << queue, planned, sys_block >>
        /\ prep'.steps_remaining = Left /\ prep'.block = prep.block /\ prep'.parking = prep.parking
        /\ prep'.velocity_profile = prep.velocity_profile /\ prep'.last_steps = prep.last_steps
        /\ prep'.hold_block = prep.hold_block /\ prep'.hold_partial_block = prep.hold_partial_block
        /\ prep'.pl_block = prep.pl_block /\ prep'.at_rest
    BY <1>6 DEF PublishSys, TypeOK, Preps
  <2>3. /\ control'.end_motion /\ control'.execute_hold = control.execute_hold
        /\ control'.execute_sys_motion = control.execute_sys_motion
    BY <1>6 DEF PublishSys, TypeOK
  <2>4. prep.parking
    BY <2>2 DEF Inv, Control, ParkInv
  <2>. QED
    BY <1>1, <1>3, <2>1, <2>2, <2>3, <2>4 DEF Published
<1>7. CASE PublishLast(rest)
  <2>1. /\ pc' = "load" /\ UNCHANGED << wake, sys, park, parking_enabled, pos, done, st, tail >>
    BY <1>7, GoEffect DEF PublishLast
  <2>2. /\ Left = 0 /\ ~control.execute_sys_motion /\ UNCHANGED << planned, sys_block, control >>
        /\ prep'.steps_remaining = Left /\ prep'.block = prep.block /\ prep'.parking = prep.parking
        /\ prep'.velocity_profile = prep.velocity_profile /\ prep'.last_steps = prep.last_steps
        /\ prep'.hold_block = prep.hold_block /\ prep'.hold_partial_block = prep.hold_partial_block
        /\ prep'.pl_block = "none"
        /\ queue' = IF queue = << >> THEN queue ELSE Tail(queue)
    BY <1>7 DEF PublishLast, TypeOK, Preps
  <2>. QED
    BY <1>1, <1>2, <1>3, <2>1, <2>2 DEF Published, SameExecution
<1>. QED
  BY <1>1, <1>4, <1>5, <1>6, <1>7

\* The segment that is published, and the ring it joins.
LEMMA PublishBasics ==
    ASSUME TypeOK, Inv, pc = "publish", Published
    PROVE  /\ Started /\ prep.pl_block # "none" /\ ~prep.velocity_profile /\ ~control.end_motion
           /\ segment[head].n_step \in 1 .. Steps + Target
           /\ segment[head].exec_block = prep.block /\ segment[head].of = st_block[prep.block]
           /\ segment[head].at = CutOff
           /\ head' # tail /\ Ahead(head)' = Ahead(head) + 1 /\ Ahead(head) \in 0 .. S - 2
           /\ \A s : Ahead(s)' = Ahead(s)
           /\ InRing' = InRing \cup {head}
           /\ \A s : Back(s)' = Back(s) /\ Ends(s)' = Ends(s)
           /\ Back(head) = 0
<1>. USE DEF Inv, Control
<1>1. head \in Slots /\ tail \in Slots /\ segment[head] \in Segments /\ prep.block \in Blocks
  BY DEF TypeOK, Preps
<1>2. /\ prep.pl_block # "none" /\ ~prep.velocity_profile /\ ~control.end_motion
      /\ NextSlot(head) # tail /\ segment[head].n_step > 0
      /\ segment[head] = NewSegment(segment[head].n_step)
  BY DEF CutInv
<1>3. Started
  BY <1>2 DEF Started
<1>4. /\ segment[head].exec_block = prep.block /\ segment[head].of = st_block[prep.block]
      /\ segment[head].at = CutOff
  BY <1>2, <1>3 DEF NewSegment, CutOff
<1>5. segment[head].n_step \in 1 .. Steps + Target
  BY <1>1, <1>2, StepsAssumption, ParkAssumption DEF Segments
<1>6. \A s : Ahead(s)' = Ahead(s)
  BY DEF Published, Ahead
<1>7. Ahead(head) \in 0 .. S - 2 /\ Ahead(head)' = Ahead(head) + 1
  <2>1. Ahead(head) \in 0 .. S - 2
    BY <1>1, <1>2, AheadSteps, AheadIs, SAssumption
  <2>2. Ahead(NextSlot(head)) = Ahead(head) + 1
    BY <1>1, <2>1, AheadSteps, SAssumption
  <2>3. Ahead(head)' = Ahead(NextSlot(head))
    BY DEF Published, Ahead
  <2>. QED
    BY <2>1, <2>2, <2>3
<1>8. head' # tail
  BY <1>2 DEF Published
<1>9. InRing' = InRing \cup {head}
  <2>1. InRing' = {s \in Slots : Ahead(s) < Ahead(head) + 1}
    BY <1>6, <1>7 DEF InRing
  <2>2. \A s \in Slots : Ahead(s) < Ahead(head) + 1 <=> Ahead(s) < Ahead(head) \/ s = head
    <3>1. \A s \in Slots : Ahead(s) \in 0 .. S - 1 /\ (Ahead(s) = Ahead(head) => s = head)
      BY <1>1, AheadIs, AheadSteps
    <3>. QED
      BY <1>1, <1>7, <3>1, SAssumption
  <2>. QED
    BY <1>1, <2>1, <2>2 DEF InRing
<1>10. \A s : Back(s)' = Back(s) /\ Ends(s)' = Ends(s)
  BY DEF Published, Back, Behind, Ends
<1>11. Back(head) = 0
  BY <1>1, <1>4, BehindIs DEF Back
<1>. QED
  BY <1>2, <1>3, <1>4, <1>5, <1>6, <1>7, <1>8, <1>9, <1>10, <1>11

LEMMA PublishControl == ASSUME TypeOK, Inv, pc = "publish", Published PROVE Control'
<1>. USE DEF Inv, Control
<1>1. /\ Started /\ prep.pl_block # "none" /\ ~prep.velocity_profile /\ ~control.end_motion /\ head' # tail
  BY PublishBasics
<1>2. /\ UNCHANGED << sys, park, parking_enabled, exec_fast_hold, tail, sys_block, st_block >>
      /\ SameExecution
      /\ control'.execute_hold = control.execute_hold
      /\ control'.execute_sys_motion = control.execute_sys_motion
      /\ prep'.parking = prep.parking /\ prep'.velocity_profile = prep.velocity_profile
      /\ prep'.steps_remaining = Left /\ prep'.block = prep.block
  BY DEF Published
<1>3. Parked' = Parked
  BY <1>2 DEF Parked
<1>4. control'.end_motion => control.execute_hold \/ control.execute_sys_motion
  BY <1>1 DEF Published
<1>5. StateInv'
  BY <1>2, <1>4 DEF StateInv, Calm, Holding
<1>6. SteppingInv'
  <2>1. /\ wake' => wake /\ pc' = "load" /\ control' = control /\ st' = st
        /\ st'.stepping => wake \/ st.stepping
        /\ st.stepping => st'.stepping
    <3>1. wake \in BOOLEAN /\ st.stepping \in BOOLEAN
      BY DEF TypeOK, Executions
    <3>. QED
      BY <3>1 DEF Published
  <2>. QED
    BY <1>1, <1>2, <1>3, <2>1 DEF SteppingInv, SameExecution
<1>7. ParkInv'
  BY <1>1, <1>2 DEF ParkInv, Published
<1>8. CutInv'
  <2>1. ~(sys.complete /\ (control.execute_sys_motion \/ sys.handler = "await_hold"))
    BY <1>1 DEF CutInv, SysInv, SteppingInv, StateInv
  <2>2. pc' \in {"load", "loop"} /\ (control'.end_motion => prep'.at_rest /\ pc' = "loop")
        /\ prep'.pl_block \in {"none", prep.pl_block}
    BY <1>1 DEF Published
  <2>. QED
    BY <1>1, <1>2, <2>1, <2>2 DEF CutInv
<1>9. HeldInv'
  <2>1. /\ prep'.hold_partial_block => prep.hold_partial_block \/ (parking_enabled /\ control'.end_motion)
        /\ prep'.at_rest /\ parking_enabled /\ ~prep.parking => prep'.hold_partial_block \/ prep'.pl_block = "none"
        /\ control'.end_motion => prep'.pl_block = prep.pl_block
    BY <1>1 DEF Published
  <2>2. ~prep.parking => prep.pl_block = "line" /\ ~prep.hold_partial_block
    BY <1>1 DEF ParkInv, CutInv, HeldInv, TypeOK, Preps
  <2>. QED
    BY <1>1, <1>2, <2>1, <2>2 DEF HeldInv, Started
<1>10. SysInv'
  <2>1. CASE ~control.execute_sys_motion
    BY <1>2, <2>1 DEF SysInv
  <2>2. CASE control.execute_sys_motion
    <3>1. Started'
      BY <1>1, <2>2 DEF Started, Published
    <3>2. ~Fresh'
      <4>1. st_block[prep.block] = sys_block /\ prep.steps_remaining <= StepCount(sys_block)
        BY <1>1, <2>2 DEF Buffers, BlockInv, ParkInv
      <4>2. Left < prep.steps_remaining /\ Left \in Int /\ prep.steps_remaining \in Nat
        BY PublishBasics DEF Left, TypeOK, Preps
      <4>3. StepCount(sys_block) \in Nat
        BY MotionTypes DEF TypeOK
      <4>. QED
        BY <1>2, <4>1, <4>2, <4>3 DEF Fresh
    <3>3. /\ prep'.at_rest => control'.end_motion
          /\ control'.end_motion => Left = 0 \/ control.execute_hold
      BY <1>1, <2>2 DEF Published
    <3>. QED
      BY <1>2, <3>1, <3>2, <3>3 DEF SysInv
  <2>. QED
    BY <2>1, <2>2
<1>. QED
  BY <1>5, <1>6, <1>7, <1>8, <1>9, <1>10

\* The motion being cut is a line of the program unless a parking motion is under way.
LEMMA CutsLine ==
    ASSUME TypeOK, Inv, Started, ~control.execute_sys_motion
    PROVE  /\ ~prep.parking /\ st_block[prep.block] = Line(Cut + 1) /\ Cut + 1 \in 1 .. Lines
           /\ queue # << >> /\ prep.steps_remaining \in 1 .. Steps
           /\ Cut \in Int /\ CutOff = Steps - prep.steps_remaining
<1>1. /\ ~prep.parking /\ st_block[prep.block] = Line(Cut + 1)
      /\ queue # << >> /\ prep.steps_remaining \in 1 .. Steps
  BY DEF Inv, Control, ParkInv, Buffers, BlockInv
<1>2. queue \in Seq(1 .. Lines) /\ planned \in 0 .. Lines /\ Len(queue) \in Nat /\ Len(queue) <= planned
  BY DEF TypeOK, Inv, Buffers, QueueInv
<1>3. Len(queue) > 0
  BY <1>1, <1>2
<1>4. CutOff = Steps - prep.steps_remaining
  BY <1>1 DEF CutOff, StepCount, Line
<1>. QED
  BY <1>1, <1>2, <1>3, <1>4, StepsAssumption DEF Cut

\* A line is discarded by the planner with its last segment.
LEMMA PublishBuffers == ASSUME TypeOK, Inv, pc = "publish", Published PROVE Buffers'
<1>. USE DEF Inv, Control, Buffers
<1>1. /\ Started /\ prep.pl_block # "none" /\ ~prep.velocity_profile
      /\ segment[head].n_step \in 1 .. Steps + Target /\ segment[head].exec_block = prep.block
      /\ segment[head].of = st_block[prep.block]
      /\ head' # tail /\ Ahead(head)' = Ahead(head) + 1 /\ Ahead(head) \in 0 .. S - 2
      /\ \A s : Ahead(s)' = Ahead(s)
      /\ InRing' = InRing \cup {head}
      /\ \A s : Back(s)' = Back(s)
      /\ Back(head) = 0
  BY PublishBasics
<1>2. /\ UNCHANGED << segment, tail, sys_block, st_block >> /\ SameExecution
      /\ control'.execute_sys_motion = control.execute_sys_motion
      /\ prep'.parking = prep.parking /\ prep'.velocity_profile = prep.velocity_profile
      /\ prep'.steps_remaining = Left /\ prep'.block = prep.block /\ prep'.last_steps = prep.last_steps
      /\ prep'.hold_block = prep.hold_block
      /\ prep.parking => prep'.hold_partial_block = prep.hold_partial_block
  BY DEF Published
<1>3. Left >= 0 /\ Left \in Int /\ Left < prep.steps_remaining /\ prep.steps_remaining \in Nat
  BY <1>1 DEF Published, Left, TypeOK, Preps
<1>4. QueueInv' /\ (queue' = queue => Cut' = Cut)
  <2>1. CASE queue' = queue
    BY <2>1, SameQueue DEF Published, Cut
  <2>2. CASE queue' # queue
    <3>1. queue # << >> /\ queue' = Tail(queue) /\ planned' = planned /\ queue \in Seq(1 .. Lines)
          /\ planned \in Nat
      BY <2>2, StepsAssumption DEF Published, TypeOK
    <3>2. /\ Len(queue) \in Nat /\ Len(queue) >= 1 /\ Len(queue') = Len(queue) - 1
          /\ \A i \in 1 .. Len(queue) - 1 : queue'[i] = queue[i + 1]
      BY <3>1, HeadTailProperties
    <3>3. Cut' = Cut + 1 /\ Cut \in Int
      BY <3>1, <3>2 DEF Cut
    <3>4. \A i \in 1 .. Len(queue) - 1 : i + 1 \in 1 .. Len(queue) /\ queue[i + 1] = Cut + (i + 1)
      BY <3>2 DEF QueueInv
    <3>5. \A i \in 1 .. Len(queue') : queue'[i] = Cut' + i
      BY <3>2, <3>3, <3>4
    <3>6. Len(queue') <= planned'
      BY <3>1, <3>2 DEF QueueInv
    <3>. QED
      BY <2>2, <3>5, <3>6 DEF QueueInv
  <2>. QED
    BY <2>1, <2>2
<1>5. BlockInv'
  <2>1. CASE control.execute_sys_motion
    <3>1. prep.parking /\ queue' = queue /\ prep.steps_remaining <= StepCount(sys_block)
          /\ st_block[prep.block] = sys_block
      BY <1>1, <2>1 DEF Published, ParkInv, BlockInv
    <3>2. StepCount(sys_block) \in Nat
      BY MotionTypes DEF TypeOK
    <3>. QED
      BY <1>2, <1>3, <1>4, <3>1, <3>2 DEF BlockInv
  <2>2. CASE ~control.execute_sys_motion
    <3>1. ~prep.parking /\ queue # << >> /\ st_block[prep.block] = Line(Cut + 1)
          /\ prep.steps_remaining \in 1 .. Steps
      BY <1>1, <2>2, CutsLine
    <3>2. (Left > 0 /\ queue' = queue) \/ ~Started'
      BY <1>1, <1>2, <2>2 DEF Published, Started
    <3>3. Left > 0 => Left \in 1 .. Steps
      BY <1>3, <3>1, StepsAssumption
    <3>4. Started' => queue' # << >> /\ Cut' = Cut /\ Left \in 1 .. Steps
      BY <1>4, <3>1, <3>2, <3>3
    <3>5. ~prep'.parking
      BY <1>2, <3>1
    <3>. QED
      BY <1>2, <3>1, <3>4, <3>5 DEF BlockInv
  <2>. QED
    BY <2>1, <2>2
<1>6. RingInv'
  <2>1. /\ \A s \in InRing : Back(s) \in Int /\ Ahead(s) \in Int /\ Back(s) >= 0 /\ Ahead(s) < Ahead(head)
        /\ Ahead(head) \in Int
    BY BehindIs, SAssumption, <1>1 DEF InRing
  <2>2. ASSUME NEW s \in InRing PROVE Back(s) <= Ahead(head) - Ahead(s)
    BY <2>1 DEF RingInv
  <2>3. ASSUME NEW s \in InRing'
        PROVE  Back(s)' < Ahead(head)' - Ahead(s)' + (IF Fresh' THEN 1 ELSE 0)
    <3>1. Back(s) <= Ahead(head) - Ahead(s) /\ Back(s) \in Int /\ Ahead(s) \in Int
      BY <1>1, <2>1, <2>2
    <3>. QED
      BY <1>1, <2>1, <3>1
  <2>4. ASSUME NEW s \in InRing', NEW t \in InRing', Ahead(s)' <= Ahead(t)'
        PROVE  0 <= Back(s)' - Back(t)' /\ Back(s)' - Back(t)' <= Ahead(t)' - Ahead(s)'
    <3>1. CASE s \in InRing /\ t \in InRing
      BY <1>1, <2>4, <3>1 DEF RingInv
    <3>2. CASE t = head
      <4>1. Back(s) \in Int /\ Back(s) >= 0 /\ Back(s) <= Ahead(head) - Ahead(s)
        BY <1>1, <2>1, <2>2
      <4>. QED
        BY <1>1, <3>2, <4>1
    <3>3. CASE s = head /\ t \in InRing
      BY <1>1, <2>1, <2>4, <3>3
    <3>. QED
      BY <1>1, <3>1, <3>2, <3>3
  <2>5. ~control.execute_sys_motion => \E i \in 1 .. Lines : segment[head].of = Line(i)
    BY <1>1, CutsLine
  <2>6. \A s \in InRing' :
           /\ st_block[segment[s].exec_block] = segment[s].of
           /\ segment[s].n_step > 0
           /\ control.execute_sys_motion => segment[s].exec_block = prep.block
           /\ ~control.execute_sys_motion => \E i \in 1 .. Lines : segment[s].of = Line(i)
    <3>1. segment[head].n_step > 0
      BY <1>1
    <3>. QED
      BY <1>1, <2>5, <3>1 DEF RingInv
  <2>. QED
    BY <1>2, <2>3, <2>4, <2>6 DEF RingInv
<1>7. ExecInv'
  <2>1. head = tail => segment[tail].exec_block = prep.block
    BY <1>1
  <2>. QED
    BY <1>1, <1>2, <2>1 DEF ExecInv, SameExecution
<1>. QED
  BY <1>4, <1>5, <1>6, <1>7

\* The last segment of the ring.
LEMMA LastInRing ==
    ASSUME TypeOK, head # tail
    PROVE  PrevSlot(head) \in InRing /\ Ahead(head) = Ahead(PrevSlot(head)) + 1
<1>1. head \in Slots /\ tail \in Slots
  BY DEF TypeOK
<1>2. PrevSlot(head) \in Slots /\ Ahead(PrevSlot(head)) = Ahead(head) - 1 /\ Ahead(head) \in 0 .. S - 1
  BY <1>1, Wraps, AheadSteps, AheadIs
<1>. QED
  BY <1>2, SAssumption DEF InRing

\* The published segment goes on where the one before it ends, or where the interrupt is.
LEMMA PublishAccount == ASSUME TypeOK, Inv, pc = "publish", Published PROVE Account'
<1>. USE DEF Inv, Control, Buffers, Account
<1>1. /\ Started /\ prep.pl_block # "none" /\ ~prep.velocity_profile
      /\ segment[head].n_step \in 1 .. Steps + Target /\ segment[head].exec_block = prep.block
      /\ segment[head].of = st_block[prep.block] /\ segment[head].at = CutOff
      /\ head' # tail /\ Ahead(head)' = Ahead(head) + 1 /\ Ahead(head) \in 0 .. S - 2
      /\ \A s : Ahead(s)' = Ahead(s)
      /\ InRing' = InRing \cup {head}
      /\ \A s : Ends(s)' = Ends(s)
  BY PublishBasics
<1>2. /\ UNCHANGED << planned, segment, tail, sys_block, st_block, sys, park, pos, done >> /\ SameExecution
      /\ control'.execute_sys_motion = control.execute_sys_motion
      /\ prep'.parking = prep.parking /\ prep'.velocity_profile = prep.velocity_profile
      /\ prep'.steps_remaining = Left /\ prep'.block = prep.block /\ prep'.last_steps = prep.last_steps
      /\ prep.parking => prep'.hold_partial_block = prep.hold_partial_block
  BY DEF Published
<1>3. Left = prep.steps_remaining - segment[head].n_step /\ prep.steps_remaining \in Nat
      /\ StepCount(st_block[prep.block]) \in Nat
      /\ CutOff = StepCount(st_block[prep.block]) - prep.steps_remaining
      /\ CutOff >= 0
  <2>1. st_block[prep.block] \in Motions /\ sys_block \in Motions /\ prep.steps_remaining \in Nat
    BY DEF TypeOK, Preps
  <2>2. prep.steps_remaining <= StepCount(st_block[prep.block])
    <3>1. CASE control.execute_sys_motion
      BY <1>1, <3>1 DEF BlockInv, ParkInv
    <3>2. CASE ~control.execute_sys_motion
      BY <1>1, <3>2, CutsLine DEF StepCount, Line
    <3>. QED
      BY <3>1, <3>2
  <2>3. StepCount(st_block[prep.block]) \in Nat
    BY <2>1, MotionTypes
  <2>4. CutOff = StepCount(st_block[prep.block]) - prep.steps_remaining
    BY <1>1 DEF CutOff
  <2>5. CutOff >= 0
    BY <2>1, <2>2, <2>3, <2>4
  <2>. QED
    BY <2>1, <2>3, <2>4, <2>5 DEF Left
<1>4. Cancelling' = Cancelling
  BY <1>2 DEF Cancelling
<1>5. RouteInv'
  BY <1>2 DEF RouteInv
<1>6. /\ head # tail => Begins(tail)' = Begins(tail)
      /\ head = tail => Begins(tail)' = CutOff
  <2>1. head = tail => ~(st.step_count > 0)
    BY DEF ExecInv
  <2>. QED
    BY <1>1, <1>2, <2>1 DEF Begins, SameExecution
<1>7. PosInv'
  BY <1>1, <1>2, <1>6 DEF PosInv
<1>8. /\ ~control.execute_sys_motion => /\ ~prep.parking /\ segment[head].of = Line(Cut + 1)
                                       /\ segment[head].of[2] = Cut + 1 /\ Cut \in Int
      /\ Cut' = Cut \/ (Cut' = Cut + 1 /\ ~control.execute_sys_motion /\ Left = 0 /\ ~Started')
      /\ control.execute_sys_motion => Cut' = Cut
      /\ Started' => Cut' = Cut
      /\ ~Started' => Cut' = Cut + 1 /\ ~control.execute_sys_motion /\ Left = 0
  <2>1. ~control.execute_sys_motion =>
           /\ ~prep.parking /\ segment[head].of = Line(Cut + 1) /\ Cut \in Int /\ queue # << >>
    BY <1>1, CutsLine
  <2>2. Line(Cut + 1)[2] = Cut + 1
    BY DEF Line
  <2>3. CASE (Left > 0 \/ control.execute_sys_motion) /\ prep'.pl_block = prep.pl_block /\ queue' = queue
    BY <1>1, <1>2, <2>1, <2>2, <2>3 DEF Cut, Started
  <2>4. CASE /\ Left = 0 /\ ~control.execute_sys_motion
             /\ prep'.pl_block = "none" /\ queue' = IF queue = << >> THEN queue ELSE Tail(queue)
    <3>1. queue # << >> /\ queue' = Tail(queue) /\ queue \in Seq(1 .. Lines) /\ planned \in Nat
      BY <2>1, <2>4, StepsAssumption DEF TypeOK
    <3>2. Len(queue) \in Nat /\ Len(queue') = Len(queue) - 1
      BY <3>1, HeadTailProperties
    <3>3. Cut' = Cut + 1
      BY <1>2, <3>1, <3>2 DEF Cut
    <3>. QED
      BY <1>1, <1>2, <2>1, <2>2, <2>4, <3>3 DEF Started
  <2>. QED
    BY <2>3, <2>4 DEF Published
<1>9. /\ \A s, t \in Slots : Ahead(s) = Ahead(t) => s = t
      /\ \A s \in InRing : s \in Slots /\ Ahead(s) \in Int /\ Ahead(s) < Ahead(head) /\ segment[s] \in Segments
      /\ head \in Slots /\ tail \in Slots
  BY AheadSteps, BehindIs DEF TypeOK, InRing
<1>10. ASSUME ChainInv PROVE ChainInv'
  <2>1. segment[head].at >= 0 /\ Ends(head) <= StepCount(segment[head].of)
    <3>1. segment[head].n_step \in Nat /\ segment[head].at \in Int
      BY <1>1, <1>3, StepsAssumption, ParkAssumption
    <3>2. prep.steps_remaining - segment[head].n_step >= 0
      BY DEF Published, Left
    <3>. QED
      BY <1>1, <1>3, <3>1, <3>2 DEF Ends
  <2>2. ASSUME NEW s \in InRing, Ahead(head) = Ahead(s) + 1 PROVE NextSeg(s, head)
    <3>1. st_block[segment[s].exec_block] = segment[s].of
      BY DEF RingInv
    <3>2. CASE segment[s].exec_block = prep.block
      <4>1. Ends(s) = StepCount(segment[s].of) - prep.steps_remaining
        BY <1>1, <1>10, <2>2, <3>2 DEF ChainInv, OfBlock
      <4>. QED
        BY <1>1, <1>3, <3>1, <3>2, <4>1 DEF NextSeg
    <3>3. CASE segment[s].exec_block # prep.block
      <4>1. Ends(s) = StepCount(segment[s].of) /\ segment[s].of = Line(Cut)
        BY <1>10, <2>2, <3>3 DEF ChainInv, OfBlock
      <4>2. ~control.execute_sys_motion
        BY <3>3 DEF RingInv
      <4>3. Back(s) < Ahead(head) - Ahead(s) + (IF Fresh THEN 1 ELSE 0)
        BY DEF RingInv
      <4>4. Back(s) \in 0 .. S - 2 /\ Back(s) # 0
        BY <3>3, BehindIs DEF Back, Segments
      <4>5. Fresh
        BY <1>9, <2>2, <4>3, <4>4, SAssumption
      <4>6. CutOff = 0
        BY <1>3, <4>5 DEF Fresh
      <4>7. segment[head].of[2] = segment[s].of[2] + 1
        BY <1>8, <4>1, <4>2 DEF Line
      <4>. QED
        BY <1>1, <3>3, <4>1, <4>6, <4>7 DEF NextSeg
    <3>. QED
      BY <3>2, <3>3
  <2>3. ASSUME NEW s \in InRing', NEW t \in InRing', Ahead(t) = Ahead(s) + 1 PROVE NextSeg(s, t)
    <3>1. CASE s \in InRing /\ t \in InRing
      BY <1>10, <2>3, <3>1 DEF ChainInv
    <3>2. CASE s \in InRing /\ t = head
      BY <2>2, <2>3, <3>2
    <3>3. CASE s = head
      BY <1>1, <1>9, <2>3, <3>3
    <3>. QED
      BY <1>1, <3>1, <3>2, <3>3
  <2>4. ASSUME NEW s \in InRing', Ahead(head)' = Ahead(s) + 1 PROVE s = head
    <3>1. s \in InRing => Ahead(s) \in Int /\ Ahead(s) < Ahead(head)
      BY <1>9
    <3>. QED
      BY <1>1, <2>4, <3>1
  <2>5. Ends(head) = StepCount(segment[head].of) - Left
    BY <1>1, <1>3 DEF Ends
  <2>6. \A s, t : NextSeg(s, t)' <=> NextSeg(s, t)
    BY <1>1, <1>2 DEF NextSeg
  <2>7. ASSUME NEW s \in InRing', Ahead(head)' = Ahead(s) + 1
        PROVE  /\ OfBlock(s)' => Ends(s) = StepCount(segment[s].of) - Left
               /\ ~OfBlock(s)' => Ends(s) = StepCount(segment[s].of) /\ segment[s].of = Line(Cut')
    <3>1. s = head
      BY <2>4, <2>7
    <3>2. OfBlock(s)' <=> Started'
      BY <1>1, <1>2, <3>1 DEF OfBlock
    <3>3. ~Started' => Ends(s) = StepCount(segment[s].of) /\ segment[s].of = Line(Cut')
      BY <1>1, <1>3, <1>8, <2>5, <3>1
    <3>. QED
      BY <2>5, <3>1, <3>2, <3>3
  <2>8. \A s \in InRing' : segment[s].at >= 0 /\ Ends(s) <= StepCount(segment[s].of)
    BY <1>1, <1>10, <2>1 DEF ChainInv
  <2>. QED
    BY <1>1, <1>2, <2>3, <2>6, <2>7, <2>8 DEF ChainInv
<1>11. ASSUME LineInv, ChainInv PROVE LineInv'
  <2>1. CASE control.execute_sys_motion
    <3>1. HeldOff' = HeldOff
      BY <1>2, <2>1 DEF HeldOff, ParkInv
    <3>2. ReachedLine(Cut + 1, HeldOff)
      BY <1>11, <2>1 DEF LineInv
    <3>3. ReachedLine(Cut + 1, HeldOff)'
      BY <1>2, <1>8, <2>1, <3>1, <3>2 DEF ReachedLine
    <3>. QED
      BY <1>2, <2>1, <3>3 DEF LineInv
  <2>2. CASE ~control.execute_sys_motion
    <3>1. ReachedLine(segment[tail].of[2], Begins(tail))'
      <4>1. CASE head # tail
        <5>1. ReachedLine(segment[tail].of[2], Begins(tail))
          BY <1>11, <2>2, <4>1 DEF LineInv
        <5>. QED
          BY <1>2, <1>6, <4>1, <5>1 DEF ReachedLine
      <4>2. CASE head = tail
        <5>1. ReachedLine(Cut + 1, CutOff)
          BY <1>8, <1>11, <2>2, <4>2 DEF LineInv, HeldOff
        <5>. QED
          BY <1>2, <1>6, <1>8, <2>2, <4>2, <5>1 DEF ReachedLine
      <4>. QED
        BY <4>1, <4>2
    <3>2. ASSUME NEW i \in segment[tail].of[2] .. Cut' PROVE \E s \in InRing' : segment[s].of = Line(i)
      <4>1. tail \in Slots /\ segment[tail].of[2] \in Int /\ Cut \in Int /\ i \in Int
        <5>1. segment[tail].of \in Motions
          BY DEF TypeOK, Segments
        <5>2. segment[tail].of[2] \in Int
          BY <5>1, MotionTypes
        <5>3. Cut' \in Int
          BY <1>8, <2>2
        <5>. QED
          BY <1>8, <1>9, <2>2, <5>2, <5>3
      <4>2. CASE i = Cut + 1
        BY <1>1, <1>8, <2>2, <4>2
      <4>3. CASE i # Cut + 1
        <5>1. i \in segment[tail].of[2] .. Cut
          BY <1>8, <4>1, <4>3
        <5>2. head # tail
          BY <1>8, <2>2, <4>1, <5>1
        <5>. QED
          BY <1>1, <1>11, <2>2, <5>1, <5>2 DEF LineInv
      <4>. QED
        BY <4>2, <4>3
    <3>3. ASSUME NEW s \in InRing PROVE segment[s].of[2] <= segment[head].of[2]
      <4>1. head # tail
        BY RingEnds
      <4>. DEFINE l == PrevSlot(head)
      <4>2. l \in InRing /\ Ahead(head) = Ahead(l) + 1
        BY <4>1, LastInRing
      <4>3. Ahead(s) <= Ahead(l)
        BY <1>9, <4>2
      <4>4. segment[s].of[2] <= segment[l].of[2]
        BY <1>11, <2>2, <4>1, <4>2, <4>3 DEF LineInv
      <4>5. segment[l].of \in {segment[head].of, Line(Cut)}
        BY <1>1, <1>11, <4>2 DEF ChainInv, OfBlock, RingInv
      <4>6. segment[l].of[2] <= segment[head].of[2] /\ segment[l].of[2] \in Int
        BY <1>8, <2>2, <4>5 DEF Line
      <4>7. segment[s].of[2] \in Int
        BY <1>9, MotionTypes DEF Segments
      <4>. QED
        BY <1>8, <2>2, <4>4, <4>6, <4>7
    <3>4. ASSUME NEW s \in InRing', NEW t \in InRing', Ahead(s) <= Ahead(t)
          PROVE  segment[s].of[2] <= segment[t].of[2]
      <4>1. CASE s \in InRing /\ t \in InRing
        BY <1>11, <2>2, <3>4, <4>1, RingEnds DEF LineInv
      <4>2. CASE s \in InRing /\ t = head
        BY <3>3, <4>2
      <4>3. CASE s = head /\ t = head
        BY <1>8, <2>2, <4>3
      <4>4. CASE s = head /\ t \in InRing
        BY <1>1, <1>9, <3>4, <4>4
      <4>. QED
        BY <1>1, <4>1, <4>2, <4>3, <4>4
    <3>. QED
      BY <1>1, <1>2, <2>2, <3>1, <3>2, <3>4 DEF LineInv
  <2>. QED
    BY <2>1, <2>2
<1>. QED
  BY <1>4, <1>5, <1>7, <1>10, <1>11

LEMMA InvPublish ==
    ASSUME TypeOK, Inv, NEW hold_ends, NEW rest \in BOOLEAN, Publish(hold_ends, rest) PROVE Inv'
<1>1. pc = "publish" /\ Published
  BY PublishedDo DEF Publish
<1>. QED
  BY <1>1, PublishControl, PublishBuffers, PublishAccount DEF Inv

-----------------------------------------------------------------------------
(* The step interrupt *)

\* Steps of the segment at the tail that are still to be taken.
Counts == IF st.step_count = 0 THEN segment[tail].n_step ELSE st.step_count

\* A tick takes a step of the segment at the tail, of the motion it was cut from.
Ticked ==
    /\ st.stepping /\ head # tail
    /\ Counts \in 1 .. segment[tail].n_step
    /\ Begins(tail) = Ends(tail) - Counts
    /\ st'.stepping /\ st'.exec_segment = tail /\ st'.exec_block = segment[tail].exec_block
    /\ st'.traces = segment[tail].of /\ st'.step_count = Counts - 1
    /\ tail' = IF Counts = 1 THEN NextSlot(tail) ELSE tail
    /\ TakeStep(segment[tail].of)
    /\ UNCHANGED << queue, planned, sys_block, segment, head, st_block, prep, control, exec_fast_hold,
                    pc, wake, sys, park, parking_enabled >>

LEMMA TickedDo == ASSUME TypeOK, Inv, Tick PROVE Ticked
<1>. USE DEF Inv, Control, Buffers
<1>. DEFINE over == st.exec_segment = None \/ (st.exec_block # None /\ st.step_count = 0)
            taken == IF over THEN tail ELSE st.exec_segment
            b == segment[taken].exec_block
            m == IF over /\ StartsBlock(b) THEN st_block[b] ELSE st.traces
            count == IF over THEN segment[taken].n_step ELSE st.step_count
<1>1. /\ st.stepping
      /\ ~over \/ head # tail
      /\ st' = [st EXCEPT !.exec_segment = taken, !.exec_block = IF over THEN b ELSE @,
                          !.traces = m, !.step_count = IF count = 0 THEN 0 ELSE count - 1]
      /\ tail' = IF count <= 1 THEN NextSlot(tail) ELSE tail
      /\ TakeStep(m)
  BY Zenon DEF Tick
<1>2. UNCHANGED << queue, planned, sys_block, segment, head, st_block, prep, control, exec_fast_hold,
                   pc, wake, sys, park, parking_enabled >>
  BY DEF Tick, planner
<1>3. st.step_count \in Nat /\ tail \in Slots /\ segment[tail] \in Segments /\ st \in Executions
  BY DEF TypeOK, Executions
<1>4. over <=> st.step_count = 0
  <2>1. st.exec_segment = None => st.step_count = 0
    <3>1. tail # None
      BY <1>3, SAssumption DEF Slots, None
    <3>. QED
      BY <1>3, <3>1 DEF ExecInv
  <2>2. st.exec_segment # None => st.exec_block # None
    BY DEF SteppingInv
  <2>. QED
    BY <2>1, <2>2
<1>5. head # tail
  BY <1>1, <1>3, <1>4 DEF ExecInv
<1>6. taken = tail
  <2>1. ~over => st.step_count > 0
    BY <1>3, <1>4
  <2>. QED
    BY <2>1 DEF ExecInv
<1>7. /\ segment[tail].n_step \in Nat /\ segment[tail].n_step > 0 /\ segment[tail].at \in Int
      /\ segment[tail].exec_block \in Blocks
      /\ st_block[segment[tail].exec_block] = segment[tail].of
  BY <1>3, <1>5, RingEnds, StepsAssumption, ParkAssumption DEF RingInv, Segments
<1>8. count = Counts /\ Counts \in 1 .. segment[tail].n_step
  <2>1. count = Counts
    BY <1>4, <1>6 DEF Counts
  <2>2. st.step_count > 0 => st.step_count <= segment[tail].n_step
    BY DEF ExecInv
  <2>. QED
    BY <1>3, <1>7, <2>1, <2>2 DEF Counts
<1>9. m = segment[tail].of
  <2>1. CASE ~over
    <3>1. st.step_count > 0
      BY <1>3, <1>4, <2>1
    <3>. QED
      BY <2>1, <3>1 DEF ExecInv
  <2>2. CASE over /\ st.exec_block # segment[tail].exec_block
    BY <1>6, <1>7, <2>2 DEF StartsBlock
  <2>3. CASE over /\ st.exec_block = segment[tail].exec_block
    <3>1. st.exec_block \in Blocks /\ st.exec_block # None
      BY <1>7, <2>3, SAssumption DEF Blocks, None
    <3>2. NextBlock(st.exec_block) # st.exec_block
      BY <3>1, Wraps, SAssumption DEF Blocks
    <3>3. st.traces = st_block[st.exec_block]
      BY <1>5, <2>3, <3>1, <3>2 DEF ExecInv
    <3>. QED
      BY <1>6, <1>7, <2>3, <3>3 DEF StartsBlock
  <2>. QED
    BY <2>1, <2>2, <2>3
<1>10. ~over => st.exec_block = segment[tail].exec_block
  BY <1>3, <1>4 DEF ExecInv
<1>11. /\ st'.stepping = st.stepping /\ st'.exec_segment = taken
       /\ st'.exec_block = (IF over THEN b ELSE st.exec_block)
       /\ st'.traces = m /\ st'.step_count = (IF count = 0 THEN 0 ELSE count - 1)
  <2>. HIDE DEF over, taken, b, m, count
  <2>. QED
    BY <1>1, <1>3 DEF Executions
<1>12. st'.exec_block = segment[tail].exec_block
  <2>1. b = segment[tail].exec_block
    BY <1>6
  <2>. HIDE DEF b, over
  <2>. QED
    BY <1>10, <1>11, <2>1
<1>13. Begins(tail) = Ends(tail) - Counts
  <2>1. CASE st.step_count = 0
    BY <1>7, <2>1 DEF Begins, Ends, Counts
  <2>2. CASE st.step_count # 0
    <3>1. st.step_count > 0 /\ st.exec_segment = tail
      BY <1>3, <2>2 DEF ExecInv
    <3>. QED
      BY <1>3, <1>7, <2>2, <3>1 DEF Begins, Ends, Counts
  <2>. QED
    BY <2>1, <2>2
<1>14. st'.step_count = Counts - 1 /\ tail' = IF Counts = 1 THEN NextSlot(tail) ELSE tail
  <2>. HIDE DEF count
  <2>. QED
    BY <1>1, <1>7, <1>8, <1>11
<1>15. st'.stepping /\ st'.exec_segment = tail /\ st'.traces = segment[tail].of /\ TakeStep(segment[tail].of)
  <2>. HIDE DEF m, taken
  <2>. QED
    BY <1>1, <1>6, <1>9, <1>11
<1>. QED
  BY <1>1, <1>2, <1>5, <1>8, <1>12, <1>13, <1>14, <1>15 DEF Ticked

\* Giving a slot back brings the others of the ring one nearer.
LEMMA TickRing ==
    ASSUME TypeOK, head # tail, tail' = NextSlot(tail), UNCHANGED << segment, head, prep >>
    PROVE  /\ InRing' = InRing \ {tail} /\ tail \in InRing
           /\ \A s \in InRing' : Ahead(s)' = Ahead(s) - 1 /\ s # tail
           /\ Ahead(head)' = Ahead(head) - 1 /\ Ahead(head) \in 1 .. S - 1
           /\ \A s \in InRing : Ahead(s) \in 0 .. S - 1 /\ Back(s)' = Back(s) /\ Ends(s)' = Ends(s)
           /\ head # tail' => tail' \in InRing' /\ Ahead(tail') = 1
           /\ head = tail' <=> Ahead(head) = 1
           /\ Ahead(tail) = 0
<1>1. head \in Slots /\ tail \in Slots /\ tail' \in Slots
  BY Wraps DEF TypeOK
<1>2. \A s \in Slots : /\ Ahead(s) = IF tail <= s THEN s - tail ELSE s - tail + S
                       /\ Ahead(s)' = IF tail' <= s THEN s - tail' ELSE s - tail' + S
  BY <1>1, DistanceIs DEF Ahead
<1>3. tail' = IF tail = S - 1 THEN 0 ELSE tail + 1
  BY <1>1, Wraps
<1>4. \A s \in Slots : /\ s # tail => Ahead(s)' = Ahead(s) - 1
                       /\ s = tail => Ahead(s)' = S - 1
                       /\ Ahead(s) \in 0 .. S - 1
                       /\ s # tail => Ahead(s) >= 1
                       /\ s = tail' <=> Ahead(s) = 1
  BY <1>1, <1>2, <1>3, SAssumption, SMTT(40) DEF Slots
<1>5. Ahead(head)' = Ahead(head) - 1 /\ Ahead(head) \in 1 .. S - 1
  <2>1. Ahead(head)' = Ahead(head) - 1 /\ Ahead(head) >= 1 /\ Ahead(head) \in 0 .. S - 1
    <3>1. \A s \in Slots : s = head => (s - tail') % S = Ahead(s)' /\ Ahead(head)' = Ahead(s)'
      BY DEF Ahead
    <3>. QED
      BY <1>1, <1>4, <3>1
  <2>. QED
    BY <2>1, SAssumption
<1>6. InRing' = InRing \ {tail} /\ tail \in InRing
  <2>1. InRing' = {s \in Slots : Ahead(s)' < Ahead(head)'}
    BY DEF InRing
  <2>2. \A s \in Slots : Ahead(s)' < Ahead(head)' <=> Ahead(s) < Ahead(head) /\ s # tail
    BY <1>4, <1>5, SAssumption
  <2>. QED
    BY <2>1, <2>2, RingEnds DEF InRing
<1>7. \A s : Back(s)' = Back(s) /\ Ends(s)' = Ends(s)
  BY DEF Back, Behind, Ends
<1>8. head # tail' => tail' \in InRing' /\ Ahead(tail') = 1
  <2>1. Ahead(tail') = 1 /\ tail' # tail
    BY <1>1, <1>3, <1>4, SAssumption DEF Slots
  <2>2. head # tail' => Ahead(head) # 1
    BY <1>1, <1>4
  <2>3. head # tail' => tail' \in InRing
    BY <1>1, <1>5, <2>1, <2>2, SAssumption DEF InRing
  <2>. QED
    BY <1>6, <2>1, <2>3
<1>9. Ahead(tail) = 0 /\ (head = tail' <=> Ahead(head) = 1)
  BY <1>1, <1>4, AheadSteps
<1>. QED
  BY <1>4, <1>5, <1>6, <1>7, <1>8, <1>9 DEF InRing

LEMMA TickControl == ASSUME TypeOK, Inv, Ticked PROVE Control'
<1>. USE DEF Inv, Control
<1>1. /\ st.stepping /\ head # tail /\ st'.stepping /\ st'.exec_segment = tail
      /\ st'.exec_block = segment[tail].exec_block
      /\ UNCHANGED << queue, planned, sys_block, segment, head, st_block, prep, control, exec_fast_hold,
                      pc, wake, sys, park, parking_enabled >>
  BY DEF Ticked
<1>2. ~wake /\ ~sys.complete /\ sys.handler # "idle" /\ ~Parked
  BY <1>1 DEF SteppingInv
<1>3. Parked' = Parked /\ Started' = Started /\ Fresh' = Fresh
  BY <1>1 DEF Parked, Started, Fresh
<1>4. st'.exec_segment # None /\ st'.exec_block # None
  <2>1. tail \in Slots /\ segment[tail].exec_block \in Blocks
    BY DEF TypeOK, Segments
  <2>. QED
    BY <1>1, <2>1, SAssumption DEF Slots, Blocks, None
<1>5. StateInv'
  BY <1>1 DEF StateInv, Calm
<1>6. SteppingInv'
  BY <1>1, <1>2, <1>3, <1>4 DEF SteppingInv
<1>7. ParkInv'
  BY <1>1, <1>2 DEF ParkInv, Parked
<1>8. CutInv'
  <2>1. NextSlot(head) # tail => NextSlot(head) # tail'
    <3>1. head \in Slots /\ tail \in Slots
      BY DEF TypeOK
    <3>2. NextSlot(head) # NextSlot(tail)
      BY <1>1, <3>1, Wraps, SAssumption DEF Slots
    <3>. QED
      BY <3>2 DEF Ticked
  <2>2. \A n : NewSegment(n)' = NewSegment(n)
    BY <1>1 DEF NewSegment
  <2>3. (segment[head] = NewSegment(segment[head].n_step))' <=> segment[head] = NewSegment(segment[head].n_step)
    BY <1>1, <2>2 DEF NewSegment
  <2>. QED
    BY <1>1, <1>2, <2>1, <2>3 DEF CutInv
<1>9. HeldInv'
  BY <1>1, <1>3 DEF HeldInv
<1>10. SysInv'
  BY <1>1, <1>2, <1>3 DEF SysInv
<1>. QED
  BY <1>5, <1>6, <1>7, <1>8, <1>9, <1>10

\* Behind a block is the next one.
LEMMA BehindOne ==
    ASSUME TypeOK, NEW b \in Blocks, NEW c \in Blocks
    PROVE  /\ Behind(b) = Behind(c) => b = c
           /\ Behind(b) = Behind(c) + 1 => c = NextBlock(b)
<1>1. NextBlock(b) = (IF b = S - 2 THEN 0 ELSE b + 1) /\ prep.block \in Blocks
  BY Wraps DEF TypeOK, Preps
<1>. QED
  BY <1>1, SAssumption DEF Behind, Blocks

LEMMA TickBuffers == ASSUME TypeOK, Inv, Ticked PROVE Buffers'
<1>. USE DEF Inv, Control, Buffers
<1>1. /\ head # tail /\ st'.exec_segment = tail /\ st'.exec_block = segment[tail].exec_block
      /\ st'.traces = segment[tail].of /\ st'.step_count = Counts - 1
      /\ Counts \in 1 .. segment[tail].n_step
      /\ UNCHANGED << queue, planned, sys_block, segment, head, st_block, prep, control >>
  BY DEF Ticked
<1>2. QueueInv' /\ Cut' = Cut /\ Started' = Started /\ Fresh' = Fresh
  BY <1>1, SameQueue DEF Started, Fresh
<1>3. BlockInv'
  BY <1>1, <1>2 DEF BlockInv
<1>4. /\ tail \in InRing /\ segment[tail] \in Segments /\ segment[tail].exec_block \in Blocks
      /\ segment[tail].n_step \in Nat
      /\ st_block[segment[tail].exec_block] = segment[tail].of
  BY <1>1, RingEnds, StepsAssumption, ParkAssumption DEF RingInv, TypeOK, Segments
<1>5. CASE Counts # 1
  <2>1. tail' = tail
    BY <1>5 DEF Ticked
  <2>2. InRing' = InRing /\ Ahead(head)' = Ahead(head) /\ \A s : Ahead(s)' = Ahead(s) /\ Back(s)' = Back(s)
    BY <1>1, <2>1 DEF InRing, Ahead, Back, Behind
  <2>3. RingInv'
    BY <1>1, <1>2, <2>2 DEF RingInv
  <2>4. ExecInv'
    BY <1>1, <1>4, <2>1 DEF ExecInv
  <2>. QED
    BY <1>2, <1>3, <2>3, <2>4
<1>6. CASE Counts = 1
  <2>1. tail' = NextSlot(tail)
    BY <1>6 DEF Ticked
  <2>2. /\ InRing' = InRing \ {tail}
        /\ \A s \in InRing' : Ahead(s)' = Ahead(s) - 1
        /\ Ahead(head)' = Ahead(head) - 1 /\ Ahead(head) \in 1 .. S - 1
        /\ \A s \in InRing : Ahead(s) \in 0 .. S - 1 /\ Back(s)' = Back(s)
        /\ head # tail' => tail' \in InRing' /\ Ahead(tail') = 1
        /\ head = tail' <=> Ahead(head) = 1
        /\ Ahead(tail) = 0
    BY <1>1, <2>1, TickRing
  <2>3. \A s \in InRing : Back(s) \in Int
    BY BehindIs
  <2>4. RingInv'
    <3>1. \A s \in InRing' : Back(s)' < Ahead(head)' - Ahead(s)' + (IF Fresh' THEN 1 ELSE 0)
      <4>1. \A s \in InRing' : Back(s) < Ahead(head) - Ahead(s) + (IF Fresh THEN 1 ELSE 0)
        BY <2>2 DEF RingInv
      <4>2. \A s \in InRing' : Ahead(head)' - Ahead(s)' = Ahead(head) - Ahead(s) /\ Back(s)' = Back(s)
        BY <2>2, SAssumption
      <4>. QED
        BY <1>2, <4>1, <4>2
    <3>2. \A s, t \in InRing' : Ahead(s)' <= Ahead(t)' =>
             0 <= Back(s)' - Back(t)' /\ Back(s)' - Back(t)' <= Ahead(t)' - Ahead(s)'
      <4>1. \A s, t \in InRing' : Ahead(s) <= Ahead(t) =>
             0 <= Back(s) - Back(t) /\ Back(s) - Back(t) <= Ahead(t) - Ahead(s)
        BY <2>2 DEF RingInv
      <4>2. \A s, t \in InRing' : /\ (Ahead(s)' <= Ahead(t)') <=> Ahead(s) <= Ahead(t)
                                  /\ Ahead(t)' - Ahead(s)' = Ahead(t) - Ahead(s)
                                  /\ Back(s)' = Back(s) /\ Back(t)' = Back(t)
        BY <2>2, SAssumption
      <4>. QED
        BY <4>1, <4>2
    <3>3. \A s \in InRing' : /\ st_block[segment[s].exec_block] = segment[s].of
                             /\ segment[s].n_step > 0
                             /\ control.execute_sys_motion => segment[s].exec_block = prep.block
                             /\ ~control.execute_sys_motion => \E i \in 1 .. Lines : segment[s].of = Line(i)
      BY <2>2 DEF RingInv
    <3>. QED
      BY <1>1, <3>1, <3>2, <3>3 DEF RingInv
  <2>5. st'.step_count = 0
    BY <1>1, <1>6
  <2>6. head # tail' => segment[tail'].exec_block \in {segment[tail].exec_block, NextBlock(segment[tail].exec_block)}
    <3>1. SUFFICES ASSUME head # tail' PROVE segment[tail'].exec_block \in {segment[tail].exec_block, NextBlock(segment[tail].exec_block)}
      OBVIOUS
    <3>2. tail' \in InRing /\ Ahead(tail') = 1 /\ Ahead(tail) = 0
      BY <2>2, <3>1
    <3>3. 0 <= Back(tail) - Back(tail') /\ Back(tail) - Back(tail') <= 1
      BY <1>4, <3>2 DEF RingInv
    <3>4. Back(tail) = Back(tail') \/ Back(tail) = Back(tail') + 1
      BY <1>4, <2>3, <3>2, <3>3
    <3>5. segment[tail'].exec_block \in Blocks
      BY <3>2, BehindIs DEF Segments
    <3>. QED
      BY <1>4, <3>4, <3>5, BehindOne DEF Back
  <2>7. head = tail' => prep.block = segment[tail].exec_block \/ (Fresh /\ prep.block = NextBlock(segment[tail].exec_block))
    <3>1. SUFFICES ASSUME head = tail'
                   PROVE  prep.block = segment[tail].exec_block
                          \/ (Fresh /\ prep.block = NextBlock(segment[tail].exec_block))
      OBVIOUS
    <3>2. Back(tail) < 1 + (IF Fresh THEN 1 ELSE 0) /\ Back(tail) \in Nat
      <4>1. Ahead(head) = 1 /\ Ahead(tail) = 0 /\ Back(tail) \in Nat
        BY <1>4, <2>2, <3>1, BehindIs
      <4>2. Back(tail) < Ahead(head) - Ahead(tail) + (IF Fresh THEN 1 ELSE 0)
        BY <1>4 DEF RingInv
      <4>. QED
        BY <4>1, <4>2
    <3>3. prep.block \in Blocks /\ Behind(prep.block) = 0
      BY BehindIs DEF TypeOK, Preps
    <3>4. Back(tail) = 0 \/ (Fresh /\ Back(tail) = 1)
      BY <3>2
    <3>. QED
      BY <1>4, <3>3, <3>4, BehindOne DEF Back
  <2>8. ExecInv'
    BY <1>1, <1>2, <1>4, <2>5, <2>6, <2>7 DEF ExecInv
  <2>. QED
    BY <1>2, <1>3, <2>4, <2>8
<1>. QED
  BY <1>5, <1>6

\* A step of line i; and a line that is executed to its end is followed by the next.
LEMMA ReachedStep ==
    ASSUME TypeOK, NEW i \in 1 .. Lines, NEW n \in Int, ReachedLine(i, n),
           done' = [done EXCEPT ![i] = @ + 1]
    PROVE  \A j \in 1 .. Lines : done'[j] = IF j < i THEN Steps ELSE IF j = i THEN n + 1 ELSE 0
BY DEF ReachedLine, TypeOK

LEMMA ReachedNext ==
    ASSUME NEW i \in Int, NEW d,
           \A j \in 1 .. Lines : d[j] = IF j < i THEN Steps ELSE IF j = i THEN Steps ELSE 0
    PROVE  \A j \in 1 .. Lines : d[j] = IF j < i + 1 THEN Steps ELSE IF j = i + 1 THEN 0 ELSE 0
<1>1. ASSUME NEW j \in 1 .. Lines
      PROVE  d[j] = IF j < i + 1 THEN Steps ELSE IF j = i + 1 THEN 0 ELSE 0
  <2>1. d[j] = IF j < i THEN Steps ELSE IF j = i THEN Steps ELSE 0
    OBVIOUS
  <2>2. j < i \/ j = i <=> j < i + 1
    BY StepsAssumption
  <2>. QED
    BY <2>1, <2>2
<1>. QED
  BY <1>1

\* The segment at the tail, with its motion.
LEMMA TailSegment ==
    ASSUME TypeOK, Inv, head # tail
    PROVE  /\ tail \in InRing /\ segment[tail] \in Segments /\ segment[tail].of \in Motions
           /\ segment[tail].of[2] \in Int /\ segment[tail].n_step \in Nat /\ segment[tail].at \in Int
           /\ st_block[segment[tail].exec_block] = segment[tail].of
           /\ Ends(tail) \in Int
           /\ ~control.execute_sys_motion =>
                 /\ segment[tail].of[2] \in 1 .. Lines /\ segment[tail].of = Line(segment[tail].of[2])
                 /\ StepCount(segment[tail].of) = Steps
           /\ control.execute_sys_motion =>
                 /\ segment[tail].of = sys_block /\ sys_block[1] = "park" /\ Started
                 /\ segment[tail].exec_block = prep.block /\ st_block[prep.block] = sys_block
<1>. USE DEF Inv, Control, Buffers, Account
<1>1. tail \in InRing /\ segment[tail] \in Segments
  BY RingEnds DEF TypeOK
<1>2. segment[tail].of \in Motions /\ segment[tail].n_step \in Nat /\ segment[tail].at \in Int
  BY <1>1, StepsAssumption, ParkAssumption DEF Segments
<1>3. segment[tail].of[2] \in Int /\ Ends(tail) \in Int
  <2>1. segment[tail].of[2] \in Int
    BY <1>2, MotionTypes
  <2>. QED
    BY <1>2, <2>1 DEF Ends
<1>4. st_block[segment[tail].exec_block] = segment[tail].of
  BY <1>1 DEF RingInv
<1>5. ASSUME ~control.execute_sys_motion
      PROVE  /\ segment[tail].of[2] \in 1 .. Lines /\ segment[tail].of = Line(segment[tail].of[2])
             /\ StepCount(segment[tail].of) = Steps
  <2>1. PICK i \in 1 .. Lines : segment[tail].of = Line(i)
    BY <1>1, <1>5 DEF RingInv
  <2>. QED
    BY <2>1 DEF Line, StepCount
<1>6. ASSUME control.execute_sys_motion
      PROVE  /\ segment[tail].of = sys_block /\ sys_block[1] = "park" /\ Started
             /\ segment[tail].exec_block = prep.block /\ st_block[prep.block] = sys_block
  <2>1. Started /\ prep.parking /\ st_block[prep.block] = sys_block
    BY <1>6 DEF SysInv, ParkInv, BlockInv
  <2>2. sys_block[1] = "park"
    BY <1>6 DEF RouteInv, Park
  <2>3. segment[tail].exec_block = prep.block
    BY <1>1, <1>6 DEF RingInv
  <2>. QED
    BY <1>4, <2>1, <2>2, <2>3
<1>. QED
  BY <1>1, <1>2, <1>3, <1>4, <1>5, <1>6

\* Where the work goes on when the segment at the tail was the last of the ring.
LEMMA LastSegment ==
    ASSUME TypeOK, Inv, ChainInv, head # tail, Ahead(head) = 1
    PROVE  /\ control.execute_sys_motion => Ends(tail) = CutOff
           /\ ~control.execute_sys_motion =>
                 \/ segment[tail].of[2] = Cut + 1 /\ Ends(tail) = CutOff
                 \/ segment[tail].of[2] = Cut /\ Ends(tail) = Steps /\ CutOff = 0
<1>. USE DEF Inv, Control, Buffers
<1>1. tail \in InRing /\ segment[tail] \in Segments
      /\ st_block[segment[tail].exec_block] = segment[tail].of
  BY TailSegment
<1>2. Ahead(head) = Ahead(tail) + 1 /\ Ahead(tail) = 0
  BY AheadSteps DEF TypeOK
<1>3. CASE OfBlock(tail)
  <2>1. Ends(tail) = CutOff /\ segment[tail].of = st_block[prep.block] /\ Started
    BY <1>1, <1>2, <1>3 DEF ChainInv, OfBlock, CutOff
  <2>2. ~control.execute_sys_motion => segment[tail].of[2] = Cut + 1
    BY <2>1, CutsLine DEF Line
  <2>. QED
    BY <2>1, <2>2
<1>4. CASE ~OfBlock(tail)
  <2>1. Ends(tail) = StepCount(segment[tail].of) /\ segment[tail].of = Line(Cut)
    BY <1>1, <1>2, <1>4 DEF ChainInv
  <2>2. Ends(tail) = Steps /\ segment[tail].of[2] = Cut /\ ~control.execute_sys_motion
    BY <1>4, <2>1, TailSegment DEF StepCount, Line, OfBlock
  <2>3. CutOff = 0
    <3>1. CASE ~Started
      BY <3>1 DEF CutOff
    <3>2. CASE Started
      <4>1. segment[tail].exec_block # prep.block
        BY <1>4, <3>2 DEF OfBlock
      <4>2. Back(tail) \in Nat /\ Back(tail) # 0
        BY <1>1, <4>1, BehindIs DEF Back, Segments
      <4>3. Back(tail) < Ahead(head) - Ahead(tail) + (IF Fresh THEN 1 ELSE 0)
        BY <1>1 DEF RingInv
      <4>4. Fresh
        BY <1>2, <4>2, <4>3
      <4>5. StepCount(st_block[prep.block]) \in Nat
        BY MotionTypes DEF TypeOK, Preps
      <4>. QED
        BY <3>2, <4>4, <4>5 DEF CutOff, Fresh
    <3>. QED
      BY <3>1, <3>2
  <2>. QED
    BY <2>2, <2>3
<1>. QED
  BY <1>3, <1>4

LEMMA TickAccount == ASSUME TypeOK, Inv, Ticked PROVE Account'
<1>. USE DEF Inv, Control, Buffers, Account
<1>1. /\ head # tail /\ st'.exec_segment = tail /\ st'.step_count = Counts - 1
      /\ Counts \in 1 .. segment[tail].n_step /\ Begins(tail) = Ends(tail) - Counts
      /\ UNCHANGED << queue, planned, sys_block, segment, head, st_block, prep, control, sys, park >>
      /\ TakeStep(segment[tail].of)
  BY DEF Ticked
<1>2. /\ Started' = Started /\ Cut' = Cut /\ CutOff' = CutOff /\ HeldOff' = HeldOff
      /\ Cancelling' = Cancelling
  BY <1>1 DEF Started, Cut, CutOff, HeldOff, Cancelling
<1>3. RouteInv'
  BY <1>1 DEF RouteInv
<1>4. /\ tail \in InRing /\ segment[tail] \in Segments /\ segment[tail].of[2] \in Int
      /\ segment[tail].n_step \in Nat /\ Ends(tail) \in Int /\ Counts \in Int /\ Begins(tail) \in Int
  BY <1>1, TailSegment
<1>. DEFINE i == segment[tail].of[2]
<1>5. ~control.execute_sys_motion => /\ i \in 1 .. Lines /\ segment[tail].of = Line(i)
                                     /\ pos' = pos /\ done' = [done EXCEPT ![i] = @ + 1]
  BY <1>1, TailSegment DEF TakeStep, Line
<1>6. control.execute_sys_motion =>
         /\ ~Cancelling /\ done' = done
         /\ pos' = IF sys_block[2] < sys_block[3] THEN pos + 1 ELSE pos - 1
  BY <1>1, TailSegment DEF TakeStep, StateInv, Cancelling
<1>7. control.execute_sys_motion => ReachedLine(Cut + 1, HeldOff)' <=> ReachedLine(Cut + 1, HeldOff)
  BY <1>2, <1>6 DEF ReachedLine
<1>8. Begins(tail) + 1 \in Int /\ (control.execute_sys_motion => pos' = Along(sys_block, Begins(tail) + 1))
  <2>1. ASSUME control.execute_sys_motion PROVE pos = Along(sys_block, Begins(tail))
    BY <1>1, <2>1 DEF PosInv
  <2>2. sys_block[2] \in Int
    BY MotionTypes DEF TypeOK
  <2>. QED
    BY <1>4, <1>6, <2>1, <2>2 DEF Along
<1>9. ~control.execute_sys_motion /\ ~Cancelling =>
         \A j \in 1 .. Lines : done'[j] = IF j < i THEN Steps ELSE IF j = i THEN Begins(tail) + 1 ELSE 0
  <2>1. SUFFICES ASSUME ~control.execute_sys_motion, ~Cancelling
                 PROVE  \A j \in 1 .. Lines :
                           done'[j] = IF j < i THEN Steps ELSE IF j = i THEN Begins(tail) + 1 ELSE 0
    OBVIOUS
  <2>2. ReachedLine(i, Begins(tail))
    BY <1>1, <2>1 DEF LineInv
  <2>. HIDE DEF i
  <2>. QED
    BY <1>4, <1>5, <2>1, <2>2, ReachedStep
<1>10. CASE Counts # 1
  <2>1. tail' = tail
    BY <1>10 DEF Ticked
  <2>2. /\ InRing' = InRing /\ Ahead(head)' = Ahead(head)
        /\ \A s : Ahead(s)' = Ahead(s) /\ Ends(s)' = Ends(s) /\ (OfBlock(s)' <=> OfBlock(s))
    BY <1>1, <2>1, <1>2 DEF InRing, Ahead, Ends, OfBlock
  <2>3. Begins(tail)' = Begins(tail) + 1
    <3>1. st'.step_count > 0
      BY <1>1, <1>4, <1>10
    <3>2. Begins(tail)' = segment[tail].at + segment[tail].n_step - (Counts - 1)
      BY <1>1, <2>1, <3>1 DEF Begins
    <3>3. segment[tail].at \in Int
      BY <1>4 DEF Segments
    <3>. QED
      BY <1>1, <1>4, <3>2, <3>3 DEF Ends
  <2>4. PosInv'
    BY <1>1, <1>5, <1>8, <2>1, <2>3 DEF PosInv
  <2>5. ChainInv => ChainInv'
    <3>1. \A s, t : NextSeg(s, t)' <=> NextSeg(s, t)
      BY <1>1, <2>2 DEF NextSeg
    <3>. QED
      BY <1>1, <1>2, <2>2, <3>1 DEF ChainInv
  <2>6. ~Cancelling => LineInv'
    <3>1. CASE control.execute_sys_motion
      BY <1>1, <1>6, <1>7, <3>1 DEF LineInv
    <3>2. CASE ~control.execute_sys_motion /\ ~Cancelling
      <4>1. ReachedLine(segment[tail].of[2], Begins(tail))'
        BY <1>1, <1>9, <2>1, <2>3, <3>2 DEF ReachedLine
      <4>. QED
        BY <1>1, <1>2, <2>1, <2>2, <3>2, <4>1 DEF LineInv
    <3>. QED
      BY <3>1, <3>2
  <2>. QED
    BY <1>2, <1>3, <2>4, <2>5, <2>6
<1>11. CASE Counts = 1
  <2>1. tail' = NextSlot(tail)
    BY <1>11 DEF Ticked
  <2>2. /\ InRing' = InRing \ {tail}
        /\ \A s \in InRing' : Ahead(s)' = Ahead(s) - 1 /\ s # tail
        /\ Ahead(head)' = Ahead(head) - 1 /\ Ahead(head) \in 1 .. S - 1
        /\ \A s \in InRing : Ahead(s) \in 0 .. S - 1 /\ Ends(s)' = Ends(s)
        /\ head # tail' => tail' \in InRing' /\ Ahead(tail') = 1
        /\ head = tail' <=> Ahead(head) = 1
        /\ Ahead(tail) = 0
    BY <1>1, <2>1, TickRing
  <2>3. Begins(tail) + 1 = Ends(tail) /\ st'.step_count = 0
    BY <1>1, <1>4, <1>11
  <2>4. Begins(tail)' = segment[tail'].at
    BY <1>1, <2>3 DEF Begins
  <2>5. ChainInv => ChainInv'
    <3>1. \A s, t \in InRing' : NextSeg(s, t)' <=> NextSeg(s, t)
      BY <1>1, <2>2 DEF NextSeg
    <3>2. \A s, t \in InRing' : Ahead(t)' = Ahead(s)' + 1 <=> Ahead(t) = Ahead(s) + 1
      BY <2>2, SAssumption
    <3>3. \A s \in InRing' : Ahead(head)' = Ahead(s)' + 1 <=> Ahead(head) = Ahead(s) + 1
      BY <2>2, SAssumption
    <3>4. \A s : OfBlock(s)' <=> OfBlock(s)
      BY <1>1, <1>2 DEF OfBlock
    <3>5. ChainInv => \A s \in InRing' : (segment[s].at >= 0 /\ Ends(s) <= StepCount(segment[s].of))'
      BY <1>1, <2>2 DEF ChainInv
    <3>6. ChainInv => \A s, t \in InRing' : Ahead(t)' = Ahead(s)' + 1 => NextSeg(s, t)'
      BY <2>2, <3>1, <3>2 DEF ChainInv
    <3>7. ChainInv => \A s \in InRing' : Ahead(head)' = Ahead(s)' + 1 =>
             /\ OfBlock(s)' => Ends(s)' = StepCount(segment[s].of) - prep.steps_remaining
             /\ ~OfBlock(s)' => Ends(s)' = StepCount(segment[s].of) /\ segment[s].of = Line(Cut)
      BY <2>2, <3>3, <3>4 DEF ChainInv
    <3>. QED
      BY <1>1, <1>2, <3>5, <3>6, <3>7 DEF ChainInv
  <2>6. ASSUME ChainInv, head # tail'
        PROVE  /\ tail' \in InRing /\ tail' # tail
               /\ \/ /\ segment[tail'].exec_block = segment[tail].exec_block
                     /\ segment[tail'].of = segment[tail].of /\ segment[tail'].at = Ends(tail)
                  \/ /\ segment[tail'].exec_block # segment[tail].exec_block
                     /\ segment[tail'].at = 0 /\ Ends(tail) = StepCount(segment[tail].of)
                     /\ segment[tail'].of[2] = i + 1
    <3>1. tail' \in InRing /\ tail' # tail /\ Ahead(tail') = Ahead(tail) + 1
      BY <2>2, <2>6
    <3>2. NextSeg(tail, tail')
      BY <1>4, <2>6, <3>1 DEF ChainInv
    <3>3. /\ st_block[segment[tail].exec_block] = segment[tail].of
          /\ st_block[segment[tail'].exec_block] = segment[tail'].of
      BY <1>4, <3>1 DEF RingInv
    <3>. QED
      BY <3>1, <3>2, <3>3 DEF NextSeg
  <2>7. PosInv'
    <3>1. CASE ~control.execute_sys_motion
      BY <1>1, <1>5, <3>1 DEF PosInv
    <3>2. CASE control.execute_sys_motion /\ head # tail'
      <4>1. ChainInv
        BY <1>6, <3>2
      <4>2. segment[tail'].exec_block = segment[tail].exec_block
        BY <1>4, <2>6, <3>2, <4>1 DEF RingInv
      <4>3. Begins(tail)' = Begins(tail) + 1
        BY <2>3, <2>4, <2>6, <3>2, <4>1, <4>2
      <4>. QED
        BY <1>1, <1>8, <3>2, <4>3 DEF PosInv
    <3>3. CASE control.execute_sys_motion /\ head = tail'
      <4>1. CutOff = Begins(tail) + 1
        BY <1>1, <1>6, <2>2, <2>3, <3>3, LastSegment
      <4>. QED
        BY <1>1, <1>2, <1>8, <3>3, <4>1 DEF PosInv
    <3>. QED
      BY <3>1, <3>2, <3>3
  <2>8. ASSUME ~Cancelling, ~control.execute_sys_motion, head = tail' PROVE ReachedLine(Cut + 1, HeldOff)'
    <3>1. ~prep.parking /\ HeldOff = CutOff
      BY <2>8 DEF HeldOff, ParkInv
    <3>2. CASE i = Cut + 1 /\ Ends(tail) = CutOff
      BY <1>2, <1>9, <2>3, <2>8, <3>1, <3>2 DEF ReachedLine
    <3>3. CASE i = Cut /\ Ends(tail) = Steps /\ CutOff = 0
      <4>1. \A j \in 1 .. Lines : done'[j] = IF j < i THEN Steps ELSE IF j = i THEN Steps ELSE 0
        BY <1>9, <2>3, <2>8, <3>3
      <4>2. \A j \in 1 .. Lines : done'[j] = IF j < i + 1 THEN Steps ELSE IF j = i + 1 THEN 0 ELSE 0
        <5>. HIDE DEF i
        <5>1. i \in Int
          BY <1>4 DEF i
        <5>. QED
          BY <4>1, <5>1, ReachedNext
      <4>. QED
        BY <1>2, <3>1, <3>3, <4>2 DEF ReachedLine
    <3>. QED
      BY <1>1, <2>2, <2>8, <3>2, <3>3, LastSegment
  <2>9. ASSUME ~Cancelling, ~control.execute_sys_motion, head # tail'
        PROVE  ReachedLine(segment[tail].of[2], Begins(tail))'
    <3>1. CASE /\ segment[tail'].of = segment[tail].of /\ segment[tail'].at = Ends(tail)
      <4>1. (segment[tail].of[2])' = i /\ Begins(tail)' = Begins(tail) + 1
        BY <1>1, <2>3, <2>4, <3>1
      <4>. QED
        BY <1>9, <2>9, <4>1 DEF ReachedLine
    <3>2. CASE /\ segment[tail'].at = 0 /\ Ends(tail) = StepCount(segment[tail].of)
               /\ segment[tail'].of[2] = i + 1
      <4>1. Begins(tail) + 1 = Steps
        BY <1>1, <2>3, <2>9, <3>2, TailSegment
      <4>2. \A j \in 1 .. Lines : done'[j] = IF j < i THEN Steps ELSE IF j = i THEN Steps ELSE 0
        BY <1>9, <2>9, <4>1
      <4>3. \A j \in 1 .. Lines : done'[j] = IF j < i + 1 THEN Steps ELSE IF j = i + 1 THEN 0 ELSE 0
        <5>. HIDE DEF i
        <5>1. i \in Int
          BY <1>4 DEF i
        <5>. QED
          BY <4>2, <5>1, ReachedNext
      <4>4. (segment[tail].of[2])' = i + 1 /\ Begins(tail)' = 0
        BY <1>1, <2>4, <3>2
      <4>. QED
        BY <4>3, <4>4 DEF ReachedLine
    <3>. QED
      BY <2>6, <2>9, <3>1, <3>2
  <2>10. ASSUME ~Cancelling, ~control.execute_sys_motion, head # tail',
                NEW k \in segment[tail'].of[2] .. Cut
         PROVE  \E s \in InRing' : segment[s].of = Line(k)
    <3>1. /\ tail' \in InRing /\ tail' # tail /\ tail' \in InRing' /\ Ahead(tail) = 0 /\ Ahead(tail') = 1
      BY <2>2, <2>6, <2>10
    <3>2. segment[tail].of[2] <= segment[tail'].of[2]
      BY <1>1, <1>4, <2>10, <3>1 DEF LineInv
    <3>3. PICK l \in 1 .. Lines : segment[tail'].of = Line(l)
      BY <2>10, <3>1 DEF RingInv
    <3>4. segment[tail'].of[2] = l /\ l \in Int /\ Cut \in Int /\ k \in Int
      BY <2>10, <3>3, StepsAssumption DEF Line, Cut, TypeOK
    <3>5. k \in i .. Cut
      BY <1>4, <3>2, <3>4
    <3>6. PICK s \in InRing : segment[s].of = Line(k)
      BY <1>1, <2>10, <3>5 DEF LineInv
    <3>7. CASE s # tail
      BY <2>2, <3>6, <3>7
    <3>8. CASE s = tail
      <4>1. k = i
        BY <3>6, <3>8 DEF Line
      <4>2. l = k
        BY <1>4, <3>2, <3>4, <4>1
      <4>. QED
        BY <3>1, <3>3, <4>2
    <3>. QED
      BY <3>7, <3>8
  <2>11. ASSUME ~Cancelling, ~control.execute_sys_motion, head # tail', NEW s \in InRing', NEW t \in InRing',
                Ahead(s)' <= Ahead(t)'
         PROVE  segment[s].of[2] <= segment[t].of[2]
    <3>1. s \in InRing /\ t \in InRing /\ Ahead(s) <= Ahead(t)
      BY <2>2, <2>11, SAssumption
    <3>. QED
      BY <1>1, <2>11, <3>1 DEF LineInv
  <2>12. ~Cancelling => LineInv'
    <3>1. CASE control.execute_sys_motion
      BY <1>1, <1>6, <1>7, <3>1 DEF LineInv
    <3>2. CASE ~control.execute_sys_motion /\ ~Cancelling /\ head = tail'
      BY <1>1, <2>8, <3>2 DEF LineInv
    <3>3. CASE ~control.execute_sys_motion /\ ~Cancelling /\ head # tail'
      <4>1. ReachedLine(segment[tail].of[2], Begins(tail))'
        BY <2>9, <3>3
      <4>2. \A k \in segment[tail'].of[2] .. Cut : \E s \in InRing' : segment[s].of = Line(k)
        BY <2>10, <3>3
      <4>3. \A s, t \in InRing' : Ahead(s)' <= Ahead(t)' => segment[s].of[2] <= segment[t].of[2]
        BY <2>11, <3>3
      <4>. QED
        BY <1>1, <1>2, <3>3, <4>1, <4>2, <4>3 DEF LineInv
    <3>. QED
      BY <3>1, <3>2, <3>3
  <2>. QED
    BY <1>2, <1>3, <2>5, <2>7, <2>12
<1>. QED
  BY <1>10, <1>11

LEMMA InvTick == ASSUME TypeOK, Inv, Tick PROVE Inv'
<1>1. Ticked
  BY TickedDo
<1>. QED
  BY <1>1, TickControl, TickBuffers, TickAccount DEF Inv

-----------------------------------------------------------------------------
(* Parking *)

\* Between two motions: the ring is empty and the interrupt off.
Standing ==
    /\ pc = "loop" /\ head = tail /\ ~st.stepping
    /\ st.exec_segment = None /\ st.exec_block = None /\ st.step_count = 0 /\ ~exec_fast_hold
    /\ QueueInv

\* The buffer of a machine at rest: p is a record of the line that is to be taken up again,
\* if one is, and blocks the stepper blocks.
Waits(p) == p.pl_block # "none" \/ p.velocity_profile
Ready(p, blocks) ==
    /\ p \in Preps /\ blocks \in [Blocks -> Motions]
    /\ ~p.parking /\ p.at_rest /\ p.pl_block # "sys"
    /\ p.pl_block # "none" => ~p.velocity_profile
    /\ p.hold_partial_block => parking_enabled /\ Waits(p)
    /\ parking_enabled /\ Waits(p) => p.hold_partial_block
    /\ Waits(p) => /\ queue # << >> /\ blocks[p.block] = Line(Cut + 1)
                   /\ p.steps_remaining \in 1 .. Steps
    /\ ReachedLine(Cut + 1, IF Waits(p) THEN Steps - p.steps_remaining ELSE 0)

\* At the end of a hold, and of a machine that stands.
LEMMA ReadyHeld ==
    ASSUME TypeOK, Inv, pc = "loop", head = tail, prep.at_rest, ~control.execute_sys_motion, ~Cancelling
    PROVE  Ready(UpdateParameters(prep), st_block)
<1>. USE DEF Inv, Control, Buffers, Account
<1>. DEFINE p == UpdateParameters(prep)
<1>1. /\ p \in Preps /\ p.pl_block = "none" /\ (p.velocity_profile <=> Started)
      /\ p.parking = prep.parking /\ p.hold_partial_block = prep.hold_partial_block
      /\ p.block = prep.block /\ p.steps_remaining = prep.steps_remaining /\ p.at_rest = prep.at_rest
  BY DEF UpdateParameters, Started, TypeOK, Preps
<1>2. st_block \in [Blocks -> Motions] /\ ~prep.parking
  BY DEF TypeOK, ParkInv
<1>3. Waits(p) <=> Started
  BY <1>1 DEF Waits
<1>4. /\ prep.hold_partial_block => parking_enabled /\ Started
      /\ parking_enabled /\ Started => prep.hold_partial_block
  BY <1>2 DEF HeldInv, ParkInv, Started
<1>5. Started => /\ queue # << >> /\ st_block[prep.block] = Line(Cut + 1)
                 /\ prep.steps_remaining \in 1 .. Steps /\ CutOff = Steps - prep.steps_remaining
  BY CutsLine
<1>6. ~Started => CutOff = 0
  BY DEF CutOff
<1>7. ReachedLine(Cut + 1, CutOff)
  BY <1>2 DEF LineInv, HeldOff
<1>8. ReachedLine(Cut + 1, IF Waits(p) THEN Steps - p.steps_remaining ELSE 0)
  <2>1. (IF Waits(p) THEN Steps - p.steps_remaining ELSE 0) = CutOff
    BY <1>1, <1>3, <1>5, <1>6
  <2>. QED
    BY <1>7, <2>1
<1>. HIDE DEF p
<1>9. Ready(p, st_block)
  BY <1>1, <1>2, <1>3, <1>4, <1>5, <1>8 DEF Ready
<1>. QED
  BY <1>9 DEF p

LEMMA ReadyKept ==
    ASSUME TypeOK, Inv, pc = "loop", head = tail, prep.at_rest, ~control.execute_sys_motion, ~Cancelling
    PROVE  Ready(prep, st_block)
<1>. USE DEF Inv, Control, Buffers, Account
<1>1. prep \in Preps /\ st_block \in [Blocks -> Motions] /\ ~prep.parking /\ (Waits(prep) <=> Started)
  BY DEF TypeOK, ParkInv, Waits, Started
<1>2. /\ prep.hold_partial_block => parking_enabled /\ Started
      /\ parking_enabled /\ Started => prep.hold_partial_block
  BY <1>1 DEF HeldInv, ParkInv, Started
<1>3. Started => /\ queue # << >> /\ st_block[prep.block] = Line(Cut + 1)
                 /\ prep.steps_remaining \in 1 .. Steps /\ CutOff = Steps - prep.steps_remaining
  BY CutsLine
<1>4. ~Started => CutOff = 0
  BY DEF CutOff
<1>5. ReachedLine(Cut + 1, CutOff)
  BY <1>1 DEF LineInv, HeldOff
<1>6. (IF Waits(prep) THEN Steps - prep.steps_remaining ELSE 0) = CutOff
  BY <1>1, <1>3, <1>4
<1>7. ReachedLine(Cut + 1, IF Waits(prep) THEN Steps - prep.steps_remaining ELSE 0)
  BY <1>5, <1>6
<1>8. prep.pl_block # "sys" /\ (prep.pl_block # "none" => ~prep.velocity_profile)
  BY DEF CutInv
<1>. QED
  BY <1>1, <1>2, <1>3, <1>7, <1>8 DEF Ready

\* Where a parking motion has ended: its target, or short of it when it was held.
LEMMA MotionOver ==
    ASSUME TypeOK, Inv, pc = "loop", sys.complete, control.execute_sys_motion
    PROVE  /\ Standing /\ prep.at_rest /\ control.end_motion
           /\ Ready(AfterMotion(prep), BlocksAfterMotion)
           /\ pos \in 0 .. Target /\ parking_enabled /\ park.motion /\ sys.state = "DOOR"
           /\ sys.handler # "await_restart_retract" => pos = sys_block[3] /\ ~control.execute_hold
           /\ sys.handler = "await_restart_retract" => pos < Target
<1>. USE DEF Inv, Control, Buffers, Account
<1>1. /\ head = tail /\ prep.at_rest /\ ~wake /\ ~st.stepping
      /\ st.exec_segment = None /\ st.exec_block = None /\ st.step_count = 0
  BY DEF CutInv, SteppingInv
<1>2. prep.parking /\ parking_enabled /\ park.motion /\ sys.state = "DOOR" /\ ~exec_fast_hold
  BY DEF ParkInv, StateInv
<1>3. /\ control.end_motion /\ Started /\ ~Fresh
      /\ prep.steps_remaining = 0 \/ control.execute_hold
  BY <1>1 DEF SysInv
<1>4. control.execute_hold => sys.handler = "await_restart_retract"
  BY <1>2 DEF StateInv, Holding, Moving
<1>. DEFINE p == ParkingRestore(prep)
            blocks == RestoreBlocks(prep, st_block)
<1>5. Ready(p, blocks)
  <2>1. p \in Preps /\ blocks \in [Blocks -> Motions]
    BY BufferTypes DEF TypeOK
  <2>2. /\ p.parking = FALSE /\ p.at_rest = prep.at_rest /\ p.pl_block = "none"
        /\ (p.velocity_profile <=> prep.hold_partial_block)
        /\ p.hold_partial_block = prep.hold_partial_block
        /\ prep.hold_partial_block => p.block = prep.last_block /\ p.steps_remaining = prep.last_steps
    BY DEF ParkingRestore, TypeOK, Preps
  <2>3. prep.hold_partial_block => blocks[prep.last_block] = prep.hold_block
    BY DEF RestoreBlocks, TypeOK, Preps
  <2>4. Waits(p) <=> prep.hold_partial_block
    BY <2>2 DEF Waits
  <2>5. prep.hold_partial_block => queue # << >> /\ prep.hold_block = Line(Cut + 1) /\ prep.last_steps \in 1 .. Steps
    BY <1>2 DEF BlockInv
  <2>6. ReachedLine(Cut + 1, HeldOff)
    BY <1>2 DEF LineInv, Cancelling, StateInv
  <2>7. (IF Waits(p) THEN Steps - p.steps_remaining ELSE 0) = HeldOff
    BY <1>2, <2>2, <2>4 DEF HeldOff
  <2>8. ReachedLine(Cut + 1, IF Waits(p) THEN Steps - p.steps_remaining ELSE 0)
    BY <2>6, <2>7
  <2>. HIDE DEF p, blocks
  <2>. QED
    BY <1>1, <1>2, <2>1, <2>2, <2>3, <2>4, <2>5, <2>8 DEF Ready
<1>6. AfterMotion(prep) = p /\ BlocksAfterMotion = blocks
  BY DEF AfterMotion, BlocksAfterMotion
<1>7. /\ st_block[prep.block] = sys_block /\ prep.steps_remaining \in Nat
      /\ prep.steps_remaining <= StepCount(sys_block) /\ prep.steps_remaining # StepCount(sys_block)
  BY <1>2, <1>3 DEF BlockInv, Fresh, TypeOK, Preps
<1>8. /\ sys_block[2] \in 0 .. Target /\ sys_block[3] \in 0 .. Target
      /\ StepCount(sys_block) = Distance(sys_block[2], sys_block[3])
      /\ sys.handler = "await_restart_retract" => sys_block[2] = Target \/ (sys_block[2] = Pullout /\ sys_block[3] = 0)
  BY DEF RouteInv, Park, StepCount
<1>9. pos = Along(sys_block, StepCount(sys_block) - prep.steps_remaining)
  BY <1>1, <1>3, <1>7 DEF PosInv, CutOff
<1>10. /\ pos \in 0 .. Target
       /\ prep.steps_remaining = 0 => pos = sys_block[3]
       /\ sys.handler = "await_restart_retract" => pos < Target
  <2>1. \A a, b \in 0 .. Target, r \in Nat : r <= Distance(a, b) /\ r # Distance(a, b) =>
           LET x == IF a < b THEN a + (Distance(a, b) - r) ELSE a - (Distance(a, b) - r)
           IN  /\ x \in 0 .. Target
               /\ r = 0 => x = b
               /\ a = Target \/ (a = Pullout /\ b = 0) => x < Target
    BY ParkAssumption DEF Distance
  <2>. QED
    BY <1>7, <1>8, <1>9, <2>1 DEF Along
<1>. HIDE DEF p, blocks
<1>. QED
  BY <1>1, <1>2, <1>3, <1>4, <1>5, <1>6, <1>10 DEF Standing

\* An empty ring says nothing of its slots.
LEMMA EmptyRing ==
    ASSUME TypeOK, head = tail, UNCHANGED << head, tail >> PROVE RingInv' /\ ChainInv'
<1>1. InRing' = {}
  BY RingEnds DEF InRing, Ahead
<1>. QED
  BY <1>1 DEF RingInv, ChainInv

\* The start of a parking motion.
LEMMA InvParks ==
    ASSUME TypeOK, Standing, Apart, UNCHANGED << queue, planned >>,
           NEW to \in 0 .. Target, NEW p, NEW blocks, NEW c \in Controls, NEW h,
           ParkTo(to, p, blocks, c), Ready(p, blocks), ~c.execute_hold, Enter(h),
           parking_enabled, park'.motion, pos \in 0 .. Target,
           \/ h = "await_waypoint_retract" /\ pos < Pullout /\ to = Pullout /\ park'.target = Pullout
           \/ h = "await_resume" /\ pos < Target /\ to = Target
           \/ h = "restore" /\ pos = Target /\ to = Pullout
           \/ h = "await_resumed" /\ pos = Pullout /\ to = 0
    PROVE  Inv'
<1>. USE DEF Inv, Control, Buffers, Account
<1>1. /\ head = tail /\ ~st.stepping /\ st.exec_segment = None /\ st.exec_block = None
      /\ st.step_count = 0 /\ ~exec_fast_hold /\ QueueInv
      /\ UNCHANGED << segment, head, tail, st, exec_fast_hold, parking_enabled, pos, done, queue, planned >>
  BY DEF Standing, Apart
<1>2. /\ sys_block' = Park(pos, to) /\ prep' = ParkingSetup(p, blocks) /\ st_block' = blocks
      /\ pc' = "prep" /\ wake'
      /\ control'.execute_sys_motion /\ ~control'.end_motion /\ ~control'.execute_hold
  BY DEF ParkTo, Controls
<1>3. sys'.state = "DOOR" /\ sys'.handler = h /\ sys'.complete = FALSE
  BY DEF Enter
<1>4. /\ prep'.parking /\ ~prep'.velocity_profile /\ prep'.pl_block = "none"
      /\ prep'.at_rest = p.at_rest /\ prep'.hold_partial_block = p.hold_partial_block
      /\ p.hold_partial_block => prep'.last_steps = p.steps_remaining /\ prep'.hold_block = blocks[p.block]
  <2>1. p \in Preps /\ ~p.parking
    BY DEF Ready
  <2>. QED
    BY <1>2, <2>1 DEF ParkingSetup, Preps
<1>5. ~Started' /\ ~Fresh' /\ ~Cancelling' /\ ~Parked' /\ CutOff' = 0
  BY <1>2, <1>3, <1>4 DEF Started, Fresh, Cancelling, Parked, CutOff
<1>6. QueueInv' /\ Cut' = Cut
  BY <1>1, SameQueue
<1>7. StateInv'
  BY <1>1, <1>2, <1>3 DEF StateInv, Calm, Moving, Holding
<1>8. SteppingInv'
  BY <1>1, <1>2, <1>3, <1>5 DEF SteppingInv
<1>9. ParkInv'
  BY <1>1, <1>2, <1>3, <1>4 DEF ParkInv
<1>10. CutInv'
  BY <1>2, <1>3, <1>4 DEF CutInv
<1>11. HeldInv'
  BY <1>4 DEF HeldInv
<1>12. SysInv'
  BY <1>1, <1>2, <1>5 DEF SysInv
<1>13. BlockInv'
  BY <1>1, <1>4, <1>5, <1>6 DEF BlockInv, Ready
<1>14. ExecInv'
  BY <1>1 DEF ExecInv
<1>15. RouteInv'
  <2>1. Park(pos, to)[2] = pos /\ Park(pos, to)[3] = to
    BY DEF Park
  <2>. QED
    BY <1>2, <1>3, <2>1, ParkAssumption DEF RouteInv
<1>16. PosInv'
  <2>1. Along(Park(pos, to), 0) = pos
    BY DEF Along, Park
  <2>. QED
    BY <1>1, <1>2, <1>5, <2>1 DEF PosInv
<1>17. LineInv'
  <2>1. HeldOff' = IF Waits(p) THEN Steps - p.steps_remaining ELSE 0
    BY <1>4 DEF HeldOff, Ready
  <2>2. ReachedLine(Cut + 1, IF Waits(p) THEN Steps - p.steps_remaining ELSE 0)
    BY DEF Ready
  <2>3. ReachedLine(Cut + 1, HeldOff)'
    BY <1>1, <1>6, <2>1, <2>2 DEF ReachedLine
  <2>. QED
    BY <1>1, <2>3 DEF LineInv
<1>. QED
  BY <1>1, <1>6, <1>7, <1>8, <1>9, <1>10, <1>11, <1>12, <1>13, <1>14, <1>15, <1>16, <1>17, EmptyRing

\* A machine at rest keeps what it has of the line that is to be taken up again.
LEMMA ReadyBuffers ==
    ASSUME TypeOK, Standing, Apart, UNCHANGED << queue, planned >>, Ready(prep', st_block'),
           prep'.pl_block = "none", ~control'.execute_sys_motion
    PROVE  Buffers' /\ HeldInv' /\ SysInv' /\ RouteInv' /\ ChainInv' /\ LineInv'
<1>1. /\ head = tail /\ st.exec_block = None /\ st.step_count = 0 /\ QueueInv
      /\ UNCHANGED << segment, head, tail, st, parking_enabled, done, queue, planned >>
  BY DEF Standing, Apart
<1>2. QueueInv' /\ Cut' = Cut
  BY <1>1, SameQueue
<1>3. Started' <=> Waits(prep')
  BY DEF Started, Waits
<1>4. HeldInv'
  BY <1>1, <1>3 DEF HeldInv, Ready, Waits
<1>5. BlockInv'
  BY <1>1, <1>2, <1>3 DEF BlockInv, Ready
<1>6. ExecInv'
  BY <1>1 DEF ExecInv
<1>7. LineInv'
  <2>1. ~prep'.parking
    BY DEF Ready
  <2>2. Started' => st_block'[prep'.block] = Line(Cut + 1)
    BY <1>3 DEF Ready
  <2>3. StepCount(Line(Cut + 1)) = Steps
    BY DEF StepCount, Line
  <2>4. HeldOff' = IF Waits(prep') THEN Steps - prep'.steps_remaining ELSE 0
    BY <1>3, <2>1, <2>2, <2>3 DEF HeldOff, CutOff
  <2>5. ReachedLine(Cut + 1, IF Waits(prep') THEN Steps - prep'.steps_remaining ELSE 0)
    BY DEF Ready
  <2>6. ReachedLine(Cut + 1, HeldOff)'
    BY <1>1, <1>2, <2>4, <2>5 DEF ReachedLine
  <2>. QED
    BY <1>1, <2>6 DEF LineInv
<1>8. SysInv' /\ RouteInv'
  BY DEF SysInv, RouteInv
<1>. QED
  BY <1>1, <1>2, <1>4, <1>5, <1>6, <1>7, <1>8, EmptyRing DEF Buffers

\* The machine retracts as soon as it stands at the open door, if it can.
LEMMA InvAtDoor ==
    ASSUME TypeOK, Standing, Apart, UNCHANGED << queue, planned >>,
           NEW p, NEW blocks, NEW k \in Parks,
           Ready(p, blocks), p.pl_block = "none", HoldDoneAtDoor(p, blocks, k), pos \in 0 .. Target,
           \/ ~k.restart /\ pos = 0 /\ (~parking_enabled => ~k.motion)
           \/ k.restart /\ k.motion /\ pos < Target /\ parking_enabled
    PROVE  Inv'
<1>. USE DEF Inv, Control, Buffers, Account
<1>1. NoControl \in Controls /\ ~NoControl.execute_hold
  BY DEF NoControl, Controls
<1>2. Pullout \in 0 .. Target /\ Target \in 0 .. Target
  BY ParkAssumption
<1>3. CASE ~parking_enabled /\ StandStill(p, blocks, NoControl) /\ Enter("await_resume") /\ park' = k
  <2>1. /\ head = tail /\ ~st.stepping /\ st.exec_segment = None /\ st.exec_block = None
        /\ st.step_count = 0 /\ ~exec_fast_hold
        /\ UNCHANGED << head, tail, st, exec_fast_hold, parking_enabled, pos >>
    BY DEF Standing, Apart
  <2>2. /\ ~control'.execute_sys_motion /\ ~control'.end_motion /\ ~control'.execute_hold
        /\ prep' = p /\ st_block' = blocks /\ pc' = "prep" /\ wake' = FALSE
    BY <1>3 DEF StandStill, Pass, NoControl
  <2>3. sys'.state = "DOOR" /\ sys'.handler = "await_resume" /\ sys'.complete = FALSE
    BY <1>3 DEF Enter
  <2>4. pos = 0 /\ ~park'.motion /\ ~prep'.parking /\ ~prep'.hold_partial_block /\ prep'.pl_block = "none"
    BY <1>3, <2>2 DEF Ready
  <2>5. StateInv'
    BY <2>1, <2>2, <2>3 DEF StateInv, Calm, Moving, Holding
  <2>6. SteppingInv'
    BY <2>1, <2>2, <2>3 DEF SteppingInv
  <2>7. ParkInv'
    BY <1>3, <2>1, <2>2, <2>3, <2>4 DEF ParkInv
  <2>8. CutInv'
    BY <2>2, <2>3, <2>4 DEF CutInv
  <2>9. PosInv'
    BY <2>1, <2>2, <2>4 DEF PosInv
  <2>10. Ready(prep', st_block')
    BY <2>2
  <2>. QED
    BY <2>2, <2>4, <2>5, <2>6, <2>7, <2>8, <2>9, <2>10, ReadyBuffers
<1>4. CASE /\ parking_enabled /\ HoldMoves(k) /\ ParkTo(Pullout, p, blocks, NoControl)
           /\ Enter("await_waypoint_retract") /\ park' = HoldParked(k)
  <2>1. park'.motion /\ park'.target = Pullout
    BY <1>4 DEF HoldParked, HoldMoves, Parks
  <2>2. pos < Pullout
    BY <1>4, ParkAssumption DEF HoldMoves, HoldFrom
  <2>. QED
    BY <1>1, <1>2, <1>4, <2>1, <2>2, InvParks
<1>5. CASE parking_enabled /\ ~HoldMoves(k) /\ RetractDone(p, blocks, NoControl, HoldParked(k))
  <2>1. k.restart /\ k.motion /\ pos < Target /\ pos >= Pullout
    BY <1>5, ParkAssumption DEF HoldMoves, HoldFrom
  <2>2. HoldParked(k).motion /\ HoldParked(k).target = pos
    BY <2>1, ParkAssumption DEF HoldParked, HoldFrom, Parks
  <2>3. pos # Target /\ HoldParked(k).target < Target
    BY <2>1, <2>2, ParkAssumption
  <2>4. ParkTo(Target, p, blocks, NoControl) /\ Enter("await_resume") /\ park' = HoldParked(k)
    BY <1>5, <2>2, <2>3 DEF RetractDone
  <2>. QED
    BY <1>1, <1>2, <1>5, <2>1, <2>2, <2>4, InvParks
<1>. QED
  BY <1>3, <1>4, <1>5, HoldCases

LEMMA InvDoor == ASSUME TypeOK, Inv, Door, races' = {} PROVE Inv'
<1>. USE DEF Inv, Control, Buffers, Account
<1>1. Loop /\ Apart /\ UNCHANGED << queue, planned >> /\ Note
  BY DEF Door, untouched, Apart
<1>2. CASE InitiateHold("DOOR") /\ park' = ParkReset /\ pc' \in {"loop", "prep"} /\ wake' = FALSE
  BY <1>1, <1>2, InvInitiateHold
<1>3. CASE sys.state \in {"IDLE", "HOLD"} /\ HoldDoneAtDoor(UpdateParameters(prep), st_block, ParkReset)
  <2>1. sys'.state = "DOOR"
    BY <1>3, HoldCases DEF Enter, RetractDone
  <2>2. sys.state = "IDLE" /\ ~Unfinished
    BY <1>1, <1>3, <2>1, Quiet DEF StateInv
  <2>3. /\ sys.handler = "idle" /\ ~control.end_motion /\ ~control.execute_sys_motion /\ ~exec_fast_hold
        /\ ~Cancelling /\ ~park.motion
    BY <2>2 DEF StateInv, Calm, Cancelling, ParkInv
  <2>4. head = tail /\ prep.at_rest /\ pc = "loop"
    BY <1>1, <2>2, <2>3 DEF Unfinished, Uncut, Loop
  <2>5. Standing
    BY <2>3, <2>4 DEF Standing, SteppingInv
  <2>6. Ready(UpdateParameters(prep), st_block) /\ UpdateParameters(prep).pl_block = "none"
    BY <2>3, <2>4, ReadyHeld DEF UpdateParameters, TypeOK, Preps
  <2>7. pos = 0 /\ ParkReset \in Parks /\ ~ParkReset.restart /\ ~ParkReset.motion
    BY <2>3 DEF PosInv, ParkReset, Parks
  <2>8. pos \in 0 .. Target
    BY <2>7, ParkAssumption
  <2>. QED
    BY <1>1, <1>3, <2>5, <2>6, <2>7, <2>8, InvAtDoor
<1>. QED
  BY <1>2, <1>3 DEF Door

LEMMA InvEndHoldAtDoor ==
    ASSUME TypeOK, Inv, Loop, sys.complete, EndHoldAtDoor, Apart, UNCHANGED << queue, planned >> PROVE Inv'
<1>. USE DEF Inv, Control, Buffers, Account
<1>1. sys.handler = "await_hold" /\ sys.state = "DOOR"
      /\ HoldDoneAtDoor(UpdateParameters(prep), st_block, park)
  BY DEF EndHoldAtDoor
<1>2. /\ ~control.execute_sys_motion /\ ~exec_fast_hold /\ ~Cancelling /\ ~park.motion /\ ~park.restart
  BY <1>1 DEF StateInv, Moving, Cancelling, ParkInv
<1>3. head = tail /\ prep.at_rest /\ pc = "loop"
  BY <1>1 DEF CutInv, Loop
<1>4. Standing
  BY <1>2, <1>3 DEF Standing, SteppingInv
<1>5. Ready(UpdateParameters(prep), st_block) /\ UpdateParameters(prep).pl_block = "none"
  BY <1>2, <1>3, ReadyHeld DEF UpdateParameters, TypeOK, Preps
<1>6. pos = 0 /\ park \in Parks
  BY <1>2 DEF PosInv, TypeOK, Parks
<1>7. pos \in 0 .. Target
  BY <1>6, ParkAssumption
<1>. QED
  BY <1>1, <1>2, <1>4, <1>5, <1>6, <1>7, InvAtDoor

\* The buffer after a parking motion is to be profiled anew.
LEMMA AfterNone == ASSUME TypeOK, control.execute_sys_motion PROVE AfterMotion(prep).pl_block = "none"
BY DEF AfterMotion, ParkingRestore, TypeOK, Preps

LEMMA InvEndWaypoint ==
    ASSUME TypeOK, Inv, Loop, sys.complete, EndWaypoint, Apart, UNCHANGED << queue, planned >> PROVE Inv'
<1>. USE DEF Inv, Control, Buffers, Account
<1>1. sys.handler = "await_waypoint_retract" /\ RetractDone(AfterMotion(prep), BlocksAfterMotion, SysOff, park)
  BY DEF EndWaypoint
<1>2. control.execute_sys_motion /\ pc = "loop"
  BY <1>1 DEF StateInv, Moving, Loop
<1>3. /\ Standing /\ Ready(AfterMotion(prep), BlocksAfterMotion) /\ parking_enabled /\ park.motion
      /\ pos = sys_block[3] /\ ~control.execute_hold
  BY <1>1, <1>2, MotionOver
<1>4. park.target = Pullout /\ pos = Pullout
  BY <1>1, <1>2, <1>3 DEF ParkInv, RouteInv
<1>5. ParkTo(Target, AfterMotion(prep), BlocksAfterMotion, SysOff) /\ Enter("await_resume") /\ park' = park
  BY <1>1, <1>3, <1>4, ParkAssumption DEF RetractDone
<1>6. SysOff \in Controls /\ ~SysOff.execute_hold
  BY <1>3 DEF SysOff, Controls, TypeOK
<1>7. pos \in 0 .. Target /\ pos < Target /\ Target \in 0 .. Target
  BY <1>4, ParkAssumption
<1>. QED
  BY <1>3, <1>5, <1>6, <1>7, InvParks

\* The machine stands at the parking target.
LEMMA InvEndRetract ==
    ASSUME TypeOK, Inv, Loop, sys.complete, EndRetract, Apart, UNCHANGED << queue, planned >> PROVE Inv'
<1>. USE DEF Inv, Control, Buffers, Account
<1>1. /\ sys.handler = "await_resume" /\ StandStill(AfterMotion(prep), BlocksAfterMotion, SysOff)
      /\ park' = park /\ sys' = [sys EXCEPT !.complete = FALSE]
  BY DEF EndRetract
<1>2. control.execute_sys_motion /\ pc = "loop"
  BY <1>1 DEF SteppingInv, Parked, Loop
<1>3. /\ Standing /\ Ready(AfterMotion(prep), BlocksAfterMotion) /\ parking_enabled /\ park.motion
      /\ pos = sys_block[3] /\ ~control.execute_hold /\ control.end_motion /\ sys.state = "DOOR"
  BY <1>1, <1>2, MotionOver
<1>4. pos = Target
  BY <1>1, <1>2, <1>3 DEF RouteInv
<1>5. /\ head = tail /\ ~st.stepping /\ st.exec_segment = None /\ st.exec_block = None /\ ~exec_fast_hold
      /\ UNCHANGED << head, tail, st, exec_fast_hold, parking_enabled, pos >>
  BY <1>3 DEF Standing, Apart
<1>6. /\ ~control'.execute_sys_motion /\ control'.end_motion /\ ~control'.execute_hold
      /\ prep' = AfterMotion(prep) /\ st_block' = BlocksAfterMotion /\ pc' = "prep" /\ wake' = FALSE
  BY <1>1, <1>3 DEF StandStill, Pass, SysOff, TypeOK
<1>7. sys'.state = "DOOR" /\ sys'.handler = "await_resume" /\ sys'.complete = FALSE
  BY <1>1, <1>3 DEF TypeOK
<1>8. Ready(prep', st_block') /\ prep'.pl_block = "none"
  BY <1>2, <1>3, <1>6, AfterNone
<1>9. ~prep'.parking /\ prep'.at_rest /\ (prep'.hold_partial_block => parking_enabled)
  BY <1>8 DEF Ready
<1>10. StateInv'
  BY <1>1, <1>3, <1>5, <1>6, <1>7 DEF StateInv, Calm, Moving, Holding
<1>11. SteppingInv'
  BY <1>5, <1>6, <1>7 DEF SteppingInv
<1>12. ParkInv'
  BY <1>1, <1>3, <1>5, <1>6, <1>7, <1>9 DEF ParkInv
<1>13. CutInv'
  BY <1>6, <1>7, <1>8, <1>9 DEF CutInv
<1>14. PosInv'
  BY <1>1, <1>3, <1>4, <1>5, <1>6 DEF PosInv
<1>. QED
  BY <1>3, <1>6, <1>8, <1>10, <1>11, <1>12, <1>13, <1>14, ReadyBuffers

LEMMA InvEndRestore ==
    ASSUME TypeOK, Inv, Loop, sys.complete, EndRestore, Apart, UNCHANGED << queue, planned >> PROVE Inv'
<1>. USE DEF Inv, Control, Buffers, Account
<1>1. sys.handler = "restore" /\ RestoreDone(AfterMotion(prep), BlocksAfterMotion, SysOff)
  BY DEF EndRestore
<1>2. control.execute_sys_motion /\ pc = "loop"
  BY <1>1 DEF StateInv, Moving, Loop
<1>3. /\ Standing /\ Ready(AfterMotion(prep), BlocksAfterMotion) /\ parking_enabled /\ park.motion
      /\ pos = sys_block[3] /\ ~control.execute_hold
  BY <1>1, <1>2, MotionOver
<1>4. pos = Pullout /\ pos # 0
  BY <1>1, <1>2, <1>3, ParkAssumption DEF RouteInv
<1>5. ParkTo(0, AfterMotion(prep), BlocksAfterMotion, SysOff) /\ Enter("await_resumed")
      /\ park' = [park EXCEPT !.restart = FALSE]
  BY <1>1, <1>3, <1>4 DEF RestoreDone
<1>6. SysOff \in Controls /\ ~SysOff.execute_hold /\ park'.motion
  BY <1>3, <1>5 DEF SysOff, Controls, TypeOK
<1>7. pos \in 0 .. Target /\ 0 \in 0 .. Target
  BY <1>4, ParkAssumption
<1>. QED
  BY <1>3, <1>4, <1>5, <1>6, <1>7, InvParks

LEMMA InvEndRestart ==
    ASSUME TypeOK, Inv, Loop, sys.complete, EndRestart, Apart, UNCHANGED << queue, planned >> PROVE Inv'
<1>. USE DEF Inv, Control, Buffers, Account
<1>1. sys.handler = "await_restart_retract" /\ HoldDoneAtDoor(AfterMotion(prep), BlocksAfterMotion, park)
  BY DEF EndRestart
<1>2. control.execute_sys_motion /\ pc = "loop" /\ park.restart /\ park \in Parks
  BY <1>1 DEF StateInv, Moving, Loop, ParkInv, TypeOK, Parks
<1>3. /\ Standing /\ Ready(AfterMotion(prep), BlocksAfterMotion) /\ parking_enabled /\ park.motion
      /\ pos \in 0 .. Target /\ pos < Target
  BY <1>1, <1>2, MotionOver
<1>. QED
  BY <1>1, <1>2, <1>3, AfterNone, InvAtDoor

LEMMA InvDoorWhileRestoring == ASSUME TypeOK, Inv, DoorWhileRestoring PROVE Inv'
<1>. USE DEF Inv, Control, Buffers, Account
<1>. DEFINE k == [park EXCEPT !.restart = TRUE]
<1>1. /\ pc = "loop" /\ sys.complete /\ sys.handler = "restore" /\ Apart /\ UNCHANGED << queue, planned >>
      /\ HoldDoneAtDoor(AfterMotion(prep), BlocksAfterMotion, k)
  BY DEF DoorWhileRestoring, Loop, untouched, Apart
<1>2. control.execute_sys_motion
  BY <1>1 DEF StateInv, Moving
<1>3. /\ Standing /\ Ready(AfterMotion(prep), BlocksAfterMotion) /\ parking_enabled /\ park.motion
      /\ pos = sys_block[3]
  BY <1>1, <1>2, MotionOver
<1>4. pos \in 0 .. Target /\ pos < Target
  BY <1>1, <1>2, <1>3, ParkAssumption DEF RouteInv
<1>5. k \in Parks /\ k.restart /\ k.motion
  BY <1>3 DEF TypeOK, Parks
<1>. HIDE DEF k
<1>. QED
  BY <1>1, <1>2, <1>3, <1>4, <1>5, AfterNone, InvAtDoor

\* The effect of StartCycle.
LEMMA StartEffect ==
    ASSUME StartCycle
    PROVE  /\ park'.motion = FALSE /\ sys'.complete = FALSE
           /\ \/ /\ queue # << >> /\ sys'.state = "CYCLE" /\ sys'.handler = "cycle" /\ pc' = "prep" /\ wake'
              \/ /\ sys'.state = "IDLE" /\ sys'.handler = "idle" /\ pc' = "loop" /\ ~wake'
BY DEF StartCycle, ParkReset

\* The machine is back at the place of the hold, and the program goes on.
LEMMA InvEndResumed ==
    ASSUME TypeOK, Inv, Loop, sys.complete, EndResumed, Apart, UNCHANGED << queue, planned >> PROVE Inv'
<1>. USE DEF Inv, Control, Buffers, Account
<1>1. /\ sys.handler = "await_resumed" /\ ResumedDone(AfterMotion(prep), BlocksAfterMotion)
  BY DEF EndResumed
<1>2. control.execute_sys_motion /\ pc = "loop"
  BY <1>1 DEF StateInv, Moving, Loop
<1>3. /\ Standing /\ Ready(AfterMotion(prep), BlocksAfterMotion) /\ pos = sys_block[3]
  BY <1>1, <1>2, MotionOver
<1>4. pos = 0
  BY <1>1, <1>2, <1>3 DEF RouteInv
<1>5. /\ head = tail /\ ~st.stepping /\ st.exec_segment = None /\ st.exec_block = None /\ ~exec_fast_hold
      /\ UNCHANGED << head, tail, st, exec_fast_hold, parking_enabled, pos, queue >>
  BY <1>3 DEF Standing, Apart
<1>6. /\ ~control'.execute_sys_motion /\ ~control'.end_motion /\ ~control'.execute_hold
      /\ prep' = AfterMotion(prep) /\ st_block' = BlocksAfterMotion
  BY <1>1 DEF ResumedDone, NoControl
<1>7. /\ ~park'.motion /\ ~sys'.complete
      /\ \/ /\ queue # << >> /\ sys'.state = "CYCLE" /\ sys'.handler = "cycle" /\ pc' = "prep" /\ wake'
         \/ /\ sys'.state = "IDLE" /\ sys'.handler = "idle" /\ pc' = "loop" /\ ~wake'
  BY <1>1, StartEffect DEF ResumedDone
<1>8. Ready(prep', st_block') /\ prep'.pl_block = "none"
  BY <1>2, <1>3, <1>6, AfterNone
<1>9. ~prep'.parking /\ (prep'.hold_partial_block => parking_enabled)
  BY <1>8 DEF Ready
<1>10. StateInv'
  BY <1>5, <1>6, <1>7 DEF StateInv, Calm, Moving, Holding
<1>11. SteppingInv'
  BY <1>5, <1>6, <1>7 DEF SteppingInv, Parked
<1>12. ParkInv'
  BY <1>5, <1>6, <1>7, <1>9 DEF ParkInv
<1>13. CutInv'
  BY <1>6, <1>7, <1>8 DEF CutInv
<1>14. PosInv'
  BY <1>4, <1>5, <1>6, <1>7 DEF PosInv
<1>. QED
  BY <1>3, <1>6, <1>8, <1>10, <1>11, <1>12, <1>13, <1>14, ReadyBuffers

\* The program is started, or goes on after a hold.
LEMMA InvStarts ==
    ASSUME TypeOK, Inv, pc = "loop", ~st.stepping, Calm, ~park.motion, StartCycle, Apart,
           UNCHANGED << queue, planned, sys_block, st_block, prep >>, control' \in {control, NoControl}
    PROVE  Inv'
<1>. USE DEF Inv, Control, Buffers, Account
<1>1. /\ ~control.execute_hold /\ ~control.end_motion /\ ~control.execute_sys_motion
      /\ ~control'.execute_hold /\ ~control'.end_motion /\ ~control'.execute_sys_motion
  BY DEF StateInv, NoControl
<1>2. UNCHANGED << queue, planned, sys_block, segment, head, tail, st_block, prep, st, exec_fast_hold,
                   parking_enabled, pos, done >>
  BY DEF Apart
<1>3. /\ park'.motion = FALSE /\ sys'.complete = FALSE
      /\ \/ /\ queue # << >> /\ sys'.state = "CYCLE" /\ sys'.handler = "cycle" /\ pc' = "prep" /\ wake'
         \/ /\ sys'.state = "IDLE" /\ sys'.handler = "idle" /\ pc' = "loop" /\ ~wake'
  BY StartEffect
<1>4. ~exec_fast_hold /\ ~Cancelling /\ ~Cancelling' /\ park'.motion = park.motion
  BY <1>3 DEF StateInv, Calm, Cancelling, TypeOK
<1>5. Started' = Started /\ Cut' = Cut /\ QueueInv'
  BY <1>2, SameQueue DEF Started
<1>6. Same /\ SameExecution
  BY <1>1, <1>2, <1>5 DEF Same, SameExecution
<1>7. StateInv'
  BY <1>1, <1>2, <1>3, <1>4 DEF StateInv, Calm, Moving, Holding
<1>8. SteppingInv'
  BY <1>1, <1>2, <1>3, <1>4 DEF SteppingInv, Parked
<1>9. ParkInv'
  BY <1>1, <1>2, <1>3 DEF ParkInv
<1>10. CutInv'
  BY <1>1, <1>2, <1>3 DEF CutInv
<1>11. HeldInv'
  BY <1>1, <1>2, <1>5 DEF HeldInv
<1>12. SysInv' /\ RouteInv'
  BY <1>1 DEF SysInv, RouteInv
<1>13. BlockInv'
  BY <1>2, <1>5 DEF BlockInv
<1>. QED
  BY <1>2, <1>4, <1>5, <1>6, <1>7, <1>8, <1>9, <1>10, <1>11, <1>12, <1>13, SameRing, SameExec, SameAccount

LEMMA InvCycleStart == ASSUME TypeOK, Inv, CycleStart, races' = {} PROVE Inv'
<1>. USE DEF Inv, Control, Buffers, Account
<1>1. pc = "loop" /\ Apart /\ UNCHANGED << queue, planned >> /\ Note
  BY DEF CycleStart, Loop, untouched, Apart
<1>2. CASE /\ sys.state = "IDLE" \/ (sys.state = "HOLD" /\ sys.handler = "await_resume")
           /\ StartCycle /\ UNCHANGED << sys_block, st_block, control, prep >>
  <2>1. Calm /\ ~park.motion
    BY <1>2 DEF Calm, StateInv, ParkInv
  <2>2. ~st.stepping
    BY <1>2, <2>1 DEF SteppingInv, StateInv, Parked
  <2>. QED
    BY <1>1, <1>2, <2>1, <2>2, InvStarts
<1>3. CASE /\ sys.state = "DOOR" /\ sys.handler = "await_resume"
           /\ park.motion /\ pos # Pullout /\ ParkTo(Pullout, prep, st_block, control)
           /\ Enter("restore") /\ park' = [park EXCEPT !.restart = FALSE]
  <2>1. ~control.execute_sys_motion
    BY <1>1, <1>3, Quiet DEF Goes, Enter
  <2>2. /\ control.end_motion /\ head = tail /\ parking_enabled /\ ~control.execute_hold
        /\ ~exec_fast_hold /\ ~Cancelling
    BY <1>3, <2>1 DEF ParkInv, StateInv, Holding, Cancelling
  <2>3. prep.at_rest /\ ~st.stepping
    BY <1>3, <2>1, <2>2 DEF CutInv, SteppingInv, Parked
  <2>4. Standing
    BY <1>1, <2>2, <2>3 DEF Standing, SteppingInv
  <2>5. Ready(prep, st_block)
    BY <1>1, <2>1, <2>2, <2>3, ReadyKept
  <2>6. pos = Target /\ pos \in 0 .. Target /\ Pullout \in 0 .. Target
    BY <1>3, <2>1, ParkAssumption DEF PosInv
  <2>7. control \in Controls /\ park'.motion
    BY <1>3 DEF TypeOK, Controls
  <2>. QED
    BY <1>1, <1>3, <2>2, <2>4, <2>5, <2>6, <2>7, InvParks
<1>4. CASE /\ sys.state = "DOOR" /\ sys.handler = "await_resume"
           /\ ~(park.motion /\ pos # Pullout) /\ RestoreDone(prep, st_block, control)
  <2>1. sys'.handler \in {"await_resumed", "cycle", "idle"}
    <3>1. Enter("await_resumed") \/ StartCycle
      BY <1>4 DEF RestoreDone, ResumedDone
    <3>2. Enter("await_resumed") => sys'.handler = "await_resumed"
      BY DEF Enter
    <3>3. StartCycle => sys'.handler \in {"cycle", "idle"}
      BY DEF StartCycle
    <3>. QED
      BY <3>1, <3>2, <3>3
  <2>2. ~control.execute_sys_motion
    BY <1>1, <1>4, <2>1, Quiet DEF Goes
  <2>3. ~park.motion
    BY <1>4, <2>2, ParkAssumption DEF PosInv
  <2>4. Calm /\ ~st.stepping
    BY <1>4, <2>2, <2>3 DEF Calm, SteppingInv, Parked
  <2>5. StartCycle /\ UNCHANGED << sys_block, st_block, prep >> /\ control' \in {control, NoControl}
    BY <1>4, <2>3 DEF RestoreDone, ResumedDone
  <2>. QED
    BY <1>1, <2>3, <2>4, <2>5, InvStarts
<1>. QED
  BY <1>2, <1>3, <1>4 DEF CycleStart

-----------------------------------------------------------------------------
(* The inductive invariant holds *)

\* What plan_reset and st_reset leave behind.
Cleared ==
    /\ queue = << >> /\ planned = 0 /\ sys_block = NoMotion
    /\ segment = [i \in Slots |-> NoSegment] /\ head = 0 /\ tail = 0
    /\ st_block = [b \in Blocks |-> NoMotion]
    /\ prep = PrepReset /\ st = StReset /\ control = NoControl
    /\ exec_fast_hold = FALSE /\ pc = "loop" /\ wake = FALSE
    /\ sys = [state |-> "IDLE", handler |-> "idle", complete |-> FALSE]
    /\ park = ParkReset
    /\ pos = 0 /\ done = [i \in 1 .. Lines |-> 0]

LEMMA ClearedInv == Cleared => Inv
<1>. SUFFICES ASSUME Cleared PROVE Inv
  OBVIOUS
<1>. USE DEF Inv, Control, Buffers, Account
<1>1. /\ head = tail /\ ~control.execute_hold /\ ~control.end_motion /\ ~control.execute_sys_motion
      /\ ~exec_fast_hold /\ pc = "loop" /\ ~wake /\ pos = 0
      /\ sys.state = "IDLE" /\ sys.handler = "idle" /\ ~sys.complete /\ ~park.motion
      /\ ~st.stepping /\ st.exec_segment = None /\ st.exec_block = None /\ st.step_count = 0
      /\ prep.pl_block = "none" /\ ~prep.velocity_profile /\ ~prep.parking /\ ~prep.hold_partial_block
      /\ prep.at_rest
  BY DEF Cleared, NoControl, ParkReset, StReset, PrepReset
<1>2. ~Started /\ ~Parked /\ CutOff = 0 /\ HeldOff = 0
  BY <1>1 DEF Started, Parked, CutOff, HeldOff
<1>3. StateInv /\ SteppingInv /\ ParkInv /\ CutInv /\ HeldInv /\ SysInv
  <2>1. StateInv
    BY <1>1 DEF StateInv, Calm, Moving, Holding
  <2>2. SteppingInv
    BY <1>1 DEF SteppingInv
  <2>3. ParkInv
    BY <1>1 DEF ParkInv
  <2>4. CutInv
    BY <1>1 DEF CutInv
  <2>5. HeldInv /\ SysInv
    BY <1>1, <1>2 DEF HeldInv, SysInv
  <2>. QED
    BY <2>1, <2>2, <2>3, <2>4, <2>5
<1>4. QueueInv /\ Cut = 0
  <2>1. Len(queue) = 0 /\ planned = 0
    BY DEF Cleared
  <2>. QED
    BY <2>1 DEF QueueInv, Cut
<1>5. BlockInv /\ ExecInv /\ RouteInv /\ PosInv
  BY <1>1, <1>2 DEF BlockInv, ExecInv, RouteInv, PosInv
<1>6. InRing = {}
  <2>1. tail \in Slots
    BY SAssumption DEF Cleared, Slots
  <2>2. \A s \in Slots : Ahead(s) \in 0 .. S - 1
    BY <2>1, AheadIs
  <2>3. Ahead(head) = 0
    BY <1>1, <2>1, AheadSteps
  <2>. QED
    BY <2>2, <2>3, SAssumption DEF InRing
<1>7. RingInv /\ ChainInv
  BY <1>6 DEF RingInv, ChainInv
<1>8. LineInv
  <2>1. ReachedLine(Cut + 1, HeldOff)
    BY <1>2, <1>4 DEF ReachedLine, Cleared
  <2>. QED
    BY <1>1, <2>1 DEF LineInv
<1>. QED
  BY <1>3, <1>4, <1>5, <1>7, <1>8

LEMMA InvReset == ASSUME ResetState PROVE Inv'
<1>1. Cleared'
  BY DEF ResetState, Cleared
<1>. QED
  BY <1>1, ClearedInv, PTL

LEMMA InvCycleComplete == ASSUME TypeOK, Inv, CycleComplete PROVE Inv'
<1>1. Loop /\ sys.complete /\ Apart /\ UNCHANGED << queue, planned >>
  BY CompleteCases
<1>. QED
  BY <1>1, CompleteCases, InvEndCycle, InvEndHold, InvEndHoldAtDoor, InvEndWaypoint, InvEndRetract,
     InvEndRestore, InvEndResumed, InvEndRestart

\* Only a reset forgets the coincidences that were met.
LEMMA RacesStay ==
    ASSUME Next, races' = {} PROVE races = {} \/ ResetState
<1>1. Note \/ ResetState
  BY DEF Next, Interrupt, Foreground, Cutting, Events, Tick, RunDry, PrepReturn, Load, Fill, Publish,
         Prep, CycleComplete, CycleStart, QueueLine, Replan, FeedHold, Door, DoorAgain,
         DoorWhileRestoring, MotionCancel, Cancelled, Reset
<1>. QED
  BY <1>1 DEF Note

LEMMA InvSame == ASSUME Inv, UNCHANGED vars PROVE Inv'
<1>1. UNCHANGED << queue, planned, sys_block, segment, head, tail, st_block, prep, st, control,
                   exec_fast_hold, pc, wake, sys, park, parking_enabled, pos, done >>
  BY DEF vars, planner, ring, history
<1>2. /\ (Started' <=> Started) /\ (Fresh' <=> Fresh) /\ (Cancelling' <=> Cancelling)
      /\ InRing' = InRing /\ Ahead(head)' = Ahead(head) /\ Cut' = Cut /\ CutOff' = CutOff /\ HeldOff' = HeldOff
      /\ \A s : Ahead(s)' = Ahead(s) /\ Back(s)' = Back(s) /\ Begins(s)' = Begins(s) /\ Ends(s)' = Ends(s)
  BY <1>1 DEF Started, Fresh, Cancelling, InRing, Ahead, Cut, CutOff, HeldOff, Back, Behind, Begins, Ends
<1>3. Control'
  BY <1>1, <1>2 DEF Inv, Control, StateInv, SteppingInv, ParkInv, CutInv, HeldInv, SysInv, Calm, Parked, NewSegment
<1>4. Buffers'
  BY <1>1, <1>2 DEF Inv, Buffers, QueueInv, BlockInv, RingInv, ExecInv
<1>5. RouteInv' /\ PosInv'
  BY <1>1, <1>2 DEF Inv, Account, RouteInv, PosInv
<1>6. ~Cancelling => ChainInv' /\ LineInv'
  BY <1>1, <1>2 DEF Inv, Account, ChainInv, LineInv, NextSeg, OfBlock, ReachedLine
<1>. QED
  BY <1>2, <1>3, <1>4, <1>5, <1>6 DEF Inv, Account

LEMMA InvStep == ASSUME TypeOK, Inv, Next, ~ResetState, races' = {} PROVE Inv'
<1>1. CASE Tick \/ RunDry
  BY <1>1, InvTick, InvRunDry
<1>2. CASE Cutting
  BY <1>2, InvPrepReturn, InvLoad, InvFill, InvPublish DEF Cutting
<1>3. CASE Prep \/ CycleComplete \/ CycleStart
  BY <1>3, InvPrep, InvCycleComplete, InvCycleStart
<1>4. CASE Events
  BY <1>4, InvQueueLine, InvReplan, InvFeedHold, InvDoor, InvDoorAgain, InvDoorWhileRestoring,
     InvMotionCancel DEF Events
<1>5. CASE Cancelled \/ Reset
  BY <1>5 DEF Cancelled, Reset
<1>. QED
  BY <1>1, <1>2, <1>3, <1>4, <1>5 DEF Next, Interrupt, Foreground

\* The inductive invariant holds as long as none of the coincidences has been met.
THEOREM Invariant == Spec => []IInv
<1>1. Init => IInv
  <2>1. Init => Cleared
    BY DEF Init, Cleared
  <2>. QED
    BY <2>1, TypeInit, ClearedInv DEF IInv
<1>2. IInv /\ [Next]_vars => IInv'
  <2>. SUFFICES ASSUME TypeOK, races = {} => Inv, [Next]_vars PROVE IInv'
    BY DEF IInv
  <2>1. TypeOK'
    BY TypeStep
  <2>2. ASSUME races' = {} PROVE Inv'
    <3>1. CASE UNCHANGED vars
      <4>1. races = {}
        BY <2>2, <3>1 DEF vars
      <4>. QED
        BY <3>1, <4>1, InvSame
    <3>2. CASE ResetState
      BY <3>2, InvReset
    <3>3. CASE Next /\ ~ResetState
      BY <2>2, <3>3, RacesStay, InvStep
    <3>. QED
      BY <3>1, <3>2, <3>3
  <2>. QED
    BY <2>1, <2>2 DEF IInv
<1>. QED
  BY <1>1, <1>2, PTL DEF Spec

-----------------------------------------------------------------------------
(* What the invariant says *)

\* The interrupt is only ever started with a segment to execute, so that
\* stepper_driver_interrupt_handler finds a block to switch off when the ring is empty.
THEOREM StartsWithSegment == Spec => []NeverStartsEmpty
<1>1. IInv => NeverStartsEmpty
  BY DEF IInv, Inv, Control, SteppingInv, NeverStartsEmpty
<1>. QED
  BY <1>1, Invariant, PTL

\* S - 1 stepper blocks are enough for a ring of S segments: st_prep_buffer never
\* overwrites the one of a segment that is not finished, and the interrupt, which only
\* compares the addresses of stepper blocks, notices each change of motion.
THEOREM BlocksSuffice == Spec => []TracesOwnMotion
<1>1. IInv => TracesOwnMotion
  BY DEF IInv, Inv, Buffers, RingInv, ExecInv, TracesOwnMotion
<1>. QED
  BY <1>1, Invariant, PTL

\* How much of its motion the segment at the tail has still to take.
LEMMA TailBounds ==
    ASSUME TypeOK, Inv, ~Cancelling, head # tail
    PROVE  Begins(tail) \in 0 .. StepCount(segment[tail].of)
<1>. USE DEF Inv, Buffers, Account
<1>1. /\ tail \in InRing /\ segment[tail].n_step \in Nat /\ segment[tail].at \in Int
      /\ segment[tail].of \in Motions
  BY TailSegment
<1>2. StepCount(segment[tail].of) \in Nat
  BY <1>1, MotionTypes
<1>3. 0 <= segment[tail].at /\ Ends(tail) <= StepCount(segment[tail].of)
  BY <1>1 DEF ChainInv
<1>4. st.step_count \in Nat /\ (st.step_count > 0 => st.step_count <= segment[tail].n_step)
  BY DEF ExecInv, TypeOK, Executions
<1>5. \/ Begins(tail) = segment[tail].at
      \/ st.step_count > 0 /\ Begins(tail) = segment[tail].at + segment[tail].n_step - st.step_count
  BY DEF Begins
<1>. QED
  BY <1>1, <1>2, <1>3, <1>4, <1>5 DEF Ends

\* A motion from one place to another stays between them.
LEMMA AlongStays ==
    ASSUME NEW m \in Motions, m[1] = "park", m[2] \in 0 .. Target, m[3] \in 0 .. Target,
           NEW t \in 0 .. StepCount(m)
    PROVE  Along(m, t) \in 0 .. Target
<1>1. StepCount(m) = Distance(m[2], m[3])
  BY DEF StepCount
<1>. QED
  BY <1>1, ParkAssumption DEF Along, Distance

\* No step of the program is taken while the machine is away from the place where it
\* was held, and parking never overshoots its ends, whatever the door does
\* (mc_parking_motion, st_parking_setup_buffer and st_parking_restore_buffer).
THEOREM ParksApart == Spec => []ParkingApart
<1>1. IInv => ParkingApart
  <2>. SUFFICES ASSUME TypeOK, Inv PROVE pos \in 0 .. Target /\ (st.traces[1] = "line" /\ st.step_count > 0 => pos = 0)
    BY DEF IInv, ParkingApart
  <2>. USE DEF Inv, Control, Buffers, Account
  <2>1. ASSUME control.execute_sys_motion PROVE pos \in 0 .. Target
    <3>1. /\ sys_block \in Motions /\ sys_block[1] = "park" /\ ~Cancelling
          /\ sys_block[2] \in 0 .. Target /\ sys_block[3] \in 0 .. Target
      BY <2>1 DEF RouteInv, Park, TypeOK, StateInv, Cancelling
    <3>2. ASSUME head # tail PROVE Begins(tail) \in 0 .. StepCount(sys_block)
      BY <2>1, <3>1, <3>2, TailBounds, TailSegment
    <3>3. CutOff \in 0 .. StepCount(sys_block)
      <4>1. StepCount(sys_block) \in Nat /\ prep.steps_remaining \in Nat
        BY <3>1, MotionTypes DEF TypeOK, Preps
      <4>2. Started => /\ st_block[prep.block] = sys_block
                       /\ prep.steps_remaining <= StepCount(sys_block)
        BY <2>1 DEF ParkInv, BlockInv
      <4>. QED
        BY <4>1, <4>2 DEF CutOff
    <3>4. pos = Along(sys_block, IF head # tail THEN Begins(tail) ELSE CutOff)
      BY <2>1 DEF PosInv
    <3>. QED
      BY <3>1, <3>2, <3>3, <3>4, AlongStays
  <2>2. ASSUME ~control.execute_sys_motion PROVE pos \in 0 .. Target
    BY <2>2, ParkAssumption DEF PosInv
  <2>3. ASSUME st.traces[1] = "line", st.step_count > 0 PROVE pos = 0
    <3>1. st.traces = segment[tail].of /\ head # tail
      BY <2>3 DEF ExecInv
    <3>2. ~control.execute_sys_motion
      BY <2>3, <3>1, TailSegment
    <3>. QED
      BY <3>1, <3>2 DEF ParkInv, PosInv
  <2>. QED
    BY <2>1, <2>2, <2>3
<1>. QED
  BY <1>1, Invariant, PTL

\* Lines that have left the planner.
LEMMA DiscardedLines ==
    ASSUME TypeOK, Inv, NEW i \in 1 .. Lines, Discarded(i) PROVE i <= Cut /\ Cut \in 0 .. Lines
<1>1. /\ Len(queue) \in Nat /\ planned \in 0 .. Lines /\ Len(queue) <= planned
      /\ \A k \in 1 .. Len(queue) : queue[k] = Cut + k
  BY DEF TypeOK, Inv, Buffers, QueueInv
<1>2. Cut \in 0 .. Lines /\ planned = Cut + Len(queue)
  BY <1>1, StepsAssumption DEF Cut
<1>3. i <= planned /\ \A k \in 1 .. Len(queue) : queue[k] # i
  BY DEF Discarded
<1>4. ASSUME i > Cut PROVE FALSE
  <2>1. i - Cut \in 1 .. Len(queue) /\ Cut + (i - Cut) = i
    BY <1>1, <1>2, <1>3, <1>4
  <2>. QED
    BY <1>1, <1>3, <2>1
<1>. QED
  BY <1>2, <1>4

\* How far the program has come, from what waits and from what is in the ring.
LEMMA ReachedSomewhere ==
    ASSUME TypeOK, Inv, ~Cancelling
    PROVE  \E i \in Int, n \in 0 .. Steps : ReachedLine(i, n)
<1>. USE StepsAssumption DEF Inv, Control, Buffers, Account
<1>1. CASE head # tail /\ ~control.execute_sys_motion
  <2>1. ReachedLine(segment[tail].of[2], Begins(tail))
    BY <1>1 DEF LineInv
  <2>2. segment[tail].of[2] \in Int /\ StepCount(segment[tail].of) = Steps
    BY <1>1, TailSegment
  <2>3. Begins(tail) \in 0 .. Steps
    BY <1>1, <2>2, TailBounds
  <2>. QED
    BY <2>1, <2>2, <2>3
<1>2. CASE ~(head # tail /\ ~control.execute_sys_motion)
  <2>1. ReachedLine(Cut + 1, HeldOff)
    BY <1>2 DEF LineInv
  <2>2. Cut + 1 \in Int
    BY DEF Cut, TypeOK
  <2>3. prep.last_steps \in Nat /\ prep.steps_remaining \in Nat /\ prep.parking \in BOOLEAN
    BY DEF TypeOK, Preps
  <2>4. CASE prep.parking
    BY <2>1, <2>2, <2>3, <2>4 DEF HeldOff, BlockInv
  <2>5. CASE ~prep.parking
    <3>1. ~control.execute_sys_motion
      BY <2>5 DEF ParkInv
    <3>2. Started => CutOff = Steps - prep.steps_remaining /\ prep.steps_remaining \in 1 .. Steps
      BY <3>1, CutsLine
    <3>3. ~Started => CutOff = 0
      BY DEF CutOff
    <3>4. CutOff \in 0 .. Steps
      BY <3>2, <3>3
    <3>. QED
      BY <2>1, <2>2, <2>5, <3>4 DEF HeldOff
  <2>. QED
    BY <2>4, <2>5
<1>. QED
  BY <1>1, <1>2

\* The segments of a line: where each of them goes on, and where the last one ends.
LEMMA LineSegments ==
    ASSUME TypeOK, Inv, ~Cancelling, NEW i \in 1 .. Lines, NEW s \in InRing, CutFrom(s, i)
    PROVE  /\ Begins(s) = IF s # tail /\ CutFrom(PrevSlot(s), i) THEN Ends(PrevSlot(s)) ELSE done[i]
           /\ Discarded(i) /\ ~CutFrom(NextSlot(s), i) => Ends(s) = Steps
<1>. USE DEF Inv, Control, Buffers, Account
<1>1. /\ segment[s].of = Line(i) /\ segment[s].of[1] = "line" /\ segment[s].of[2] = i
      /\ StepCount(segment[s].of) = Steps
  BY DEF CutFrom, Line, StepCount
<1>2. head # tail /\ tail \in InRing /\ s \in Slots /\ head \in Slots /\ tail \in Slots
      /\ Ahead(s) \in 0 .. S - 1 /\ Ahead(s) < Ahead(head) /\ Ahead(head) \in 0 .. S - 1
      /\ Ahead(tail) = 0
  BY RingEnds, AheadIs, AheadSteps DEF InRing, TypeOK
<1>3. ~control.execute_sys_motion
  <2>1. SUFFICES ASSUME control.execute_sys_motion PROVE FALSE
    OBVIOUS
  <2>2. sys_block[1] = "park" /\ st_block[prep.block] = sys_block
    BY <1>2, <2>1, TailSegment
  <2>3. segment[s].of = st_block[prep.block]
    BY <2>1 DEF RingInv
  <2>. QED
    BY <1>1, <2>2, <2>3
<1>4. /\ ReachedLine(segment[tail].of[2], Begins(tail))
      /\ segment[tail].of[2] \in 1 .. Lines
      /\ \A t \in InRing : Ahead(tail) <= Ahead(t) => segment[tail].of[2] <= segment[t].of[2]
  BY <1>2, <1>3, TailSegment DEF LineInv
<1>5. \A r, t \in InRing : segment[r].exec_block = segment[t].exec_block => segment[r].of = segment[t].of
  BY DEF RingInv
<1>6. Begins(s) = IF s # tail /\ CutFrom(PrevSlot(s), i) THEN Ends(PrevSlot(s)) ELSE done[i]
  <2>1. CASE s = tail
    BY <1>1, <1>4, <2>1 DEF ReachedLine
  <2>2. CASE s # tail
    <3>. DEFINE r == PrevSlot(s)
    <3>1. r \in Slots /\ Ahead(r) = Ahead(s) - 1 /\ Ahead(r) \in 0 .. S - 1
      BY <1>2, <2>2, AheadSteps, AheadIs, Wraps
    <3>2. r \in InRing /\ Ahead(s) = Ahead(r) + 1 /\ Ahead(tail) <= Ahead(r)
      BY <1>2, <3>1, SAssumption DEF InRing
    <3>3. NextSeg(r, s)
      BY <3>2 DEF ChainInv
    <3>4. Begins(s) = segment[s].at
      BY <2>2 DEF Begins, ExecInv
    <3>5. PICK j \in 1 .. Lines : segment[r].of = Line(j)
      BY <1>3, <3>2 DEF RingInv
    <3>6. segment[r].of[2] = j
      BY <3>5 DEF Line
    <3>. HIDE DEF r
    <3>7. CASE CutFrom(r, i)
      <4>1. j = i
        BY <3>6, <3>7 DEF CutFrom, Line
      <4>2. segment[r].exec_block = segment[s].exec_block
        BY <1>1, <3>3, <3>6, <4>1 DEF NextSeg
      <4>. QED
        BY <2>2, <3>3, <3>4, <3>7, <4>2 DEF NextSeg, r
    <3>8. CASE ~CutFrom(r, i)
      <4>1. segment[r].exec_block # segment[s].exec_block
        BY <1>1, <1>5, <3>2, <3>8 DEF CutFrom
      <4>2. segment[s].at = 0 /\ i = j + 1
        BY <1>1, <3>3, <3>6, <4>1 DEF NextSeg
      <4>3. segment[tail].of[2] <= j
        BY <1>4, <3>2, <3>6
      <4>4. done[i] = 0
        BY <1>4, <4>2, <4>3 DEF ReachedLine
      <4>. QED
        BY <3>4, <3>8, <4>2, <4>4 DEF r
    <3>. QED
      BY <3>7, <3>8
  <2>. QED
    BY <2>1, <2>2
<1>7. ASSUME Discarded(i), ~CutFrom(NextSlot(s), i) PROVE Ends(s) = Steps
  <2>1. i <= Cut /\ Cut \in 0 .. Lines
    BY <1>7, DiscardedLines
  <2>2. CASE Ahead(head) = Ahead(s) + 1
    <3>1. ~OfBlock(s)
      <4>1. SUFFICES ASSUME OfBlock(s) PROVE FALSE
        OBVIOUS
      <4>2. segment[s].of = Line(Cut + 1)
        BY <1>3, <4>1, CutsLine DEF OfBlock, RingInv
      <4>3. segment[s].of[2] = Cut + 1
        BY <4>2 DEF Line
      <4>. QED
        BY <1>1, <2>1, <4>3
    <3>. QED
      BY <1>1, <2>2, <3>1 DEF ChainInv
  <2>3. CASE Ahead(head) # Ahead(s) + 1
    <3>1. NextSlot(s) \in Slots /\ Ahead(NextSlot(s)) = Ahead(s) + 1
      BY <1>2, <2>3, SAssumption, AheadSteps, Wraps
    <3>2. NextSlot(s) \in InRing
      BY <1>2, <2>3, <3>1, SAssumption DEF InRing
    <3>3. NextSeg(s, NextSlot(s))
      BY <3>1, <3>2 DEF ChainInv
    <3>4. segment[s].exec_block # segment[NextSlot(s)].exec_block
      BY <1>1, <1>5, <1>7, <3>2 DEF CutFrom
    <3>. QED
      BY <1>1, <3>3, <3>4 DEF NextSeg
  <2>. QED
    BY <2>2, <2>3
<1>. QED
  BY <1>6, <1>7

\* Every motion takes all of its steps once, in the order of the program, whatever
\* holds, overrides, parking motions and pauses of the foreground come in between
\* (st_prep_buffer, st_update_plan_block_parameters and the parking functions).
THEOREM ConservesSteps == Spec => []StepsConserved
<1>1. IInv => StepsConserved
  <2>. SUFFICES ASSUME TypeOK, Inv, ~Cancelling, NEW i \in 1 .. Lines
                PROVE  /\ done[i] <= Steps
                       /\ done[i] > 0 => \A j \in 1 .. i - 1 : done[j] = Steps
                       /\ Discarded(i) => done[i] = Steps \/ \E s \in InRing : CutFrom(s, i)
    BY LineSegments DEF IInv, StepsConserved
  <2>. USE StepsAssumption
  <2>1. done[i] <= Steps /\ (done[i] > 0 => \A j \in 1 .. i - 1 : done[j] = Steps)
    <3>1. PICK k \in Int, n \in 0 .. Steps : ReachedLine(k, n)
      BY ReachedSomewhere
    <3>. QED
      BY <3>1 DEF ReachedLine
  <2>2. ASSUME Discarded(i) PROVE done[i] = Steps \/ \E s \in InRing : CutFrom(s, i)
    <3>1. i <= Cut /\ Cut \in 0 .. Lines /\ LineInv
      BY <2>2, DiscardedLines DEF Inv, Account
    <3>2. CASE head # tail /\ ~control.execute_sys_motion
      <4>1. segment[tail].of[2] \in 1 .. Lines
        BY <3>2, TailSegment
      <4>2. CASE i < segment[tail].of[2]
        BY <3>1, <3>2, <4>2 DEF LineInv, ReachedLine
      <4>3. CASE i \in segment[tail].of[2] .. Cut
        BY <3>1, <3>2, <4>3 DEF LineInv, CutFrom
      <4>. QED
        BY <3>1, <4>1, <4>2, <4>3
    <3>3. CASE ~(head # tail /\ ~control.execute_sys_motion)
      <4>1. ReachedLine(Cut + 1, HeldOff) /\ i < Cut + 1
        BY <3>1, <3>3 DEF LineInv
      <4>. QED
        BY <4>1 DEF ReachedLine
    <3>. QED
      BY <3>2, <3>3
  <2>. QED
    BY <2>1, <2>2
<1>. QED
  BY <1>1, Invariant, PTL

=============================================================================
