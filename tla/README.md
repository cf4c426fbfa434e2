# A formal model of the grblHAL motion controller for GD32F4xx

This directory holds TLA+ models of the parts of the controller in which
interrupts, a cooperative foreground and shared buffers meet: the serial port,
the motion planner, the segment buffer and the step interrupt, the line tracer,
the state machine, the task scheduler, the Modbus master and the settings storage.
TLC checks each model on small instances; TLAPS proves the safety properties of
eight of them for every size of their parameters. `PROJECT.json` lists the runs,
the source lines behind each definition, the theorems, the hazards and the
disagreements found between the code and its own comments.

## 1. The system

The firmware has one foreground process (`grbl_enter`, `protocol_main_loop`)
and interrupts that preempt it; no operating system. The foreground reads
characters, parses lines, plans motions, cuts them into segments and, at every
*pass* (`protocol_execute_realtime`), looks at flags the interrupts have set. The
step interrupt executes segments. A soft reset unwinds the foreground to
`grbl_enter`, which initialises everything again.

| Component | State it keeps | Operations | Talks to |
|---|---|---|---|
| serial port (`Src/serial.c`) | receive and transmit rings, real-time handler | `serialGetC`, `serialPutC`, flush, cancel, USART interrupt | stream layer; the interrupt calls `protocol_enqueue_realtime_command` |
| stream layer (`grbl/stream.c`) | current stream, suspension for a tool change | `stream_rx_suspend`, `await_toolchange_ack`, `stream_tx_blocking` | serial port, tasks |
| planner (`grbl/planner.c`) | ring of blocks with head, tail and planned pointers, overrides | `plan_buffer_line`, `planner_recalculate`, `plan_discard_current_block`, `plan_feed_override`, `plan_cycle_reinitialize`, `plan_reset` | segment generator |
| stepper (`grbl/stepper.c`) | segment ring, stepper blocks, Bresenham counters, position | `st_prep_buffer` (foreground), step interrupt, `st_wake_up`, `st_go_idle`, `st_reset` | planner, state machine |
| state machine and realtime protocol (`grbl/state_machine.c`, `grbl/protocol.c`) | state, handler, pending state, suspend flag, parking flags, realtime flags | `state_set`, one handler for each state or wait, `protocol_exec_rt_system`, `protocol_exec_rt_suspend` | stepper, planner, door and control inputs, serial interrupt |
| reset (`mc_reset`, `grbl_enter`) | `EXEC_RESET`, `sys.abort` | called in interrupts | all of them |
| task scheduler (`grbl/grbllib.c`) | pool of entries in linked lists | `task_add_*`, `task_delete*`, `task_execute` | everybody, interrupts included |
| Modbus RTU (`grbl/modbus_rtu.c`) | message queue, packet in flight, state | poll (systick task), blocking send with retries, reset | tasks, a stream |
| settings storage (`grbl/nvs_buffer.c`, `Src/flash.c`, `eeprom/`) | RAM copy, dirty flags | write, sync, restore | flash or EEPROM |
| overrides (`grbl/override.c`) | three rings of commands | enqueue (interrupt), get, flush | protocol |
| homing, tool change, NGC flow control | phases; saved state; control stack | | state machine, streams, parser |
| parser, settings, reports, I/O ports, kinematics, spindles, drivers, USB, SD card | mostly sequential code, tables, floating point, registers | | |

What is hard in it:

* **Interrupts inside foreground windows.** The rings are shared without locks;
  operations consist of several volatile accesses, and some interrupt handlers
  write the foreground's side of a ring (a cancel moves `tail`).
* **Flags merge.** Requests of different ages are taken in one pass and handled
  in a fixed order, so the end of a motion may be handled before a request made
  while it was moving.
* **Nested passes.** Handlers wait by running passes (`delay_sec`, blocking
  output, the stop request); the state a handler goes on with may have been
  changed under it.
* **Incremental algorithms.** The planner re-plans only from the `planned`
  pointer; the step interrupt spreads steps with integer counters whose scale
  changes from segment to segment.
* **Waiting.** A handler whose event never comes hangs the controller.
* **A bus and a memory that fail.** Modbus devices answer late, damaged or never, and
  a reply does not say which message it answers; a write to the storage may fail in
  the middle, or power may.

## 2. The modules

| Module | Models | MC module, configurations | Proofs |
|---|---|---|---|
| `SerialRx` | receive ring and tool change suspension | `MCSerialRx`; `MCSerialRx.cfg`, `MCSerialRxFlush.cfg` | `SerialProofs` |
| `SerialTx` | transmit ring | `MCSerialTx.cfg` | `SerialProofs` |
| `Planner` | block ring, look-ahead, overrides; segment generator as the planner sees it | `MCMotion`; `MCMotion.cfg`; alone `MCPlanner`; `MCPlannerDecel.cfg` | `PlannerProofs` |
| `Bresenham` | blocks, segments, smoothing levels, ticks | `MCMotion`; `MCMotion.cfg` | `BresenhamProofs` |
| `StateMachine` | state machine, realtime protocol, reset, parking; stepper as it sees it | `MCStateMachine.cfg`, `MCStateDoorInHold.cfg`, `MCStateReturn.cfg` | `StateMachineProofs` |
| `Stepper` | segment ring, stepper blocks, the interrupt's progress through them, holds and parking as they touch both | `MCStepper.cfg` | `StepperProofs` |
| `Tasks` | task pool, lists, `task_execute` | `MCTasks.cfg` | `TasksProofs` |
| `TaskSchedule` | what the scheduler promises; implemented by `Tasks` | (checked through `Tasks`) | `TasksProofs` |
| `Modbus` | poll, message queue, blocking send with retries, resets, devices | `MCModbus.cfg` | `ModbusProofs` |
| `Storage` | RAM copy and dirty flags, flash and EEPROM write-back, start-up, loss of power | `MCStorage.cfg` | `StorageProofs` |

Definitions named `X_Something` directly before `X`, with a comment beginning
*Mutant*, are wrong versions of `X`. No specification uses them; they serve to
confirm that each property can tell the code from a plausible mistake in it.
Variables marked HISTORY exist for the properties only.

**Coincidences.** The code has windows in which it does not do what its callers
rely on. A model does not leave them out: when one is entered, its name is
recorded in a history variable (`raced`, `txraced`, `races`, `reentered`, `overridden`), and
the properties say what holds up to that moment. So a property states the
exact set of circumstances in which the code is right. The consequences given below
are defects which the models contain as behaviours. Some of those that break what a
comment of the code says are kept as runs that expect a violation (section 3).

### SerialRx

The foreground's operations (`serialGetC`, `serialRxFlush`, `serialRxCancel`,
`stream_rx_suspend`) are split at every access to a volatile field; an interrupt
runs to completion between any two of them: an ordinary character
(`RxOrdinary`), a stop or jog cancel command, which cancels the input from
interrupt context (`RxCancel`), the tool change acknowledge (`RxToolAck`), the
reset (`RxReset`). Characters are their stamps of arrival; a CAN is a negative
stamp. The copy of the ring struct in `stream_rx_suspend` is split in two, as it is
not atomic. Windows that an interrupt has hit are collected in `raced`. `mc_reset`
returns early, with nothing but its flag set, when a reset is already being processed or in
a blocking event (`motion_control.c:1168`); both come after an `mc_reset` that has ended any
suspension, so `RxReset` has no such case.

Not a violation run, but recorded by the model: a character received between the
statements of a *foreground* `serialRxCancel` takes the slot of the CAN
(`serial.c:106`).

### SerialTx

`serialPutC` with its locals, the blocking callback with writes from tasks it
runs (inside which the callback runs nothing, `PutNested`), and the transmit half of the
interrupt. A callback that says no ends the call even if there is room by then. Names that `SerialRx` also defines have
the prefix `Tx`, as one module proves both. Two windows are recorded. `txraced`:
the interrupt empties the ring between the store of `head` (`serial.c:122`) and the
enabling of TBE (`serial.c:123`); it then fires on an empty ring and sends stale
slots until `tail` has gone round. `reentered`: a task run by the blocking callback
writes to the same stream, and the blocked call stores its stale `next_head`
(`serial.c:114`) over it: characters are lost or sent out of order.

### Planner

Speeds are squared, lengths are the change of squared speed a block allows, both
integers. The two passes of `planner_recalculate` are one step per iteration with
`pc` and `current`; nothing else runs in between, as in the code. The segment
generator takes the tail block up, executes part of it, completes it, or
decelerates through it in a hold, with the speed profile of `st_prep_buffer`;
what it leaves over at the end of a block that was too short is carried into the
next one. Not modelled: system motions (they never enter the queue),
`plan_swap_buffers`, the vector arithmetic behind a junction's limit.

### Bresenham

One action for a new block, a new segment with any number of whole steps and any
smoothing level, one tick, a stop between segments (a hold, or an interrupt that
found no segment) and a cancellation with `plan_sync_position`. When the interrupt
runs out of segments it forgets the block (`stepper.c:582`), so the counters start
again when the block is resumed: `NearLine` counts half a step for each such
stop, and `LandsOnTarget` is stated for motions without one. A resumed motion can
indeed end one step off its target on an axis that is not the dominant one.
Backlash compensation is not built by default and not modelled. The module is checked
side by side with `Planner`, so its specification is named `TraceSpec` and its type
invariant `TraceTypeOK`; the latter is proved, and left out of the run, whose properties
fail on any counter outside its domain.

### StateMachine

`sys` is a record with the state, handler, pending state, suspend and step control
flags, parking flags, the nested delays, and the stepper as far as the state
machine can see it (blocks in the queue, whether the loaded block runs at its
programmed speed or decelerates, segments, whether the steppers run). Handlers
call one another, so each is an operator from a machine to the set of machines
it may leave. `pc` says where the foreground is: in its own code (`fg`), in a pass
(`pass`), preparing segments (`prep`), or waiting for the steppers in a stop
request (`stop`). Interrupts (the step timer, realtime commands, the door input,
`mc_reset`) happen between any two steps. Steppers that have been woken up are
*stepping* for `st_is_stepping` only once the interrupt has loaded a segment
(`exec_block`). The setting `ignore_when_idle`, under which the door input raises no
request in idle and when jogging (`system.c:119-127`), is the constant `IgnoreWhenIdle`.
Not modelled: tool change, and with it the test of `gc_state.tool_change` in the door
input (`system.c:117`), homing, check mode and e-stop states, soft limits and `alarm_pending`, `feed_hold_pending`,
override flags, starts synchronised to the spindle; `EXEC_DOOR_CLOSED`, which only
changes the reported parking state. The coolant delay is joined to the spindle
delay. In sleep a reset may or may not find a blocking event.

The coincidences, and what the code does in them:

| Name | Circumstance | Consequence |
|---|---|---|
| `late_cancel` | jog cancel taken in one pass with the end of the jog | suspended in IDLE, waiting for the end of a motion that has ended, until a reset (`state_machine.c:452`) |
| `late_reopen` | door opened in one pass with the end of the restore motion | waits for an end already taken: neither retracts nor returns |
| `door_in_hold` | door opened while a hold decelerates | declared held while moving (run `door_in_hold`) |
| `door_in_jog` | door opened during a jog | `state_await_hold` ignores the pending state; ends suspended in JOG |
| `door_in_stop` | door request merged with the end of a stop | held in the wrong state |
| `stop_in_hold` | stop while a hold decelerates | hold flag cleared; blocks run at programmed speed until the stop |
| `stop_ajar` | stop with the door open, in a motion or its hold | the motion is dropped, then the door state waits for it to stop (`protocol.c:598`) |
| `reset_in_stop` | reset while a stop waits for the steppers | the flag is taken after the only test for it (`protocol.c:583`): the reset is not executed |
| `busy_resume` | any request during a restore delay | the handler goes on from a changed state; after a reset it starts the cycle although `sys.abort` is set, where `mc_parking_motion` has a guard (`motion_control.c:1124`) |
| `start_parking` | cycle start while the retract still moves | restore starts at once (run `returns_early`) |
| `start_ajar` | cycle start after the door was opened during a restore | door switch not looked at (run `returns_early`) |
| `underrun` | segment buffer dry during a parking motion | its end is reported early |

### Stepper

The ring of segments, the pool of stepper blocks that segments point into, and the
three actors on them: `st_prep_buffer` in the foreground, split where it publishes a
segment or takes up a block, the interrupt (one step, the change to the next
segment, the dry ring), and the part of the state machine that saves a held motion,
executes parking motions in its place and puts it back (`st_parking_setup_buffer`,
`st_parking_restore_buffer`). A motion is its number and its count of steps; how the
steps are spread over the axes is `Bresenham`, how fast they go is `Planner`. Re-plans
by overrides, feed holds, fast holds that take segments back
(`st_update_plan_block_parameters`), cancels, `mc_reset` and the door come at any
moment. A segment carries, as HISTORY, the motion it was cut from and how many steps of
it were cut before; `InRing` is the set of slots from the tail to the head. The account
of steps (`StepsConserved`) compares neighbours in the ring with these: the first segment
goes on where the interrupt is, each other one where its predecessor ends, and the last one
of a line that has left the planner ends with the line. A reset is one step at the main
loop: from `mc_reset`, at any moment, to there the interrupt is silent, as a late interrupt
is, and everything done in between is thrown away by `st_reset`.
Not modelled: spindle synchronised motion, jerk limited ramps, laser power, probing inside the interrupt, the delayed switching off of the motors.

| Name | Circumstance | Consequence |
|---|---|---|
| `late` | the foreground is late and the ring runs dry in a motion, and the machine is being held, stopped or parked, or leaves the cycle, before the rest is cut | a motion's end is reported while part of it remains; the rest stays in the buffer |
| `cut_in_hold` | the machine is held | `state_await_hold` clears all of `sys.step_control` (`state_machine.c:514`), so `st_prep_buffer` fills the ring again; if the rest of the last motion fits into it, cycle start finds the planner queue empty and goes to IDLE with segments left over until the next motion; `stepper.c:884` speaks of "Block step prep buffer, while in a suspend state" |
| `start_in_retract` | cycle start while the retract moves (`state_machine.c:649`) | the restore begins at once |
| `door_in_hold` | the door opens while a hold decelerates | as in `StateMachine` |
| `door_after_hold` | the door opens in a completed hold | the ring was filled again and the note of the partial block is gone: parking executes segments of the program and repeats their steps later |
| `taken_back` | a fast stop takes back all segments of the motion being cut (`stepper.c:806-820`) | `head` is moved back but `st_prep_block` is not, so that motion keeps a stepper block without a segment in the ring, and a motion taken up later (`stepper.c:918`) can overwrite the block of segments still to be executed: "for the worst case scenario, it will never exceed the number of accessible stepper buffer segments" (`stepper.c:56`) is not true then |
| `end_dropped` | the door opens in one pass with the end of a motion (`state_machine.c:800`, `855`) | the end is not handled |

`taken_back` was found by the proof, not by the run: the invariant that a block is at most
as far behind the one being cut as its segment is behind the head (`RingInv`) could not be
shown for a fast stop, and TLC then found the overwritten block with five motions of one
step in a ring of five segments.

The comment at `state_machine.c:536` asks for "laser mode disabled" before parking; the
code tests the capability, not the mode.

### Tasks and TaskSchedule

The pool, its lists as linked entries, `last_freed`, and a stack of calls in
progress in the foreground: `task_execute` may be called again from a task.
A list is the smallest set of entries closed under `next` that holds its head (`Chain`),
which takes the place of a recursive walk and can be reasoned about; `First` is the first
entry of a list with some property. Two lists joined by a coincidence may form a loop, and
the search for an insertion point in a loop does not end (the guard `after # 0`).
Sections with interrupts disabled are single steps. Interrupts add immediate and
delayed tasks and delete delayed ones between any two steps (`st_go_idle` does so
in the step interrupt). Time is counted modulo `TimeMod`, 2^32 in the code, and
compared as a signed difference; the configuration starts one tick before the wrap.
A behaviour lasts less than half the range of the counter (`ClockAssumption`; 24.8 days
in the code) from any starting tick: a signed difference cannot tell more, and a task left
waiting for longer than that would be sorted wrongly by the code too.
Coincidences: `deleted_when_due` (the task found due at `grbllib.c:580` is deleted
before interrupts are disabled; the loop frees the entry again and calls a null
function), `reset_in_reset` (a reset task is added while reset tasks run and
`tasks.on_reset` points to a freed entry; it is lost), `systick_deletes` (a systick
task deletes itself; the loop goes on from a freed entry). `TaskSchedule` is the
abstract specification: a set of waiting tasks from which tasks are run or
deleted. `Tasks` implements it under the mapping `Schedule`, where `waiting` is
what can be reached from the list heads and the local variables of the running
loops. The start-up tasks are not modelled. A circumstance outside the model: every
stop request calls `hal.driver_reset` (`protocol.c:562`) and VFD spindles then add a
reset task, but only a reset runs those, so repeated stops use up the pool.

### Modbus

The poll is a systick task, so it runs between the turns of a blocked sender's loop
and never inside one of its statements; each case of its `switch` is one action. A
message is its number. The devices are external: a message received may be answered
at any later time, properly, with a wrong checksum, or with the shorter exception
reply, or not at all. The checksum is looked at for the messages in `Checked` only
(`crc_check` of the message). The reply timeout may expire at any moment of the wait, also
with a complete reply in the buffer; silence ends some time. `ends` records how each
message ended: with a reply, an exception, a failure, after all attempts, refused, or
dropped by a flush or a reset, of which its sender is not told. That `spin_lock` is never held when it is
waited for follows from the poll not being preempted; it is not modelled.

The test that refuses a queued message while a blocking one is under way
(`modbus_rtu.c:333`) compares the address of the packet on the wire with that of the
blocking message, not with the new message: it refuses messages to every device, and
the model does the same. A blocking message with a wrong checksum reports whatever
exception code was recorded before (`modbus_rtu.c:221` sets none); codes are abstracted.

Coincidences: `late` (an answer to another message arrives while a reply is awaited;
nothing tells them apart, and it is taken for the reply; no comment promises otherwise, but
`modbus_rtu.c:169` relies on devices keeping silent when the master talks, which the
master's own repeats do not let them), `reset_in_send` (a task run by the blocked sender executes
a pass with a reset or, in the retry state, a stop: the sender's packet or its state
is gone and its loop never ends), `flushed` (a spindle is selected while one entry is
on the wire and others wait: `modbus_rtu_flush_queue` frees all entries but the
one on the wire is among those written next, `modbus_rtu.c:478`).

### Storage

Memory is a function from the version byte and the records to values. A record is
`Bad` when its checksum does not match; `lost` names those that a broken write may
have destroyed, and `since` what each record has been since everything was last
stored. With the flash every write-back erases and programs the whole sector; with
an EEPROM each marked record is a transfer of its own (`todo` is the set of records
still to come, `IsNext` picks the one that `nvs_buffer_sync_physical` comes to next), and `is_dirty` is computed again at the end. Power may be
lost at any moment: a write under way leaves any part of its work. At the next start a
foreign version byte restores everything and writes it twice, unreadable global
settings restore everything, and any other unreadable record is replaced when it is
read. Programs, during which nothing is written back, are not a variable: the idle
pass simply comes later.

Coincidences, after which the storage is no longer right: `startup_failed` (the mark of
a startup line is taken off before its transfer, `nvs_buffer.c:345`, and again after
success, so a failed one is not repeated), `flash_failed`
(all marks are cleared after four failed attempts, `nvs_buffer.c:396`), both although `nvs_buffer.c:250` says that "Changes to RAM based
copy will be written to physical storage when grblHAL is in IDLE state."; `init_failed` (the result of the write at start-up is not looked at,
`nvs_buffer.c:278-289`).

Not modelled: the tool table (no tools by default), allocation of the driver area,
addresses beyond it, builds without storage.

## 3. The runs

Passing:

| Run | Bounds | Shows |
|---|---|---|
| `serial_rx` | ring of 4, 4 characters or cancels; at most one kind of window hit, such behaviours end one character earlier | every character is accounted for once; in order; the port is restored, and a bad handler is called only after a hit on suspend or restore; a reset forgets |
| `serial_tx` | ring of 4, 9 characters | order, no lost wake-up, everything is sent |
| `motion` | planner: ring of 5 slots, 5 motions of 4 kinds, two override values; an overridden plan takes one motion less. Tracer: 2 axes, 4 by 4 positions, all segmentations and levels, 2 stops | pointers ordered; plan feasible; plan equal to the optimal plan computed afresh; junction maxima kept; exact landing, accuracy at every tick |
| `state_machine` | 1 block, 2 segments, 1 nested delay, parking on, all requests, the door not ignored when idle | held means standing (`HoldStops`); waits have something to wait for and end (`WaitsForMotion`, `WaitEnds`); idle, stopping and waiting states are what they say (`TrueToState`); no cycle is started with the door open (`NoCycleAtOpenDoor`); a reset ends in an abort whatever else is requested (`ResetHonoured`), all up to the first coincidence |
| `stepper` | 3 motions of 2 steps, ring of 5 segments, all requests, parking on | every segment is executed with the data of its own motion (`TracesOwnMotion`); the interrupt is never started on an empty ring; every step is taken once, in order, across holds, parking and cancels (`StepsConserved`); no program step is taken away from the workpiece (`ParkingApart`); what is queued is executed to its end (`RunsOut`) |
| `tasks` | 3 entries, 3 tasks, 2 functions to delete by, nesting 2, 2 ticks across the wrap | the pool is never torn and no null function called (`PoolPartitioned`), implements the abstract schedule, no task waits for ever |
| `modbus` | ring of 2 entries, 3 messages, 1 retry, 1 reset, stop or flush | each message ends once, with its own reply or after all attempts (`OwnOutcome`); every message ends, answered, failed, given up, refused or dropped (`EverySendEnds`) |
| `storage` | 1 coordinate system, 1 startup line, 1 new value, 2 losses of power or failed EEPROM transfers, flash attempts unlimited | a restart brings back what was stored, or something newer, for every record that was not being written (`Durable`); what is not stored is marked (`KeptMarked`); the storage catches up with the RAM copy (`Stored`) |

Why the bounds are enough for the cases of interest: rings of 4 wrap and
overflow; five motions fill the block ring and wrap both its pointers, and the
kinds of motion make caps, accelerations and decelerations bind; in the tracer
every ratio of two axes up to 3, with all four levels, occurs; the state machine
can add a block while the one before is in its segments, so that each of a loaded block, a
queued one and an empty queue occurs in every state; with three entries a
delayed list has a head, a middle and an end, and an entry is reused; motions of two
steps can be held half way, and five segments are more than a motion needs, so that
the ring holds two motions and wraps; a message ring of two has one entry on the
wire, one waiting and a third refused, and one retry has a first and a last attempt;
with two losses of power the second hits the repair of the first, and one record
of each kind takes every branch of the write-back.

`CONSTRAINT NoRace` in the runs that have it stops the exploration behind a
coincidence. This is sound for these properties: all of them are true of every
state in which a coincidence has happened. `Bounded` in `serial_rx` and
`FewWhenOverridden` in `motion` only limit the search. In `motion` the planner and the tracer share
no variable, and a behaviour is one of either while the other rests in its initial state, so
each is explored as if it were alone; how they meet is `Stepper`. With the door ignored when
idle (`IgnoreWhenIdle`) `NoCycleAtOpenDoor` speaks only of a cycle resumed from the door
state, as one started from idle need not look at the door, which is what the setting means;
the run has the setting off, the theorem covers both. Deadlock is checked in
`motion`, `storage` and the runs of the state machine; the other systems stop when their bound on input is reached.

Violations, each a disagreement between the code and a comment in the repository:

| Run | Property | What happens |
|---|---|---|
| `serial_rx_flush_undone` | `FlushedStaysFlushed` | a cancel from the interrupt between `serialGetC`'s load and store of `tail` is undone |
| `planner_override_decel` | `DecelerationFeasible` | after an override the reverse pass skips a block at its maximum entry speed although the exit speed was lowered: "a block entry speed cannot exceed one reverse-computed from its exit speed" fails |
| `door_in_hold` | `HoldStopsAtDoor` | door during the deceleration of a hold: held while moving |
| `returns_early` | `ReturnsAsPromised` | cycle start during the retract, or with the door open after a second retract: the machine returns, against "when parking motion has retracted and door has been closed" |

The two of the state machine admit exactly the coincidences they are about; with these
excluded too, the first is what the passing run checks and `HeldStandsStill` proves.

## 4. Fairness

* `SerialTx`: weak fairness of the interrupt (TBE is raised by the UART as long as
  it is enabled) and of the steps of a `serialPutC` that has begun.
* `StateMachine`: weak fairness of the foreground as a whole (its loop never
  blocks: waiting is done by passes) and of the step timer; strong fairness of
  `PrepBlockEnd \/ PrepStandstill`, as a block is a finite number of segments
  however they interleave with the interrupt; strong fairness of `DelayEnds`, as
  delays are measured on the millisecond counter. Nothing is assumed about
  requests.
* `Tasks`: weak fairness of the foreground and of the millisecond interrupt; strong
  fairness of the return of each kind of task, as tasks are finite pieces of
  code that may call `task_execute` any number of times before they return.
  Nothing is assumed about adding, deleting or resets.
* `Stepper`: weak fairness of the interrupt and of the generation of segments that has
  begun; strong fairness of the steps of a pass (segments, the end of a cycle, a
  cancel), which passes take again and again, and of cycle start: somebody resumes a
  held machine in the end.
* `Modbus`: weak fairness of the poll (a systick task; its timeouts are measured in
  polls), of the sender's loop, and of a reset that has begun. Nothing is assumed about
  the devices.
* `Storage`: weak fairness of start-up and of writes that have begun; strong fairness of
  the idle pass, as programs end.

## 5. The proofs

* **`SerialProofs`**, transmit, for every ring size greater than 1: `TxTypeCorrect`;
  `TransmitsInOrder`, the n-th character on the wire is the n-th one accepted and
  the ring holds exactly those in between; `WakeupNeverLost`. The inductive
  invariant adds to these what is true in the middle of a `serialPutC`: the slot
  at `head` is already written, `next_head` is still its successor, and TBE may be
  off only between the store of `head` and the enabling.
* **`PlannerProofs`**, for every ring size, set of motions and set of overrides:
  `TypeCorrect`; `PointersOrdered`, the planned pointer stays between tail and head,
  and the passes between it and the head; `EntriesWithinMaximum`, no junction
  speed exceeds its maximum, across holds and overrides. The inductive invariant
  is `TypeOK /\ PlannedInQueue /\ ExecutingQueued /\ EntriesBounded`: a block is
  executing only if it is queued, and the bound on entry speeds must be stated for
  the middle of both passes, where part of the ring is already re-planned.
  Positions are counted from the tail (`Offset`), and lemmas about `Offset` replace
  arithmetic modulo the ring size. `PlanIsFeasible`: every queued block can get from
  its entry to its exit speed within what is left of it (`PlanFeasible`). Its invariant
  `FInv` adds that braking is possible at every moment of both passes (the reverse
  pass only raises speeds, the forward pass lowers one no further than the block
  before can follow), that acceleration is possible wherever the pass in progress has
  settled the plan, that a junction's maximum respects the nominal speed of the block
  before it (so the generator's profile can reach the exit speed), that what a short
  block carries over is exactly the entry speed of the next, and that the forward pass
  never reads a stale entry speed of the executing block. One part is kept even after
  overrides, as the next motion into an empty queue starts a fresh plan: from every
  junction the machine can stop within the blocks that remain. The lengths that remain
  are a function that is only said to exist, which takes the place of a sum over the
  ring.
* **`BresenhamProofs`**, for every number of axes, all targets and any number of
  stops: `TypeCorrect` (no counter underflows), `StepsExact` (`LandsOnTarget`),
  `HalfStepAccuracy` (`NearLine`). The inductive invariant is
  `TraceTypeOK /\ Budget /\ Tracing /\ Halves /\ Increments /\ Heading`: the ticks done and
  to come add up to the block; for each axis counter and steps taken satisfy the
  exact Bresenham equation up to the offset the stops have left; the offset is
  at most half a step per stop; the increments are the steps at the scale of the
  level. Landing follows because at the last tick the equation leaves no room for
  a step more or less.

* **`SerialProofs`**, receive, for every ring size and any stream of characters and
  interrupts: `TypeCorrect`; `PortComesBack` (`PortRestored`); `ResetForgetsInput`
  (`ResetForgets`); `ArrivalOrder` (`InOrder`); `NoneLostNoneTwice` (`AccountedOnce`).
  Three invariants, each under the windows that concern it. `PortInv` lists, for each
  place of the foreground, which handler and read routine are installed. `ResetInv`:
  the slots from the tail (or from the local copy of the tail in `serialGetC` and
  `serialRxFlush`) to the head hold nothing older than the last reset. `StreamInv`: the
  ring and the ring set aside hold characters in the order of arrival, all after what
  was returned, and every character is in exactly one of six places. In the middle
  of a restoration the ring is the one whose data is still in the backup (`Ring`), and
  a foreground cancel has a CAN in the ring that is not yet published. The count in
  `AccountedOnce` follows from this partition by the cardinality theorems for finite
  sets.
* **`StateMachineProofs`**, for any size of the planner and segment buffers, parking or
  not, any requests: `TypeCorrect`; `HeldStandsStill` (`HoldStops`); `WaitsHaveMotion`
  (`WaitsForMotion`); `StateIsTrue` (`TrueToState`); and an action property,
  `DoorIsRespected` (`NoCycleAtOpenDoor`). The inductive invariant holds as long as no coincidence has happened: `Shape`, which
  handlers each state can be in, which of them may move and with which step control
  flags, which delay each of them may be inside; `EndInv`, the end of a motion is
  reported after it and to a machine that was moving; `ResetInv`, an alarm comes with
  a reset and to stopped steppers, and a stop waits for a cancelled motion; `WaitInv`,
  a handler that waits has a motion, its end, or a reset on its way; `DoorInv`, an open
  door is known to the machine (it is in a state from which no cycle starts without a look
  at the door, `Guarded`) or still requested; where it is ignored when idle, at least no
  machine is returning from parking (`Knows`). None of the properties is inductive
  alone: that a held machine stands still rests on when an end is reported, and that on
  which handlers run with steppers on. The argument has a lemma for each handler (what
  it may turn a machine of that shape into, unless a coincidence is recorded), so that
  the step through `protocol_exec_rt_system` and `state_set` only composes them.
* **`ModbusProofs`**, for every queue length, number of retries and number of messages:
  `TypeCorrect`, coincidences or not, for which a retry must be shown to be made only of
  an entry that has one left; `OwnOutcomes` (`OwnOutcome`). The inductive invariant:
  packet, bus state and sender agree and the entry on the wire is the one before `tail`,
  out of reach of new messages (`BusInv`); a message that has not ended is in one place
  only (`PlaceInv`); attempts made and retries left add up (`AttemptInv`).
* **`StorageProofs`**, for every number of records, writes, losses of power and failed
  transfers, and both kinds of memory: `TypeCorrect`, `SettingsSurvive` (`Durable`) and
  `ChangesStayMarked` (`KeptMarked`). The inductive invariant: the physical storage is good except while it is written as a
  whole (`PhysInv`), the RAM copy is good from when it is loaded (`RamInv`), and in an
  EEPROM an unmarked record equals the stored one, in a flash sector every record does
  unless something is marked, and a marked record shows in `is_dirty` (`MarkInv`). *Good* says more than
  `Durable`: a memory without a readable version byte or global settings is one whose
  records all count as lost, as the next start restores them all.

* **`StepperProofs`**, for every ring of at least four segments, any number and length of
  motions, any parking distances and any number of holds and door openings: `TypeCorrect`,
  coincidences or not; `BlocksSuffice` (`TracesOwnMotion`); `StartsWithSegment`
  (`NeverStartsEmpty`); `ConservesSteps` (`StepsConserved`); `ParksApart` (`ParkingApart`).
  All but the first follow from one inductive invariant (`Invariant`), which holds as long as
  no coincidence has been met, in three groups. `Control`: which handler goes with which
  step control flags, when the interrupt may be running or about to be started, what
  the generator has in hand at each of its places, and when a held motion is noted for being
  put back. `Buffers`: the queue holds consecutive motions, the block being cut belongs to the
  first of them or to the parking motion, and *block distances*: going from the head of the
  ring to the tail, the stepper blocks fall behind the one being cut by at most one per
  segment (`Back(s) < Ahead(head) - Ahead(s)`, one more for a motion taken up of which
  nothing is cut). As a ring of `S` slots holds at most `S - 1` segments, and none can be
  full when a motion is taken up, the block taken next is never one in use; and as consecutive
  segments are at most one block apart, the interrupt sees a new address whenever the motion
  changes. `Account`: neighbouring segments continue each other, the last one ends where the
  generator is, the position of the parking axis and the steps done of each line are what the
  segment at the tail says, or the generator when the ring is empty, or the saved record
  while a parking motion is executed. None of the properties is inductive alone: that no
  program step is taken away from the workpiece needs the account of where every parking
  motion starts and ends (`RouteInv`), and that in turn that a motion's end is reported only
  with an empty ring and a generator at rest (`CutInv`). The argument is by one lemma per
  action; the two that move an end of the ring (`Publish`, `Tick`) have one per group. TLC
  checked the invariant on the instance of the run `stepper` before it was proved.
* **`TasksProofs`**, for every size of the pool, any functions and delays, any nesting of
  calls, and any additions and deletions by interrupts: `TypeCorrect`, coincidences or not;
  `Partitioned` (`PoolPartitioned`); `OrderHolds`; and `Implements`, the refinement of
  `TaskSchedule` (`Scheduled`). The inductive invariant `IInv` gives every list a name: the
  four heads (while reset tasks run, the rest of their list in place of its head), and for
  each depth of nesting the immediate tasks this call of `task_execute` has taken off. No entry has two predecessors, the first entry of
  a list has none, and no two lists have the same first entry; from this follows that lists
  are disjoint and that inserting or unlinking changes one of them by exactly one entry. An
  entry is in use if and only if it is on a list; `last_freed` is a free entry; the
  pointers that running loops hold (the systick task being called, the delayed task found
  due) are entries of their lists. Outside a coincidence there is no other way for a list to
  lose or share an entry. `OInv` adds what the order of running needs: stamps are unique;
  the delayed list is sorted by true times, which the signed comparison of wrapped times
  agrees with; the tick a loop has read is not ahead of the clock; and the task found due is
  still the earliest when it is taken off, although an interrupt may have put another
  in front of it. The last point holds because a task added in that window is due no
  earlier than now. The refinement then goes step by step: every action maps to `Accept`,
  `Run`, `Delete`, `Tick` or a stutter of `TaskSchedule`, and one that records a
  coincidence maps to `Void`. TLC checked both invariants on the instance of the run
  `tasks` before they were proved. That a list without a way back to its head has an
  end is the pigeonhole theorem for finite sets, the only place where the pool is counted.

Assumptions are the named `ASSUME`s of the modules: sizes positive (rings of more than
one slot, of more than three for the segments), motions of positive length and rate, targets integer vectors, bounds
natural numbers, `Parking` either way, any subset of the inputs; for the scheduler at least one delay, all of
them less than half the range of the tick counter, behaviours shorter than that
(`ClockAssumption`), and `NULL` not a function (`FnsAssumption`). The other bounds on input
(`MaxMoves`, `MaxStamp`, `MaxSends`, `MaxWrites`, ...) are arbitrary numbers in the
theorems, so they limit nothing. The invariants of the state machine and of the
planner's feasibility were checked by TLC on the instances of their runs before they
were proved.

Only model-checked: `PlanOptimal` (its reference plan is a minimum over sums of parts
of the ring, which takes induction over data) and all liveness properties. Liveness under fairness,
`ENABLED` and induction over data are outside the reach of the prover used.

## 6. What is not modelled

See the components marked `not_modelled` in `PROJECT.json`. In short: floating
point geometry (arcs, kinematics, canned cycles, junction vectors), the parser,
tables and formatting, register access, third-party libraries (FatFs, the USB
library), and, for now, the parts in the plan below. Timing is not modelled: an
interrupt may be arbitrarily late or early, except where fairness is assumed.

## 7. Plan

Done: `SerialRx`, `SerialTx`, `Planner`, `Bresenham`, `StateMachine`, `Tasks`, `Stepper`,
`Storage`, `Modbus`, in that order of work. Next:

1. `StateMachine` extended by tool change, homing, feed hold pending and e-stop.
2. `Overrides`: three rings of the same form as the receive ring, emptied by the
   foreground while the interrupt adds to them.
3. `FlowControl`: the NGC control stack as a pure algorithm against a structured
   reference.
4. Composition of `Stepper` with `Bresenham`, segments as its `NewSegment`.
