------------------------------- MODULE Tasks -------------------------------
(***************************************************************************)
(* The foreground task scheduler of grbl/grbllib.c: one pool of task        *)
(* entries, linked into the lists of immediate, delayed, systick and reset  *)
(* tasks.  Sections with interrupts disabled are single steps.  Adding and  *)
(* deleting is done by interrupts, at any moment, and by the foreground,   *)
(* from the main loop or from a running task, which may also call           *)
(* task_execute again (stream output that blocks, delays, Modbus polling).  *)
(* A task is a function and a stamp, its position in the order of adding.   *)
(***************************************************************************)
EXTENDS Integers, Sequences, FiniteSets

CONSTANTS PoolSize,  \* CORE_TASK_POOL_SIZE
          Once, Timed,  \* functions of immediate and reset, of delayed and systick tasks
          Delays,    \* delays of delayed tasks, in ms
          TimeMod,   \* 2^32 in the code: the tick counter wraps
          StartTick, \* the tick counter when the exploration starts
          MaxAdds, MaxTick, MaxDepth   \* bounds: tasks added, ticks, nested calls

ASSUME PoolAssumption == PoolSize \in Nat \ {0}
ASSUME TimeAssumption == /\ TimeMod \in Nat \ {0} /\ TimeMod % 2 = 0
                         /\ StartTick \in 0 .. TimeMod - 1
ASSUME DelaysAssumption == Delays \subseteq 0 .. TimeMod \div 2 - 1 /\ Delays # {}
ASSUME BoundsAssumption == MaxAdds \in Nat /\ MaxTick \in Nat /\ MaxDepth \in Nat \ {0}
ASSUME ClockAssumption == MaxTick < TimeMod \div 2

VARIABLES
    pool,         \* tasks.pool
    immediate, delayed, systick, on_reset,   \* heads of the lists, 0 when empty
    last_freed,   \* tasks.last_freed
    last_ms, lock,   \* the static variables of task_execute
    stack,        \* the calls in progress in the foreground, innermost first
    clock,        \* ticks since the start
    fault,        \* a call through a null pointer
    added,        \* tasks accepted so far
    run, last,    \* HISTORY: one-shot tasks run, and the stamp of the last one
    races         \* HISTORY: the coincidences that have happened

lists == << immediate, delayed, systick, on_reset >>
history == << run, last, races >>
vars == << pool, lists, last_freed, last_ms, lock, stack, clock, fault, added,
           history >>

Fns == Once \cup Timed
Slot == 1 .. PoolSize
Ptr == 0 .. PoolSize
NoFn == "NULL"
ASSUME FnsAssumption == NoFn \notin Fns
Free == [fn |-> NoFn, id |-> 0, time |-> 0, due |-> 0, next |-> 0]

Now == (StartTick + clock) % TimeMod

\* (int32_t)(a - b).
Signed(x) == LET m == x % TimeMod IN IF m >= TimeMod \div 2 THEN m - TimeMod ELSE m

\* The entries met when following next from h: those in every set that holds h and, with
\* an entry, the one after it.
Closed(p, C) == \A s \in C : p[s].next # 0 => p[s].next \in C
Chain(p, h) == {s \in Slot : \A C \in SUBSET Slot : (h # 0 => h \in C) /\ Closed(p, C) => s \in C}

\* The first of them that is in T; 0 if there is none.
First(p, h, T) ==
    LET hits == Chain(p, h) \cap T
    IN  IF hits = {} THEN 0 ELSE CHOOSE t \in hits : hits \subseteq Chain(p, t)

Before(p, h, s) == First(p, h, {t \in Slot : p[t].next = s})

Init ==
    /\ pool = [s \in Slot |-> Free]
    /\ immediate = 0 /\ delayed = 0 /\ systick = 0 /\ on_reset = 0 /\ last_freed = 0
    /\ last_ms = StartTick /\ lock = FALSE /\ stack = << >> /\ clock = 0
    /\ fault = FALSE /\ added = 0
    /\ run = 0 /\ last = 0 /\ races = {}

-----------------------------------------------------------------------------
(* The pool.                                                               *)

task_alloc ==
    LET free == {s \in Slot : pool[s].fn = NoFn}
    IN  IF last_freed # 0 THEN last_freed
        ELSE IF free = {} THEN 0 ELSE CHOOSE s \in free : \A t \in free : t <= s

\* The time and data of a free entry are never read.
task_free(p, s) ==
    /\ pool' = [p EXCEPT ![s] = Free]
    /\ last_freed' = IF last_freed = 0 THEN s ELSE last_freed

\* The entry s filled in for a new task, and put at the end of the list h.
NewTask(s, fn, time, due) ==
    [pool EXCEPT ![s] = [fn |-> fn, id |-> added + 1, time |-> time, due |-> due, next |-> 0]]
SetNext(p, t, s) == [p EXCEPT ![t].next = s]
Appended(p, h, s) == IF h = 0 THEN p ELSE SetNext(p, Before(p, h, 0), s)
HeadOf(h, s) == IF h = 0 THEN s ELSE h

\* Mutant: the entry freed last is handed out without being forgotten.
Accepting_KeepFreed(s) ==
    /\ ~fault /\ added < MaxAdds /\ s # 0
    /\ added' = added + 1
    /\ UNCHANGED << last_freed, last_ms, lock, stack, clock, fault, run, last >>

\* An entry has been allocated: none is remembered as freed last.
Accepting(s) ==
    /\ ~fault /\ added < MaxAdds /\ s # 0
    /\ added' = added + 1
    /\ last_freed' = 0
    /\ UNCHANGED << last_ms, lock, stack, clock, fault, run, last >>

-----------------------------------------------------------------------------
(* Adding and deleting.  With the pool exhausted the call returns false and *)
(* changes nothing.                                                        *)

task_add_immediate(fn) ==
    LET s == task_alloc
    IN  /\ Accepting(s)
        /\ pool' = Appended(NewTask(s, fn, 0, 0), immediate, s)
        /\ immediate' = HeadOf(immediate, s)
        /\ UNCHANGED << delayed, systick, on_reset, races >>

\* How much later a is than b, on the wrapping clock.
Later(a, b) == Signed(a - b)

\* Mutant: the sum is kept in a wider type.
DueTime_Wide(delay) == Now + delay

DueTime(delay) == (Now + delay) % TimeMod

\* The list is kept in the order of time: before the head when due no later than
\* it, else behind every entry due no later (the search of a list that has become a
\* loop does not end).
task_add_delayed(fn, delay) ==
    LET s == task_alloc
        time == DueTime(delay)
        p == NewTask(s, fn, time, clock + delay)
        after == First(p, delayed, {t \in Slot : p[t].next = 0 \/ Later(time, p[p[t].next].time) < 0})
        front == IF delayed = 0 THEN TRUE ELSE Later(time, pool[delayed].time) <= 0
    IN  /\ clock + delay < MaxTick
        /\ Accepting(s)
        /\ IF front
           THEN delayed' = s /\ pool' = SetNext(p, s, delayed)
           ELSE /\ after # 0
                /\ pool' = SetNext(SetNext(p, s, p[after].next), after, s)
                /\ UNCHANGED delayed
        /\ UNCHANGED << immediate, systick, on_reset, races >>

task_add_systick(fn) ==
    LET s == task_alloc
    IN  /\ Accepting(s)
        /\ pool' = Appended(NewTask(s, fn, 0, 0), systick, s)
        /\ systick' = HeadOf(systick, s)
        /\ UNCHANGED << immediate, delayed, on_reset, races >>

\* The entry the running loops hold a pointer to.
Held(at) == {stack[k].task : k \in {k \in 1 .. Len(stack) : stack[k].at = at}}

\* By a driver told of a reset.  While reset tasks are being run tasks.on_reset still
\* points to the entry of the running one, which has been freed.
task_run_on_reset(fn) ==
    LET s == task_alloc
    IN  /\ Accepting(s)
        /\ pool' = Appended(NewTask(s, fn, 0, 0), on_reset, s)
        /\ on_reset' = HeadOf(on_reset, s)
        /\ races' = IF Held("reset_fn") = {} THEN races ELSE races \cup {"reset_in_reset"}
        /\ UNCHANGED << immediate, delayed, systick >>

\* The list from h on without entry s.
Unlinked(h, s) == IF h = s THEN pool ELSE SetNext(pool, Before(pool, h, s), pool[s].next)
HeadWithout(h, s) == IF h = s THEN pool[s].next ELSE h

\* Also by the step interrupt (st_go_idle), which may hit task_execute just as it has
\* found the task due.
task_delete(fn) ==
    LET s == First(pool, delayed, {t \in Slot : pool[t].fn = fn})
    IN  /\ ~fault /\ s # 0
        /\ task_free(Unlinked(delayed, s), s)
        /\ delayed' = HeadWithout(delayed, s)
        /\ races' = IF s \in Held("window") THEN races \cup {"deleted_when_due"} ELSE races
        /\ UNCHANGED << immediate, systick, on_reset, last_ms, lock, stack, clock, fault, added,
                        run, last >>

\* In the main loop or in a task.
Called == ~fault /\ (stack # << >> => Head(stack).at \in {"imm_fn", "systick_fn", "delayed_fn",
                                                         "reset_fn"})

task_delete_systick(fn) ==
    LET s == First(pool, systick, {t \in Slot : pool[t].fn = fn})
    IN  /\ Called /\ s # 0
        /\ task_free(Unlinked(systick, s), s)
        /\ systick' = HeadWithout(systick, s)
        /\ races' = IF s \in Held("systick_fn") THEN races \cup {"systick_deletes"} ELSE races
        /\ UNCHANGED << immediate, delayed, on_reset, last_ms, lock, stack, clock, fault, added,
                        run, last >>

-----------------------------------------------------------------------------
(* task_execute.                                                           *)

Frame(at, task, now) == << [at |-> at, task |-> task, now |-> now] >>
Goto(frame) == stack' = frame \o Tail(stack)
Return == stack' = Tail(stack)
Inner(at) == ~fault /\ stack # << >> /\ Head(stack).at = at

\* Called from the main loop's passes, or again from within a task: the immediate
\* tasks are taken off their list.
task_execute ==
    /\ Called /\ Len(stack) < MaxDepth
    /\ stack' = Frame(IF immediate = 0 THEN "poll_tick" ELSE "imm", immediate, 0) \o stack
    /\ immediate' = 0
    /\ UNCHANGED << pool, delayed, systick, on_reset, last_freed, last_ms, lock, clock, fault,
                    added, history >>

\* A one-shot task that has left its list is run; s was its entry.
Runs(s) ==
    /\ fault' = (pool[s].fn = NoFn)
    /\ run' = run + 1 /\ last' = pool[s].id
    /\ UNCHANGED races

\* task_run: the entry is freed before the function is called; the rest of the list
\* is a local variable of the caller.
task_run(s, at) ==
    /\ task_free(pool, s)
    /\ Runs(s)
    /\ Goto(Frame(at, pool[s].next, 0))

RunImmediate ==
    /\ Inner("imm")
    /\ task_run(Head(stack).task, "imm_fn")
    /\ UNCHANGED << lists, last_ms, lock, clock, added >>

\* An immediate task returns.
ImmediateReturns ==
    /\ Inner("imm_fn")
    /\ Goto(Frame(IF Head(stack).task = 0 THEN "poll_tick" ELSE "imm", Head(stack).task, 0))
    /\ UNCHANGED << pool, lists, last_freed, last_ms, lock, clock, fault, added, history >>

\* Once per tick, and in the outermost call only, the systick tasks are called and
\* then the delayed tasks that are due.  The two list heads can only be equal when
\* both are null.
PollTick ==
    /\ Inner("poll_tick")
    /\ IF lock \/ Now = last_ms \/ delayed = systick
       THEN Return /\ UNCHANGED << lock, last_ms >>
       ELSE /\ lock' = TRUE /\ last_ms' = Now
            /\ Goto(Frame(IF systick = 0 THEN "poll_due" ELSE "systick", systick, Now))
    /\ UNCHANGED << pool, lists, last_freed, clock, fault, added, history >>

CallSystick ==
    /\ Inner("systick")
    /\ Goto(Frame("systick_fn", Head(stack).task, Head(stack).now))
    /\ fault' = (pool[Head(stack).task].fn = NoFn)
    /\ UNCHANGED << pool, lists, last_freed, last_ms, lock, clock, added, history >>

SystickReturns ==
    /\ Inner("systick_fn")
    /\ LET next == pool[Head(stack).task].next
       IN  Goto(Frame(IF next = 0 THEN "poll_due" ELSE "systick", next, Head(stack).now))
    /\ UNCHANGED << pool, lists, last_freed, last_ms, lock, clock, fault, added, history >>

\* Mutant: the lock is not released.
PollDue_KeepLock ==
    /\ Inner("poll_due")
    /\ IF delayed # 0 /\ Later(pool[delayed].time, Head(stack).now) <= 0
       THEN Goto(Frame("window", delayed, Head(stack).now))
       ELSE Return
    /\ UNCHANGED << pool, lists, last_freed, last_ms, lock, clock, fault, added, history >>

\* The head of the delayed list is looked at with interrupts enabled.
PollDue ==
    /\ Inner("poll_due")
    /\ IF delayed # 0 /\ Later(pool[delayed].time, Head(stack).now) <= 0
       THEN Goto(Frame("window", delayed, Head(stack).now)) /\ UNCHANGED lock
       ELSE Return /\ lock' = FALSE
    /\ UNCHANGED << pool, lists, last_freed, last_ms, clock, fault, added, history >>

\* Mutant: the task is taken to be still at the head of the list.
RunDelayed_Head ==
    /\ Inner("window")
    /\ LET s == Head(stack).task
       IN  /\ delayed' = pool[s].next
           /\ task_free(pool, s)
           /\ Runs(s)
           /\ Goto(Frame("delayed_fn", 0, Head(stack).now))
    /\ UNCHANGED << immediate, systick, on_reset, last_ms, lock, clock, added >>

\* With interrupts disabled it is removed, wherever in the list it is by then.
RunDelayed ==
    /\ Inner("window")
    /\ LET s == Head(stack).task
       IN  /\ delayed' = HeadWithout(delayed, s)
           /\ task_free(IF s \in Chain(pool, delayed) THEN Unlinked(delayed, s) ELSE pool, s)
           /\ Runs(s)
           /\ Goto(Frame("delayed_fn", 0, Head(stack).now))
    /\ UNCHANGED << immediate, systick, on_reset, last_ms, lock, clock, added >>

DelayedReturns ==
    /\ Inner("delayed_fn")
    /\ Goto(Frame("poll_due", 0, Head(stack).now))
    /\ UNCHANGED << pool, lists, last_freed, last_ms, lock, clock, fault, added, history >>

-----------------------------------------------------------------------------
(* Reset tasks.                                                            *)

\* grbl_enter has gone through a reset and, when there are reset tasks, has asked
\* for them to be run (EXEC_RT_COMMAND); the first pass does it.
task_execute_on_startup ==
    /\ ~fault /\ stack = << >> /\ on_reset # 0
    /\ stack' = Frame("reset", 0, 0)
    /\ UNCHANGED << pool, lists, last_freed, last_ms, lock, clock, fault, added, history >>

RunReset ==
    /\ Inner("reset")
    /\ task_run(on_reset, "reset_fn")
    /\ UNCHANGED << lists, last_ms, lock, clock, added >>

ResetReturns ==
    /\ Inner("reset_fn")
    /\ on_reset' = Head(stack).task
    /\ IF on_reset' = 0 THEN Return ELSE Goto(Frame("reset", 0, 0))
    /\ UNCHANGED << pool, immediate, delayed, systick, last_freed, last_ms, lock, clock, fault,
                    added, history >>

-----------------------------------------------------------------------------

\* The systick interrupt.
Tick ==
    /\ clock < MaxTick
    /\ clock' = clock + 1
    /\ UNCHANGED << pool, lists, last_freed, last_ms, lock, stack, fault, added, history >>

\* What the foreground goes on doing: it calls task_execute time and again.
Foreground ==
    \/ (stack = << >> /\ task_execute) \/ RunImmediate \/ ImmediateReturns
    \/ PollTick \/ CallSystick \/ SystickReturns
    \/ PollDue \/ RunDelayed \/ DelayedReturns
    \/ RunReset \/ ResetReturns

Next ==
    \/ \E fn \in Once : task_add_immediate(fn) \/ (Called /\ task_run_on_reset(fn))
    \/ \E fn \in Timed :
         \/ \E delay \in Delays : task_add_delayed(fn, delay)
         \/ task_delete(fn)
         \/ Called /\ task_add_systick(fn)
         \/ task_delete_systick(fn)
    \/ task_execute
    \/ Foreground
    \/ task_execute_on_startup
    \/ Tick

Spec == Init /\ [][Next]_vars

\* Tasks return, however often they call task_execute before that.
FairSpec ==
    /\ Spec
    /\ WF_vars(Foreground) /\ WF_vars(Tick)
    /\ SF_vars(ImmediateReturns) /\ SF_vars(SystickReturns)
    /\ SF_vars(DelayedReturns) /\ SF_vars(ResetReturns)

-----------------------------------------------------------------------------

\* A call in progress: where it is, the entry it will use next, its copy of the tick.
Ticks == 0 .. TimeMod - 1
Frames ==
    [at : {"imm", "systick", "systick_fn", "window"}, task : Slot, now : Ticks]
    \cup [at : {"imm_fn", "reset_fn"}, task : Ptr, now : Ticks]
    \cup [at : {"poll_tick", "poll_due", "delayed_fn", "reset"}, task : {0}, now : Ticks]
Entries == [fn : Fns \cup {NoFn}, id : 0 .. MaxAdds, time : Ticks, due : 0 .. MaxTick, next : Ptr]

\* Types of the pool, the lists and the calls in progress.
TypeOK ==
    /\ pool \in [Slot -> Entries]
    /\ {immediate, delayed, systick, on_reset, last_freed} \subseteq Ptr
    /\ last_ms \in Ticks /\ {lock, fault} \subseteq BOOLEAN
    /\ clock \in 0 .. MaxTick /\ added \in 0 .. MaxAdds
    /\ stack \in Seq(Frames) /\ Len(stack) <= MaxDepth
    /\ run \in Nat /\ last \in 0 .. MaxAdds
    /\ races \subseteq {"reset_in_reset", "deleted_when_due", "systick_deletes"}

\* No coincidence the code does not handle has happened; also the bound of the runs.
NoRace == races = {}

\* The tasks on each list, the local ones of running loops included.
OnList(kind) ==
    CASE kind = "immediate" -> Chain(pool, immediate)
                               \cup UNION {Chain(pool, t) : t \in Held("imm") \cup Held("imm_fn")}
      [] kind = "delayed" -> Chain(pool, delayed)
      [] kind = "systick" -> Chain(pool, systick)
      [] kind = "on_reset" -> IF Held("reset_fn") = {} THEN Chain(pool, on_reset)
                              ELSE UNION {Chain(pool, t) : t \in Held("reset_fn")}
Kinds == {"immediate", "delayed", "systick", "on_reset"}

\* The lists share no entry, and every entry in use is on one: none is leaked, none is
\* handed out twice (task_alloc, task_free), and no freed entry is called.
PoolPartitioned ==
    NoRace =>
        /\ ~fault
        /\ \A j, k \in Kinds : j # k => OnList(j) \cap OnList(k) = {}
        /\ UNION {OnList(k) : k \in Kinds} = {s \in Slot : pool[s].fn # NoFn}

Waiting == UNION {{[id |-> pool[s].id, fn |-> pool[s].fn, kind |-> k, due |-> pool[s].due] :
                     s \in OnList(k)} : k \in Kinds}

\* The scheduler implements its abstract description: every accepted task is run
\* exactly once or deleted, delayed tasks not early and in the order of their times,
\* across the wrap of the tick counter, nested calls and interrupts.
Schedule == INSTANCE TaskSchedule WITH
    waiting <- IF NoRace THEN Waiting ELSE {},
    accepted <- added, void <- ~NoRace
Scheduled == Schedule!Spec

\* Every immediate task, and every delayed one that is not deleted, is run some time:
\* nested calls do not lock the scheduler out.  Reset tasks wait for a reset.
Pending(n) == \E s \in OnList("immediate") \cup OnList("delayed") : pool[s].id = n
EventuallyRun == \A n \in 1 .. MaxAdds : Pending(n) ~> (~Pending(n) \/ ~NoRace)
=============================================================================
