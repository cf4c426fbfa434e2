---------------------------- MODULE TaskSchedule ----------------------------
(***************************************************************************)
(* What the task scheduler of grbl/grbllib.c promises its callers (task.h): *)
(* an accepted task is run once, or deleted before it is run; a delayed     *)
(* task is not run before its time, nor before one that was due earlier; a  *)
(* systick task stays until it is deleted.                                  *)
(***************************************************************************)
EXTENDS Integers

CONSTANTS Fns,       \* the functions that may be scheduled
          Delays     \* the delays that may be asked for

VARIABLES
    waiting,         \* accepted and not yet run: [id, fn, kind, due]
    accepted, run,   \* number of tasks accepted, and of one-shot tasks run
    last,            \* the one-shot task run last
    clock,           \* elapsed milliseconds
    void             \* the promise is off: a coincidence the code does not handle

vars == << waiting, accepted, run, last, clock, void >>

Kinds == {"immediate", "delayed", "systick", "on_reset"}

Init == waiting = {} /\ accepted = 0 /\ run = 0 /\ last = 0 /\ clock = 0 /\ void = FALSE

\* A task is accepted; a delayed one is due delay milliseconds from now.
Accept(kind, fn, delay) ==
    /\ accepted' = accepted + 1
    /\ waiting' = waiting \cup
                    {[id |-> accepted + 1, fn |-> fn, kind |-> kind,
                      due |-> IF kind = "delayed" THEN clock + delay ELSE 0]}
    /\ UNCHANGED << run, last, clock, void >>

\* A task is run, and forgotten.
Run(t) ==
    /\ t.kind # "systick"
    /\ run' = run + 1 /\ last' = t.id
    /\ UNCHANGED << accepted, clock, void >>
    /\ t.kind = "delayed" =>
         /\ t.due <= clock
         /\ \A u \in waiting : u.kind = "delayed" => t.due <= u.due
    /\ waiting' = waiting \ {t}

\* Delayed and systick tasks may be deleted before they run.
Delete(t) ==
    /\ t.kind \in {"delayed", "systick"}
    /\ UNCHANGED << accepted, run, last, clock, void >>
    /\ waiting' = waiting \ {t}

Tick == clock' = clock + 1 /\ UNCHANGED << waiting, accepted, run, last, void >>

Void == ~void /\ void'

Next ==
    \/ \E kind \in Kinds, fn \in Fns, delay \in Delays : Accept(kind, fn, delay)
    \/ \E t \in waiting : Run(t) \/ Delete(t)
    \/ Tick
    \/ Void

\* After a coincidence nothing is promised.
Spec == Init /\ [][void \/ Next]_vars
=============================================================================
