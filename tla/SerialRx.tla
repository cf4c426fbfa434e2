------------------------------ MODULE SerialRx ------------------------------
(***************************************************************************)
(* The receive side of the serial port (Src/serial.c) together with the    *)
(* tool change suspension of the input stream (grbl/stream.c).             *)
(*                                                                         *)
(* Two actors share the ring: the foreground process, whose operations are *)
(* split at every access to a volatile field, and the USART interrupt,     *)
(* which preempts the foreground between any two of those accesses and     *)
(* runs to completion.  Received characters are stamped 1, 2, 3, ... in    *)
(* order of arrival; -n is the CAN character a cancel adds at stamp n; 0   *)
(* is the content of a slot that was never written.                        *)
(***************************************************************************)
EXTENDS Integers, Sequences, FiniteSets

CONSTANTS RxSize,       \* RX_BUFFER_SIZE, a power of two in the code
          MaxStamp      \* bound on the number of characters and cancels

ASSUME RxSizeAssumption == RxSize \in Nat /\ RxSize > 1
ASSUME MaxStampAssumption == MaxStamp \in Nat

VARIABLES
    rxbuf,        \* stream_rx_buffer_t
    rxbackup,     \* the copy await_toolchange_ack takes of it
    suspended,    \* stream.rxbuffer # NULL
    read,         \* hal.stream.read: "serialGetC" or "stream_get_null"
    handler,      \* enqueue_realtime_command of the port
    saved,        \* stream.enqueue_realtime_command
    pc, ltail, ldata, lprev,  \* where the foreground is, and its locals
    resetPending, \* stamp at which EXEC_RESET was raised, -1 when it is not
    fault,        \* a call went through a null pointer or recursed for ever
    clock,        \* last stamp given out
    out,          \* HISTORY: what read() returned, in order
    gone,         \* HISTORY: stamps flushed, cancelled or overwritten by a restore
    dropped,      \* HISTORY: stamps refused because the ring was full
    lastReset,    \* HISTORY: [at, len]: the last flushed reset's stamp and Len(out)
    raced         \* HISTORY: the foreground windows an interrupt has hit

port == << suspended, read, handler, saved >>
locals == << ltail, ldata, lprev >>
vars == << rxbuf, rxbackup, port, pc, locals, resetPending, fault, clock,
           out, gone, dropped, lastReset, raced >>

Slot == 0 .. RxSize - 1
Item == -MaxStamp .. MaxStamp
Handler == {"protocol", "await_toolchange_ack", "NULL"}
RxBuffer == [head : Slot, tail : Slot, overflow : BOOLEAN, backup : BOOLEAN,
             data : [Slot -> Item]]
Stamp(i) == IF i < 0 THEN -i ELSE i

\* Mutant: the mask is forgotten.
BUFNEXT_NoMask(p) == p + 1

BUFNEXT(p) == (p + 1) % RxSize

BUFCOUNT(b) == IF b.head >= b.tail THEN b.head - b.tail ELSE RxSize - b.tail + b.head

\* The stamps of the items between tail and head.
Stamps(b) == {Stamp(b.data[(b.tail + k) % RxSize]) : k \in 0 .. BUFCOUNT(b) - 1}

EmptyBuffer == [head |-> 0, tail |-> 0, overflow |-> FALSE, backup |-> FALSE,
                data |-> [s \in Slot |-> 0]]

Init ==
    /\ rxbuf = EmptyBuffer /\ rxbackup = EmptyBuffer
    /\ suspended = FALSE /\ read = "serialGetC"
    /\ handler = "protocol" /\ saved = "NULL"
    /\ pc = "idle" /\ ltail = 0 /\ ldata = 0 /\ lprev = "NULL"
    /\ resetPending = -1 /\ fault = FALSE /\ clock = 0
    /\ out = << >> /\ gone = {} /\ dropped = {}
    /\ lastReset = [at |-> -1, len |-> 0] /\ raced = {}

-----------------------------------------------------------------------------
(* The USART interrupt: RBNE, one character received.                      *)

\* A character enqueue_realtime_command does not strip is added to the ring,
\* or refused with the overflow flag set when the ring is full.
Full(b) == BUFNEXT(b.head) = b.tail

\* Mutant: the test for a full ring is lost.
Enqueue_Unguarded(b, i) == [b EXCEPT !.data[b.head] = i, !.head = BUFNEXT(b.head)]

Enqueue(b, i) ==
    IF Full(b) THEN [b EXCEPT !.overflow = TRUE]
               ELSE [b EXCEPT !.data[b.head] = i, !.head = BUFNEXT(b.head)]

\* serialRxCancel run without interruption.
Cancelled(b, i) ==
    [b EXCEPT !.data[b.head] = i, !.tail = b.head, !.head = BUFNEXT(b.head)]

\* await_toolchange_ack forwards through the saved handler: the call goes wrong
\* when that is null or await_toolchange_ack itself.
Forwarded == handler = "protocol" \/ saved = "protocol"

Hit(windows) == raced' = raced \cup ({pc} \cap windows)

GetWindow == {"get_check", "get_store"}
CancelWindow == {"cancel_tail", "cancel_head"}
SuspendWindow == {"suspend_handler", "suspend_saved", "suspend_read"}
RestoreWindow == {"restore_data", "restore_port"}

\* The stamps a flush discards; a character already taken out by serialGetC is
\* not among them.
Discards(b) == Stamps(b) \ (IF pc = "get_store" THEN {Stamp(ldata)} ELSE {})

RxOrdinary ==
    /\ ~fault /\ Forwarded /\ clock < MaxStamp
    /\ clock' = clock + 1
    /\ rxbuf' = Enqueue(rxbuf, clock + 1)
    /\ dropped' = IF Full(rxbuf) THEN dropped \cup {clock + 1} ELSE dropped
    /\ Hit(CancelWindow \cup {"restore_data"})
    /\ UNCHANGED << rxbackup, port, pc, locals, resetPending, fault, out, gone, lastReset >>

\* CMD_STOP or CMD_JOG_CANCEL: protocol_enqueue_realtime_command cancels the
\* input from interrupt context and drops the character itself.
RxCancel ==
    /\ ~fault /\ Forwarded /\ clock < MaxStamp
    /\ clock' = clock + 1
    /\ gone' = gone \cup Discards(rxbuf)
    /\ rxbuf' = Cancelled(rxbuf, -(clock + 1))
    /\ Hit(GetWindow \cup CancelWindow \cup {"flush_store", "restore_data"})
    /\ UNCHANGED << rxbackup, port, pc, locals, resetPending, fault, out, dropped, lastReset >>

\* serialSetRtHandler: a null handler is ignored.
SetRtHandler(h) == IF h = "NULL" THEN handler ELSE h

\* CMD_TOOL_ACK while await_toolchange_ack is the handler: the program's input
\* is set aside, the ring is emptied and reading is enabled again.
RxToolAck ==
    /\ ~fault /\ handler = "await_toolchange_ack" /\ ~rxbuf.backup
    /\ rxbackup' = rxbuf
    /\ rxbuf' = [rxbuf EXCEPT !.backup = TRUE, !.tail = rxbuf.head]
    /\ read' = "serialGetC"
    /\ handler' = SetRtHandler(saved)
    /\ saved' = "NULL"
    /\ Hit(SuspendWindow \cup RestoreWindow \cup {"flush_store"})
    /\ UNCHANGED << suspended, pc, locals, resetPending, fault, clock, out, gone,
                    dropped, lastReset >>

\* Mutant: the saved handler is kept.
RestorePort_KeepSaved ==
    /\ read' = IF saved = "NULL" THEN read ELSE "serialGetC"
    /\ handler' = SetRtHandler(saved)
    /\ suspended' = FALSE
    /\ UNCHANGED saved

\* The end of stream_rx_suspend(rxbuffer, false).
RestorePort ==
    /\ read' = IF saved = "NULL" THEN read ELSE "serialGetC"
    /\ handler' = SetRtHandler(saved)
    /\ saved' = "NULL"
    /\ suspended' = FALSE

\* Mutant: a reset leaves the suspension in place.
RxReset_KeepSuspended ==
    /\ ~fault /\ Forwarded /\ resetPending = -1
    /\ resetPending' = clock
    /\ UNCHANGED << rxbuf, rxbackup, port, pc, locals, fault, clock, out, gone, dropped,
                    lastReset, raced >>

\* CMD_RESET: mc_reset raises EXEC_RESET and ends a suspension, all of it in
\* interrupt context; nothing when the flag is already set.  It returns after the flag
\* with a reset being processed or a blocking event (sleep, a critical alarm); neither
\* comes during a suspension without an earlier mc_reset, which has ended it, so there is
\* nothing left to leave out.
RxReset ==
    /\ ~fault /\ Forwarded /\ resetPending = -1
    /\ resetPending' = clock
    /\ IF suspended
       THEN /\ rxbuf' = IF rxbuf.backup THEN rxbackup ELSE rxbuf
            /\ gone' = IF rxbuf.backup THEN gone \cup Discards(rxbuf) ELSE gone
            /\ rxbackup' = EmptyBuffer
            /\ RestorePort
       ELSE UNCHANGED << rxbuf, rxbackup, gone, port >>
    /\ Hit(IF suspended THEN GetWindow \cup CancelWindow \cup SuspendWindow \cup RestoreWindow
                        ELSE {})
    /\ UNCHANGED << pc, locals, fault, clock, out, dropped, lastReset >>

\* A character arrives while the forwarding handler has nobody to forward to.
RxFault ==
    /\ ~fault /\ ~Forwarded
    /\ fault' = TRUE
    /\ Hit(SuspendWindow)
    /\ UNCHANGED << rxbuf, rxbackup, port, pc, locals, resetPending, clock, out, gone,
                    dropped, lastReset >>

-----------------------------------------------------------------------------
(* The foreground.                                                         *)

Step(from, to) == ~fault /\ pc = from /\ pc' = to

\* serialGetC: load tail; compare with head and read the slot; store tail.
GetLoad ==
    /\ Step("idle", "get_check") /\ read = "serialGetC"
    /\ Len(out) < MaxStamp    \* bound: a tail left past head would be read for ever
    /\ ltail' = rxbuf.tail
    /\ UNCHANGED << rxbuf, rxbackup, port, ldata, lprev, resetPending, fault, clock,
                    out, gone, dropped, lastReset, raced >>

GetCheck ==
    /\ \/ Step("get_check", "idle") /\ ltail = rxbuf.head /\ ltail' = 0 /\ UNCHANGED ldata
       \/ /\ Step("get_check", "get_store") /\ ltail # rxbuf.head
          /\ ldata' = rxbuf.data[ltail] /\ UNCHANGED ltail
    /\ UNCHANGED << rxbuf, rxbackup, port, lprev, resetPending, fault, clock,
                    out, gone, dropped, lastReset, raced >>

\* Mutant: the pointer is not advanced.
GetStore_Stuck ==
    /\ Step("get_store", "idle")
    /\ out' = Append(out, [item |-> ldata, toolchange |-> rxbuf.backup])
    /\ ltail' = 0 /\ ldata' = 0
    /\ UNCHANGED << rxbuf, rxbackup, port, lprev, resetPending, fault, clock,
                    gone, dropped, lastReset, raced >>

GetStore ==
    /\ Step("get_store", "idle")
    /\ rxbuf' = [rxbuf EXCEPT !.tail = BUFNEXT(ltail)]
    /\ out' = Append(out, [item |-> ldata, toolchange |-> rxbuf.backup])
    /\ ltail' = 0 /\ ldata' = 0
    /\ UNCHANGED << rxbackup, port, lprev, resetPending, fault, clock,
                    gone, dropped, lastReset, raced >>

\* serialRxFlush: load head, store it as tail.  The reset loop of grbl_enter
\* flushes the input before it runs the protocol loop again.
FlushLoad ==
    /\ Step("idle", "flush_store") /\ resetPending # -1
    /\ ltail' = rxbuf.head
    /\ UNCHANGED << rxbuf, rxbackup, port, ldata, lprev, resetPending, fault, clock,
                    out, gone, dropped, lastReset, raced >>

FlushStore ==
    /\ Step("flush_store", "idle")
    /\ rxbuf' = [rxbuf EXCEPT !.tail = ltail]
    /\ gone' = gone \cup (Stamps(rxbuf) \ Stamps(rxbuf'))
    /\ lastReset' = [at |-> resetPending, len |-> Len(out)]
    /\ resetPending' = -1 /\ ltail' = 0
    /\ UNCHANGED << rxbackup, port, ldata, lprev, fault, clock, out, dropped, raced >>

\* serialRxCancel called from the foreground: EXEC_STOP after a suspended
\* tool change, YModem and stream passthru.  The volatile head is read anew by
\* every statement.
CancelData ==
    /\ Step("idle", "cancel_tail") /\ clock < MaxStamp
    /\ clock' = clock + 1
    /\ rxbuf' = [rxbuf EXCEPT !.data[rxbuf.head] = -(clock + 1)]
    /\ UNCHANGED << rxbackup, port, locals, resetPending, fault, out, gone, dropped,
                    lastReset, raced >>

CancelTail ==
    /\ Step("cancel_tail", "cancel_head")
    /\ gone' = gone \cup Stamps(rxbuf)
    /\ rxbuf' = [rxbuf EXCEPT !.tail = rxbuf.head]
    /\ UNCHANGED << rxbackup, port, locals, resetPending, fault, clock, out, dropped,
                    lastReset, raced >>

CancelHead ==
    /\ Step("cancel_head", "idle")
    /\ rxbuf' = [rxbuf EXCEPT !.head = BUFNEXT(rxbuf.head)]
    /\ UNCHANGED << rxbackup, port, locals, resetPending, fault, clock, out, gone,
                    dropped, lastReset, raced >>

\* stream_rx_suspend(rxbuffer, true), entered by a tool change.  A reset may have
\* been raised since the foreground last looked: it no longer ends this one.
SuspendEnter ==
    /\ Step("idle", "suspend_handler") /\ ~suspended
    /\ suspended' = TRUE
    /\ raced' = raced \cup (IF resetPending # -1 THEN {"suspend_handler"} ELSE {})
    /\ UNCHANGED << rxbuf, rxbackup, read, handler, saved, locals, resetPending, fault,
                    clock, out, gone, dropped, lastReset >>

SuspendHandler ==
    /\ Step("suspend_handler", "suspend_saved")
    /\ lprev' = handler
    /\ handler' = "await_toolchange_ack"
    /\ UNCHANGED << rxbuf, rxbackup, suspended, read, saved, ltail, ldata, resetPending,
                    fault, clock, out, gone, dropped, lastReset, raced >>

SuspendSaved ==
    /\ Step("suspend_saved", "suspend_read")
    /\ saved' = lprev /\ lprev' = "NULL"
    /\ UNCHANGED << rxbuf, rxbackup, suspended, read, handler, ltail, ldata, resetPending,
                    fault, clock, out, gone, dropped, lastReset, raced >>

SuspendRead ==
    /\ Step("suspend_read", "idle")
    /\ read' = "stream_get_null"
    /\ UNCHANGED << rxbuf, rxbackup, suspended, handler, saved, locals, resetPending,
                    fault, clock, out, gone, dropped, lastReset, raced >>

\* stream_rx_suspend(rxbuffer, false) from the foreground: the copy of the
\* struct restores head, tail and the flags before it reaches the data.
RestoreWords ==
    /\ ~fault /\ pc = "idle" /\ suspended
    /\ IF rxbuf.backup
       THEN /\ pc' = "restore_data"
            /\ gone' = gone \cup Stamps(rxbuf)
            /\ rxbuf' = [rxbackup EXCEPT !.data = rxbuf.data]
       ELSE pc' = "restore_port" /\ UNCHANGED << rxbuf, gone >>
    /\ UNCHANGED << rxbackup, port, locals, resetPending, fault, clock, out, dropped,
                    lastReset, raced >>

RestoreData ==
    /\ Step("restore_data", "restore_port")
    /\ rxbuf' = [rxbuf EXCEPT !.data = rxbackup.data]
    /\ rxbackup' = EmptyBuffer   \* dead until the next acknowledgement overwrites it
    /\ UNCHANGED << port, locals, resetPending, fault, clock, out, gone,
                    dropped, lastReset, raced >>

RestoreHandler ==
    /\ Step("restore_port", "idle")
    /\ RestorePort
    /\ UNCHANGED << rxbuf, rxbackup, locals, resetPending, fault, clock, out, gone,
                    dropped, lastReset, raced >>

-----------------------------------------------------------------------------

Interrupt == RxOrdinary \/ RxCancel \/ RxToolAck \/ RxReset \/ RxFault
Get == GetLoad \/ GetCheck \/ GetStore
Flush == FlushLoad \/ FlushStore
Cancel == CancelData \/ CancelTail \/ CancelHead
Suspend == SuspendEnter \/ SuspendHandler \/ SuspendSaved \/ SuspendRead
Restore == RestoreWords \/ RestoreData \/ RestoreHandler

Next == Interrupt \/ Get \/ Flush \/ Cancel \/ Suspend \/ Restore

Spec == Init /\ [][Next]_vars

-----------------------------------------------------------------------------

\* Types of the ring, the saved port state and the foreground's locals.
TypeOK ==
    /\ rxbuf \in RxBuffer /\ rxbackup \in RxBuffer
    /\ suspended \in BOOLEAN /\ read \in {"serialGetC", "stream_get_null"}
    /\ handler \in Handler \ {"NULL"} /\ saved \in Handler
    /\ pc \in {"idle", "flush_store"} \cup GetWindow \cup CancelWindow
               \cup SuspendWindow \cup RestoreWindow
    /\ ltail \in Slot /\ ldata \in Item /\ lprev \in Handler
    /\ resetPending \in -1 .. MaxStamp /\ clock \in 0 .. MaxStamp

\* Every character received is accounted for exactly once: returned by read(),
\* still in the ring, set aside by a tool change, discarded by a flush, a cancel
\* or a restore, or refused by a full ring.  So nothing is returned twice and
\* nothing disappears unnoticed (serialGetC, USART_IRQHandler, stream_rx_suspend).
Returned == {Stamp(out[k].item) : k \in 1 .. Len(out)}
SetAside == IF rxbuf.backup THEN Stamps(rxbackup) ELSE {}
AccountedOnce ==
    raced = {} /\ pc \notin CancelWindow \cup {"restore_data"} =>
        /\ 1 .. clock = Returned \cup Stamps(rxbuf) \cup SetAside \cup gone \cup dropped
        /\ clock = Len(out) + BUFCOUNT(rxbuf) + Cardinality(SetAside)
                   + Cardinality(gone) + Cardinality(dropped)

\* Within the program's input, and within what is typed during a tool change,
\* characters come out in the order of arrival; so nothing older than a CAN
\* follows it.
InOrder ==
    raced = {} =>
        \A j, k \in 1 .. Len(out) :
            j < k /\ out[j].toolchange = out[k].toolchange =>
                Stamp(out[j].item) < Stamp(out[k].item)

\* Once a reset has flushed the input nothing that was received before the
\* reset is read again, whatever the foreground was doing when it struck
\* (mc_reset, grbl_enter); only an interrupt inside a suspend or a restore may
\* leave a stale copy behind that comes back later.
ResetForgets ==
    resetPending = -1 /\ raced \cap (SuspendWindow \cup RestoreWindow \cup CancelWindow) = {} =>
        \A k \in lastReset.len + 1 .. Len(out) : Stamp(out[k].item) > lastReset.at

\* When no tool change is pending the port is exactly as it was before: reads
\* reach the ring, the protocol's handler is installed, no copy is outstanding.
\* The forwarding handler calls through a bad pointer only if an interrupt hits
\* the window in which stream_rx_suspend has installed it but not yet saved the
\* handler to forward to (or the port was left broken by an earlier hit).
PortRestored ==
    /\ raced = {} /\ ~suspended /\ pc = "idle" =>
         /\ read = "serialGetC" /\ handler = "protocol" /\ saved = "NULL"
         /\ ~rxbuf.backup
    /\ fault => raced \cap (SuspendWindow \cup RestoreWindow) # {}

\* VIOLATED: a cancel or flush really discards what it covers ("Flushes and adds
\* a CAN character", serial.c:103).  A cancel from the interrupt between the
\* foreground's load and store of tail is undone by that store.
FlushedStaysFlushed == Returned \cap gone = {}
=============================================================================
