-------------------------------- MODULE Modbus --------------------------------
(***************************************************************************)
(* The Modbus RTU master of grbl/modbus_rtu.c: one message on the wire at a  *)
(* time, a ring of queued messages, and one blocking sender that repeats its *)
(* message until it is answered or its retries are used up.  The poll runs   *)
(* as a systick task, so between the statements of a blocked sender but not  *)
(* inside one.  Devices answer at any time, damaged, with an exception, late *)
(* or never.                                                                 *)
(*                                                                         *)
(* A message is its number; its bytes, its timeouts in milliseconds and the  *)
(* statistics are abstracted.                                               *)
(***************************************************************************)
EXTENDS Integers, Sequences

CONSTANTS MODBUS_QUEUE_LENGTH,
          Retries,      \* callbacks.retries of the blocking messages
          MaxSends,     \* bound on the messages
          Checked,      \* the messages with crc_check (modbus_message, but not all spindles)
          MaxResets     \* bound on resets, stop requests and flushes

ASSUME QueueAssumption == MODBUS_QUEUE_LENGTH \in Nat \ {0} /\ Retries \in Nat
ASSUME BoundsAssumption == MaxSends \in Nat /\ MaxResets \in Nat
ASSUME CheckedAssumption == Checked \subseteq 1 .. MaxSends

Slots == 0 .. MODBUS_QUEUE_LENGTH - 1
Sync == MODBUS_QUEUE_LENGTH      \* sync_msg, next to the queue
None == -1
Messages == 1 .. MaxSends

VARIABLES state,           \* of the bus
          entry,           \* queue and sync_msg: the message, whether its callbacks were
                           \* kept, retries left, and the message a reply in it answers
          head, tail,
          packet,          \* the entry on the wire, or None
          sender,          \* the blocking send: free, wait or loop (is_blocking unless free)
          caller,          \* its message
          rx,              \* replies in the receive buffer
          device,          \* messages the devices have not answered yet
          reset_pending,
          wire,            \* HISTORY: the message transmitted last
          sends, resets,   \* HISTORY: counts for the bounds
          attempts,        \* HISTORY: how often each message was transmitted
          ends,            \* HISTORY: how each message ended
          races            \* HISTORY: coincidences the code does not handle

history == << wire, sends, resets, attempts, ends, races >>
bus == << state, packet, rx, device >>
ring == << entry, head, tail >>
vars == << bus, ring, sender, caller, reset_pending, history >>

Unused == [msg |-> 0, told |-> FALSE, retries |-> 0, of |-> 0]

Init ==
    /\ state = "Idle" /\ packet = None /\ rx = << >> /\ device = {}
    /\ entry = [i \in Slots \cup {Sync} |-> Unused] /\ head = 0 /\ tail = 0
    /\ sender = "free" /\ caller = 0 /\ reset_pending = FALSE
    /\ wire = 0 /\ sends = 0 /\ resets = 0 /\ attempts = [m \in Messages |-> 0]
    /\ ends = [m \in Messages |-> << >>] /\ races = {}

NextEntry(i) == (i + 1) % MODBUS_QUEUE_LENGTH

\* The messages between tail and head.
Queued ==
    {entry[(tail + k) % MODBUS_QUEUE_LENGTH].msg :
        k \in 0 .. ((head - tail) % MODBUS_QUEUE_LENGTH) - 1}

\* The sender of the message is told: a reply with the message it answers, a failure.
End(m, how, of) == ends' = [ends EXCEPT ![m] = Append(@, [how |-> how, of |-> of])]

Dropped(ms) ==
    ends' = [m \in Messages |->
                IF m \in ms THEN Append(ends[m], [how |-> "dropped", of |-> 0]) ELSE ends[m]]

\* Callbacks are not kept while a reset is processed.
add_message(m, retries) ==
    [msg |-> m, told |-> ~reset_pending, retries |-> IF reset_pending THEN 0 ELSE retries,
     of |-> 0]

\* Entry i, holding message m, goes out; what was received before is discarded.
tx_message(i, m) ==
    /\ packet' = i /\ state' = "TX" /\ rx' = << >>
    /\ wire' = m /\ attempts' = [attempts EXCEPT ![m] = @ + 1]
    /\ UNCHANGED device

-----------------------------------------------------------------------------
(* modbus_poll, once every millisecond *)

PollIdle ==
    /\ state = "Idle" /\ head # tail /\ packet = None /\ sender = "free"
    /\ tx_message(tail, entry[tail].msg)
    /\ tail' = NextEntry(tail)
    /\ UNCHANGED << entry, head, sender, caller, reset_pending, sends, resets, ends, races >>

PollSilent ==
    /\ state = "Silent" /\ state' = "Idle"
    /\ UNCHANGED << packet, rx, device, ring, sender, caller, reset_pending, history >>

\* Mutant: what arrived during the transmission is kept.
AfterTx_Kept == rx

\* Characters received while transmitting are garbage or late.
AfterTx == << >>

\* The last character has gone out; the device has received the message or not.
PollTX ==
    /\ state = "TX" /\ state' = "AwaitReply"
    /\ rx' = AfterTx
    /\ device' \in {device, device \cup {wire}}
    /\ UNCHANGED << packet, ring, sender, caller, reset_pending, history >>

\* Mutant: the entry stays current.
Released_Not == packet

\* A queued message that has ended makes room for the next.
Released == None

\* A queued message ends: its callback is called, if it has one, before it is released.
EndQueued(how, of) ==
    /\ state' = "Silent" /\ packet' = Released
    /\ End(entry[packet].msg, IF entry[packet].told THEN how ELSE "untold", of)

\* The timeout is looked at before the reply, even when that is complete.  For a
\* blocking message the buffer is searched for the shorter exception reply.
PollTimeout ==
    /\ state = "AwaitReply"
    /\ IF packet # Sync THEN EndQueued("failed", 0) /\ UNCHANGED rx
       ELSE /\ state' = IF rx # << >> /\ Head(rx).what = "exception" THEN "Exception"
                        ELSE "TimeoutException"
            /\ rx' = IF rx = << >> THEN rx ELSE Tail(rx)
            /\ UNCHANGED << packet, ends >>
    /\ UNCHANGED << device, ring, sender, caller, reset_pending, wire, sends, resets, attempts,
                    races >>

\* The reply in the buffer is found to be damaged, which not every message asks for.
CrcError == Head(rx).what = "crc" /\ entry[packet].msg \in Checked

PollReply ==
    /\ state = "AwaitReply" /\ rx # << >> /\ Head(rx).what # "exception"
    /\ rx' = Tail(rx)
    /\ entry' = [entry EXCEPT ![Sync].of = IF packet = Sync THEN Head(rx).of ELSE @]
    /\ CASE packet # Sync /\ CrcError -> EndQueued("failed", 0)
         [] packet # Sync /\ ~CrcError -> EndQueued("reply", Head(rx).of)
         [] OTHER -> /\ state' = IF CrcError THEN "Exception" ELSE "GotReply"
                     /\ UNCHANGED << packet, ends >>
    /\ UNCHANGED << device, head, tail, sender, caller, reset_pending, wire, sends, resets,
                    attempts, races >>

modbus_poll == PollIdle \/ PollSilent \/ PollTX \/ PollTimeout \/ PollReply

-----------------------------------------------------------------------------
(* modbus_send_rtu *)

Room == NextEntry(head) # tail

\* A message that is not waited for: refused without a word when a blocking message is
\* under way or the ring is full.
SendAsync ==
    /\ sends < MaxSends /\ sends' = sends + 1
    /\ IF packet # Sync /\ Room
       THEN /\ entry' = [entry EXCEPT ![head] = add_message(sends', 0)]
            /\ head' = NextEntry(head)
            /\ UNCHANGED ends
       ELSE Dropped({sends'}) /\ UNCHANGED << entry, head >>
    /\ UNCHANGED << bus, tail, sender, caller, reset_pending, wire, resets, attempts, races >>

SendBlocking ==
    /\ sends < MaxSends /\ sends' = sends + 1
    /\ IF sender = "free" THEN sender' = "wait" /\ caller' = sends' /\ UNCHANGED ends
       ELSE Dropped({sends'}) /\ UNCHANGED << sender, caller >>
    /\ UNCHANGED << bus, ring, reset_pending, wire, resets, attempts, races >>

SendNow ==
    /\ sender = "wait" /\ state = "Idle"
    /\ sender' = "loop"
    /\ entry' = [entry EXCEPT ![Sync] = add_message(caller, Retries)]
    /\ tx_message(Sync, caller)
    /\ UNCHANGED << head, tail, caller, reset_pending, sends, resets, ends, races >>

\* The blocked sender returns.
Return ==
    /\ sender' = "free" /\ caller' = 0
    /\ packet' = None /\ state' = "Silent"
    /\ entry' = [entry EXCEPT ![Sync] = Unused]
    /\ UNCHANGED << rx, device, head, tail, reset_pending, wire, sends, resets, attempts, races >>

SendAnswered ==
    /\ sender = "loop" /\ state = "GotReply"
    /\ End(caller, IF entry[Sync].told THEN "reply" ELSE "untold", entry[Sync].of)
    /\ Return

\* Mutant: the last attempt is followed by another one.
MayRetry_Always(n) == TRUE

\* Whether retry_exception or the caller's own handler is installed.
MayRetry(n) == n > 0

Failed == sender = "loop" /\ state \in {"TimeoutException", "Exception"}

SendGivesUp ==
    /\ Failed /\ ~MayRetry(entry[Sync].retries)
    /\ End(caller, IF entry[Sync].told THEN "gave_up" ELSE "untold", 0)
    /\ Return

\* retry_exception
SendFails ==
    /\ Failed /\ MayRetry(entry[Sync].retries)
    /\ state' = "Retry"
    /\ UNCHANGED << packet, rx, device, ring, sender, caller, reset_pending, history >>

SendAgain ==
    /\ sender = "loop" /\ state = "Retry"
    /\ entry' = [entry EXCEPT ![Sync] = add_message(caller, entry[Sync].retries - 1)]
    /\ tx_message(Sync, caller)
    /\ UNCHANGED << head, tail, sender, caller, reset_pending, sends, resets, ends, races >>

Sender == SendNow \/ SendAnswered \/ SendGivesUp \/ SendFails \/ SendAgain

-----------------------------------------------------------------------------
(* Resets, and the devices *)

\* A protocol pass finds a reset request; the spindle is then stopped by messages
\* without callbacks.
StartReset ==
    /\ ~reset_pending /\ resets < MaxResets
    /\ reset_pending' = TRUE /\ resets' = resets + 1
    /\ UNCHANGED << bus, ring, sender, caller, wire, sends, attempts, ends, races >>

\* modbus_reset with sys.abort.  A sender that is blocked (the pass was run by a task)
\* has lost its packet and waits for ever.
Abort ==
    /\ reset_pending
    /\ packet' = None /\ tail' = head /\ state' = "Silent" /\ rx' = << >>
    /\ entry' = IF packet = None THEN entry
                ELSE [entry EXCEPT ![packet].told = FALSE, ![packet].retries = 0]
    /\ Dropped(Queued \cup IF packet \in Slots THEN {entry[packet].msg} ELSE {})
    /\ races' = IF sender = "loop" THEN races \cup {"reset_in_send"} ELSE races
    /\ reset_pending' = FALSE
    /\ UNCHANGED << device, head, sender, caller, wire, sends, resets, attempts >>

\* modbus_reset without sys.abort: a stop request, or a reset with the emergency stop
\* pressed, which stays pending until the next pass with a request.
Stop ==
    /\ IF reset_pending THEN UNCHANGED resets ELSE resets < MaxResets /\ resets' = resets + 1
    /\ reset_pending' \in IF reset_pending THEN BOOLEAN ELSE {FALSE}
    /\ state' = IF state = "Retry" THEN "Silent" ELSE state
    /\ races' = IF state = "Retry" THEN races \cup {"reset_in_send"} ELSE races
    /\ UNCHANGED << packet, rx, device, ring, sender, caller, wire, sends, attempts, ends >>

\* A VFD spindle is selected.  With an entry on the wire and others behind it the ring
\* now has room for more entries than are free.
modbus_rtu_flush_queue ==
    /\ resets < MaxResets /\ resets' = resets + 1
    /\ tail' = head
    /\ Dropped(Queued)
    /\ races' = IF packet \in Slots /\ tail # head THEN races \cup {"flushed"} ELSE races
    /\ UNCHANGED << bus, entry, head, sender, caller, reset_pending, wire, sends, attempts >>

\* A device answers.  Nothing in the code tells a late answer to another message from
\* the one awaited.
Answer ==
    /\ \E m \in device, what \in {"ok", "crc", "exception"} :
         /\ rx' = Append(rx, [of |-> m, what |-> what])
         /\ device' = device \ {m}
         /\ races' = IF state = "AwaitReply" /\ m # wire THEN races \cup {"late"} ELSE races
    /\ UNCHANGED << state, packet, ring, sender, caller, reset_pending, wire, sends, resets,
                    attempts, ends >>

Next ==
    \/ modbus_poll \/ Sender
    \/ SendAsync \/ SendBlocking
    \/ StartReset \/ Abort \/ Stop \/ modbus_rtu_flush_queue
    \/ Answer

Spec == Init /\ [][Next]_vars

\* The poll is a systick task, timeouts expire and silence ends; the sender goes round
\* its loop; a reset that was begun is finished.
Fairness == WF_vars(modbus_poll) /\ WF_vars(Sender) /\ WF_vars(Abort \/ Stop)

FairSpec == Spec /\ Fairness

\* Bound for TLC: what follows a coincidence is not explored.
NoRace == races = {}

-----------------------------------------------------------------------------

\* Types of the bus, the ring and the receive buffer.
TypeOK ==
    /\ state \in {"Idle", "Silent", "TX", "AwaitReply", "TimeoutException", "GotReply",
                  "Exception", "Retry"}
    /\ entry \in [Slots \cup {Sync} -> [msg : 0 .. MaxSends, told : BOOLEAN,
                                         retries : 0 .. Retries, of : 0 .. MaxSends]]
    /\ head \in Slots /\ tail \in Slots /\ packet \in Slots \cup {Sync, None}
    /\ sender \in {"free", "wait", "loop"} /\ caller \in 0 .. MaxSends
    /\ device \subseteq Messages /\ reset_pending \in BOOLEAN

\* Every message ends at most once.  A reply passed on answers the message it is passed on
\* for, also when answers to earlier attempts come late, entries of the ring are used again
\* or resets intervene; and a blocking message is given up only after all its attempts.
OwnOutcome ==
    races = {} => \A m \in Messages :
        /\ Len(ends[m]) <= 1
        /\ \A k \in 1 .. Len(ends[m]) :
             /\ ends[m][k].how = "reply" => ends[m][k].of = m
             /\ ends[m][k].how = "gave_up" => attempts[m] = Retries + 1

\* Every message ends: a blocked sender returns whatever the devices do, and the queue
\* moves on after timeouts, damaged replies and resets.
EverySendEnds == []<>(races # {} \/ \A m \in 1 .. sends : ends[m] # << >>)
=============================================================================
