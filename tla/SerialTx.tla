------------------------------ MODULE SerialTx ------------------------------
(***************************************************************************)
(* The transmit side of the serial port (Src/serial.c): serialPutC in the  *)
(* foreground, split at every access to a shared field, against the TBE    *)
(* half of USART_IRQHandler, which runs to completion between any two of   *)
(* those accesses.  While the ring is full serialPutC runs the blocking    *)
(* callback (stream_tx_blocking), whose tasks may themselves write to the  *)
(* stream.  The n-th character accepted carries the value n; 0 is the      *)
(* content of a slot that was never written.                               *)
(***************************************************************************)
EXTENDS Integers

CONSTANTS TxSize,     \* TX_BUFFER_SIZE, a power of two in the code
          MaxPut      \* bound on the number of characters written

ASSUME TxSizeAssumption == TxSize \in Nat /\ TxSize > 1
ASSUME MaxPutAssumption == MaxPut \in Nat

VARIABLES
    head, tail, data,   \* txbuf
    tbe,                \* the TBE interrupt is enabled
    txpc, next_head,    \* where the running serialPutC is, and its local
    lock, outer,        \* in the blocking callback, and the blocked call's next_head
    nput,               \* HISTORY: characters accepted (head moved past them)
    nsent,              \* HISTORY: characters handed to the UART
    wire,               \* HISTORY: the last character handed to the UART
    txraced,            \* HISTORY: TBE was enabled on an empty ring
    reentered           \* HISTORY: the callback wrote while a call was blocked

txhistory == << nput, nsent, wire, txraced, reentered >>
txvars == << head, tail, data, tbe, txpc, next_head, lock, outer, txhistory >>

TxSlot == 0 .. TxSize - 1
\* Mutant: the mask is forgotten.
TxBUFNEXT_NoMask(p) == p + 1

TxBUFNEXT(p) == (p + 1) % TxSize

TxInit ==
    /\ head = 0 /\ tail = 0 /\ data = [s \in TxSlot |-> 0]
    /\ tbe = FALSE /\ txpc = "idle" /\ next_head = 0
    /\ lock = FALSE /\ outer = 0
    /\ nput = 0 /\ nsent = 0 /\ wire = 0 /\ txraced = FALSE /\ reentered = FALSE

-----------------------------------------------------------------------------

PutBegin ==
    /\ txpc = "idle" /\ nput < MaxPut
    /\ next_head' = TxBUFNEXT(head)
    /\ txpc' = "wait"
    /\ UNCHANGED << head, tail, data, tbe, lock, outer, txhistory >>

\* The ring is full: the blocking callback runs the tasks.
PutCallback ==
    /\ txpc = "wait" /\ tail = next_head /\ ~lock
    /\ lock' = TRUE
    /\ outer' = next_head
    /\ txpc' = "idle"
    /\ UNCHANGED << head, tail, data, tbe, next_head, txhistory >>

CallbackReturn ==
    /\ lock /\ txpc = "idle"
    /\ lock' = FALSE
    /\ next_head' = outer
    /\ txpc' = "told"
    /\ UNCHANGED << head, tail, data, tbe, outer, txhistory >>

\* Within one of those tasks the callback runs nothing.
PutNested ==
    /\ txpc = "wait" /\ tail = next_head /\ lock
    /\ txpc' = "told"
    /\ UNCHANGED << head, tail, data, tbe, next_head, lock, outer, txhistory >>

\* The callback says to wait on, or not to (a reset is pending): the character is not
\* written then, whether there is room for it by now or not.
PutAgain ==
    /\ txpc = "told"
    /\ txpc' = "wait"
    /\ UNCHANGED << head, tail, data, tbe, next_head, lock, outer, txhistory >>

PutRefused ==
    /\ txpc = "told"
    /\ txpc' = "idle"
    /\ UNCHANGED << head, tail, data, tbe, next_head, lock, outer, txhistory >>

PutData ==
    /\ txpc = "wait" /\ tail # next_head
    /\ data' = [data EXCEPT ![head] = nput + 1]
    /\ txpc' = "head"
    /\ UNCHANGED << head, tail, tbe, next_head, lock, outer, txhistory >>

PutHead ==
    /\ txpc = "head"
    /\ head' = next_head
    /\ nput' = nput + 1
    /\ reentered' = (reentered \/ lock)
    /\ txpc' = "enable"
    /\ UNCHANGED << tail, data, tbe, next_head, lock, outer, nsent, wire, txraced >>

\* Mutant: the transmit interrupt is not enabled.
PutEnable_Forgotten ==
    /\ txpc = "enable"
    /\ txraced' = (txraced \/ head = tail)
    /\ txpc' = "idle"
    /\ UNCHANGED << head, tail, data, tbe, next_head, lock, outer, nput, nsent, wire, reentered >>

PutEnable ==
    /\ txpc = "enable"
    /\ tbe' = TRUE
    /\ txraced' = (txraced \/ head = tail)
    /\ txpc' = "idle"
    /\ UNCHANGED << head, tail, data, next_head, lock, outer, nput, nsent, wire, reentered >>

\* Mutants: the pointer is advanced before the character is read; the interrupt
\* is disabled one character early.
TxInterrupt_AdvanceFirst ==
    /\ tbe
    /\ nsent < 2 * MaxPut + TxSize
    /\ wire' = data[TxBUFNEXT(tail)]
    /\ tail' = TxBUFNEXT(tail)
    /\ tbe' = (tail' # head)
    /\ nsent' = nsent + 1
    /\ UNCHANGED << head, data, txpc, next_head, lock, outer, nput, txraced, reentered >>

TxInterrupt_DisableEarly ==
    /\ tbe
    /\ nsent < 2 * MaxPut + TxSize
    /\ wire' = data[tail]
    /\ tail' = TxBUFNEXT(tail)
    /\ tbe' = (head \notin {tail', TxBUFNEXT(tail')})
    /\ nsent' = nsent + 1
    /\ UNCHANGED << head, data, txpc, next_head, lock, outer, nput, txraced, reentered >>

\* The TBE interrupt sends the character at tail and disables itself when that
\* was the last one.
TxInterrupt ==
    /\ tbe
    /\ nsent < 2 * MaxPut + TxSize      \* bound; reached only after a race
    /\ wire' = data[tail]
    /\ tail' = TxBUFNEXT(tail)
    /\ tbe' = (tail' # head)
    /\ nsent' = nsent + 1
    /\ UNCHANGED << head, data, txpc, next_head, lock, outer, nput, txraced, reentered >>

serialPutC == PutBegin \/ PutAgain \/ PutRefused \/ PutData \/ PutHead \/ PutEnable
stream_tx_blocking == PutCallback \/ CallbackReturn \/ PutNested
TxNext == serialPutC \/ stream_tx_blocking \/ TxInterrupt

\* The UART empties its data register and raises TBE again on its own; the
\* foreground goes on with a serialPutC it has begun.
TxFairness ==
    /\ WF_txvars(TxInterrupt)
    /\ WF_txvars(PutData) /\ WF_txvars(PutHead) /\ WF_txvars(PutEnable)

TxSpec == TxInit /\ [][TxNext]_txvars
TxFairSpec == TxSpec /\ TxFairness

-----------------------------------------------------------------------------

\* Types of the ring, the call in progress and the counters.
TxTypeOK ==
    /\ head \in TxSlot /\ tail \in TxSlot /\ next_head \in TxSlot /\ outer \in TxSlot
    /\ data \in [TxSlot -> Nat]
    /\ tbe \in BOOLEAN /\ lock \in BOOLEAN /\ txraced \in BOOLEAN /\ reentered \in BOOLEAN
    /\ txpc \in {"idle", "wait", "told", "head", "enable"}
    /\ nput \in Nat /\ nsent \in Nat /\ wire \in Nat

\* Neither of the two known hazards has struck: TBE enabled on a ring the
\* interrupt has just emptied, or a write from within the blocking callback.
Clean == ~txraced /\ ~reentered

\* The ring holds exactly the characters accepted and not yet sent, oldest at
\* tail, and never overruns (serialPutC, USART_IRQHandler).
Wrap(x) == IF x >= TxSize THEN x - TxSize ELSE x
RingHoldsUnsent ==
    Clean =>
        /\ nput - nsent \in 0 .. TxSize - 1
        /\ head = Wrap(tail + (nput - nsent))
        /\ \A k \in 0 .. TxSize - 1 :
               k < nput - nsent => data[Wrap(tail + k)] = nsent + 1 + k

\* The n-th character on the wire is the n-th character written: nothing is
\* lost, repeated or reordered between serialPutC and the UART.
SentInOrder == Clean => wire = nsent

\* No lost wake-up: whenever the ring holds a character and serialPutC is past
\* its last statement, the interrupt that will send it is enabled.
NoLostWakeup == head # tail /\ txpc # "enable" => tbe

\* Every character accepted is eventually handed to the UART, unless a write
\* from the blocking callback has torn the ring.
EventuallySent == \A n \in 1 .. MaxPut : nput >= n ~> (nsent >= n \/ reentered)
=============================================================================
